------------------------- MODULE MCInferenceProvider -------------------------
(* An instance of InferenceProvider for TLC: two GPUs, two catalogs, and a
   policy that changes when the operator deploys again. *)
EXTENDS InferenceProvider, TLC

\* Two GPUs per lease: a whole-lease price is twice the catalog's.
MCLeaseRequest == [ready |-> 2, session |-> 4, idle |-> 5, max_hourly |-> 7, max_total |-> 60]

Policy(reserve) ==
    [gpu_count |-> 2, max_rate |-> 3, min_vram |-> 1, cloud |-> "secure", cuda |-> "any",
     ids |-> {1, 2}, centers |-> {1}, ttl |-> 1, workers |-> 2,
     ready |-> [mode \in Modes |-> 1],
     overhead |-> [mode \in Modes |-> [estimated |-> 1, maximum |-> reserve]]]

MCDeployed == Policy(2)
MCRedeployed == Policy(3)

Offer(id, pool, serverless, pod, availability) ==
    [id |-> id, pool |-> pool, memory |-> 1, max_count |-> 2, clouds |-> {"secure"},
     cuda |-> "any", availability |-> availability, centers |-> (1 :> availability),
     price |-> ("SERVERLESS" :> serverless @@ "POD" :> pod)]

\* Prices move, and the preferred GPU with them.
MCCatalogs ==
    {{Offer(1, "ada", 1, 3, 2), Offer(2, "ampere", 1, 2, 1)},
     {Offer(1, "ada", 2, 2, 1), Offer(2, "ampere", 1, 1, 2)}}
=============================================================================
