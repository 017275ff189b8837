------------------------ MODULE MCServerlessEndpoint ------------------------
(* An instance of ServerlessEndpoint for TLC: hours of two ticks, two GPUs. *)
EXTENDS ServerlessEndpoint

MCSpec ==
    [min_vram |-> 2, gpu_count |-> 1, cloud |-> "secure", cuda |-> "12.8",
     pools |-> {"ada", "ampere"}, centers |-> {1, 2}, max_rate |-> 3, minimum |-> 1,
     idle |-> 1, timeout |-> 4, schema |-> "GA"]

MCRequest ==
    [spec |-> MCSpec, est_queue |-> 0, est_start |-> 0, est_exec |-> 1,
     max_queue |-> 1, max_start |-> 1, max_exec |-> 2, max_billable |-> 4,
     job_timeout |-> 3, job_ttl |-> 4, est_other |-> 0, max_other |-> 1, ttl |-> 2]

Offer(id, pool, price, availability) ==
    [id |-> id, pool |-> pool, memory |-> 2, max_count |-> 1,
     price |-> ("SERVERLESS" :> price),
     clouds |-> {"secure"}, availability |-> availability, cuda |-> "12.8",
     centers |-> [c \in {1, 2} |-> IF c = 1 THEN 1 ELSE availability]]

\* The preferred GPU, and after a change another one, at another price.
MCCatalogs ==
    {{Offer(1, "ada", 2, 2), Offer(2, "ampere", 1, 1)},
     {Offer(1, "ada", 3, 1), Offer(2, "ampere", 1, 2)}}

MCForeignConf == [spec |-> MCSpec, pool |-> "foreign", center |-> 1]

Symmetry == Permutations(Ids)
=============================================================================
