--------------------------- MODULE MCServerlessJob ---------------------------
(* An instance of ServerlessJob for TLC: hours of three ticks, two GPUs. *)
EXTENDS ServerlessJob

MCSpec ==
    [min_vram |-> 2, gpu_count |-> 1, cloud |-> "secure", cuda |-> "12.8",
     pools |-> {"ada", "ampere"}, centers |-> {1, 2}, max_rate |-> 3, minimum |-> 1,
     idle |-> 1, timeout |-> 4, schema |-> "GA"]

\* The policy sent with the job allows more than the accepted maxima.
MCRequest ==
    [spec |-> MCSpec, est_queue |-> 0, est_start |-> 0, est_exec |-> 1,
     max_queue |-> 1, max_start |-> 1, max_exec |-> 1, max_billable |-> 3,
     job_timeout |-> 2, job_ttl |-> 6, est_other |-> 0, max_other |-> 1, ttl |-> 2]

Offer(id, pool, price, availability) ==
    [id |-> id, pool |-> pool, memory |-> 2, max_count |-> 1,
     price |-> ("SERVERLESS" :> price),
     clouds |-> {"secure"}, availability |-> availability, cuda |-> "12.8",
     centers |-> [c \in {1, 2} |-> IF c = 1 THEN 1 ELSE availability]]

\* The preferred GPU, and after a change less of it.
MCCatalogs ==
    {{Offer(1, "ada", 2, 3), Offer(2, "ampere", 1, 1)},
     {Offer(1, "ada", 2, 2), Offer(2, "ampere", 1, 1)}}
=============================================================================
