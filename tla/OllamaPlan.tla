------------------------------ MODULE OllamaPlan ------------------------------
(***************************************************************************)
(* The pure part of the private-inference lane: the requests, the cost     *)
(* plan of one mode and its bounds, and the accrual every lifecycle gate   *)
(* compares with the cap.  Time is counted in ticks and catalog prices are *)
(* per GPU and per tick.                                                   *)
(*   request: mode, session, active, init, tail, max_cost, and the         *)
(*       constraints gpu_count, min_vram, cloud, cuda, ids, pools,         *)
(*       centers, max_rate.                                                *)
(***************************************************************************)
EXTENDS Placement

Serverless == "SERVERLESS_LOAD_BALANCER"
Pod == "DEDICATED_POD"
Modes == {Serverless, Pod}

ProductOf(mode) == IF mode = Serverless THEN "SERVERLESS" ELSE "POD"

\* OllamaResourceConstraints.requirements.
Requirements(r, mode) ==
    [product |-> ProductOf(mode), min_vram |-> r.min_vram, gpu_count |-> r.gpu_count,
     cloud |-> r.cloud, cuda |-> r.cuda, max_rate |-> r.max_rate, ids |-> r.ids,
     pools |-> r.pools, centers |-> r.centers, minimum |-> 1]

\* OllamaLeaseRequest.__post_init__.
ValidLeaseRequest(r) ==
    /\ r.session > 0 /\ r.active > 0 /\ r.active <= r.session
    /\ r.max_cost > 0 /\ r.max_rate > 0 /\ r.gpu_count > 0

\* Mutant: the price of one GPU, whatever their number.
RatedPerGpu(rate, ticks, count) == rate * ticks

\* _rated_cost: the catalog prices one GPU.
RatedCost(rate, ticks, count) == rate * ticks * count

\* maximum_serverless_cold_starts, for a positive idle tail.
ColdStarts(r) == 1 + r.session \div r.tail

Billable(r, mode) ==
    IF mode = Serverless THEN r.active + ColdStarts(r) * (r.init + r.tail)
    ELSE r.session

\* A Serverless endpoint may run all its workers to the hard deadline.
MaximumBillable(r, mode, remaining, workers) ==
    LET longest == remaining * (IF mode = Serverless THEN workers ELSE 1)
    IN IF mode = Serverless /\ Billable(r, mode) > longest THEN Billable(r, mode)
       ELSE longest

\* A mode has a plan: GPUs for it, a finite number of cold starts, and for a
\* Pod enough time for the session it would bill.
Plannable(r, mode, offers, remaining) ==
    /\ Best(offers, Requirements(r, mode)) # {}
    /\ remaining >= 1
    /\ IF mode = Serverless THEN r.tail > 0 ELSE remaining >= r.session

\* select_ollama_plan: the plan of one mode.  overhead is the deployment's
\* non-compute policy of the mode.
PlanOf(r, mode, offers, remaining, workers, overhead) ==
    LET o == SelectGpu(offers, Requirements(r, mode))
        rate == o.price[ProductOf(mode)]
        most == MaximumBillable(r, mode, remaining, workers)
    IN [mode      |-> mode,
        gpu       |-> o.id,
        pool      |-> o.pool,
        rate      |-> rate,
        count     |-> r.gpu_count,
        workers   |-> IF mode = Serverless THEN workers ELSE 1,
        overhead  |-> overhead,
        estimate  |-> RatedCost(rate, Billable(r, mode), r.gpu_count) + overhead.estimated,
        ceiling   |-> RatedCost(rate, most, r.gpu_count) + overhead.maximum,
        starts    |-> IF mode = Serverless THEN ColdStarts(r) ELSE 0]

\* OllamaPlacementPlan.__post_init__ and validate_plan: the plan is derived,
\* of the requested mode, and within the durable cost policy.
ValidPlan(r, plan) ==
    /\ plan.mode = r.mode
    /\ plan.estimate <= plan.ceiling
    /\ plan.overhead.estimated <= plan.overhead.maximum
    /\ plan.rate > 0
    /\ plan.ceiling <= r.max_cost
    /\ plan.rate <= r.max_rate

\* accrued_cost and authorized_cost_exposure after so many ticks.
Exposure(plan, elapsed) ==
    plan.rate * elapsed * plan.workers * plan.count + plan.overhead.maximum
=============================================================================
