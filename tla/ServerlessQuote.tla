--------------------------- MODULE ServerlessQuote ---------------------------
(***************************************************************************)
(* The pure part of RunpodServerlessCapacityProvider up to a purchase: the *)
(* placement of a workload on the live catalog, the quote made from it,    *)
(* and the comparisons that keep an accepted quote from being spent on     *)
(* anything else.  Identities, names and digests are the values they stand *)
(* for: a digest equals another exactly when the digested values do.       *)
(* Time is counted in ticks, HourTicks to the hour.                        *)
(***************************************************************************)
EXTENDS Placement, TLC

CONSTANT HourTicks   \* ticks of the clock in one billing hour

ASSUME HourAssumption == HourTicks \in Nat \ {0}

-----------------------------------------------------------------------------
(* The endpoint specification and the finite-job envelope.                 *)
(* spec: min_vram, gpu_count, cloud, cuda, pools, centers, max_rate,       *)
(*       minimum, idle, timeout, schema;                                         *)
(* request: spec, est_queue, est_start, est_exec, max_queue, max_start,    *)
(*       max_exec, max_billable, job_timeout, job_ttl, est_other,          *)
(*       max_other, ttl.                                                   *)

\* ServerlessCapacityConstraints.__post_init__.
ValidConstraints(spec) ==
    /\ spec.min_vram > 0 /\ spec.gpu_count > 0
    /\ spec.pools # {} /\ spec.centers # {}
    /\ spec.max_rate > 0
    /\ spec.minimum \in Availability

\* ServerlessEndpointSpec.__post_init__: workers 0..1, QUEUE_DELAY scaling and
\* no network volume are the only shape there is.
ValidSpec(spec) ==
    /\ ValidConstraints(spec)
    /\ spec.idle \in 1..HourTicks
    /\ spec.timeout > 0
    /\ spec.schema \in {"GA", "LEGACY"}

\* ServerlessEndpointSpec.from_dict: the published v1 shape has no version
\* field and stays LEGACY, whose digest omits the version.
RestoredSchema(versioned) == IF versioned THEN "GA" ELSE "LEGACY"

\* _validate_capacity_request.
ValidRequest(r) ==
    /\ r.est_exec > 0 /\ r.max_queue > 0 /\ r.max_start > 0 /\ r.max_exec > 0
    /\ r.max_other > 0 /\ r.est_other <= r.max_other
    /\ r.ttl > 0
    /\ r.est_queue <= r.max_queue
    /\ r.est_start <= r.max_start
    /\ r.est_exec <= r.max_exec
    /\ r.max_billable = r.max_start + r.max_exec + r.spec.idle
    /\ r.job_timeout <= r.spec.timeout
    /\ r.max_exec <= r.job_timeout
    /\ r.max_queue + r.max_start + r.max_exec <= r.job_ttl

-----------------------------------------------------------------------------
(* Placement: select_gpu on the catalog, then the data center. *)

\* What the specification asks of the catalog.
Requirements(spec) ==
    [product |-> "SERVERLESS", ids |-> {}, pools |-> spec.pools,
     centers |-> spec.centers, min_vram |-> spec.min_vram,
     gpu_count |-> spec.gpu_count, cloud |-> spec.cloud, cuda |-> spec.cuda,
     max_rate |-> spec.max_rate, minimum |-> spec.minimum]

AllowedCenters(o, spec) ==
    {c \in DOMAIN o.centers \cap spec.centers : o.centers[c] >= spec.minimum}

SelectDataCenter(o, spec) ==
    CHOOSE c \in AllowedCenters(o, spec) :
        \A d \in AllowedCenters(o, spec) :
            \/ o.centers[c] > o.centers[d]
            \/ o.centers[c] = o.centers[d] /\ c <= d

\* The first offer of the selected one's pool, in the order of the catalog, for
\* which the identifiers stand: it may be of another GPU than the selected one.
FirstOfPool(offers, pool) ==
    CHOOSE o \in offers : o.pool = pool /\ \A x \in offers : x.pool = pool => o.id <= x.id

\* _observe_catalog succeeds: a legacy authority buys nothing new.
Placeable(offers, spec) ==
    /\ spec.schema = "GA"
    /\ \E o \in Best(offers, Requirements(spec)) :
          AllowedCenters(FirstOfPool(offers, o.pool), spec) # {}

-----------------------------------------------------------------------------
(* Quotes. *)

\* serverless_worker_cost_usd: rounded up, never down.
WorkerCost(rate, count, ticks) ==
    (rate * count * ticks + HourTicks - 1) \div HourTicks

\* _quote_amounts.
CostCeiling(r, rate) ==
    WorkerCost(rate, r.spec.gpu_count, r.max_billable) + r.max_other
EstimatedCost(r, rate) ==
    WorkerCost(rate, r.spec.gpu_count, r.est_start + r.est_exec + r.spec.idle)
        + r.est_other

\* create_request: the immutable configuration the endpoint is created with,
\* and what operation_digest digests.
CreateRequest(spec, pool, center) ==
    [spec |-> spec, pool |-> pool, center |-> center]

\* _observe_planned_quote.  The request travels in the quote: the quote's
\* identity digests every field of it.
PlannedQuote(offers, r, now) ==
    LET Quoted(o, price) ==
          [request      |-> r,
           gpu          |-> o.id,
           pool         |-> o.pool,
           vram         |-> o.memory,
           center       |-> SelectDataCenter(FirstOfPool(offers, o.pool), r.spec),
           availability |-> o.availability,
           rate         |-> price,
           estimate     |-> EstimatedCost(r, price),
           ceiling      |-> CostCeiling(r, price),
           observed_at  |-> now,
           expires_at   |-> now + r.ttl]
    IN CHOOSE q \in {Quoted(o, o.price["SERVERLESS"]) : o \in Best(offers, Requirements(r.spec))} :
           TRUE

\* PlannedServerlessCapacityQuote.__post_init__ and from_dict.
ValidQuote(q) ==
    /\ q.availability > 0
    /\ q.rate > 0
    /\ q.estimate = EstimatedCost(q.request, q.rate)
    /\ q.ceiling = CostCeiling(q.request, q.rate)
    /\ q.estimate <= q.ceiling
    /\ q.observed_at < q.expires_at

\* _validate_planned_request_binding: the quote is for this request, and its
\* create request would be the quoted one.
BindsPlan(r, q) ==
    /\ q.request = r
    /\ q.pool \in r.spec.pools
    /\ q.center \in r.spec.centers

\* assert_fresh.
Fresh(q, now, accepted) ==
    /\ q.observed_at <= now /\ now < q.expires_at
    /\ accepted = q.ceiling

\* _validate_planned_quote_drift passes.
NoDrift(current, q, accepted) ==
    /\ \A f \in {"request", "gpu", "pool", "vram", "center", "availability"} :
          current[f] = q[f]
    /\ current.rate <= q.rate
    /\ current.ceiling <= accepted

\* validate_quote_for_submission compares the same, the availability apart.
NoProfileDrift(current, q, accepted) ==
    /\ \A f \in {"request", "gpu", "pool", "vram", "center"} : current[f] = q[f]
    /\ current.rate <= q.rate
    /\ current.ceiling <= accepted

\* Mutant: any configuration is taken for the planned one.
AnyConfig(conf, spec, pool, center) == TRUE

\* _validate_endpoint_config: the readback equals what the specification and
\* the quoted placement would create.
ConfigBinds(conf, spec, pool, center) == conf = CreateRequest(spec, pool, center)

\* The digest of the readback: identity and configuration.
ReadbackDigest(id, conf) == [id |-> id, conf |-> conf]
=============================================================================
