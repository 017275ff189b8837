-------------------------- MODULE InferenceProvider --------------------------
(***************************************************************************)
(* RunpodInferenceLeaseProvider on top of OllamaLease: quotes for private  *)
(* inference, the acquisition of a lease on an accepted quote, and the     *)
(* status, touch and release of it.  The caller keeps its quotes and may   *)
(* present any of them, also after the deployment was reconfigured.  Every *)
(* plan is made from a fresh catalog observation, so each planning call    *)
(* sees some catalog of Catalogs.                                          *)
(*                                                                         *)
(* `lead' counts the ticks left until the readiness deadline; the clock of *)
(* OllamaLease stays 0 while there are any.                                *)
(***************************************************************************)
EXTENDS OllamaLease, OllamaPlan

CONSTANTS
    LeaseRequest,  \* ready, session, idle, max_hourly, max_total
    Deployed,      \* the configuration of the deployment: _InferencePolicy
    Redeployed,    \* the configuration it may be restarted with
    Catalogs,      \* external: what the GPU catalog may show
    MaxQuotes      \* bound: quotes the caller asks for

ASSUME RequestAssumption ==
    \A f \in {"ready", "session", "idle", "max_hourly", "max_total"} :
        LeaseRequest[f] \in Nat \ {0}
ASSUME PolicyAssumption ==
    \A c \in {Deployed, Redeployed} :
        /\ c.gpu_count \in Nat \ {0} /\ c.workers \in Nat \ {0} /\ c.max_rate \in Nat
        /\ \A mode \in Modes :
              c.ready[mode] \in Nat \ {0} /\ c.overhead[mode].maximum \in Nat
ASSUME CatalogAssumption ==
    \A offers \in Catalogs : \A o \in offers :
        \A product \in DOMAIN o.price : o.price[product] \in Nat

VARIABLES
    lead,      \* ticks until the readiness deadline
    policy,    \* the configuration of the running processes
    quotes,    \* the quotes the caller holds
    held,      \* of each host: the quote, then the plan, of its acquire
    bound,     \* of the row: the internal request it was inserted with
    plan,      \* of the row: the plan it was provisioned with
    started,   \* of the row: lead when it was provisioned
    accepted,  \* history: the quote the row was inserted for
    told       \* history: the state in the last SDK lease returned

provider == <<lead, policy, quotes, held, bound, plan, started, accepted, told>>
all == <<vars, provider>>

Nothing == [mode |-> "none"]

-----------------------------------------------------------------------------
(* Requests and quotes. *)

\* The per-GPU budget of a whole-lease cap, rounded down.
PerGpuRate(hourly) == hourly \div policy.gpu_count

AtMost(a, b) == IF a < b THEN a ELSE b

\* _internal_request.
InternalRequest(mode, hourly) ==
    [mode      |-> mode,
     session   |-> LeaseRequest.session + IF mode = Pod THEN policy.ready[mode] ELSE 0,
     active    |-> LeaseRequest.session,
     init      |-> policy.ready[Serverless],
     tail      |-> LeaseRequest.idle,
     max_cost  |-> LeaseRequest.max_total,
     max_rate  |-> AtMost(PerGpuRate(hourly), policy.max_rate),
     gpu_count |-> policy.gpu_count,
     min_vram  |-> policy.min_vram,
     cloud     |-> policy.cloud,
     cuda      |-> policy.cuda,
     ids       |-> policy.ids,
     pools     |-> {},
     centers   |-> policy.centers]

\* Mutant: the request is not narrowed to the quoted GPU.
BindNothing(r, q) == r

\* _bind_request_to_quoted_placement.
BindToQuote(r, q) ==
    [r EXCEPT !.ids = {q.gpu}, !.pools = IF q.pool = NoPool THEN {} ELSE {q.pool}]

\* The time a plan has until the hard deadline.
Remaining == lead + LeaseRequest.session

\* What provider.plan makes of r on one catalog, if validate_plan accepts it.
PlansFrom(r, offers) ==
    {x \in {PlanOf(r, r.mode, c, Remaining, policy.workers, policy.overhead[r.mode]) :
               c \in {d \in {offers} : Plannable(r, r.mode, d, Remaining)}} :
        ValidLeaseRequest(r) /\ ValidPlan(r, x)}

Plans(r) == UNION {PlansFrom(r, offers) : offers \in Catalogs}

\* _validate_cold_start_window.
ColdStartFits(mode) == policy.ready[mode] <= lead

\* quote's candidate in one mode: a plan whose cold start fits.
Candidate(mode, offers) ==
    IF ColdStartFits(mode)
    THEN PlansFrom(InternalRequest(mode, LeaseRequest.max_hourly), offers)
    ELSE {}

\* The order of the candidates: the first difference in estimated cost, time
\* to readiness and price decides, a Pod before an endpoint in the end.
Cheaper(a, b) ==
    LET key(x) == <<x.estimate, policy.ready[x.mode], x.rate, IF x.mode = Pod THEN 0 ELSE 1>>
    IN \E i \in 1..4 : key(a)[i] < key(b)[i] /\ \A j \in 1..(i - 1) : key(a)[j] = key(b)[j]

\* The quote of a plan, with the costs of its breakdown, valid until lead has
\* fallen to `until'.
QuoteOf(x) ==
    [mode |-> x.mode, gpu |-> x.gpu, pool |-> x.pool, hourly |-> x.rate * x.count,
     estimate |-> x.estimate, ceiling |-> x.ceiling, overhead |-> x.overhead,
     starts |-> x.starts, ready |-> policy.ready[x.mode],
     until |-> IF lead > policy.ttl + policy.ready[x.mode] THEN lead - policy.ttl
               ELSE policy.ready[x.mode]]

\* _validate_quote, for a quote of this provider and this request.
ValidQuote(q) ==
    /\ q.ready = policy.ready[q.mode]
    /\ q.ceiling <= LeaseRequest.max_total
    /\ q.hourly <= LeaseRequest.max_hourly
    /\ q.estimate <= q.ceiling

\* _validate_realized_plan.
Realizes(x, q) ==
    /\ x.mode = q.mode /\ x.gpu = q.gpu /\ x.pool = q.pool
    /\ x.rate * x.count <= q.hourly
    /\ x.estimate <= q.estimate
    /\ x.overhead = q.overhead
    /\ x.ceiling <= q.ceiling /\ x.ceiling <= LeaseRequest.max_total
    /\ x.starts = q.starts

-----------------------------------------------------------------------------
(* What the caller is told: _to_sdk_lease. *)

\* _sdk_state.  The reason that was persisted first decides the end.
SdkState(r) ==
    CASE r.state = "ready"      -> "READY"
      [] r.state = "failed"     -> "FAILED"
      [] r.state = "releasing"  -> "RELEASING"
      [] r.state = "terminated" -> IF r.reason = "expired" THEN "EXPIRED" ELSE "RELEASED"
      [] OTHER                  -> "PENDING"

\* The host's call returns the row it holds.  A READY row comes with the route
\* the call observed: one that is only read back has none, and is an error.
Tell(p) ==
    told' = IF p \in Hosts /\ ~At(p, "idle") /\ pc'[p] = "idle"
            THEN SdkState(row') ELSE told

\* After an error the row is read back, or the error is raised.
TellPersisted(p) ==
    \/ told' = told
    \/ /\ p \in Hosts /\ loc[p].op \in {"provision", "release", "reconcile"}
       /\ row.state # "ready"
       /\ told' = SdkState(row)

-----------------------------------------------------------------------------
ProviderInit ==
    /\ Init
    /\ lead = LeaseRequest.ready
    /\ policy = Deployed
    /\ quotes = {}
    /\ held = [p \in Hosts |-> Nothing]
    /\ bound = Nothing /\ plan = Nothing /\ started = 0
    /\ accepted = Nothing
    /\ told = "none"

Free(p) == p \in Hosts /\ At(p, "idle") /\ held[p] = Nothing
Hold(p, x) == held' = [held EXCEPT ![p] = x]

\* quote: both modes are planned, each from its own observation; the cheaper
\* candidate is offered if it can be accepted at all.
Quote(p) ==
    /\ Free(p) /\ lead >= 1 /\ Cardinality(quotes) < MaxQuotes
    /\ \E seen \in [Modes -> Catalogs] :
       LET found == UNION {Candidate(mode, seen[mode]) : mode \in Modes}
       IN \E x \in found :
          /\ \A y \in found : ~Cheaper(y, x)
          /\ QuoteOf(x).until < lead
          /\ quotes' = quotes \cup {QuoteOf(x)}
    /\ UNCHANGED <<vars, lead, policy, held, bound, plan, started, accepted, told>>

\* acquire up to its planning call: a new lease, or one still REQUESTED whose
\* readiness deadline has not elapsed.
AcquireOnQuote(p) ==
    /\ Free(p)
    /\ \E q \in quotes :
          /\ ValidQuote(q)
          /\ ~Exists => q.until < lead
          /\ row.state \in {"absent", "requested"} /\ ~Late
          /\ ColdStartFits(q.mode)
          /\ Hold(p, q)
    /\ UNCHANGED <<vars, lead, policy, quotes, bound, plan, started, accepted, told>>

QuotedRequest(q) == BindToQuote(InternalRequest(q.mode, q.hourly), q)

\* The state of the row is one OllamaLease.acquire has work for.
ServiceAcquires(p) == Acquire(p) \/ (UseReady(p) /\ loc'[p].op = "provision") \/ AcquireExpired(p)

\* service.acquire with the request of q: insert_request refuses a row that
\* was inserted with another one.
AcquireWith(p, q, x) ==
    \/ /\ ~Exists
       /\ ServiceAcquires(p)
       /\ bound' = QuotedRequest(q) /\ accepted' = q
       /\ Hold(p, x)
       /\ UNCHANGED told
    \/ /\ Exists /\ bound = QuotedRequest(q)
       /\ ServiceAcquires(p)
       /\ Hold(p, IF pc'[p] = "plan" THEN x ELSE Nothing)
       /\ UNCHANGED <<bound, accepted, told>>
    \/ /\ Exists /\ bound = QuotedRequest(q)
       /\ row.state \in {"waiting_for_model", "releasing", "failed", "terminated"}
       /\ told' = SdkState(row)
       /\ Hold(p, Nothing)
       /\ UNCHANGED <<vars, bound, accepted>>
    \/ /\ Exists /\ bound # QuotedRequest(q)
       /\ Hold(p, Nothing)
       /\ UNCHANGED <<vars, bound, accepted, told>>

\* The planning call returns; its plan must realize the quote, and the cold
\* start must still fit.
AcquirePlanned(p) ==
    /\ p \in Hosts /\ At(p, "idle") /\ held[p] # Nothing
    /\ ColdStartFits(held[p].mode)
    /\ \E x \in Plans(QuotedRequest(held[p])) :
          Realizes(x, held[p]) /\ AcquireWith(p, held[p], x)
    /\ UNCHANGED <<lead, policy, quotes, plan, started>>

\* The plan drifted, the window closed, or the host is gone.
AcquireRefused(p) ==
    /\ p \in Hosts /\ At(p, "idle") /\ held[p] # Nothing
    /\ Hold(p, Nothing)
    /\ UNCHANGED <<vars, lead, policy, quotes, bound, plan, started, accepted, told>>

\* acquire of a lease that needs no plan any more.
AcquireAgainOnQuote(p) ==
    /\ Free(p) /\ Exists
    /\ row.state = "requested" => Late
    /\ \E q \in quotes : ValidQuote(q) /\ AcquireWith(p, q, Nothing)
    /\ UNCHANGED <<lead, policy, quotes, plan, started>>

\* status, touch and release call the service on the row that exists.
Status(p) == Free(p) /\ Reconcile(p) /\ UNCHANGED provider

\* status and release of a lease that has ended.
ReadEnded(p) ==
    /\ Free(p) /\ IsTerminal(row)
    /\ told' = SdkState(row)
    /\ UNCHANGED <<vars, lead, policy, quotes, held, bound, plan, started, accepted>>

TouchLease(p) ==
    /\ Free(p)
    /\ UseReady(p) /\ loc'[p].op = "touch"
    /\ UNCHANGED provider

ReleaseLease(p) == Free(p) /\ Release(p) /\ UNCHANGED provider

\* The plan the row is provisioned with: the one acquire validated against the
\* quote, or one of the reconciler's own, for the request stored in the row.
PlansHere(p) == IF p \in Hosts /\ held[p] # Nothing THEN {held[p]} ELSE Plans(bound)

ProvisionPlanned(p) ==
    /\ StartCreate(p)
    /\ IF pc'[p] = "create"
       THEN plan' \in PlansHere(p) /\ started' = lead
       ELSE UNCHANGED <<plan, started>>
    /\ IF p \in Hosts THEN Hold(p, Nothing) ELSE UNCHANGED held
    /\ UNCHANGED <<lead, policy, quotes, bound, accepted, told>>

\* The other steps of the service.
ServiceStep(p) ==
    /\ \/ CreateStep(p) /\ ~At(p, "plan")
       \/ ObserveStep(p) \/ ReleaseStep(p)
    /\ Tell(p)
    /\ UNCHANGED <<lead, policy, quotes, held, bound, plan, started, accepted>>

ServiceFails(p) ==
    /\ PlanFails(p) \/ RaiseError(p) \/ Crash(p)
    /\ IF p \in Hosts THEN Hold(p, Nothing) ELSE UNCHANGED held
    /\ IF At(p, "raise") THEN TellPersisted(p) ELSE UNCHANGED told
    /\ UNCHANGED <<lead, policy, quotes, bound, plan, started, accepted>>

\* The reconciler of OllamaLease, on its timer.
ReconcilerStarts(p) == p \in Reconcilers /\ Reconcile(p) /\ UNCHANGED provider

\* external: Runpod, and the idle deadline.
Provider ==
    /\ ProviderAccepts \/ ProviderRefuses \/ ResourceLost \/ IdleElapses
    /\ UNCHANGED provider

\* Once the row is provisioned nothing looks at the single ticks any more.
TimePasses ==
    /\ IF lead > 1 /\ ~row.planned THEN lead' = lead - 1 /\ UNCHANGED vars
       ELSE lead' = 0 /\ Tick
    /\ UNCHANGED <<policy, quotes, held, bound, plan, started, accepted, told>>

\* external: the operator restarts the processes with another configuration,
\* between a quote and what is provisioned on it.
Reconfigure ==
    /\ quotes # {} /\ ~row.planned
    /\ \A p \in Procs : At(p, "idle")
    /\ \A p \in Hosts : held[p] = Nothing
    /\ policy' = Redeployed
    /\ UNCHANGED <<vars, lead, quotes, held, bound, plan, started, accepted, told>>

HostCalls(p) ==
    \/ Quote(p) \/ AcquireOnQuote(p) \/ AcquirePlanned(p) \/ AcquireRefused(p)
    \/ AcquireAgainOnQuote(p) \/ Status(p) \/ ReadEnded(p) \/ TouchLease(p) \/ ReleaseLease(p)

ServiceRuns(p) == ProvisionPlanned(p) \/ ServiceStep(p)

ProviderNext ==
    \/ Provider \/ TimePasses \/ Reconfigure
    \/ \E p \in Procs :
          HostCalls(p) \/ ReconcilerStarts(p) \/ ServiceRuns(p) \/ ServiceFails(p)

ProviderSpec == ProviderInit /\ [][ProviderNext]_all

-----------------------------------------------------------------------------
(* Properties. *)

\* Whoever provisions the lease, and whenever: the host that holds the quote,
\* a later acquire, a status call or the reconciler that finds the request
\* after a crash, with another catalog and another configuration.  What is
\* bought is the quoted GPU in the quoted mode, at no more than the quoted
\* hourly price for all GPUs, and its ceiling is within max_total_cost_usd.
WithinQuote ==
    row.planned =>
        /\ plan.mode = accepted.mode /\ plan.gpu = accepted.gpu
        /\ plan.rate * plan.count <= accepted.hourly
        /\ plan.ceiling <= LeaseRequest.max_total

\* The all-in ceiling a plan was admitted under covers whatever accrued_cost
\* can reach until the hard deadline, with every worker and every GPU: the
\* two calculations never disagree, so no lease outspends its ceiling.
CeilingCoversAccrual ==
    row.planned => Exposure(plan, started + LeaseRequest.session) <= plan.ceiling

Rank(state) ==
    CASE state \in {"none", "PENDING"}     -> 0
      [] state \in {"READY", "FAILED"}     -> 1
      [] state = "RELEASING"               -> 2
      [] state \in {"EXPIRED", "RELEASED"} -> 3

\* The caller never sees a lease come back: once it was told FAILED, RELEASING
\* or an end, no later answer is PENDING or READY with a route, and an end is
\* final, although the reconciler writes the same row and the answer to an
\* error is the row as somebody else left it.
ToldInOrder ==
    [][/\ Rank(told') >= Rank(told)
       /\ Rank(told) = 3 => told' = told]_all
=============================================================================
