-------------------------- MODULE ServerlessEndpoint --------------------------
(***************************************************************************)
(* One planned Serverless endpoint, from the quote to the last bill.       *)
(*                                                                         *)
(* RunpodServerlessCapacityProvider keeps no state: every operation gets   *)
(* the documents of earlier ones from its host, which stores them in a     *)
(* ledger, and returns the next document.  The host runs one operation on  *)
(* a plan at a time, and may die at any await; a request it sent may be    *)
(* applied much later.  An endpoint that exists and is named by no         *)
(* document bills until somebody finds it.                                 *)
(*                                                                         *)
(* One step is one awaited call, together with the code up to the next.    *)
(***************************************************************************)
EXTENDS ServerlessBilling, RunpodCalls

CONSTANTS
    Ids,         \* endpoint ids Runpod may assign
    NoId,
    Request,     \* the PlannedServerlessCapacityQuoteRequest of the plan
    Catalogs,    \* the catalogs Runpod may show, one at a time
    ForeignConf, \* the configuration of somebody else's endpoint
    BatchHours,  \* billing_history_batch_hours
    MaxClock,    \* bound: ticks of the clock
    MaxUpsets,   \* bound: failures, strangers' acts and catalog changes
    Faults       \* the failures the environment may produce

AllFaults ==
    {"crash",    \* the process dies
     "late",     \* a request is applied after its sender gave up
     "calls",    \* a call answers with anything but what was expected
     "lag",      \* the inventory shows a new endpoint only later
     "foreign",  \* somebody else creates an endpoint with the planned name
     "removed",  \* somebody deletes an endpoint by hand
     "altered"}  \* a stored document is changed outside the provider

ASSUME RequestAssumption == ValidSpec(Request.spec) /\ ValidRequest(Request)
ASSUME FaultAssumption == Faults \subseteq AllFaults
ASSUME BatchAssumption == BatchHours \in Nat \ {0}
ASSUME BoundAssumption == MaxClock \in Nat /\ MaxUpsets \in Nat

\* The readback of a stranger's endpoint is not what the plan would create.
ASSUME ForeignAssumption ==
    \A pool \in Request.spec.pools, center \in Request.spec.centers :
        ForeignConf # CreateRequest(Request.spec, pool, center)

VARIABLES
    clock,
    catalog,    \* external: the live GPU catalog
    endpoints,  \* external: the endpoints carrying the planned name
    ledger,     \* the documents the host has stored
    pc,         \* label of the operation the host is running
    loc,        \* its local variables
    wire,       \* external: requests sent by a dead process, not yet applied
    deletes,    \* history: the endpoints a DELETE was sent for
    upsets      \* counts towards MaxUpsets

vars == <<clock, catalog, endpoints, ledger, pc, loc, wire, deletes, upsets>>

Time == 0..MaxClock

Endpoint ==
    [state : {"none", "hidden", "live", "gone"}, owner : {"nobody", "plan", "foreign"},
     busy  : BOOLEAN, born : Time, died : Time]

NoEndpoint ==
    [state |-> "none", owner |-> "nobody", busy |-> FALSE, born |-> 0, died |-> 0]

\* Every document is a set of at most one: the host stored it or not yet.
NoLedger ==
    [quote |-> {}, attempted |-> FALSE, activation |-> {}, submission |-> {},
     intent |-> {}, cleanup |-> {}, retired |-> {}]

Labels ==
    {"idle", "replay", "act_observe", "act_list", "act_create", "act_relist",
     "act_read", "adopt_read", "auth_observe", "auth_read", "clean_get",
     "clean_workers", "clean_intent", "clean_delete",
     "verify_get", "verify_list", "bill"}

NoLocals ==
    [act |-> {}, id |-> NoId, started |-> 0, ambiguous |-> FALSE, prior |-> {}, basis |-> "none", cursor |-> 0, costs |-> <<>>]

The(s) == CHOOSE x \in s : TRUE
Quote == The(ledger.quote)
Activation == The(ledger.activation)

TypeOK ==
    /\ clock \in Time
    /\ catalog \in Catalogs
    /\ endpoints \in [Ids -> Endpoint]
    /\ pc \in Labels
    /\ loc.id \in Ids \cup {NoId} /\ loc.started \in Time
    /\ loc.basis \in {"none", "acknowledged", "ambiguous", "interrupted", "replay"}
    /\ wire \subseteq {"create"} \cup Ids
    /\ \A d \in {"quote", "activation", "submission", "intent", "cleanup", "retired"} :
          Cardinality(ledger[d]) <= 1
    /\ deletes \subseteq Ids
    /\ upsets \in 0..MaxUpsets

Init ==
    /\ clock = 0
    /\ catalog \in Catalogs
    /\ endpoints = [e \in Ids |-> NoEndpoint]
    /\ ledger = NoLedger
    /\ pc = "idle"
    /\ loc = NoLocals
    /\ wire = {}
    /\ deletes = {}
    /\ upsets = 0

-----------------------------------------------------------------------------
(* Building blocks. *)

At(label) == pc = label

\* A step that is a failure of kind f, and a step that is none.
Upset == upsets < MaxUpsets /\ upsets' = upsets + 1
Fault(f) == f \in Faults /\ Upset
Calm == UNCHANGED upsets

Jump(label) == pc' = label /\ UNCHANGED loc
Goto(label, l) == pc' = label /\ loc' = l

\* The operation returns, or raises: the next call starts from the ledger.
End == Goto("idle", NoLocals)

Exists(e) == endpoints[e].state \in {"hidden", "live"}

\* list_endpoints, filtered by name: no read-your-writes guarantee.
Listed == {e \in Ids : endpoints[e].state = "live"}

\* The configuration get_endpoint reads back; the plan's endpoints were made
\* under the one quote that was attempted.
ConfOf(e) ==
    IF endpoints[e].owner = "foreign" THEN ForeignConf
    ELSE CreateRequest(Request.spec, Quote.pool, Quote.center)

\* _validate_planned_endpoint_binding against the accepted quote.
Binds(e) == ConfigBinds(ConfOf(e), Request.spec, Quote.pool, Quote.center)

\* An exact-id read: Runpod answers it consistently, or not at all.
Reads(e, verdict) ==
    \/ verdict = (IF e \in Ids /\ Exists(e) THEN "ok" ELSE "missing") /\ Calm
    \/ verdict = "error" /\ Fault("calls")

\* A mutation with the given pair of effect and verdict.
Calls(outcome) ==
    IF outcome = <<TRUE, "ok">> THEN Calm ELSE Fault("calls")

\* The seal is the digest a document carries of its own fields.
Seal(a) == <<a.id, a.conf, a.started, a.reconciled>>

\* from_dict of an activation receipt, as every later operation receives it.
Restores(doc) == doc.seal = Seal(doc)

\* _planned_activation_receipt.
Receipt(e, started, reconciled) ==
    LET a == [id |-> e, conf |-> ConfOf(e), started |-> started,
              reconciled |-> reconciled, seal |-> <<>>]
    IN [a EXCEPT !.seal = Seal(a)]

\* The host stores a receipt once; a second one for the plan is dropped.
StoreActivation(a) ==
    ledger' = IF ledger.activation = {} THEN [ledger EXCEPT !.activation = {a}]
              ELSE ledger

HasActivation == ledger.activation # {} /\ Restores(Activation)

\* The documents a call on the activated endpoint gets from its host.
Given(basis) ==
    [NoLocals EXCEPT !.act = ledger.activation, !.id = Activation.id,
                     !.prior = ledger.intent, !.basis = basis]

Act == The(loc.act)

-----------------------------------------------------------------------------
(* quote_planned_endpoint. *)

\* The host asks while it holds no fresh quote, and keeps the quote an
\* activation was attempted under.
QuotePlannedEndpoint ==
    /\ At("idle")
    /\ ~ledger.attempted
    /\ ledger.quote # {} => ~Fresh(Quote, clock, Quote.ceiling)
    /\ Placeable(catalog, Request.spec)
    /\ \E q \in {PlannedQuote(catalog, Request, clock)} :
          /\ ValidQuote(q)
          /\ q.expires_at <= MaxClock   \* bound: quotes that expire in time
          /\ ledger' = [ledger EXCEPT !.quote = {q}]
    /\ UNCHANGED <<clock, catalog, endpoints, pc, loc, wire, deletes, upsets>>

-----------------------------------------------------------------------------
(* activate_planned_endpoint. *)

\* With a stored receipt the call only reads the endpoint back.
ActivateReplay ==
    /\ At("idle")
    /\ HasActivation
    /\ BindsPlan(Request, Quote)
    /\ Goto("replay", Given("none"))
    /\ UNCHANGED <<clock, catalog, endpoints, ledger, wire, deletes, upsets>>

ReplayRead ==
    /\ At("replay")
    /\ End
    /\ UNCHANGED <<clock, catalog, endpoints, ledger, wire, deletes, upsets>>

\* The only freshness check, before the first await.
Activate ==
    /\ At("idle")
    /\ ledger.quote # {} /\ ledger.activation = {}
    /\ BindsPlan(Request, Quote)
    /\ Fresh(Quote, clock, Quote.ceiling)
    /\ ledger' = [ledger EXCEPT !.attempted = TRUE]
    /\ Goto("act_observe", NoLocals)
    /\ UNCHANGED <<clock, catalog, endpoints, wire, deletes, upsets>>

\* The catalog read again, for activation and for authorization.
Observed ==
    /\ Placeable(catalog, Request.spec)
    /\ \E now \in {PlannedQuote(catalog, Request, clock)} : NoDrift(now, Quote, Quote.ceiling)

ActivateObserve ==
    /\ At("act_observe")
    /\ IF Observed THEN Jump("act_list") ELSE End
    /\ UNCHANGED <<clock, catalog, endpoints, ledger, wire, deletes, upsets>>

\* Mutant: the inventory is not searched before the create.
ListSkipped ==
    /\ At("act_list")
    /\ Goto("act_create", [NoLocals EXCEPT !.started = clock])
    /\ UNCHANGED <<clock, catalog, endpoints, ledger, wire, deletes, upsets>>

\* Mutant: the clock is not read before the create.
StartedUnset ==
    /\ At("act_list")
    /\ IF Listed = {}
       THEN Goto("act_create", [NoLocals EXCEPT !.started = NoId])
       ELSE End
    /\ UNCHANGED <<clock, catalog, endpoints, ledger, wire, deletes, upsets>>

\* A named endpoint is never bought over; create_started_at is read here.
ActivateList ==
    /\ At("act_list")
    /\ IF Listed = {}
       THEN Goto("act_create", [NoLocals EXCEPT !.started = clock])
       ELSE End
    /\ UNCHANGED <<clock, catalog, endpoints, ledger, wire, deletes, upsets>>

NewEndpoint(state, owner) ==
    [state |-> state, owner |-> owner, busy |-> FALSE, born |-> clock, died |-> 0]

\* Runpod creates an endpoint, visible at once or later.
Created(e) ==
    /\ endpoints[e].state = "none"
    /\ \E s \in {"live"} \cup (IF "lag" \in Faults THEN {"hidden"} ELSE {}) :
          endpoints' = [endpoints EXCEPT ![e] = NewEndpoint(s, "plan")]

\* A request that was not applied when its caller stopped waiting may still be.
Late(request) ==
    \/ UNCHANGED wire
    \/ "late" \in Faults /\ wire' = wire \cup {request}

\* create_endpoint under await_owned_effect, in all its outcomes.
ActivateCreate ==
    /\ At("act_create")
    /\ \E outcome \in Outcomes(CreateEndpoint) :
          /\ Calls(outcome)
          /\ IF outcome[1]
             THEN \E e \in Ids :
                     /\ Created(e)
                     /\ UNCHANGED wire
                     /\ CASE outcome[2] = "ok" -> Goto("act_read", [loc EXCEPT !.id = e])
                          [] outcome[2] = "ambiguous" -> Jump("act_relist")
                          [] OTHER -> End
             ELSE /\ UNCHANGED endpoints
                  /\ IF outcome[2] = "ambiguous"
                     THEN Jump("act_relist") /\ Late("create")
                     ELSE End /\ UNCHANGED wire
    /\ UNCHANGED <<clock, catalog, ledger, deletes>>

\* An ambiguous create is reconciled to exactly one endpoint, or given up.
ActivateRelist ==
    /\ At("act_relist")
    /\ IF Cardinality(Listed) = 1
       THEN Goto("act_read", [loc EXCEPT !.id = The(Listed), !.ambiguous = TRUE])
       ELSE End
    /\ UNCHANGED <<clock, catalog, endpoints, ledger, wire, deletes, upsets>>

\* Mutant: create_started_at is stamped with the readback.
StampedAtReadback ==
    /\ At("act_read")
    /\ \E verdict \in {"ok", "missing", "error"} :
          /\ Reads(loc.id, verdict)
          /\ IF verdict = "ok" /\ Binds(loc.id)
             THEN StoreActivation(Receipt(loc.id, clock, loc.ambiguous))
             ELSE UNCHANGED ledger
    /\ End
    /\ UNCHANGED <<clock, catalog, endpoints, wire, deletes>>

\* The exact readback; only then is there a receipt.
ActivateRead ==
    /\ At("act_read")
    /\ \E verdict \in {"ok", "missing", "error"} :
          /\ Reads(loc.id, verdict)
          /\ IF verdict = "ok" /\ Binds(loc.id)
             THEN StoreActivation(Receipt(loc.id, loc.started,
                                          loc.ambiguous))
             ELSE UNCHANGED ledger
    /\ End
    /\ UNCHANGED <<clock, catalog, endpoints, wire, deletes>>

-----------------------------------------------------------------------------
(* adopt_planned_endpoint: the endpoint of an activation that died. *)

\* Mutant: only a fresh quote adopts.
AdoptWhileFresh ==
    /\ At("idle")
    /\ ledger.quote # {} /\ ledger.attempted /\ ledger.activation = {}
    /\ BindsPlan(Request, Quote)
    /\ Fresh(Quote, clock, Quote.ceiling)
    /\ Cardinality(Listed) = 1
    /\ Goto("adopt_read", [NoLocals EXCEPT !.id = The(Listed)])
    /\ UNCHANGED <<clock, catalog, endpoints, ledger, wire, deletes, upsets>>

\* No freshness is asked for: freshness governs a purchase, not its end.
Adopt ==
    /\ At("idle")
    /\ ledger.quote # {} /\ ledger.attempted /\ ledger.activation = {}
    /\ BindsPlan(Request, Quote)
    /\ Cardinality(Listed) = 1
    /\ Goto("adopt_read", [NoLocals EXCEPT !.id = The(Listed)])
    /\ UNCHANGED <<clock, catalog, endpoints, ledger, wire, deletes, upsets>>

\* All three instants of the receipt are the adoption's.
AdoptRead ==
    /\ At("adopt_read")
    /\ \E verdict \in {"ok", "missing", "error"} :
          /\ Reads(loc.id, verdict)
          /\ IF verdict = "ok" /\ Binds(loc.id)
             THEN StoreActivation(Receipt(loc.id, clock, TRUE))
             ELSE UNCHANGED ledger
    /\ End
    /\ UNCHANGED <<clock, catalog, endpoints, wire, deletes>>

-----------------------------------------------------------------------------
(* authorize_planned_submission. *)

Authorize ==
    /\ At("idle")
    /\ HasActivation /\ ledger.submission = {}
    /\ BindsPlan(Request, Quote)
    /\ Fresh(Quote, clock, Quote.ceiling)
    /\ Goto("auth_observe", Given("none"))
    /\ UNCHANGED <<clock, catalog, endpoints, ledger, wire, deletes, upsets>>

AuthorizeObserve ==
    /\ At("auth_observe")
    /\ IF Observed THEN Jump("auth_read") ELSE End
    /\ UNCHANGED <<clock, catalog, endpoints, ledger, wire, deletes, upsets>>

\* The authorization runs to the end of the quote.
AuthorizeRead ==
    /\ At("auth_read")
    /\ \E verdict \in {"ok", "missing", "error"} :
          /\ Reads(loc.id, verdict)
          /\ IF verdict = "ok" /\ Binds(loc.id) /\ ConfOf(loc.id) = Act.conf
             THEN ledger' = [ledger EXCEPT !.submission =
                                {[id |-> loc.id, expires_at |-> Quote.expires_at]}]
             ELSE UNCHANGED ledger
    /\ End
    /\ UNCHANGED <<clock, catalog, endpoints, wire, deletes>>

-----------------------------------------------------------------------------
(* cleanup_planned_endpoint. *)

\* A stored cleanup receipt only verifies the absence again.
Cleanup ==
    /\ At("idle")
    /\ HasActivation
    /\ BindsPlan(Request, Quote)
    /\ IF ledger.cleanup # {}
       THEN Goto("verify_get", Given("replay"))
       ELSE Goto("clean_get", Given("none"))
    /\ UNCHANGED <<clock, catalog, endpoints, ledger, wire, deletes, upsets>>

\* Only the 404 of the exact id means missing, and a missing endpoint is a
\* cleanup only where an intent was stored.
CleanupGet ==
    /\ At("clean_get")
    /\ \E verdict \in {"ok", "missing", "error"} :
          /\ Reads(loc.id, verdict)
          /\ CASE verdict = "missing" /\ loc.prior # {} ->
                    Goto("verify_get", [loc EXCEPT !.basis = "interrupted"])
               [] verdict = "ok" /\ Binds(loc.id) /\ ConfOf(loc.id) = Act.conf ->
                    Jump("clean_workers")
               [] OTHER -> End
    /\ UNCHANGED <<clock, catalog, endpoints, ledger, wire, deletes>>

\* list_endpoint_workers must show none; the original intent is kept on retry.
CleanupWorkers ==
    /\ At("clean_workers")
    /\ \E verdict \in {"ok", "missing", "error"} :
          /\ Reads(loc.id, verdict)
          /\ IF verdict = "ok" /\ ~endpoints[loc.id].busy
             THEN Jump("clean_intent")
             ELSE End
    /\ UNCHANGED <<clock, catalog, endpoints, ledger, wire, deletes>>

\* The DELETE leaves.
Send == deletes' = deletes \cup {loc.id} /\ Jump("clean_delete")

\* persist_intent, where the host gives one, must acknowledge exactly this
\* intent before the DELETE: the one given as prior, or a new one where none was
\* stored meanwhile.  Its default is None, and the DELETE then follows at once.
CleanupIntent ==
    /\ At("clean_intent")
    /\ \/ /\ ledger.intent = loc.prior
          /\ ledger' = [ledger EXCEPT !.intent = {[id |-> loc.id]}]
          /\ Send
       \/ /\ ledger.intent # loc.prior
          /\ End
          /\ UNCHANGED <<ledger, deletes>>
       \/ Send /\ UNCHANGED ledger
    /\ UNCHANGED <<clock, catalog, endpoints, wire, upsets>>

\* Runpod deletes the endpoint; a running worker stops with it.
Removed(e) ==
    endpoints' = [endpoints EXCEPT ![e] = [@ EXCEPT !.state = "gone", !.busy = FALSE,
                                                    !.died = clock]]

\* delete_endpoint: a definite error, the 404 of an endpoint already gone
\* included, ends the cleanup; an ambiguous one does not.
CleanupDelete ==
    /\ At("clean_delete")
    /\ \/ /\ ~Exists(loc.id)
          /\ Calm
          /\ UNCHANGED <<endpoints, wire>>
          /\ End
       \/ \E outcome \in Outcomes(DeleteEndpoint) :
             /\ Exists(loc.id)
             /\ Calls(outcome)
             /\ IF outcome[1] THEN Removed(loc.id) /\ UNCHANGED wire
                ELSE UNCHANGED endpoints /\ IF outcome[2] = "ambiguous" THEN Late(loc.id)
                                           ELSE UNCHANGED wire
             /\ CASE outcome[2] = "ok" ->
                       Goto("verify_get", [loc EXCEPT !.basis = "acknowledged"])
                  [] outcome[2] = "ambiguous" ->
                       Goto("verify_get", [loc EXCEPT !.basis = "ambiguous"])
                  [] OTHER -> End
    /\ UNCHANGED <<clock, catalog, ledger, deletes>>

\* Mutant: the inventory alone proves the absence.
InventoryProvesAbsence ==
    /\ At("verify_get")
    /\ Jump("verify_list")
    /\ UNCHANGED <<clock, catalog, endpoints, ledger, wire, deletes, upsets>>

\* _verify_cleanup_absence: the exact id is not found ...
VerifyGet ==
    /\ At("verify_get")
    /\ \E verdict \in {"ok", "missing", "error"} :
          /\ Reads(loc.id, verdict)
          /\ IF verdict = "missing" THEN Jump("verify_list") ELSE End
    /\ UNCHANGED <<clock, catalog, endpoints, ledger, wire, deletes>>

\* ... and neither the id nor the name is in the inventory.
VerifyList ==
    /\ At("verify_list")
    /\ IF Listed = {} /\ loc.basis # "replay" /\ ledger.cleanup = {}
       THEN ledger' = [ledger EXCEPT !.cleanup =
                {[id |-> loc.id, basis |-> loc.basis, absent |-> clock]}]
       ELSE UNCHANGED ledger
    /\ End
    /\ UNCHANGED <<clock, catalog, endpoints, wire, deletes, upsets>>

-----------------------------------------------------------------------------
(* retired_endpoint_billing. *)

Window(a, c) == <<HourFloor(a.started), HourCeiling(c.absent)>>

\* read_exact_serverless_billing: nothing is read before the window is closed.
RetiredBilling ==
    /\ At("idle")
    /\ HasActivation /\ ledger.cleanup # {} /\ ledger.retired = {}
    /\ LET c == The(ledger.cleanup)
       IN /\ c.id = Activation.id
          /\ c.absent > Activation.started
          /\ clock >= Window(Activation, c)[2]
          /\ Goto("bill", [Given("none") EXCEPT !.cursor = Window(Activation, c)[1]])
    /\ UNCHANGED <<clock, catalog, endpoints, ledger, wire, deletes, upsets>>

\* external: the records Runpod may put in a page of a window: whole hours of
\* it, an hour still being written, the hour after it.
Records(from, until) ==
    {[from |-> h, until |-> h + d, own |-> TRUE, parts |-> 1, amount |-> 1] :
        h \in HoursIn(from, until + HourTicks), d \in {1, HourTicks}}

\* external: pages with the records of any two or fewer, in any order.
Pages(from, until) ==
    {[echo |-> TRUE, count |-> Len(s), unique |-> 1, records |-> s, total |-> x] :
        s \in {<<>>} \cup {<<r>> : r \in Records(from, until)}
                \cup {<<r, q>> : r \in Records(from, until), q \in Records(from, until)},
        x \in 0..2}

\* What the provider makes of the page it gets.
Accounts(from, until) ==
    {AuthoritativeHourCosts(page, from, until) : page \in Pages(from, until)}

BatchUntil(cursor, until) ==
    IF cursor + BatchHours * HourTicks < until THEN cursor + BatchHours * HourTicks
    ELSE until

\* One page; the last one makes the receipt.
BillPage ==
    /\ At("bill")
    /\ LET until == Window(Act, The(ledger.cleanup))[2]
           batch == BatchUntil(loc.cursor, until)
       IN \E seen \in Accounts(loc.cursor, batch) :
             LET costs == loc.costs \o seen.costs
             IN CASE seen.kind # "costs" -> End /\ UNCHANGED ledger
                  [] seen.kind = "costs" /\ batch < until ->
                       /\ Goto("bill", [loc EXCEPT !.cursor = batch, !.costs = costs])
                       /\ UNCHANGED ledger
                  [] OTHER ->
                       /\ ledger' = [ledger EXCEPT !.retired =
                              {[id |-> loc.id, from |-> HourFloor(Act.started),
                                until |-> until, costs |-> costs,
                                reconciled |-> Act.reconciled]}]
                       /\ End
    /\ UNCHANGED <<clock, catalog, endpoints, wire, deletes, upsets>>

-----------------------------------------------------------------------------
(* The environment. *)

\* Time starts with the first quote.
Tick ==
    /\ ledger.quote # {}
    /\ clock < MaxClock
    /\ clock' = clock + 1
    /\ UNCHANGED <<catalog, endpoints, ledger, pc, loc, wire, deletes, upsets>>

CatalogChanges ==
    /\ Upset
    /\ catalog' \in Catalogs \ {catalog}
    /\ UNCHANGED <<clock, endpoints, ledger, pc, loc, wire, deletes>>

Reveal(e) ==
    /\ endpoints[e].state = "hidden"
    /\ endpoints' = [endpoints EXCEPT ![e].state = "live"]
    /\ UNCHANGED <<clock, catalog, ledger, pc, loc, wire, deletes, upsets>>

\* An authorized job occupies the single worker of the endpoint, then frees it.
WorkerStarts(e) ==
    /\ ledger.submission # {} /\ The(ledger.submission).id = e
    /\ clock < The(ledger.submission).expires_at
    /\ Exists(e) /\ ~endpoints[e].busy
    /\ endpoints' = [endpoints EXCEPT ![e].busy = TRUE]
    /\ UNCHANGED <<clock, catalog, ledger, pc, loc, wire, deletes, upsets>>

WorkerStops(e) ==
    /\ endpoints[e].busy
    /\ endpoints' = [endpoints EXCEPT ![e].busy = FALSE]
    /\ UNCHANGED <<clock, catalog, ledger, pc, loc, wire, deletes, upsets>>

ForeignCreates(e) ==
    /\ Fault("foreign")
    /\ endpoints[e].state = "none"
    /\ \A x \in Ids : endpoints[x].owner # "foreign"
    /\ endpoints' = [endpoints EXCEPT ![e] = NewEndpoint("live", "foreign")]
    /\ UNCHANGED <<clock, catalog, ledger, pc, loc, wire, deletes>>

RemovedByHand(e) ==
    /\ Fault("removed")
    /\ Exists(e)
    /\ Removed(e)
    /\ UNCHANGED <<clock, catalog, ledger, pc, loc, wire, deletes>>

\* A stored receipt names another endpoint; its digest is the old one.
Altered(e) ==
    /\ Fault("altered")
    /\ ledger.activation # {} /\ Activation.id # e
    /\ ledger' = [ledger EXCEPT !.activation = {[Activation EXCEPT !.id = e]}]
    /\ UNCHANGED <<clock, catalog, endpoints, pc, loc, wire, deletes>>

\* The process dies.  A create or a delete on its way is applied, now or
\* later, or lost.
Crash ==
    /\ Fault("crash")
    /\ ~At("idle")
    /\ \/ UNCHANGED <<endpoints, wire>>
       \/ At("act_create") /\ UNCHANGED wire /\ \E e \in Ids : Created(e)
       \/ At("act_create") /\ UNCHANGED endpoints /\ Late("create")
       \/ At("clean_delete") /\ Exists(loc.id) /\ Removed(loc.id) /\ UNCHANGED wire
       \/ At("clean_delete") /\ UNCHANGED endpoints /\ Late(loc.id)
    /\ End
    /\ UNCHANGED <<clock, catalog, ledger, deletes>>

\* A request that was given up is applied.
CreateLands ==
    /\ "create" \in wire
    /\ wire' = wire \ {"create"}
    /\ \E e \in Ids : Created(e)
    /\ UNCHANGED <<clock, catalog, ledger, pc, loc, deletes, upsets>>

DeleteLands(e) ==
    /\ e \in wire
    /\ wire' = wire \ {e}
    /\ IF Exists(e) THEN Removed(e) ELSE UNCHANGED endpoints
    /\ UNCHANGED <<clock, catalog, ledger, pc, loc, deletes, upsets>>

-----------------------------------------------------------------------------

ActivateNext ==
    \/ QuotePlannedEndpoint
    \/ ActivateReplay \/ ReplayRead
    \/ Activate \/ ActivateObserve \/ ActivateList
    \/ ActivateCreate \/ ActivateRelist \/ ActivateRead

AdoptNext == Adopt \/ AdoptRead

AuthorizeNext == Authorize \/ AuthorizeObserve \/ AuthorizeRead

CleanupNext ==
    \/ Cleanup \/ CleanupGet \/ CleanupWorkers \/ CleanupIntent
    \/ CleanupDelete \/ VerifyGet \/ VerifyList

BillingNext == RetiredBilling \/ BillPage

Environment ==
    \/ Tick \/ CatalogChanges \/ Crash \/ CreateLands
    \/ \E e \in Ids :
          \/ Reveal(e) \/ WorkerStarts(e) \/ WorkerStops(e)
          \/ ForeignCreates(e) \/ RemovedByHand(e) \/ Altered(e) \/ DeleteLands(e)

Next ==
    \/ ActivateNext \/ AdoptNext \/ AuthorizeNext \/ CleanupNext \/ BillingNext
    \/ Environment

Spec == Init /\ [][Next]_vars

\* A running operation goes on; billing, which starts after the end, need not.
Progress ==
    /\ WF_vars(ReplayRead)
    /\ WF_vars(ActivateObserve) /\ WF_vars(ActivateList) /\ WF_vars(ActivateCreate)
    /\ WF_vars(ActivateRelist) /\ WF_vars(ActivateRead)
    /\ WF_vars(AdoptRead)
    /\ WF_vars(AuthorizeObserve) /\ WF_vars(AuthorizeRead)
    /\ WF_vars(CleanupGet) /\ WF_vars(CleanupWorkers) /\ WF_vars(CleanupIntent)
    /\ WF_vars(CleanupDelete)
    /\ WF_vars(VerifyGet) /\ WF_vars(VerifyList)

\* The host retries: between its other operations it adopts what it attempted
\* and cleans up what it activated.  Jobs end and time passes.
Fairness ==
    /\ Progress
    /\ SF_vars(Adopt) /\ SF_vars(Cleanup)
    /\ WF_vars(Tick)
    /\ \A e \in Ids : WF_vars(WorkerStops(e))

FairSpec == Spec /\ Fairness

-----------------------------------------------------------------------------
\* A stored cleanup receipt says that its endpoint is absent, and it is: an
\* acknowledged or ambiguous DELETE, an interrupted cleanup and a lagging
\* inventory never make _verify_cleanup_absence stop somebody's teardown of an
\* endpoint that still bills.
AbsenceHonest ==
    \A c \in ledger.cleanup : endpoints[c.id].state = "gone"

\* cleanup_planned_endpoint sends DELETE only for an endpoint this plan
\* created: never for a stranger's endpoint of the same name, nor on the word of
\* an altered receipt.
DeletesAreOwned == \A e \in deletes : endpoints[e].owner = "plan"

\* The receipt covers the endpoint's life: one of Runpod's records for every
\* hour from its creation to its removal.
Billed(r) ==
    /\ endpoints[r.id].state = "gone"
    /\ r.from <= endpoints[r.id].born /\ endpoints[r.id].died <= r.until
    /\ OneCostPerHour(r.costs, r.from, r.until)

\* A retired-endpoint receipt of an activation that saw its own create leaves
\* out no hour of the endpoint's life, whoever removed it and whenever, and
\* however the pages, the retries and the clock of activate_planned_endpoint
\* interleaved.  What Runpod records for an hour is not compared with anything.
LifecycleBilled ==
    \A r \in ledger.retired : r.reconciled \/ Billed(r)

\* retired_endpoint_billing: "Read whole-lifecycle costs after teardown".
WholeLifecycleBilled == \A r \in ledger.retired : Billed(r)

\* While the inventory shows what exists, no failure or retry makes the plan
\* own two endpoints: activate_planned_endpoint "finds the name already taken".
OnePurchase ==
    Cardinality({e \in Ids : Exists(e) /\ endpoints[e].owner = "plan"}) <= 1

\* An endpoint the plan bought is eventually gone: one whose create answered
\* with nothing, with a body that does not parse, or to a process that had
\* died, is found by its name (adopt_planned_endpoint), whether or not the
\* quote is still fresh, and then cleaned up.
EventuallyGone ==
    \A e \in Ids :
        (Exists(e) /\ endpoints[e].owner = "plan") ~> (endpoints[e].state = "gone")
=============================================================================
