----------------------------- MODULE PodCapacity -----------------------------
(***************************************************************************)
(* The catalog Pod lane: PodCapacityLeaseService run by several processes  *)
(* that share one SQLite row, one Runpod account and one capability store. *)
(*                                                                         *)
(* A process is at a label pc[p]: "idle", or the await or transaction it   *)
(* performs next.  One step is one database transaction or one external    *)
(* call, so every other process can move between two of them.  A           *)
(* transition that the code retries on conflict until the row is terminal  *)
(* (_transition_nonterminal, _transition_with_evidence) is one step on the *)
(* CURRENT row, taken for a decision made on the row read earlier.  A      *)
(* compare_and_set that is not retried succeeds only while the process is  *)
(* in `fresh', the processes whose row still carries the stored revision.  *)
(*                                                                         *)
(* The attempt is the root of its own cleanup family, created under        *)
(* artifact handoff protocol 1.                                            *)
(***************************************************************************)
EXTENDS PodCapacityLease

CONSTANTS
    Hosts,        \* tasks of admitted hosts
    Reconcilers,  \* passes of the external reconciler process
    HostOps,      \* the service methods the hosts call
    Faults        \* the failures the environment may produce

AllHostOps ==
    {"acquire", "poll", "heartbeat", "release", "request_cancellation",
     "cancel", "submit", "observe", "retrieve", "evidence", "acknowledge",
     "recover", "confirm"}

AllFaults ==
    {"crash",      \* a host process dies, at any label
     "restart",    \* the reconciler dies, at any label, and is run again
     "cancel",     \* the caller cancels an acquisition
     "ambiguous",  \* the create response is lost
     "mismatch",   \* the created Pod is not the one asked for
     "provider",   \* a Runpod call fails
     "pending",    \* Runpod does not confirm a termination
     "store",      \* the capability store fails
     "transport",  \* a call to the worker fails
     "exit",       \* the Pod stops by itself
     "runner",     \* the worker process is replaced and forgets its state
     "workfail"}   \* the workload fails

ASSUME ProcessAssumption == Hosts \cap Reconcilers = {}
ASSUME OpsAssumption == HostOps \subseteq AllHostOps
ASSUME FaultAssumption == Faults \subseteq AllFaults

Procs == Hosts \cup Reconcilers

VARIABLES
    row,      \* the pod_capacity_leases row of the attempt
    fresh,    \* processes whose row snapshot has the stored revision
    pod,      \* external: the Runpod Pod carrying the attempt's resource name
    worker,   \* external: the catalog worker in the Pod
    cap,      \* external: the bearer capability of the attempt
    clock,    \* 0, then 1 past readiness_deadline, then 2 past hard_deadline
    pc,       \* label of each process
    loc,      \* local variables of each process
    creates,  \* history: create requests sent to Runpod
    acked,    \* history: acknowledgements the worker ever accepted
    misreaped \* history: a dead reservation was reaped after its create was sent

vars == <<row, fresh, pod, worker, cap, clock, pc, loc, creates, acked, misreaped>>

Labels ==
    {"idle", "raise", "abort",
     "acq_load", "acq_reserve", "acq_start", "acq_create",
     "rdy_read", "rdy_observe", "rdy_health", "rdy_failed",
     "release", "rel_read", "rel_find", "rel_zero", "rel_mark",
     "rel_terminate", "rel_confirm", "rel_family",
     "bill_unresolved", "bill_await", "bill_zero", "revoke", "rel_final",
     "rec_reap", "rec_find", "rec_observe",
     "sub_load", "sub_call", "sub_record",
     "obs_call", "obs_record", "res_load", "res_call",
     "ack_load", "ack_call", "ack_record", "can_call"}

Locals ==
    [family  : BOOLEAN,   \* this release ends by completing the family
     wait    : BOOLEAN,   \* acquire waits for readiness, provision does not
     pending : BOOLEAN,   \* billing was pending when the row was read
     recover : BOOLEAN,   \* recover_catalog_result, not acknowledge
     unusable : BOOLEAN,  \* this release is of a Pod the poll found unusable
     obs     : Observations]  \* the worker's answer; before it, what to deliver

NewWorker == [st |-> "idle", res |-> None, ack |-> None]

NoLocals ==
    [family |-> FALSE, wait |-> FALSE, pending |-> FALSE, recover |-> FALSE,
     unusable |-> FALSE, obs |-> NewWorker]

TypeOK ==
    /\ row \in Lease
    /\ fresh \in SUBSET Procs
    /\ pod \in [st : {"none", "inflight", "live", "stopped", "gone"},
                match : BOOLEAN]
    /\ worker \in Observations
    /\ cap \in {"none", "live", "revoked"}
    /\ clock \in 0..2
    /\ pc \in [Procs -> Labels]
    /\ loc \in [Procs -> Locals]
    /\ creates \in Nat
    /\ acked \in SUBSET (Acks \cup {None})
    /\ misreaped \in BOOLEAN

Init ==
    /\ row = NoLease
    /\ fresh = {}
    /\ pod = [st |-> "none", match |-> TRUE]
    /\ worker = NewWorker
    /\ cap = "none"
    /\ clock = 0
    /\ pc = [p \in Procs |-> "idle"]
    /\ loc = [p \in Procs |-> NoLocals]
    /\ creates = 0
    /\ acked = {}
    /\ misreaped = FALSE

-----------------------------------------------------------------------------
(* Building blocks of the actions. *)

external == <<pod, worker, cap, clock>>
history == <<creates, acked, misreaped>>

At(p, label) == pc[p] = label

Fault(f) == f \in Faults

\* A host calls a service method.
Call(p, op) == p \in Hosts /\ op \in HostOps /\ At(p, "idle")

Exists == row.state # "absent"

Jump(p, label) == pc' = [pc EXCEPT ![p] = label] /\ UNCHANGED loc

End(p) ==
    /\ pc' = [pc EXCEPT ![p] = "idle"]
    /\ loc' = [loc EXCEPT ![p] = NoLocals]

\* The row is read, or not touched: the process keeps no snapshot of it.
Unwritten(p) == row' = row /\ fresh' = fresh \ {p}

\* One compare_and_set: revision + 1, so every other snapshot is stale.
Commit(r) == row' = r /\ fresh' = {}

\* Mutant: the stored revision is not compared.
UncheckedRevision(p) == TRUE

\* The revision test of a compare_and_set on the row the process read.
Unchanged(p) == p \in fresh

\* _transition_nonterminal: retried on conflict, never on a terminal row.
TransitionNonterminal(p, r) ==
    IF IsTerminal(row) THEN Unwritten(p) ELSE Commit(r)

\* _release_one returned to its caller.
Finish(p) == IF loc[p].family THEN Jump(p, "rel_family") ELSE End(p)

\* An exception leaves the operation; the reconciler records it in the row.
RaiseError(p) ==
    /\ At(p, "raise")
    /\ IF p \in Reconcilers /\ Unfinished(row) THEN Commit(row) ELSE Unwritten(p)
    /\ End(p)
    /\ UNCHANGED <<external, history>>

\* A ValueError, which no service method catches, ends the call or the pass.
AbortPass(p) ==
    /\ At(p, "abort")
    /\ Unwritten(p)
    /\ End(p)
    /\ UNCHANGED <<external, history>>

\* The process dies; what it sent is not recalled.
Crash(p) ==
    /\ pc[p] # "idle"
    /\ Fault(IF p \in Hosts THEN "crash" ELSE "restart")
    /\ Unwritten(p)
    /\ End(p)
    /\ UNCHANGED <<external, history>>

-----------------------------------------------------------------------------
(* acquire_catalog, provision_catalog and their create request. *)

Acquire(p) ==
    /\ Call(p, "acquire")
    /\ ~Exists /\ clock = 0
    /\ pc' = [pc EXCEPT ![p] = "acq_load"]
    /\ \E wait \in BOOLEAN : loc' = [loc EXCEPT ![p].wait = wait]
    /\ Unwritten(p)
    /\ UNCHANGED <<external, history>>

\* load_or_create is awaited before anything is persisted.  Another process
\* may have revoked the capability meanwhile: the store is the host's, and
\* nothing says whether it keeps a revoked one or makes a new one.
LoadCapability(p) ==
    /\ At(p, "acq_load")
    /\ cap' \in {"live", IF cap = "revoked" THEN "revoked" ELSE "live"}
    /\ Jump(p, "acq_reserve")
    /\ Unwritten(p)
    /\ UNCHANGED <<pod, worker, clock, history>>

LoadCapabilityError(p) ==
    /\ At(p, "acq_load") /\ (Fault("store") \/ Fault("cancel"))
    /\ Unwritten(p)
    /\ Jump(p, "raise")
    /\ UNCHANGED <<external, history>>

\* The same request again: only a live attempt is handed out, and renewed.
AcquireReplay(p) ==
    /\ Call(p, "acquire")
    /\ \/ row.state = "ready"
       \/ row.state = "starting" /\ row.pid /\ ~row.uncertain
    /\ Commit(Heartbeat(row))
    /\ UNCHANGED <<pc, loc, external, history>>

\* Mutant: INSERT OR REPLACE.
InsertsAlways == TRUE

\* INSERT ... ON CONFLICT DO NOTHING: did this process insert the row?
Inserts == ~Exists

\* created_at is the caller's, so the reservation may be born stale: the
\* reconciler may take it for dead although its owner is about to create.
Reserve(p) ==
    /\ At(p, "acq_reserve")
    /\ IF clock > 0
       THEN Unwritten(p) /\ Jump(p, "raise")
       ELSE IF Inserts
       THEN /\ \E hb \in {"fresh", "stale"} : row' = Reserved(hb)
            /\ fresh' = {p}
            /\ Jump(p, "acq_start")
       ELSE IF row.state = "ready"
       THEN Commit(Heartbeat(row)) /\ End(p)
       ELSE Unwritten(p) /\ Jump(p, "raise")
    /\ UNCHANGED <<external, history>>

\* The intent is persisted by a strict compare_and_set, then the POST leaves.
StartCreate(p) ==
    /\ At(p, "acq_start")
    /\ IF Unchanged(p)
       THEN /\ Commit(CreateStarting(row))
            /\ pod' = [pod EXCEPT !.st = "inflight"]
            /\ creates' = creates + 1
            /\ Jump(p, "acq_create")
       ELSE /\ Unwritten(p)
            /\ Jump(p, "raise")
            /\ UNCHANGED <<pod, creates>>
    /\ UNCHANGED <<worker, cap, clock, acked, misreaped>>

\* The provider took the request; the Pod may have been deleted since.
Accepted == pod.st \in {"live", "stopped", "gone"}

CreateReturns(p) ==
    /\ At(p, "acq_create") /\ Accepted /\ pod.match
    /\ IF AcceptedTooLate(row) /\ ~IsTerminal(row)
       THEN Unwritten(p) /\ Jump(p, "abort")
       ELSE /\ TransitionNonterminal(p, CreateAccepted(row))
            /\ IF loc[p].wait THEN Jump(p, "rdy_read") ELSE End(p)
    /\ UNCHANGED <<external, history>>

\* PodCapacityCreatedMismatchError carries the Pod's id: save it, then delete.
CreateMismatched(p) ==
    /\ At(p, "acq_create") /\ Accepted /\ ~pod.match
    /\ IF AcceptedTooLate(row) /\ ~IsTerminal(row)
       THEN Unwritten(p) /\ Jump(p, "abort")
       ELSE TransitionNonterminal(p, CreateMismatch(row)) /\ Jump(p, "rel_read")
    /\ UNCHANGED <<external, history>>

\* RunPodAmbiguousResultError: the Pod may exist, or may exist later.
CreateAmbiguous(p) ==
    /\ At(p, "acq_create") /\ Fault("ambiguous")
    /\ TransitionNonterminal(p, RetryableCreate(row))
    /\ Jump(p, "raise")
    /\ UNCHANGED <<external, history>>

\* Any other create error: the provider did not accept a Pod.
CreateRefused(p) ==
    /\ At(p, "acq_create") /\ pod.st = "inflight"
    /\ pod' = [pod EXCEPT !.st = "none"]
    /\ IF IsTerminal(row)
       THEN Unwritten(p) /\ Jump(p, IF row.billing = "authoritative" THEN "revoke" ELSE "raise")
       ELSE IF row.receipt # "none"
       THEN Unwritten(p) /\ Jump(p, "raise")
       ELSE Commit(CreateRejected(row)) /\ Jump(p, "revoke")
    /\ UNCHANGED <<worker, cap, clock, history>>

\* await_owned_effect joins the POST before the cancellation is delivered.
CreateCancelled(p) ==
    /\ At(p, "acq_create") /\ Fault("cancel") /\ Accepted
    /\ Unwritten(p)
    /\ Jump(p, "rel_read")
    /\ UNCHANGED <<external, history>>

-----------------------------------------------------------------------------
(* The readiness poll. *)

\* poll_catalog_readiness: one observation, after a heartbeat.
Poll(p) ==
    /\ Call(p, "poll")
    /\ row.state = "starting" /\ row.pid /\ ~row.uncertain
    /\ Commit(Heartbeat(row))
    /\ Jump(p, "rdy_read")
    /\ UNCHANGED <<external, history>>

ReadinessRead(p) ==
    /\ At(p, "rdy_read")
    /\ Unwritten(p)
    /\ IF row.state # "starting" THEN End(p)
       ELSE Jump(p, IF clock > 0 THEN "rel_read" ELSE "rdy_observe")
    /\ UNCHANGED <<external, history>>

\* Mutant: the writes of the poll carry no expected_states.
StartingAssumed == Exists

\* expected_states of the writes of the poll: a stop is never overwritten.
StillStarting == row.state = "starting"

\* acquire sleeps and polls again; poll_catalog_readiness returns.
PollAgain(p) == IF loc[p].wait THEN Jump(p, "rdy_read") ELSE End(p)

ReadinessRunning(p) ==
    /\ At(p, "rdy_observe") /\ Accepted
    /\ IF StillStarting
       THEN Commit(RouteObserved(row, TRUE)) /\ Jump(p, "rdy_health")
       ELSE Unwritten(p) /\ End(p)
    /\ UNCHANGED <<external, history>>

ReadinessNotYet(p) ==
    /\ At(p, "rdy_observe") /\ Accepted
    /\ IF StillStarting
       THEN Commit(RouteObserved(row, FALSE)) /\ PollAgain(p)
       ELSE Unwritten(p) /\ End(p)
    /\ UNCHANGED <<external, history>>

ReadinessUnusable(p) ==
    /\ At(p, "rdy_observe") /\ pod.st \in {"stopped", "gone"}
    /\ IF StillStarting
       THEN /\ Commit(RouteObserved(row, FALSE))
            /\ pc' = [pc EXCEPT ![p] = "rel_read"]
            /\ loc' = [loc EXCEPT ![p].unusable = TRUE]
       ELSE Unwritten(p) /\ End(p)
    /\ UNCHANGED <<external, history>>

\* An error of the billing or the capability store in that release is caught
\* by the poll it runs in, which records a failure and releases once more.
ReadinessFailed(p) ==
    /\ At(p, "rdy_failed")
    /\ TransitionNonterminal(p, RetryableFailure(row))
    /\ pc' = [pc EXCEPT ![p] = "rel_read"]
    /\ loc' = [loc EXCEPT ![p].unusable = FALSE]
    /\ UNCHANGED <<external, history>>

\* A failed observation tears down whatever the row has become meanwhile.
ReadinessError(p) ==
    /\ At(p, "rdy_observe") /\ (Fault("provider") \/ pod.st = "gone")
    /\ TransitionNonterminal(p, RetryableFailure(row))
    /\ Jump(p, "rel_read")
    /\ UNCHANGED <<external, history>>

HealthOk(p) ==
    /\ At(p, "rdy_health") /\ pod.st = "live"
    /\ IF ~StillStarting
       THEN Unwritten(p) /\ End(p)
       ELSE IF clock > 0
       THEN Unwritten(p) /\ Jump(p, "rel_read")
       ELSE Commit(WorkerReady(row)) /\ End(p)
    /\ UNCHANGED <<external, history>>

HealthFails(p) ==
    /\ At(p, "rdy_health") /\ (Fault("transport") \/ pod.st # "live")
    /\ IF StillStarting
       THEN Commit(Heartbeat(row)) /\ PollAgain(p)
       ELSE Unwritten(p) /\ End(p)
    /\ UNCHANGED <<external, history>>

ReadinessCancelled(p) ==
    /\ pc[p] \in {"rdy_observe", "rdy_health"} /\ Fault("cancel")
    /\ Unwritten(p)
    /\ Jump(p, "rel_read")
    /\ UNCHANGED <<external, history>>

-----------------------------------------------------------------------------
(* release and _release_one: stop the Pod, settle its cost, end the lease. *)

\* Where _reconcile_billing goes on the row r it was given.
BillingStep(r) ==
    CASE r.billing = "authoritative"  -> "revoke"
      [] ~r.pid /\ r.uncertain        -> "bill_unresolved"
      [] ~r.pid /\ ~r.uncertain       -> "bill_zero"
      [] r.pid /\ ~r.terminated       -> "raise"
      [] r.pid /\ r.terminated /\ ~r.realized -> "bill_unresolved"
      [] OTHER                        -> "bill_await"

\* Enter _reconcile_billing holding the row r, which has the stored revision.
EnterBilling(p, r, others) ==
    /\ pc' = [pc EXCEPT ![p] = BillingStep(r)]
    /\ loc' = [loc EXCEPT ![p].pending = (r.billing = "pending")]
    /\ fresh' = (others \ {p}) \cup
                    (IF BillingStep(r) \in {"bill_unresolved", "bill_await"}
                     THEN {p} ELSE {})

Release(p) ==
    /\ Call(p, "release") /\ Exists
    /\ Unwritten(p)
    /\ Jump(p, "release")
    /\ UNCHANGED <<external, history>>

\* _mark_family_release_requested, then _release_one for the member.
MarkFamily(p) ==
    /\ At(p, "release")
    /\ IF row.famReq THEN Unwritten(p) ELSE Commit(FamilyRequested(row))
    /\ pc' = [pc EXCEPT ![p] = "rel_read"]
    /\ loc' = [loc EXCEPT ![p] = [NoLocals EXCEPT !.family = TRUE]]
    /\ UNCHANGED <<external, history>>

\* A confirmed teardown whose cost is still open is not repeated.
AwaitsBilling(r) ==
    r.cleanup = "complete" /\ r.terminated /\ r.billing \in {"pending", "unresolved"}

ReleaseRead(p) ==
    /\ At(p, "rel_read")
    /\ row' = row
    /\ IF ~IsTerminal(row) /\ AwaitsBilling(row)
       THEN EnterBilling(p, row, fresh)
       ELSE /\ fresh' = fresh \ {p}
            /\ IF IsTerminal(row) THEN Finish(p)
               ELSE Jump(p, CASE ~row.pid /\ row.uncertain           -> "rel_find"
                              [] ~row.pid /\ ~row.uncertain          -> "rel_zero"
                              [] row.pid /\ row.state # "releasing" -> "rel_mark"
                              [] OTHER                              -> "rel_terminate")
    /\ UNCHANGED <<external, history>>

\* No Pod was ever created: a zero receipt, unless one is already recorded.
ReleaseZero(p) ==
    /\ At(p, "rel_zero")
    /\ IF IsTerminal(row)
       THEN Unwritten(p) /\ Jump(p, IF row.billing = "authoritative" THEN "revoke" ELSE "raise")
       ELSE IF row.receipt # "none"
       THEN Unwritten(p) /\ Jump(p, "raise")
       ELSE Commit(NoPodReceipt(row)) /\ Jump(p, "revoke")
    /\ UNCHANGED <<external, history>>

ReleaseMark(p) ==
    /\ At(p, "rel_mark")
    /\ TransitionNonterminal(p, Releasing(row))
    /\ IF IsTerminal(row) THEN Finish(p) ELSE Jump(p, "rel_terminate")
    /\ UNCHANGED <<external, history>>

\* stop_attempts is counted, then the Pod is deleted and deletion confirmed.
Terminate(p) ==
    /\ At(p, "rel_terminate")
    /\ TransitionNonterminal(p, row)
    /\ IF IsTerminal(row)
       THEN Finish(p) /\ UNCHANGED pod
       ELSE pod' = [pod EXCEPT !.st = "gone"] /\ Jump(p, "rel_confirm")
    /\ UNCHANGED <<worker, cap, clock, history>>

TerminatePending(p) ==
    /\ At(p, "rel_terminate") /\ Fault("pending") /\ ~IsTerminal(row)
    /\ Commit(StopPending(row))
    /\ Jump(p, "raise")
    /\ UNCHANGED <<external, history>>

TerminateError(p) ==
    /\ At(p, "rel_terminate") /\ Fault("provider") /\ ~IsTerminal(row)
    /\ Commit(RetryableFailure(row))
    /\ \E st \in {pod.st, "gone"} : pod' = [pod EXCEPT !.st = st]
    /\ Jump(p, "raise")
    /\ UNCHANGED <<worker, cap, clock, history>>

ConfirmStop(p) ==
    /\ At(p, "rel_confirm")
    /\ IF IsTerminal(row)
       THEN row' = row /\ EnterBilling(p, row, fresh)
       ELSE row' = StopConfirmed(row) /\ EnterBilling(p, StopConfirmed(row), {})
    /\ UNCHANGED <<external, history>>

\* _mark_family_release_complete.
CompleteFamily(p) ==
    /\ At(p, "rel_family")
    /\ IF row.famDone THEN Unwritten(p) ELSE Commit(FamilyComplete(row))
    /\ End(p)
    /\ UNCHANGED <<external, history>>

-----------------------------------------------------------------------------
(* _resolve_uncertain_creation. *)

Visible == pod.st \in {"live", "stopped"}

\* Where the caller of the lookup goes on the row r it returned.
AfterLookup(p, r) ==
    IF At(p, "rec_find")
    THEN IF r.pid THEN Jump(p, "rel_read") ELSE End(p)
    ELSE Jump(p, CASE ~r.pid /\ r.uncertain  -> "raise"
                   [] ~r.pid /\ ~r.uncertain -> "rel_zero"
                   [] OTHER                 -> "rel_mark")

\* A placement already realized was dated differently, which is a conflict.
FindFound(p) ==
    /\ pc[p] \in {"rel_find", "rec_find"} /\ Visible /\ pod.match
    /\ IF IsTerminal(row)
       THEN Unwritten(p) /\ AfterLookup(p, row)
       ELSE IF AdoptedTooLate(row)
       THEN Unwritten(p) /\ Jump(p, "abort")
       ELSE IF row.realized
       THEN Unwritten(p) /\ Jump(p, "raise")
       ELSE Commit(Adopted(row)) /\ AfterLookup(p, Adopted(row))
    /\ UNCHANGED <<external, history>>

\* Nothing visible: a slow create may still land, so the claim is kept.
FindAbsent(p) ==
    /\ pc[p] \in {"rel_find", "rec_find"} /\ ~Visible
    /\ TransitionNonterminal(p, AwaitingCreate(row))
    /\ AfterLookup(p, row)
    /\ UNCHANGED <<external, history>>

FindError(p) ==
    /\ pc[p] \in {"rel_find", "rec_find"}
    /\ Fault("provider") \/ (Visible /\ ~pod.match)
    /\ TransitionNonterminal(p, RetryableCreate(row))
    /\ AfterLookup(p, IF IsTerminal(row) THEN row ELSE RetryableCreate(row))
    /\ UNCHANGED <<external, history>>

-----------------------------------------------------------------------------
(* _reconcile_billing and _revoke_and_release. *)

\* An error that is no lifecycle error leaves _release_one.
SettlementFails(p) == Jump(p, IF loc[p].unusable THEN "rdy_failed" ELSE "raise")

\* A strict compare_and_set on the row the process holds.
BillUnresolved(p) ==
    /\ At(p, "bill_unresolved")
    /\ IF Unchanged(p)
       THEN Commit(BillingUnresolved(row)) /\ Finish(p)
       ELSE Unwritten(p) /\ SettlementFails(p)
    /\ UNCHANGED <<external, history>>

\* final_billing has no closed record yet.
BillNotYet(p) ==
    /\ At(p, "bill_await")
    /\ IF loc[p].pending
       THEN Unwritten(p) /\ Finish(p)
       ELSE IF Unchanged(p)
       THEN Commit([row EXCEPT !.billing = "pending"]) /\ Finish(p)
       ELSE Unwritten(p) /\ SettlementFails(p)
    /\ UNCHANGED <<external, history>>

\* A receipt is dated when it is made, so a second one always differs from
\* the first and is refused; the recorded one then decides.
BillReceipt(p) ==
    /\ pc[p] \in {"bill_await", "bill_zero"}
    /\ IF IsTerminal(row) \/ row.receipt # "none"
       THEN Unwritten(p) /\ IF row.billing = "authoritative" THEN Jump(p, "revoke") ELSE SettlementFails(p)
       ELSE /\ Commit(Billed(row, IF At(p, "bill_zero") THEN "zero" ELSE "billed"))
            /\ Jump(p, "revoke")
    /\ UNCHANGED <<external, history>>

BillError(p) ==
    /\ At(p, "bill_await") /\ Fault("provider")
    /\ Unwritten(p)
    /\ SettlementFails(p)
    /\ UNCHANGED <<external, history>>

Revoke(p) ==
    /\ At(p, "revoke")
    /\ cap' = "revoked"
    /\ Unwritten(p)
    /\ Jump(p, "rel_final")
    /\ UNCHANGED <<pod, worker, clock, history>>

RevokeError(p) ==
    /\ At(p, "revoke") /\ Fault("store")
    /\ Unwritten(p)
    /\ SettlementFails(p)
    /\ UNCHANGED <<external, history>>

\* The row is read again after the revocation; only "terminal" is tested.
FinalRelease(p) ==
    /\ At(p, "rel_final")
    /\ TransitionNonterminal(p, Released(row))
    /\ Finish(p)
    /\ UNCHANGED <<external, history>>

-----------------------------------------------------------------------------
(* reconcile: one pass is run by a timer, or by the host at start-up. *)

\* A family release that did not complete is resumed first.
ReconcileFamily(p) ==
    /\ p \in Reconcilers /\ At(p, "idle")
    /\ Exists /\ row.famReq /\ ~row.famDone
    /\ Unwritten(p)
    /\ Jump(p, "release")
    /\ UNCHANGED <<external, history>>

Stale == row.hb = "stale"

\* A reservation whose owner disappeared before it persisted its intent.
Unstarted == row.state = "requested" /\ (Stale \/ clock > 0)

\* Mutant: only a missing heartbeat opens the lookup, no deadline.
LookupOnlyStale == Stale

\* A live owner waits for its create: nobody else may look for the Pod.
LookupAllowed == Stale \/ clock = 2

\* What _reconcile_one does next about the row it reads.
ReconcileStep ==
    CASE Unstarted -> "rec_reap"
      [] ~Unstarted /\ row.state = "requested" -> "idle"
      [] row.state # "requested" /\ ~row.pid /\ row.uncertain ->
           IF LookupAllowed THEN "rec_find" ELSE "idle"
      [] OTHER ->
           IF row.state \in {"releasing", "cancel_requested", "reconcile_required",
                             "result_retrieved"} \/ clock = 2
           THEN "rel_read"
           ELSE IF row.state = "job_submitted"
           THEN IF row.url THEN "obs_call" ELSE "raise"
           ELSE IF row.state \in {"starting", "ready"}
           THEN IF Stale THEN "rel_read" ELSE "rec_observe"
           ELSE "idle"

ReconcileOne(p) ==
    /\ p \in Reconcilers /\ At(p, "idle")
    /\ Unfinished(row)
    /\ row' = row
    /\ IF IsTerminal(row)
       THEN EnterBilling(p, row, fresh)
       ELSE /\ ReconcileStep # "idle"
            /\ Jump(p, ReconcileStep)
            /\ fresh' = IF ReconcileStep = "rec_observe" THEN fresh \cup {p} ELSE fresh
    /\ UNCHANGED <<external, history>>

\* The zero receipt of a dead reservation; the states the transition may
\* overwrite are not restricted, so the create may have been sent since the
\* row was read.  A Pod recorded since makes it a ValueError.
Reap(p) ==
    /\ At(p, "rec_reap")
    /\ IF IsTerminal(row)
       THEN Unwritten(p) /\ Jump(p, IF row.billing = "authoritative" THEN "revoke" ELSE "raise")
       ELSE IF row.receipt # "none"
       THEN Unwritten(p) /\ Jump(p, "raise")
       ELSE IF row.accepted \/ row.adopted
       THEN Unwritten(p) /\ Jump(p, "abort")
       ELSE Commit(ZeroReceipt(row)) /\ Jump(p, "revoke")
    /\ misreaped' = (misreaped \/ (creates > 0 /\ row' # row))
    /\ UNCHANGED <<external, creates, acked>>

ObserveStopped(p) ==
    /\ At(p, "rec_observe") /\ pod.st \in {"stopped", "gone"}
    /\ IF IsTerminal(row)
       THEN row' = row /\ EnterBilling(p, row, fresh)
       ELSE row' = FoundStopped(row) /\ EnterBilling(p, FoundStopped(row), {})
    /\ UNCHANGED <<external, history>>

\* stop_confirmed_at is the clock read before the observation: a lifecycle
\* time that another process recorded meanwhile makes it a ValueError.
ObserveStoppedTooLate(p) ==
    /\ At(p, "rec_observe") /\ pod.st \in {"stopped", "gone"}
    /\ ~Unchanged(p) /\ ~row.terminated
    /\ Unwritten(p)
    /\ Jump(p, "abort")
    /\ UNCHANGED <<external, history>>

\* A strict compare_and_set of the route.
ObserveRoute(p) ==
    /\ At(p, "rec_observe") /\ Accepted
    /\ IF Unchanged(p)
       THEN (\E route \in BOOLEAN : Commit([row EXCEPT !.url = route])) /\ End(p)
       ELSE Unwritten(p) /\ Jump(p, "raise")
    /\ UNCHANGED <<external, history>>

ObserveError(p) ==
    /\ At(p, "rec_observe") /\ (Fault("provider") \/ pod.st = "gone")
    /\ Unwritten(p)
    /\ Jump(p, "raise")
    /\ UNCHANGED <<external, history>>

-----------------------------------------------------------------------------
(* The workload: submit, observe, retrieve, cancel. *)

BeforeHardDeadline == clock < 2

\* _submission_lease.
Submittable == row.state \in {"ready", "job_submitted"} /\ BeforeHardDeadline

Submit(p) ==
    /\ Call(p, "submit") /\ Submittable
    /\ Unwritten(p)
    /\ Jump(p, "sub_load")
    /\ UNCHANGED <<external, history>>

\* The capability was loaded; the lease is examined again before dispatch.
SubmitDispatch(p) ==
    /\ At(p, "sub_load")
    /\ Unwritten(p)
    /\ Jump(p, IF cap = "live" /\ Submittable /\ row.url THEN "sub_call" ELSE "raise")
    /\ UNCHANGED <<external, history>>

\* The worker answered with what it is doing now.
Answer(p, w, label) ==
    /\ pc' = [pc EXCEPT ![p] = label]
    /\ loc' = [loc EXCEPT ![p].obs = w]

\* The worker starts once and answers every replay with its current state.
SubmitCall(p) ==
    /\ At(p, "sub_call") /\ pod.st = "live"
    /\ LET w == IF worker.st = "idle" THEN [worker EXCEPT !.st = "running"] ELSE worker
       IN  worker' = w /\ Answer(p, w, "sub_record")
    /\ Unwritten(p)
    /\ UNCHANGED <<pod, cap, clock, history>>

\* The call does not reach the worker.
WorkerUnreachable(p) ==
    /\ pc[p] \in {"sub_call", "obs_call", "res_call", "ack_call"}
    /\ \/ Fault("transport") \/ pod.st # "live" \/ cap # "live"
       \/ At(p, "res_call") /\ worker.res = None
    /\ Unwritten(p)
    /\ Jump(p, "raise")
    /\ UNCHANGED <<external, history>>

\* The worker acted but its answer is lost.
AnswerLost(p) ==
    /\ pc[p] \in {"sub_record", "obs_record", "ack_record"}
    /\ Fault("transport")
    /\ Unwritten(p)
    /\ Jump(p, "raise")
    /\ UNCHANGED <<external, history>>

\* observe_catalog_workload: the route is taken before the capability is loaded.
Observe(p) ==
    /\ Call(p, "observe") /\ Exists /\ row.url
    /\ Unwritten(p)
    /\ Jump(p, "obs_call")
    /\ UNCHANGED <<external, history>>

ObserveCall(p) ==
    /\ At(p, "obs_call") /\ pod.st = "live" /\ cap = "live"
    /\ Answer(p, worker, "obs_record")
    /\ Unwritten(p)
    /\ UNCHANGED <<external, history>>

\* _record_catalog_observation, on the row as it is now.
RecordObservation(p, o) ==
    LET submitting == At(p, "sub_record")
        after == IF submitting THEN WithSubmission(row, o) ELSE WithObservation(row, o)
    IN  IF ObservationConflicts(row, o)
        THEN Unwritten(p) /\ Jump(p, "raise")
        ELSE IF submitting /\ SubmittedTooLate(row, o)
        THEN Unwritten(p) /\ Jump(p, "abort")
        ELSE /\ IF ProofOnly(row, o) /\ after = row THEN Unwritten(p) ELSE Commit(after)
             /\ IF At(p, "obs_record") /\ after.wl \in {"cancel_requested", "failed", "cancelled"}
                THEN Jump(p, "release") ELSE End(p)

Record(p) ==
    /\ pc[p] \in {"sub_record", "obs_record", "ack_record"}
    /\ RecordObservation(p, loc[p].obs)
    /\ UNCHANGED <<external, history>>

Retrieve(p) ==
    /\ Call(p, "retrieve") /\ CatalogResultReady(row)
    /\ Unwritten(p)
    /\ Jump(p, "res_load")
    /\ UNCHANGED <<external, history>>

RetrieveDispatch(p) ==
    /\ At(p, "res_load")
    /\ IF cap # "live" \/ IsTerminal(row)
       THEN Unwritten(p) /\ Jump(p, "raise")
       ELSE Commit(Heartbeat(row)) /\ Jump(p, IF row.url THEN "res_call" ELSE "raise")
    /\ UNCHANGED <<external, history>>

\* A result that arrives after a cancellation is dropped and the Pod released.
RetrieveCall(p) ==
    /\ At(p, "res_call") /\ pod.st = "live" /\ worker.res # None
    /\ Unwritten(p)
    /\ IF row.wl = "cancel_requested" THEN Jump(p, "release")
       ELSE IF worker.res # row.result THEN Jump(p, "raise") ELSE End(p)
    /\ UNCHANGED <<external, history>>

RecordEvidence(p) ==
    /\ Call(p, "evidence") /\ CatalogResultReady(row)
    /\ ~IsTerminal(row) /\ ~row.worker
    /\ Commit([Heartbeat(row) EXCEPT !.worker = TRUE])
    /\ UNCHANGED <<pc, loc, external, history>>

HeartbeatCall(p) ==
    /\ Call(p, "heartbeat") /\ Exists /\ ~IsTerminal(row)
    /\ Commit(Heartbeat(row))
    /\ UNCHANGED <<pc, loc, external, history>>

RequestCancellation(p) ==
    /\ Call(p, "request_cancellation") /\ Exists /\ ~IsTerminal(row)
    /\ Commit(CancelRequested(row))
    /\ UNCHANGED <<pc, loc, external, history>>

\* The intent is persisted first; without a route the worker is not told.
Cancel(p) ==
    /\ Call(p, "cancel") /\ Exists /\ ~IsTerminal(row)
    /\ Commit(CancelRequested(row))
    /\ Jump(p, IF row.url THEN "can_call" ELSE "release")
    /\ UNCHANGED <<external, history>>

CancelCall(p) ==
    /\ At(p, "can_call") /\ pod.st = "live" /\ cap = "live"
    /\ worker' = IF worker.st = "running" THEN [worker EXCEPT !.st = "cancel_requested"]
                 ELSE worker
    /\ Unwritten(p)
    /\ Jump(p, "release")
    /\ UNCHANGED <<pod, cap, clock, history>>

\* record_operation_error, and the release goes on all the same.
CancelError(p) ==
    /\ At(p, "can_call") /\ (Fault("transport") \/ pod.st # "live" \/ cap # "live")
    /\ TransitionNonterminal(p, Heartbeat(row))
    /\ Jump(p, "release")
    /\ UNCHANGED <<external, history>>

-----------------------------------------------------------------------------
(* The artifact handoff: acknowledge, recover, and the host's confirmation. *)

\* _require_catalog_ack_admission.
AckAdmissible ==
    row.state = "job_completed" /\ CatalogResultReady(row) /\ BeforeHardDeadline

AckOps == {"acknowledge", "recover"}

\* The intent is bound and persisted before the worker hears of it.  An
\* acknowledgement already proved is a replay and changes nothing.
Acknowledge(p) ==
    \E op \in AckOps, a \in Acks :
        /\ Call(p, op)
        /\ AckBinds(row, a) /\ ~row.remoteAck /\ AckAdmissible
        /\ Commit([row EXCEPT !.ack = a])
        /\ pc' = [pc EXCEPT ![p] = "ack_load"]
        /\ loc' = [loc EXCEPT ![p].recover = (op = "recover"),
                             ![p].obs = [st |-> "acknowledged", res |-> row.result, ack |-> a]]
        /\ UNCHANGED <<external, history>>

\* The capability was loaded; a stop that came meanwhile refuses the dispatch.
AckDispatch(p) ==
    /\ At(p, "ack_load")
    /\ Unwritten(p)
    /\ Jump(p, IF cap = "live" /\ AckAdmissible /\ row.url THEN "ack_call" ELSE "raise")
    /\ UNCHANGED <<external, history>>

\* External: a worker acknowledges the result it holds, once; a replaced one
\* takes result and acknowledgement from the recovery payload.
WorkerAccepts(w, want, recover) ==
    \/ w = want
    \/ w.st = "awaiting_ack" /\ w.res = want.res
    \/ recover /\ w.st = "idle"

AckCall(p) ==
    /\ At(p, "ack_call") /\ pod.st = "live"
    /\ IF WorkerAccepts(worker, loc[p].obs, loc[p].recover)
       THEN /\ worker' = loc[p].obs
            /\ acked' = acked \cup {loc[p].obs.ack}
            /\ Jump(p, "ack_record")
       ELSE Jump(p, "raise") /\ UNCHANGED <<worker, acked>>
    /\ Unwritten(p)
    /\ UNCHANGED <<pod, cap, clock, creates, misreaped>>

\* release_catalog_result: the host declares that it committed this ack.
Confirm(p) ==
    \E a \in Acks :
        /\ Call(p, "confirm")
        /\ row.remoteAck /\ row.ack = a /\ CatalogResultReady(row) /\ ~IsTerminal(row)
        /\ \/ row.state = "job_completed" /\ Commit(HostConfirmed(row))
           \/ row.state \in {"result_retrieved", "releasing"} /\ row.hostConf /\ Unwritten(p)
        /\ Jump(p, "release")
        /\ UNCHANGED <<external, history>>

-----------------------------------------------------------------------------
(* The environment: provider, worker and time. *)

Inside == <<row, fresh, pc, loc, history>>

ProviderAccepts ==
    /\ pod.st = "inflight"
    /\ \E m \in (IF Fault("mismatch") THEN BOOLEAN ELSE {TRUE}) :
          pod' = [st |-> "live", match |-> m]
    /\ UNCHANGED <<worker, cap, clock, Inside>>

\* A request nobody waits for any more is refused.
ProviderDrops ==
    /\ pod.st = "inflight" /\ \A p \in Procs : ~At(p, "acq_create")
    /\ pod' = [pod EXCEPT !.st = "none"]
    /\ UNCHANGED <<worker, cap, clock, Inside>>

PodExits ==
    /\ Fault("exit") /\ pod.st = "live"
    /\ pod' = [pod EXCEPT !.st = "stopped"]
    /\ UNCHANGED <<worker, cap, clock, Inside>>

WorkerStep ==
    /\ pod.st = "live"
    /\ \/ /\ worker.st = "running"
          /\ \E r \in Results : worker' = [worker EXCEPT !.st = "awaiting_ack", !.res = r]
       \/ /\ worker.st = "running" /\ Fault("workfail")
          /\ worker' = [worker EXCEPT !.st = "failed"]
       \/ /\ worker.st = "cancel_requested"
          /\ worker' = [worker EXCEPT !.st = "cancelled"]
    /\ UNCHANGED <<pod, cap, clock, Inside>>

RunnerReplaced ==
    /\ Fault("runner") /\ pod.st = "live" /\ worker # NewWorker
    /\ worker' = NewWorker
    /\ UNCHANGED <<pod, cap, clock, Inside>>

Tick ==
    /\ clock < 2
    /\ clock' = clock + 1
    /\ UNCHANGED <<pod, worker, cap, Inside>>

\* The idle timeout runs out since the last heartbeat.
Age ==
    /\ Exists /\ ~IsTerminal(row) /\ ~Stale
    /\ row' = [row EXCEPT !.hb = "stale"]
    /\ UNCHANGED <<fresh, pc, loc, external, history>>

-----------------------------------------------------------------------------
AcquireStep(p) ==
    \/ Acquire(p) \/ LoadCapability(p) \/ LoadCapabilityError(p) \/ AcquireReplay(p) \/ Reserve(p) \/ StartCreate(p)
    \/ CreateReturns(p) \/ CreateMismatched(p) \/ CreateAmbiguous(p)
    \/ CreateRefused(p) \/ CreateCancelled(p)

ReadinessStep(p) ==
    \/ Poll(p) \/ ReadinessRead(p) \/ ReadinessRunning(p) \/ ReadinessNotYet(p)
    \/ ReadinessUnusable(p) \/ ReadinessFailed(p) \/ ReadinessError(p) \/ HealthOk(p) \/ HealthFails(p)
    \/ ReadinessCancelled(p)

ReleaseStep(p) ==
    \/ Release(p) \/ MarkFamily(p) \/ ReleaseRead(p) \/ ReleaseZero(p)
    \/ ReleaseMark(p) \/ Terminate(p) \/ TerminatePending(p) \/ TerminateError(p)
    \/ ConfirmStop(p) \/ CompleteFamily(p)
    \/ FindFound(p) \/ FindAbsent(p) \/ FindError(p)

BillingStepOf(p) ==
    \/ BillUnresolved(p) \/ BillNotYet(p) \/ BillReceipt(p) \/ BillError(p)
    \/ Revoke(p) \/ RevokeError(p) \/ FinalRelease(p)

ReconcilerStep(p) ==
    \/ ReconcileFamily(p) \/ ReconcileOne(p) \/ Reap(p)
    \/ ObserveStopped(p) \/ ObserveStoppedTooLate(p) \/ ObserveRoute(p) \/ ObserveError(p)

WorkloadStep(p) ==
    \/ Submit(p) \/ SubmitDispatch(p) \/ SubmitCall(p) \/ WorkerUnreachable(p)
    \/ AnswerLost(p) \/ Observe(p) \/ ObserveCall(p) \/ Record(p)
    \/ Retrieve(p) \/ RetrieveDispatch(p) \/ RetrieveCall(p) \/ RecordEvidence(p)
    \/ HeartbeatCall(p) \/ RequestCancellation(p)
    \/ Cancel(p) \/ CancelCall(p) \/ CancelError(p)

HandoffStep(p) == Acknowledge(p) \/ AckDispatch(p) \/ AckCall(p) \/ Confirm(p)

ProcessStep(p) ==
    \/ AcquireStep(p) \/ ReadinessStep(p) \/ ReleaseStep(p) \/ BillingStepOf(p)
    \/ ReconcilerStep(p) \/ WorkloadStep(p) \/ HandoffStep(p)
    \/ RaiseError(p) \/ AbortPass(p)

Environment ==
    \/ ProviderAccepts \/ ProviderDrops \/ PodExits
    \/ WorkerStep \/ RunnerReplaced \/ Tick \/ Age

Next == Environment \/ \E p \in Procs : ProcessStep(p) \/ Crash(p)

Spec == Init /\ [][Next]_vars

\* Time passes, Runpod answers the create, and a timer runs the reconciler,
\* whose calls return.  Nothing is assumed of the hosts.
ReconcilerFairness ==
    /\ WF_vars(Tick)
    /\ WF_vars(ProviderAccepts \/ ProviderDrops)
    /\ \A p \in Reconcilers : WF_vars(ProcessStep(p))

TeardownSpec == Spec /\ ReconcilerFairness

\* In addition a bill is closed and the capability store answers, eventually.
SettlementSpec ==
    /\ TeardownSpec
    /\ \A p \in Procs : WF_vars(ProcessStep(p)) /\ SF_vars(BillReceipt(p)) /\ SF_vars(Revoke(p))

-----------------------------------------------------------------------------
(* Properties. *)

\* Whatever processes race, crash and retry, at most one create request is
\* sent to Runpod for the attempt: reserve() before compare_and_set before POST.
SingleCreate == creates <= 1

\* Why: a process that still holds the revision it reserved under is the only
\* one, and nothing has been sent.
CreateInv ==
    /\ creates <= 1
    /\ ~Exists => creates = 0
    /\ \A q \in fresh : At(q, "acq_start") => row.state = "requested" /\ creates = 0

\* A Pod that is billed, or a create that may still become one, always has a
\* row the reconciler will visit.  The one teardown path that ends a lease too
\* early is _reconcile_one over a reservation it read as dead, whose owner sent
\* its create before the write: the write tests no state.
Billable == pod.st \in {"inflight", "live"}
NoStrandedPod == Billable /\ ~misreaped => Exists /\ ~IsTerminal(row)

\* A zero receipt (_zero_cost_receipt) is never written for an attempt that
\* has, had or can still get a Pod, on any path but that reap.
ZeroReceiptHonest == row.receipt = "zero" /\ ~misreaped => pod.st = "none"

\* The bearer capability is revoked only when no Pod can present it, on any
\* path but that reap.
RevokedAfterTeardown == cap = "revoked" /\ ~misreaped => ~Billable

\* The same without the exception, which the code does not guarantee: that reap
\* is a counterexample (see README).
PodNeverStranded == Billable => Exists /\ ~IsTerminal(row)

\* Once a stop, a failure or a release is persisted, no poll, observation or
\* late create response makes the lease usable again; RELEASED is final.
StopIsForever ==
    [][/\ Exists /\ ~Active(row) => Exists' /\ ~Active(row')
       /\ IsTerminal(row) => IsTerminal(row')]_vars

\* The service deletes the Pod only after a stop has been persisted.
TeardownIsPersisted ==
    [][pod.st \in {"live", "stopped"} /\ pod'.st = "gone" => ~Active(row)]_vars

\* Why: whoever is about to delete the Pod acts under a persisted stop.
TeardownInv == \A q \in Procs : At(q, "rel_terminate") => Exists /\ ~Active(row)

\* The worker learns of one acknowledgement at most, and only of one that the
\* row already binds.
IntentBeforeDelivery == acked \subseteq {row.ack}

\* Remote proof and host confirmation are facts: the worker accepted exactly
\* this acknowledgement, for the result that the row records.
HandoffSound ==
    /\ row.remoteAck => row.ack \in acked /\ row.result # None
    /\ row.hostConf => row.remoteAck

\* Answers recorded out of order never move the workload back: a late poll
\* does not restart a finished job or undo an acknowledgement.
PhaseNeverRegresses == [][Rank(row'.wl) >= Rank(row.wl)]_vars

\* A recorded result, acknowledgement, proof or confirmation never changes.
HandoffWriteOnce ==
    [][/\ row.result # None => row'.result = row.result
       /\ row.ack # None => row'.ack = row.ack
       /\ row.remoteAck => row'.remoteAck
       /\ row.hostConf => row'.hostConf]_vars

\* Whatever the hosts do or fail to do, a Pod (or a create still on its way)
\* does not stay: the reconciler finds it by name or by id and deletes it,
\* unless it wrote the attempt off itself, as a dead reservation.
PodEventuallyGone == Billable ~> ~Billable \/ misreaped

\* An attempt that was reserved is eventually settled.
EventuallySettled == Exists ~> SettlementReady(row)

\* CATALOG_POD_CAPACITY.md: the host's declaration is the destructive boundary.
\* A finished result is deleted only after it, or past the hard deadline.
ResultKept ==
    [][pod.st = "live" /\ pod'.st = "gone" /\ CatalogResultReady(row)
       => row.hostConf \/ clock = 2]_vars

\* README: RELEASED is not recorded before the cost is authoritative.
ReleasedIsSettled == IsTerminal(row) => SettlementReady(row)

\* No ValueError escapes a reconcile pass.
PassNeverAborts == \A p \in Reconcilers : ~At(p, "abort")

\* The lease and its Pod, as LeaseAuthority sees them.
ClaimOf(r) ==
    CASE r.state = "absent" -> "none"
      [] IsTerminal(r)      -> "ended"
      [] Active(r)          -> "open"
      [] OTHER              -> "closing"

ResourceOf(st, requests) ==
    CASE st = "none"     -> IF requests = 0 THEN "none" ELSE "refused"
      [] st = "inflight" -> "requested"
      [] st = "live"     -> "live"
      [] st = "stopped"  -> "lost"
      [] st = "gone"     -> "deleted"

Authority ==
    INSTANCE LeaseAuthority WITH claim <- ClaimOf(row), resource <- ResourceOf(pod.st, creates)

\* Every behaviour of the service is one LeaseAuthority allows: one create
\* request, deletion only after a persisted stop, an end only without a
\* billable Pod; until a reservation is reaped whose create was sent.
Implements == Authority!Init /\ [][misreaped' \/ Authority!Next]_(Authority!vars)
=============================================================================
