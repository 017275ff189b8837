----------------------------- MODULE OllamaLease -----------------------------
(***************************************************************************)
(* OllamaLeaseService: private-inference leases on Runpod endpoints and    *)
(* Pods.  Several processes (hosts, and the timer-driven reconciler) share *)
(* one SQLite row.  Unlike PodCapacity, EVERY write of this service is one *)
(* strict compare_and_set on the row the process holds, never retried: a   *)
(* conflict is an error of the operation.  `fresh' is the set of processes *)
(* whose row still carries the stored revision; a process outside it can   *)
(* change nothing any more except by a call it has already sent.           *)
(*                                                                         *)
(* One step is one transaction or one awaited provider call.               *)
(***************************************************************************)
EXTENDS Naturals

CONSTANTS
    Hosts,        \* tasks of inference hosts
    Reconcilers,  \* passes of kestrel-runpod-reconcile-ollama
    HostOps,      \* the service methods the hosts call
    Faults        \* the failures the environment may produce

AllHostOps == {"acquire", "provision", "get", "touch", "release", "reconcile"}

AllFaults ==
    {"crash",      \* a host dies, or its caller cancels it outside an owned effect
     "restart",    \* the reconciler dies and is run again
     "plan",       \* planning or preflight validation fails
     "ambiguous",  \* the create response is lost or cannot be decoded
     "provider",   \* a lookup, an observation or a deletion fails
     "lost"}       \* the resource disappears by itself

ASSUME ProcessAssumption == Hosts \cap Reconcilers = {}
ASSUME OpsAssumption == HostOps \subseteq AllHostOps
ASSUME FaultAssumption == Faults \subseteq AllFaults

Procs == Hosts \cup Reconcilers

VARIABLES
    row,      \* the ollama_leases row
    fresh,    \* processes whose row snapshot has the stored revision
    res,      \* external: the Runpod resource carrying the lease's name
    clock,    \* 1 past readiness_deadline, 2 past hard_deadline or the cost cap
    pc,       \* label of each process
    loc,      \* local variables of each process
    creates   \* history: create requests sent to Runpod

vars == <<row, fresh, res, clock, pc, loc, creates>>

LeaseStates ==
    {"absent", "requested", "provisioning", "reconcile_required",
     "waiting_for_model", "ready", "releasing", "failed", "terminated"}

\* The plan, the resource name and the attempt identity are written together.
Lease ==
    [state     : LeaseStates,
     teardown  : {"not_requested", "pending", "retryable_failure", "complete"},
     planned   : BOOLEAN,   \* resource_name, offered rate, cost policy
     uncertain : BOOLEAN,   \* creation_uncertain
     pid       : BOOLEAN,   \* provider_resource_id IS NOT NULL
     idle      : BOOLEAN,   \* idle_deadline has passed
     reason    : {"none", "released", "expired"}]  \* termination_reason

NoLease ==
    [state |-> "absent", teardown |-> "not_requested", planned |-> FALSE,
     uncertain |-> FALSE, pid |-> FALSE, idle |-> FALSE, reason |-> "none"]

Labels ==
    {"idle", "raise", "plan", "create", "find", "check", "route", "touch",
     "release", "teardown", "rel_find", "delete", "confirm"}

Locals ==
    [op     : AllHostOps \cup {"none"},
     now    : 0..2,                  \* the clock the operation read
     reason : {"released", "expired"},
     caught : BOOLEAN]               \* a teardown error is not recorded

NoLocals == [op |-> "none", now |-> 0, reason |-> "released", caught |-> FALSE]

TypeOK ==
    /\ row \in Lease
    /\ fresh \in SUBSET Procs
    /\ res \in {"none", "inflight", "live", "refused", "lost", "deleted"}
    /\ clock \in 0..2
    /\ pc \in [Procs -> Labels]
    /\ loc \in [Procs -> Locals]
    /\ creates \in Nat

Init ==
    /\ row = NoLease
    /\ fresh = {}
    /\ res = "none"
    /\ clock = 0
    /\ pc = [p \in Procs |-> "idle"]
    /\ loc = [p \in Procs |-> NoLocals]
    /\ creates = 0

-----------------------------------------------------------------------------
(* Building blocks. *)

At(p, label) == pc[p] = label
Fault(f) == f \in Faults
Exists == row.state # "absent"
IsTerminal(r) == r.state = "terminated"

Call(p, op) ==
    /\ At(p, "idle")
    /\ op \in IF p \in Hosts THEN HostOps ELSE {"reconcile"}

Jump(p, label) == pc' = [pc EXCEPT ![p] = label] /\ UNCHANGED loc

Begin(p, op, label) ==
    /\ pc' = [pc EXCEPT ![p] = label]
    /\ loc' = [loc EXCEPT ![p] = [NoLocals EXCEPT !.op = op, !.now = clock]]

End(p) ==
    /\ pc' = [pc EXCEPT ![p] = "idle"]
    /\ loc' = [loc EXCEPT ![p] = NoLocals]

\* _release(lease, reason): caught when _reconcile_one handles its failure.
BeginRelease(p, why, caught) ==
    /\ pc' = [pc EXCEPT ![p] = "release"]
    /\ loc' = [loc EXCEPT ![p].reason = why, ![p].caught = caught]

\* Mutant: the WHERE clause does not compare the revision.
UncheckedRevision(p) == TRUE

\* The revision test of compare_and_set.
Unchanged(p) == p \in fresh

Read(p) == row' = row /\ fresh' = fresh \cup {p}
Keep == UNCHANGED <<row, fresh>>
Forget(p) == row' = row /\ fresh' = fresh \ {p}

\* Mutant: the revision is not incremented.
CommitSilently(p, r) == row' = r /\ UNCHANGED fresh

\* A compare_and_set that succeeded: the process holds the row it returned.
Commit(p, r) == row' = r /\ fresh' = {p}

\* OllamaLeaseConflictError, on any compare_and_set of a stale row.
Conflict(p) == ~Unchanged(p) /\ Forget(p) /\ Jump(p, "raise")

\* reconcile and reconcile_lease record the error in the row as it is now.
RaiseError(p) ==
    /\ At(p, "raise")
    /\ IF loc[p].op = "reconcile" /\ ~IsTerminal(row)
       THEN row' = row /\ fresh' = {}
       ELSE Forget(p)
    /\ End(p)
    /\ UNCHANGED <<res, clock, creates>>

\* Provision and teardown are owned effects: only a crash abandons them.
Crash(p) ==
    /\ ~At(p, "idle")
    /\ Fault(IF p \in Hosts THEN "crash" ELSE "restart")
    /\ Forget(p)
    /\ End(p)
    /\ UNCHANGED <<res, clock, creates>>

-----------------------------------------------------------------------------
(* The changes written to the row. *)

Requested == [NoLease EXCEPT !.state = "requested"]

\* Mutant: the create is not marked uncertain before the POST.
ProvisioningCertain(r) == [r EXCEPT !.state = "provisioning", !.planned = TRUE]

\* Persisted before the create request leaves.
Provisioning(r) ==
    [r EXCEPT !.state = "provisioning", !.planned = TRUE, !.uncertain = TRUE]

Failed(r) == [r EXCEPT !.state = "failed"]

ReconcileRequired(r) == [r EXCEPT !.state = "reconcile_required"]

WaitingForModel(r) ==
    [r EXCEPT !.state = "waiting_for_model", !.pid = TRUE, !.uncertain = FALSE]

Ready(r) == [r EXCEPT !.state = "ready", !.idle = FALSE]

Touched(r) == [r EXCEPT !.idle = FALSE]

\* Mutant: the latest reason wins.
ReasonLatest(r, why) == why

\* termination_reason = lease.termination_reason or reason.
ReasonFirst(r, why) == IF r.reason = "none" THEN why ELSE r.reason

Releasing(r, why) ==
    [r EXCEPT !.state = "releasing", !.teardown = "pending",
              !.reason = ReasonFirst(r, why)]

\* Mutant: an empty inventory is taken for a rejected create.
StopRetryableGivesUp(r) ==
    [r EXCEPT !.teardown = "retryable_failure", !.uncertain = FALSE]

\* Mutant: a state the teardown enumeration does not have.
StopRetryableMisfiled(r) == [r EXCEPT !.teardown = "releasing"]

StopRetryable(r) == [r EXCEPT !.teardown = "retryable_failure"]

Recovered(r) == [r EXCEPT !.pid = TRUE, !.uncertain = FALSE, !.teardown = "pending"]

Terminated(r, why) ==
    [r EXCEPT !.state = "terminated", !.teardown = "complete",
              !.reason = ReasonFirst(r, why)]

-----------------------------------------------------------------------------
(* acquire, get, touch, release, reconcile: the synchronous prefix. *)

Creating == row.state \in {"provisioning", "reconcile_required"}

Late == clock > 0

\* insert_request: the row and its deadlines, in one transaction.
AcquireNew(p, op) ==
    /\ ~Exists /\ ~Late
    /\ row' = Requested
    /\ fresh' = {p}
    /\ Begin(p, op, "plan")

\* The same request again.
AcquireAgain(p, op) ==
    /\ Exists
    /\ Read(p)
    /\ \/ row.state = "requested" /\ ~Late /\ Begin(p, op, "plan")
       \/ Creating /\ Begin(p, op, "find")
       \/ row.state = "waiting_for_model" /\ op = "acquire" /\ Begin(p, op, "check")

Acquire(p) ==
    \E op \in {"acquire", "provision"} :
        /\ Call(p, op)
        /\ AcquireNew(p, op) \/ AcquireAgain(p, op)
        /\ UNCHANGED <<res, clock, creates>>

RouteExpired == clock = 2 \/ row.idle

\* _ready_with_route: a ready lease past a deadline is released, whoever asks.
UseReady(p) ==
    \E op \in {"acquire", "provision", "get", "touch"} :
        /\ Call(p, op) /\ row.state = "ready"
        /\ Read(p)
        /\ pc' = [pc EXCEPT ![p] = IF RouteExpired THEN "release" ELSE "route"]
        /\ loc' = [loc EXCEPT ![p] = [NoLocals EXCEPT !.op = op, !.now = clock,
                                                      !.reason = "expired"]]
        /\ UNCHANGED <<res, clock, creates>>

\* A request that was never provisioned in time is ended by the next acquire.
AcquireExpired(p) ==
    \E op \in {"acquire", "provision"} :
        /\ Call(p, op) /\ row.state = "requested" /\ Late
        /\ Read(p)
        /\ pc' = [pc EXCEPT ![p] = "release"]
        /\ loc' = [loc EXCEPT ![p] = [NoLocals EXCEPT !.op = op, !.reason = "expired"]]
        /\ UNCHANGED <<res, clock, creates>>

Release(p) ==
    /\ Call(p, "release") /\ Exists /\ ~IsTerminal(row)
    /\ Read(p)
    /\ Begin(p, "release", "release")
    /\ UNCHANGED <<res, clock, creates>>

\* Mutant: only the idle and the readiness deadline are looked at.
ExpiredAtIdle(r, now) ==
    \/ r.state = "ready" /\ r.idle
    \/ now > 0 /\ r.state \in {"provisioning", "reconcile_required", "waiting_for_model"}

\* authorized_cost_exposure fails closed on a row that has no plan.
ExpiredAt(r, now) ==
    \/ now = 2 \/ ~r.planned
    \/ r.state = "ready" /\ r.idle
    \/ now > 0 /\ r.state \in {"provisioning", "reconcile_required", "waiting_for_model"}

\* Where _reconcile_one goes once creation is resolved, with the clock it read
\* when it began.
AfterCreation(r, now) ==
    CASE ExpiredAt(r, now)                                      -> "release"
      [] ~ExpiredAt(r, now) /\ r.state = "waiting_for_model" -> "check"
      [] ~ExpiredAt(r, now) /\ r.state = "ready"             -> "route"
      [] OTHER                                                  -> "idle"

\* _reconcile_one.  A READY lease whose idle deadline passed is released here.
Reconcile(p) ==
    /\ Call(p, "reconcile") /\ Exists /\ ~IsTerminal(row)
    /\ Read(p)
    /\ \E label \in
           {CASE row.state = "releasing" -> "release"
              [] row.state = "requested" -> IF Late THEN "release" ELSE "plan"
              [] Creating                -> "find"
              [] OTHER                   -> AfterCreation(row, clock)} :
          /\ label # "idle"
          /\ pc' = [pc EXCEPT ![p] = label]
          /\ loc' = [loc EXCEPT ![p] =
                        [op |-> "reconcile", now |-> clock, reason |-> "expired",
                         caught |-> label = "release" /\ row.state # "requested"]]
    /\ UNCHANGED <<res, clock, creates>>

-----------------------------------------------------------------------------
(* _provision_requested, _provision_effect and _reconcile_creation. *)

\* The plan is valid: PROVISIONING is persisted, then the POST leaves.
StartCreate(p) ==
    /\ At(p, "plan")
    /\ \/ /\ Unchanged(p)
          /\ Commit(p, Provisioning(row))
          /\ res' = "inflight"
          /\ creates' = creates + 1
          /\ Jump(p, "create")
       \/ Conflict(p) /\ UNCHANGED <<res, creates>>
    /\ UNCHANGED clock

\* A deterministic failure before the request proves that nothing was created.
PlanFails(p) ==
    /\ At(p, "plan") /\ Fault("plan")
    /\ IF Unchanged(p) THEN row' = Failed(row) /\ fresh' = {} ELSE Forget(p)
    /\ Jump(p, "raise")
    /\ UNCHANGED <<res, clock, creates>>

\* Creation is resolved and the process holds the row r: what its caller does.
Continue(p, r) ==
    IF loc[p].op = "reconcile"
    THEN IF AfterCreation(r, loc[p].now) = "idle" THEN End(p)
         ELSE /\ pc' = [pc EXCEPT ![p] = AfterCreation(r, loc[p].now)]
              /\ loc' = [loc EXCEPT ![p].now = IF AfterCreation(r, @) = "check" THEN clock ELSE @,
                                    ![p].caught = (AfterCreation(r, loc[p].now) = "release")]
    ELSE IF loc[p].op = "acquire" /\ r.state = "waiting_for_model"
    THEN /\ pc' = [pc EXCEPT ![p] = "check"]
         /\ loc' = [loc EXCEPT ![p].now = clock]
    ELSE End(p)

CreateReturns(p) ==
    /\ At(p, "create") /\ res \in {"live", "lost", "deleted"}
    /\ \/ /\ Unchanged(p)
          /\ Commit(p, WaitingForModel(row))
          /\ Continue(p, WaitingForModel(row))
       \/ Conflict(p)
    /\ UNCHANGED <<res, clock, creates>>

\* Any provider error after the request left keeps the creation uncertain.
CreateFails(p) ==
    /\ At(p, "create") /\ (Fault("ambiguous") \/ res = "refused")
    /\ IF Unchanged(p) THEN row' = ReconcileRequired(row) /\ fresh' = {} ELSE Forget(p)
    /\ Jump(p, "raise")
    /\ UNCHANGED <<res, clock, creates>>

FindFound(p) ==
    /\ At(p, "find") /\ res = "live"
    /\ \/ /\ Unchanged(p)
          /\ Commit(p, WaitingForModel(row))
          /\ Continue(p, WaitingForModel(row))
       \/ Conflict(p)
    /\ UNCHANGED <<res, clock, creates>>

\* Nothing is written: a stale row is noticed only if it leads to a release.
FindAbsent(p) ==
    /\ At(p, "find") /\ res # "live"
    /\ IF Unchanged(p) THEN Keep /\ Continue(p, row)
       ELSE /\ Forget(p)
            /\ IF loc[p].op = "reconcile" /\ loc[p].now > 0 THEN Jump(p, "raise") ELSE End(p)
    /\ UNCHANGED <<res, clock, creates>>

FindError(p) ==
    /\ At(p, "find") /\ Fault("provider")
    /\ \/ Unchanged(p) /\ Commit(p, row) /\ Continue(p, row)
       \/ Conflict(p)
    /\ UNCHANGED <<res, clock, creates>>
-----------------------------------------------------------------------------
(* _check_readiness_once and _wait_until_ready. *)

\* The waiting acquirer examines the deadlines, sleeps and looks again, still
\* holding the row of its last write; the reconciler returns.
LookAgain(p) ==
    IF loc[p].op # "acquire" THEN End(p)
    ELSE IF clock > 0 THEN BeginRelease(p, "expired", FALSE)
    ELSE Jump(p, "check")

\* The observation failed, or the runtime does not serve the model yet.
CheckNotReady(p) ==
    /\ At(p, "check")
    /\ \/ /\ Unchanged(p)
          /\ Commit(p, row)
          /\ IF loc[p].now = 2 THEN BeginRelease(p, "expired", FALSE) ELSE LookAgain(p)
       \/ Conflict(p)
    /\ UNCHANGED <<res, clock, creates>>

CheckError(p) ==
    /\ At(p, "check") /\ (Fault("provider") \/ res # "live")
    /\ \/ Unchanged(p) /\ Commit(p, row) /\ LookAgain(p)
       \/ Conflict(p)
    /\ UNCHANGED <<res, clock, creates>>

\* The deadline tests use the clock read before the observation.
CheckReady(p) ==
    /\ At(p, "check") /\ res = "live" /\ loc[p].now < 2
    /\ \/ Unchanged(p) /\ Commit(p, Ready(row)) /\ End(p)
       \/ Conflict(p)
    /\ UNCHANGED <<res, clock, creates>>

-----------------------------------------------------------------------------
(* _ready_with_route and touch. *)

RouteOk(p) ==
    /\ At(p, "route") /\ res = "live"
    /\ \/ /\ Unchanged(p)
          /\ Commit(p, row)
          /\ IF loc[p].op = "touch" THEN Jump(p, "touch") ELSE End(p)
       \/ Conflict(p)
    /\ UNCHANGED <<res, clock, creates>>

\* The route is temporarily unavailable: an error, never a teardown.
RouteUnavailable(p) ==
    /\ At(p, "route")
    /\ IF Unchanged(p) THEN row' = row /\ fresh' = {} ELSE Forget(p)
    /\ Jump(p, "raise")
    /\ UNCHANGED <<res, clock, creates>>

\* The idle deadline is renewed, unless a deadline has passed meanwhile.
Touch(p) ==
    /\ At(p, "touch")
    /\ IF clock = 2 THEN Keep /\ BeginRelease(p, "expired", FALSE)
       ELSE \/ Unchanged(p) /\ Commit(p, Touched(row)) /\ End(p)
            \/ Conflict(p)
    /\ UNCHANGED <<res, clock, creates>>

-----------------------------------------------------------------------------
(* _release, _resolve_uncertain_release and _teardown_effect. *)

\* The stop is persisted before anything is looked up or deleted.
ReleaseMark(p) ==
    /\ At(p, "release")
    /\ \/ /\ Unchanged(p) /\ row.state = "requested"
          /\ Commit(p, Terminated(row, loc[p].reason))
          /\ End(p)
       \/ /\ Unchanged(p) /\ row.state = "releasing"
          /\ Keep
          /\ Jump(p, "teardown")
       \/ /\ Unchanged(p) /\ row.state \notin {"requested", "releasing"}
          /\ Commit(p, Releasing(row, loc[p].reason))
          /\ Jump(p, "teardown")
       \/ Conflict(p)
    /\ UNCHANGED <<res, clock, creates>>

\* A known resource is deleted, an uncertain one is looked up, and a lease
\* that provably never had one is ended.
ReleaseResource(p) ==
    /\ At(p, "teardown")
    /\ \/ /\ Unchanged(p) /\ row.pid
          /\ Commit(p, row)
          /\ Jump(p, "delete")
       \/ /\ Unchanged(p) /\ ~row.pid /\ row.uncertain
          /\ Keep
          /\ Jump(p, "rel_find")
       \/ /\ Unchanged(p) /\ ~row.pid /\ ~row.uncertain
          /\ Commit(p, Terminated(row, loc[p].reason))
          /\ End(p)
       \/ Conflict(p)
    /\ UNCHANGED <<res, clock, creates>>

\* OllamaLeaseTeardownError: _reconcile_one catches it where it expects it.
TeardownFails(p) ==
    IF loc[p].op = "reconcile" /\ loc[p].caught THEN End(p) ELSE Jump(p, "raise")

ReleaseFound(p) ==
    /\ At(p, "rel_find") /\ res = "live"
    /\ \/ Unchanged(p) /\ Commit(p, Recovered(row)) /\ Jump(p, "teardown")
       \/ Conflict(p)
    /\ UNCHANGED <<res, clock, creates>>

\* Neither an empty inventory nor elapsed time proves that the create was
\* rejected: the claim stays, to be looked up again by every later pass.
ReleaseNotFound(p) ==
    /\ At(p, "rel_find") /\ (res # "live" \/ Fault("provider"))
    /\ \/ Unchanged(p) /\ row' = StopRetryable(row) /\ fresh' = {} /\ TeardownFails(p)
       \/ Conflict(p)
    /\ UNCHANGED <<res, clock, creates>>

\* Mutant: an acknowledged deletion counts, without reading the resource back.
DeletionAssumed == res

\* The delete request, and the exact GET that finds the resource absent.
Deletion == IF res = "live" THEN "deleted" ELSE res

DeleteResource(p) ==
    /\ At(p, "delete")
    /\ res' = Deletion
    /\ Keep
    /\ Jump(p, "confirm")
    /\ UNCHANGED <<clock, creates>>

\* The deletion may have happened all the same.
DeleteFails(p) ==
    /\ At(p, "delete") /\ Fault("provider")
    /\ res' \in {res, Deletion}
    /\ \/ Unchanged(p) /\ row' = StopRetryable(row) /\ fresh' = {} /\ TeardownFails(p)
       \/ Conflict(p)
    /\ UNCHANGED <<clock, creates>>

ConfirmTerminated(p) ==
    /\ At(p, "confirm")
    /\ \/ /\ Unchanged(p)
          /\ Commit(p, Terminated(row, loc[p].reason))
          /\ End(p)
       \/ Conflict(p)
    /\ UNCHANGED <<res, clock, creates>>

-----------------------------------------------------------------------------
(* The environment. *)

Inside == <<row, fresh, pc, loc, creates>>

ProviderAccepts == res = "inflight" /\ res' = "live" /\ UNCHANGED <<clock, Inside>>

ProviderRefuses == res = "inflight" /\ res' = "refused" /\ UNCHANGED <<clock, Inside>>

ResourceLost ==
    Fault("lost") /\ res = "live" /\ res' = "lost" /\ UNCHANGED <<clock, Inside>>

\* The cost cap of a provisioned lease may be reached before its readiness
\* deadline; every gate treats it like the hard deadline.
Tick ==
    /\ clock < 2
    /\ clock' \in {clock + 1} \cup (IF row.planned THEN {2} ELSE {})
    /\ UNCHANGED <<res, Inside>>

\* The stored idle deadline passes.
IdleElapses ==
    /\ row.state = "ready" /\ ~row.idle
    /\ row' = [row EXCEPT !.idle = TRUE]
    /\ UNCHANGED <<fresh, res, clock, pc, loc, creates>>

-----------------------------------------------------------------------------
UseStep(p) ==
    \/ Acquire(p) \/ UseReady(p) \/ AcquireExpired(p) \/ Release(p) \/ Reconcile(p)

CreateStep(p) ==
    \/ StartCreate(p) \/ PlanFails(p) \/ CreateReturns(p) \/ CreateFails(p)
    \/ FindFound(p) \/ FindAbsent(p) \/ FindError(p)

ObserveStep(p) ==
    \/ CheckNotReady(p) \/ CheckError(p) \/ CheckReady(p)
    \/ RouteOk(p) \/ RouteUnavailable(p) \/ Touch(p)

ReleaseStep(p) ==
    \/ ReleaseMark(p) \/ ReleaseResource(p) \/ ReleaseFound(p) \/ ReleaseNotFound(p)
    \/ DeleteResource(p) \/ DeleteFails(p) \/ ConfirmTerminated(p)

ProcessStep(p) ==
    UseStep(p) \/ CreateStep(p) \/ ObserveStep(p) \/ ReleaseStep(p) \/ RaiseError(p)

Environment ==
    ProviderAccepts \/ ProviderRefuses \/ ResourceLost \/ Tick \/ IdleElapses

Next == Environment \/ \E p \in Procs : ProcessStep(p) \/ Crash(p)

Spec == Init /\ [][Next]_vars

\* A timer runs the reconciler, its calls return, time passes and Runpod
\* answers the create.  A write of the reconciler that is possible again and
\* again is not beaten by another process every time.
ReconcilerFairness ==
    /\ WF_vars(Tick)
    /\ WF_vars(ProviderAccepts \/ ProviderRefuses)
    /\ \A p \in Reconcilers :
          /\ WF_vars(ProcessStep(p))
          /\ SF_vars(Unchanged(p) /\ FindFound(p))
          /\ SF_vars(Unchanged(p) /\ ReleaseMark(p))
          /\ SF_vars(Unchanged(p) /\ ReleaseResource(p))
          /\ SF_vars(Unchanged(p) /\ ReleaseFound(p))
          /\ SF_vars(DeleteResource(p))

FairSpec == Spec /\ ReconcilerFairness

-----------------------------------------------------------------------------
(* Properties. *)

\* A resource that exists, or may still come into existence after a lost
\* answer, belongs to an unfinished row that carries its id or is still marked
\* creation_uncertain: every later pass of the reconciler can find it.
NoOrphan ==
    res \in {"inflight", "live"} =>
        Exists /\ ~IsTerminal(row) /\ (row.pid \/ row.uncertain)

\* Why NoOrphan holds.  The state of the row bounds what can exist at Runpod;
\* a process that still holds the stored revision is where its label says; and
\* a deletion once begun belongs to a lease that will never be used again.
ResourceBound ==
    /\ row.state = "absent" => row = NoLease
    /\ row.state \in {"absent", "requested", "failed"} =>
          ~row.pid /\ ~row.uncertain /\ res = "none"
    /\ Creating => ~row.pid /\ row.uncertain /\ res \in {"inflight", "live", "refused", "lost"}
    /\ row.state \in {"waiting_for_model", "ready"} =>
          row.pid /\ ~row.uncertain /\ res \in {"live", "lost"}
    /\ row.state = "releasing" =>
          \/ row.pid /\ ~row.uncertain /\ res \in {"live", "lost", "deleted"}
          \/ ~row.pid /\ row.uncertain /\ res \in {"inflight", "live", "refused", "lost"}
          \/ ~row.pid /\ ~row.uncertain /\ res = "none"
    /\ IsTerminal(row) => res \in IF row.pid THEN {"lost", "deleted"} ELSE {"none"}

SnapshotCurrent ==
    \A q \in fresh :
        /\ At(q, "plan") => row.state = "requested"
        /\ At(q, "create") => row.state = "provisioning"
        /\ At(q, "find") => Creating
        /\ At(q, "check") => row.state = "waiting_for_model"
        /\ pc[q] \in {"route", "touch"} => row.state = "ready"
        /\ At(q, "release") => row.state \notin {"absent", "terminated"}
        /\ pc[q] \in {"teardown", "rel_find", "delete", "confirm"} => row.state = "releasing"
        /\ At(q, "rel_find") => ~row.pid

DeletionOwned ==
    \A q \in Procs :
        /\ pc[q] \in {"delete", "confirm"} =>
              row.pid /\ row.state \in {"releasing", "terminated"}
        /\ At(q, "confirm") => res \in {"lost", "deleted"}

CustodyInv == ResourceBound /\ SnapshotCurrent /\ DeletionOwned

\* A lease that is offered as READY has exactly one known resource behind it,
\* which the service has not deleted.
ReadyIsBacked ==
    row.state = "ready" => row.pid /\ ~row.uncertain /\ res \in {"live", "lost"}

\* _release persists its first termination_reason and every later release of
\* the same lease keeps it, so a lease that expired is never reported as
\* released by its caller, nor the reverse.
ReasonWriteOnce == [][row.reason # "none" => row'.reason = row.reason]_vars

\* However often the hosts call and crash, a live resource is deleted once the
\* hard deadline or the cost cap has passed.
ResourceEventuallyGone == res \in {"inflight", "live"} ~> res \notin {"inflight", "live"}

\* The lease and its resource, as LeaseAuthority sees them.
ClaimOf(r) ==
    IF r.state = "absent" THEN "none"
    ELSE IF r.state \in {"failed", "releasing"} THEN "closing"
    ELSE IF IsTerminal(r) THEN "ended"
    ELSE "open"

ResourceOf(x) == IF x = "inflight" THEN "requested" ELSE x

Authority ==
    INSTANCE LeaseAuthority WITH claim <- ClaimOf(row), resource <- ResourceOf(res)

\* Every behaviour of the service is one LeaseAuthority allows: one create
\* request, deletion only after a persisted stop, an end only without a
\* billable resource.
Implements == Authority!Spec
=============================================================================
