--------------------------- MODULE PodCapacityLease ---------------------------
(***************************************************************************)
(* The durable row of one catalog Pod capacity attempt                     *)
(* (pod_capacity_contracts.TrainingPodLease, table pod_capacity_leases)    *)
(* and the changes the service writes to it.  Every operator below is a    *)
(* function from a row to a row, or a test of a row; the interleaving of   *)
(* the processes that apply them is in PodCapacity.                        *)
(*                                                                         *)
(* Timestamps are abstracted to what the code tests: a deadline is a tick  *)
(* of the clock in PodCapacity, a set-once timestamp is a BOOLEAN, and     *)
(* last_heartbeat_at is "fresh" or "stale" relative to the idle timeout.   *)
(***************************************************************************)
EXTENDS Naturals

CONSTANTS
    Results,   \* (result, receipt) digest pairs a worker may hand off
    Acks,      \* host acknowledgement payloads, identified by their digest
    None       \* SQL NULL

ASSUME NoneAssumption == None \notin Results /\ None \notin Acks

LeaseStates ==
    {"absent", "requested", "starting", "ready", "job_submitted",
     "job_completed", "result_retrieved", "cancel_requested",
     "reconcile_required", "releasing", "released"}

CleanupStates == {"not_requested", "pending", "retryable_failure", "complete"}

BillingStates == {"pending", "authoritative", "unresolved"}

WorkloadStates ==
    {"not_submitted", "idle", "running", "cancel_requested", "awaiting_ack",
     "acknowledged", "failed", "cancelled"}

\* provider_pod_id, backend_base_url and the realized placement are unique per
\* attempt, so only their presence is kept.  "zero" is a receipt without a Pod.
Lease ==
    [state      : LeaseStates,
     cleanup    : CleanupStates,
     famReq     : BOOLEAN,       \* family_release_requested
     famDone    : BOOLEAN,       \* family_release_complete
     uncertain  : BOOLEAN,       \* creation_uncertain
     pid        : BOOLEAN,       \* provider_pod_id IS NOT NULL
     url        : BOOLEAN,       \* backend_base_url IS NOT NULL
     hb         : {"fresh", "stale"},
     wl         : WorkloadStates,
     billing    : BillingStates,
     receipt    : {"none", "zero", "billed"},
     terminated : BOOLEAN,       \* terminated_at
     realized   : BOOLEAN,       \* evidence.realized_placement
     accepted   : BOOLEAN,       \* lifecycle.provider_create_accepted_at
     adopted    : BOOLEAN,       \* lifecycle.provider_adopted_at
     submitted  : BOOLEAN,       \* lifecycle.workload_submitted_at
     worker     : BOOLEAN,       \* evidence.worker
     result     : Results \cup {None},
     ack        : Acks \cup {None},
     remoteAck  : BOOLEAN,       \* remote_ack_observed_at
     hostConf   : BOOLEAN]       \* host_confirmation_declared_at

\* The row reserve() inserts; last_heartbeat_at is the caller's created_at, so
\* it may already be older than the idle timeout.
Reserved(heartbeat) ==
    [state |-> "requested", cleanup |-> "not_requested", famReq |-> FALSE,
     famDone |-> FALSE, uncertain |-> FALSE, pid |-> FALSE, url |-> FALSE,
     hb |-> heartbeat, wl |-> "not_submitted", billing |-> "pending",
     receipt |-> "none", terminated |-> FALSE, realized |-> FALSE,
     accepted |-> FALSE, adopted |-> FALSE, submitted |-> FALSE,
     worker |-> FALSE, result |-> None, ack |-> None, remoteAck |-> FALSE,
     hostConf |-> FALSE]

NoLease == [Reserved("fresh") EXCEPT !.state = "absent"]

-----------------------------------------------------------------------------
(* Tests of a row. *)

IsTerminal(r) == r.state = "released"

\* Still the acquirer's or the workload's: no stop has been persisted.
Active(r) ==
    r.state \in {"requested", "starting", "ready", "job_submitted", "job_completed"}

SettlementReady(r) ==
    IsTerminal(r) /\ r.billing = "authoritative" /\ r.receipt # "none"

CatalogResultReady(r) == r.wl \in {"awaiting_ack", "acknowledged"}

\* Rows list_for_reconciliation() returns.
Unfinished(r) ==
    /\ r.state # "absent"
    /\ ~IsTerminal(r) \/ r.billing \in {"pending", "unresolved"}

-----------------------------------------------------------------------------
(* Changes written by the acquisition and the readiness poll. *)

Heartbeat(r) == [r EXCEPT !.hb = "fresh"]

\* Mutant: the create is not marked uncertain before the POST.
CreateStartingCertain(r) == [r EXCEPT !.state = "starting", !.hb = "fresh"]

CreateStarting(r) ==
    [r EXCEPT !.state = "starting", !.uncertain = TRUE, !.hb = "fresh"]

\* The lifecycle evidence refuses, with a ValueError, a create accepted after
\* the Pod was adopted, or dated after the receipt of the attempt.
AcceptedTooLate(r) == r.adopted \/ r.receipt # "none"

CreateAccepted(r) ==
    [r EXCEPT !.pid = TRUE, !.uncertain = FALSE, !.hb = "fresh",
              !.accepted = TRUE, !.realized = TRUE]

CreateMismatch(r) ==
    [r EXCEPT !.pid = TRUE, !.uncertain = FALSE, !.hb = "fresh",
              !.accepted = TRUE]

RouteObserved(r, route) == [r EXCEPT !.url = route, !.hb = "fresh"]

WorkerReady(r) == [r EXCEPT !.state = "ready", !.hb = "fresh"]

RetryableFailure(r) ==
    [r EXCEPT !.state = "reconcile_required", !.cleanup = "retryable_failure",
              !.hb = "fresh"]

RetryableCreate(r) == [RetryableFailure(r) EXCEPT !.uncertain = TRUE]

-----------------------------------------------------------------------------
(* Changes written by teardown, creation recovery and billing. *)

\* Mutant: the stop reaches cleanup_state but not state.
ReleasingUnmarked(r) ==
    [r EXCEPT !.cleanup = "pending", !.url = FALSE, !.hb = "fresh"]

Releasing(r) ==
    [r EXCEPT !.state = "releasing", !.cleanup = "pending", !.url = FALSE,
              !.hb = "fresh"]

\* Mutant: the error name is written to the wrong column.
StopPendingMisfiled(r) == [r EXCEPT !.cleanup = "StopPending", !.hb = "fresh"]

StopPending(r) == [r EXCEPT !.cleanup = "pending", !.hb = "fresh"]

StopConfirmed(r) ==
    [r EXCEPT !.state = "releasing", !.cleanup = "complete",
              !.uncertain = FALSE, !.url = FALSE, !.hb = "fresh",
              !.billing = "pending", !.terminated = TRUE]

\* _reconcile_one observing that the Pod already exited.
FoundStopped(r) ==
    [r EXCEPT !.state = "releasing", !.cleanup = "complete", !.url = FALSE,
              !.billing = "pending", !.terminated = TRUE]

\* A receipt without a Pod: the attempt is settled as never having been billable.
ZeroReceipt(r) ==
    [r EXCEPT !.state = "releasing", !.cleanup = "complete",
              !.billing = "authoritative", !.receipt = "zero",
              !.terminated = TRUE]

CreateRejected(r) == [ZeroReceipt(r) EXCEPT !.uncertain = FALSE, !.hb = "fresh"]

NoPodReceipt(r) == [ZeroReceipt(r) EXCEPT !.url = FALSE, !.hb = "fresh"]

\* The same ValueError, for an adoption.
AdoptedTooLate(r) == r.accepted \/ (~r.adopted /\ r.receipt # "none")

Adopted(r) ==
    [r EXCEPT !.pid = TRUE, !.uncertain = FALSE,
              !.state = "reconcile_required", !.cleanup = "pending",
              !.adopted = TRUE, !.realized = TRUE]

\* Mutant: no visible Pod is taken for no Pod.
AwaitingCreateGivesUp(r) ==
    [r EXCEPT !.state = "released", !.cleanup = "complete", !.uncertain = FALSE]

AwaitingCreate(r) ==
    [r EXCEPT !.state = "reconcile_required", !.cleanup = "retryable_failure",
              !.billing = "unresolved"]

BillingUnresolved(r) == [r EXCEPT !.billing = "unresolved"]

Billed(r, kind) ==
    [r EXCEPT !.billing = "authoritative", !.receipt = kind, !.hb = "fresh"]

FamilyRequested(r) ==
    IF r.famReq THEN r
    ELSE [r EXCEPT !.famReq = TRUE, !.famDone = FALSE, !.hb = "fresh"]

FamilyComplete(r) ==
    IF r.famDone THEN r ELSE [r EXCEPT !.famDone = TRUE, !.hb = "fresh"]

Released(r) == [r EXCEPT !.state = "released", !.hb = "fresh"]

-----------------------------------------------------------------------------
(* Changes written by the workload lifecycle. *)

CancelRequested(r) ==
    [r EXCEPT !.state = "cancel_requested", !.wl = "cancel_requested",
              !.hb = "fresh"]

\* Mutant: the intent already bound is not compared.
AckBindsAny(r, a) == r.result # None

\* evidence.bind_acknowledgement: an intent is bound once and never changed.
AckBinds(r, a) == r.result # None /\ r.ack \in {None, a}

HostConfirmed(r) ==
    [r EXCEPT !.hostConf = TRUE, !.state = "result_retrieved", !.hb = "fresh"]

Observations ==
    [st  : {"idle", "running", "cancel_requested", "awaiting_ack",
            "acknowledged", "failed", "cancelled"},
     res : Results \cup {None},
     ack : Acks \cup {None}]

IsHandoff(o) == o.st \in {"awaiting_ack", "acknowledged"}

\* Mutant: the recorded result is not compared with the observed one.
ObservationConflictsNever(r, o) ==
    o.st = "acknowledged" /\ (r.ack = None \/ r.ack # o.ack)

\* The observation contradicts what the row already holds: it is refused.
ObservationConflicts(r, o) ==
    /\ IsHandoff(o)
    /\ \/ r.result \notin {None, o.res}
       \/ o.st = "acknowledged" /\ (r.ack = None \/ r.ack # o.ack)

\* Mutant: a waiting worker counts as one that has acknowledged.
WithProofEager(r, o) ==
    IF IsHandoff(o) THEN [r EXCEPT !.result = o.res, !.remoteAck = TRUE] ELSE r

\* The handoff fact alone, recorded whatever the state of the lease.
WithProof(r, o) ==
    IF IsHandoff(o)
    THEN [r EXCEPT !.result = o.res,
                   !.remoteAck = r.remoteAck \/ o.st = "acknowledged"]
    ELSE r

\* A stopped, cancelled or terminal lease takes the proof and nothing else.
WorkloadFrozen(r) ==
    \/ r.state \notin {"ready", "job_submitted", "job_completed"}
    \/ r.wl = "cancel_requested"

Rank(w) ==
    CASE w \in {"not_submitted", "idle"} -> 0
      [] w = "running"                   -> 1
      [] w = "awaiting_ack"              -> 2
      [] w = "acknowledged"              -> 3
      [] OTHER                           -> 4

\* Mutant: delayed observations are recorded like timely ones.
RegressesNever(r, o) == FALSE

Regresses(r, o) ==
    /\ o.st \in {"idle", "running", "awaiting_ack", "acknowledged"}
    /\ Rank(r.wl) > Rank(o.st)

StateAfter(r, o) ==
    CASE o.st = "running" -> "job_submitted"
      [] IsHandoff(o)     -> "job_completed"
      [] o.st = "idle"    -> r.state
      [] OTHER            -> "cancel_requested"

ProofOnly(r, o) == WorkloadFrozen(r) \/ Regresses(r, o)

\* workload_submitted_at would follow the running or terminal time that another
\* observation has recorded: a ValueError of the lifecycle evidence.
SubmittedTooLate(r, o) ==
    /\ ~ProofOnly(r, o)
    /\ ~r.submitted /\ r.wl \notin {"not_submitted", "idle"}

\* _catalog_observation_changes applied to the row.
WithObservation(r, o) ==
    IF ProofOnly(r, o)
    THEN WithProof(r, o)
    ELSE [WithProof(r, o) EXCEPT !.wl = o.st, !.state = StateAfter(r, o),
                                 !.hb = "fresh"]

\* The same, recorded by the process that submitted.
WithSubmission(r, o) ==
    IF ProofOnly(r, o) THEN WithProof(r, o)
    ELSE [WithObservation(r, o) EXCEPT !.submitted = TRUE]
===============================================================================
