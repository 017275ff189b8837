-------------------------- MODULE PodCapacityProofs --------------------------
(***************************************************************************)
(* Proofs about PodCapacity, for every number of hosts and reconcilers,    *)
(* every set of operations and of faults.                                  *)
(*                                                                         *)
(* SingleCreate is not inductive: that a second request cannot leave       *)
(* depends on the state of the row and on who still holds its revision at  *)
(* the label before the POST.  CreateInv adds that, and TeardownInv says   *)
(* the same of the label before the DELETE.  Only Reserve and StartCreate  *)
(* concern the create; every other step satisfies Frame, which is proved   *)
(* once per group of actions and then used for all the properties.         *)
(*                                                                         *)
(* None of the handoff properties is inductive either.  What the worker is *)
(* told and what is recorded of its answers was put into the local         *)
(* variables of a process some awaits earlier, so HandoffInv says what     *)
(* those variables still have to do with the row: before the delivery they *)
(* carry the acknowledgement that the row binds, after an answer they      *)
(* carry only what a worker may answer.                                    *)
(***************************************************************************)
EXTENDS PodCapacity, TLAPS

\* The row that reserve inserts is a row.
LEMMA ReservedType == \A hb \in {"fresh", "stale"} : Reserved(hb) \in Lease
BY DEF Reserved, Lease, LeaseStates, CleanupStates, BillingStates, WorkloadStates

\* So are the rows the acquisition writes,
LEMMA AcquireType ==
    ASSUME NEW r \in Lease, NEW b \in BOOLEAN
    PROVE  /\ Heartbeat(r) \in Lease
           /\ CreateStarting(r) \in Lease
           /\ CreateAccepted(r) \in Lease
           /\ CreateMismatch(r) \in Lease
           /\ RouteObserved(r, b) \in Lease
           /\ WorkerReady(r) \in Lease
           /\ RetryableFailure(r) \in Lease
           /\ RetryableCreate(r) \in Lease
<1> USE DEF Lease, LeaseStates, CleanupStates
<1>1. Heartbeat(r) \in Lease BY DEF Heartbeat
<1>2. CreateStarting(r) \in Lease BY DEF CreateStarting
<1>3. CreateAccepted(r) \in Lease BY DEF CreateAccepted
<1>4. CreateMismatch(r) \in Lease BY DEF CreateMismatch
<1>5. RouteObserved(r, b) \in Lease BY DEF RouteObserved
<1>6. WorkerReady(r) \in Lease BY DEF WorkerReady
<1>7. RetryableFailure(r) \in Lease BY DEF RetryableFailure
<1>8. RetryableCreate(r) \in Lease BY DEF RetryableCreate, RetryableFailure
<1> QED BY <1>1, <1>2, <1>3, <1>4, <1>5, <1>6, <1>7, <1>8

\* the rows that release, billing and reconciliation write,
LEMMA ReleaseType ==
    ASSUME NEW r \in Lease, NEW kind \in {"zero", "billed"}
    PROVE  /\ Releasing(r) \in Lease
           /\ StopPending(r) \in Lease
           /\ StopConfirmed(r) \in Lease
           /\ FoundStopped(r) \in Lease
           /\ ZeroReceipt(r) \in Lease
           /\ CreateRejected(r) \in Lease
           /\ NoPodReceipt(r) \in Lease
           /\ Adopted(r) \in Lease
           /\ AwaitingCreate(r) \in Lease
           /\ BillingUnresolved(r) \in Lease
           /\ Billed(r, kind) \in Lease
           /\ FamilyRequested(r) \in Lease
           /\ FamilyComplete(r) \in Lease
           /\ Released(r) \in Lease
<1> USE DEF Lease, LeaseStates, CleanupStates, BillingStates
<1>1. Releasing(r) \in Lease BY DEF Releasing
<1>2. StopPending(r) \in Lease BY DEF StopPending
<1>3. StopConfirmed(r) \in Lease BY DEF StopConfirmed
<1>4. FoundStopped(r) \in Lease BY DEF FoundStopped
<1>5. ZeroReceipt(r) \in Lease BY DEF ZeroReceipt
<1>6. CreateRejected(r) \in Lease BY DEF CreateRejected, ZeroReceipt
<1>7. NoPodReceipt(r) \in Lease BY DEF NoPodReceipt, ZeroReceipt
<1>8. Adopted(r) \in Lease BY DEF Adopted
<1>9. AwaitingCreate(r) \in Lease BY DEF AwaitingCreate
<1>10. BillingUnresolved(r) \in Lease BY DEF BillingUnresolved
<1>11. Billed(r, kind) \in Lease BY DEF Billed
<1>12. FamilyRequested(r) \in Lease
  <2>1. [r EXCEPT !.famReq = TRUE, !.famDone = FALSE, !.hb = "fresh"] \in Lease OBVIOUS
  <2> HIDE DEF Lease
  <2> QED BY <2>1 DEF FamilyRequested
<1>13. FamilyComplete(r) \in Lease
  <2>1. [r EXCEPT !.famDone = TRUE, !.hb = "fresh"] \in Lease OBVIOUS
  <2> HIDE DEF Lease
  <2> QED BY <2>1 DEF FamilyComplete
<1>14. Released(r) \in Lease BY DEF Released
<1> QED BY <1>1, <1>2, <1>3, <1>4, <1>5, <1>6, <1>7, <1>8, <1>9, <1>10, <1>11, <1>12,
           <1>13, <1>14

\* and the rows and observations of the workload.
LEMMA WorkloadType ==
    ASSUME NEW r \in Lease
    PROVE  /\ CancelRequested(r) \in Lease
           /\ HostConfirmed(r) \in Lease
           /\ [r EXCEPT !.billing = "pending"] \in Lease
           /\ [r EXCEPT !.hb = "stale"] \in Lease
           /\ [Heartbeat(r) EXCEPT !.worker = TRUE] \in Lease
<1> USE DEF Lease, LeaseStates, BillingStates, WorkloadStates
<1>1. CancelRequested(r) \in Lease BY DEF CancelRequested
<1>2. HostConfirmed(r) \in Lease BY DEF HostConfirmed
<1>3. [r EXCEPT !.billing = "pending"] \in Lease OBVIOUS
<1>4. [r EXCEPT !.hb = "stale"] \in Lease OBVIOUS
<1>5. [Heartbeat(r) EXCEPT !.worker = TRUE] \in Lease BY DEF Heartbeat
<1> QED BY <1>1, <1>2, <1>3, <1>4, <1>5

\* A route may be added to a row or removed from it.
LEMMA RouteType == \A r \in Lease, b \in BOOLEAN : [r EXCEPT !.url = b] \in Lease
BY DEF Lease

\* An acknowledgement intent may be added to a row.
LEMMA AckType == \A r \in Lease, a \in Acks : [r EXCEPT !.ack = a] \in Lease
BY DEF Lease

\* Recording a worker observation keeps the row a row.
LEMMA ObservationType ==
    ASSUME NEW r \in Lease, NEW o \in Observations
    PROVE  WithObservation(r, o) \in Lease /\ WithSubmission(r, o) \in Lease
<1>1. WithProof(r, o) \in Lease
  <2>1. \A q \in Results \cup {None}, x \in BOOLEAN :
          [r EXCEPT !.result = q, !.remoteAck = x] \in Lease BY DEF Lease
  <2>2. o.res \in Results \cup {None} BY DEF Observations
  <2>3. (r.remoteAck \/ o.st = "acknowledged") \in BOOLEAN BY DEF Lease
  <2> QED BY <2>1, <2>2, <2>3, Zenon DEF WithProof
<1>2. StateAfter(r, o) \in LeaseStates
  BY DEF StateAfter, Observations, IsHandoff, Lease, LeaseStates
<1>3. o.st \in WorkloadStates BY DEF Observations, WorkloadStates
<1>4. ASSUME NEW q \in Lease, NEW w \in WorkloadStates, NEW s \in LeaseStates
      PROVE  [q EXCEPT !.wl = w, !.state = s, !.hb = "fresh"] \in Lease
  BY DEF Lease
<1>5. WithObservation(r, o) \in Lease BY <1>1, <1>2, <1>3, <1>4 DEF WithObservation
<1>6. \A q \in Lease : [q EXCEPT !.submitted = TRUE] \in Lease BY DEF Lease
<1> QED BY <1>1, <1>5, <1>6 DEF WithSubmission

\* The initial worker and the initial local variables.
LEMMA LocalsType ==
    /\ NewWorker \in Observations
    /\ NoLocals \in Locals
    /\ [NoLocals EXCEPT !.family = TRUE] \in Locals
BY DEF NoLocals, Locals, NewWorker, Observations

\* Where a confirmed stop leads.
LEMMA EnterBillingType ==
    ASSUME TypeOK, NEW p \in Procs, NEW r \in Lease, NEW others \in SUBSET Procs,
           EnterBilling(p, r, others)
    PROVE  /\ pc' \in [Procs -> Labels]
           /\ loc' \in [Procs -> Locals]
           /\ fresh' \in SUBSET Procs
<1>1. BillingStep(r) \in Labels BY DEF BillingStep, Labels
<1>2. [loc[p] EXCEPT !.pending = (r.billing = "pending")] \in Locals
  <2>1. (r.billing = "pending") \in BOOLEAN OBVIOUS
  <2> QED BY <2>1 DEF TypeOK, Locals
<1>3. loc' \in [Procs -> Locals] BY <1>2 DEF EnterBilling, TypeOK
<1> QED BY <1>1, <1>3 DEF EnterBilling, TypeOK

\* acquire, reserve and the create request.
LEMMA AcquireStepType ==
    ASSUME TypeOK, NEW p \in Procs, AcquireStep(p)
    PROVE  TypeOK'
<1> USE AcquireType, ReleaseType, ReservedType, LocalsType
     DEF TypeOK, Unwritten, Commit, TransitionNonterminal, Jump, End, external, history, Labels
<1>1. CASE Acquire(p) 
  <2>1. PICK w \in BOOLEAN : loc' = [loc EXCEPT ![p].wait = w] BY <1>1 DEF Acquire
  <2>2. [loc[p] EXCEPT !.wait = w] \in Locals BY DEF Locals
  <2>3. loc' \in [Procs -> Locals] BY <2>1, <2>2
  <2> QED BY <1>1, <2>3 DEF Acquire
<1>2. CASE AcquireReplay(p) BY <1>2 DEF AcquireReplay
<1>3. CASE Reserve(p) BY <1>3 DEF Reserve
<1>4. CASE StartCreate(p) BY <1>4 DEF StartCreate
<1>5. CASE CreateReturns(p) BY <1>5 DEF CreateReturns
<1>6. CASE CreateMismatched(p) BY <1>6 DEF CreateMismatched
<1>7. CASE CreateAmbiguous(p) BY <1>7 DEF CreateAmbiguous
<1>8. CASE CreateRefused(p) BY <1>8 DEF CreateRefused
<1>9. CASE CreateCancelled(p) BY <1>9 DEF CreateCancelled
<1>10. CASE LoadCapability(p) BY <1>10 DEF LoadCapability
<1>11. CASE LoadCapabilityError(p) BY <1>11 DEF LoadCapabilityError
<1> QED BY <1>1, <1>2, <1>3, <1>4, <1>5, <1>6, <1>7, <1>8, <1>9, <1>10, <1>11 DEF AcquireStep

\* The readiness poll.
LEMMA ReadinessStepType ==
    ASSUME TypeOK, NEW p \in Procs, ReadinessStep(p)
    PROVE  TypeOK'
<1> USE AcquireType, ReleaseType, WorkloadType, LocalsType
     DEF TypeOK, Unwritten, Commit, TransitionNonterminal, Jump, End, Finish, PollAgain,
         external, history, Labels
<1>1. CASE Poll(p) BY <1>1 DEF Poll
<1>2. CASE ReadinessRead(p) BY <1>2 DEF ReadinessRead
<1>3. CASE ReadinessRunning(p) BY <1>3 DEF ReadinessRunning
<1>4. CASE ReadinessNotYet(p) BY <1>4 DEF ReadinessNotYet
<1>5. CASE ReadinessUnusable(p) \/ ReadinessFailed(p)
  <2>1. \A u \in BOOLEAN : [loc[p] EXCEPT !.unusable = u] \in Locals BY DEF Locals
  <2>2. \A u \in BOOLEAN : [loc EXCEPT ![p].unusable = u] \in [Procs -> Locals] BY <2>1
  <2>3. loc' \in [Procs -> Locals]
    BY <1>5, <2>2 DEF ReadinessUnusable, ReadinessFailed
  <2>4. row' \in Lease /\ pc' \in [Procs -> Labels] /\ fresh' \in SUBSET Procs
    BY <1>5 DEF ReadinessUnusable, ReadinessFailed
  <2> QED BY <1>5, <2>3, <2>4 DEF ReadinessUnusable, ReadinessFailed
<1>6. CASE ReadinessError(p) BY <1>6 DEF ReadinessError
<1>7. CASE HealthOk(p) BY <1>7 DEF HealthOk
<1>8. CASE HealthFails(p) BY <1>8 DEF HealthFails
<1>9. CASE ReadinessCancelled(p) BY <1>9 DEF ReadinessCancelled
<1> QED BY <1>1, <1>2, <1>3, <1>4, <1>5, <1>6, <1>7, <1>8, <1>9 DEF ReadinessStep

\* release, terminate and the lookup by exact name.
LEMMA ReleaseStepType ==
    ASSUME TypeOK, NEW p \in Procs, ReleaseStep(p)
    PROVE  TypeOK'
<1> USE AcquireType, ReleaseType, WorkloadType, LocalsType
     DEF TypeOK, Unwritten, Commit, TransitionNonterminal, Jump, End, Finish, PollAgain,
         external, history, Labels
<1>1. CASE Release(p) BY <1>1 DEF Release
<1>2. CASE MarkFamily(p) BY <1>2 DEF MarkFamily
<1>3. CASE ReleaseRead(p) BY <1>3, EnterBillingType DEF ReleaseRead
<1>4. CASE ReleaseZero(p) BY <1>4 DEF ReleaseZero
<1>5. CASE ReleaseMark(p) BY <1>5 DEF ReleaseMark
<1>6. CASE Terminate(p) BY <1>6 DEF Terminate
<1>7. CASE TerminatePending(p) BY <1>7 DEF TerminatePending
<1>8. CASE TerminateError(p) BY <1>8 DEF TerminateError
<1>9. CASE ConfirmStop(p) BY <1>9, EnterBillingType DEF ConfirmStop
<1>10. CASE CompleteFamily(p) BY <1>10 DEF CompleteFamily
<1>11. CASE FindFound(p) BY <1>11 DEF FindFound, AfterLookup
<1>12. CASE FindAbsent(p) BY <1>12 DEF FindAbsent, AfterLookup
<1>13. CASE FindError(p) BY <1>13 DEF FindError, AfterLookup
<1> QED BY <1>1, <1>2, <1>3, <1>4, <1>5, <1>6, <1>7, <1>8, <1>9, <1>10, <1>11, <1>12, <1>13 DEF ReleaseStep

\* Billing, revocation and the final release.
LEMMA BillingStepType ==
    ASSUME TypeOK, NEW p \in Procs, BillingStepOf(p)
    PROVE  TypeOK'
<1> USE AcquireType, ReleaseType, WorkloadType, LocalsType
     DEF TypeOK, Unwritten, Commit, TransitionNonterminal, Jump, End, Finish, PollAgain, SettlementFails,
         external, history, Labels
<1>1. CASE BillUnresolved(p) BY <1>1 DEF BillUnresolved
<1>2. CASE BillNotYet(p)
  <2>1. [row EXCEPT !.billing = "pending"] \in Lease BY DEF Lease, BillingStates
  <2> QED BY <1>2, <2>1 DEF BillNotYet
<1>3. CASE BillReceipt(p) BY <1>3 DEF BillReceipt
<1>4. CASE BillError(p) BY <1>4 DEF BillError
<1>5. CASE Revoke(p) BY <1>5 DEF Revoke
<1>6. CASE RevokeError(p) BY <1>6 DEF RevokeError
<1>7. CASE FinalRelease(p) BY <1>7 DEF FinalRelease
<1> QED BY <1>1, <1>2, <1>3, <1>4, <1>5, <1>6, <1>7 DEF BillingStepOf

\* The steps of a reconciler pass.
LEMMA ReconcilerStepType ==
    ASSUME TypeOK, NEW p \in Procs, ReconcilerStep(p)
    PROVE  TypeOK'
<1> USE AcquireType, ReleaseType, WorkloadType, LocalsType
     DEF TypeOK, Unwritten, Commit, TransitionNonterminal, Jump, End, Finish, PollAgain,
         external, history, Labels
<1>1. CASE ReconcileFamily(p) BY <1>1 DEF ReconcileFamily
<1>2. CASE ReconcileOne(p) BY <1>2, EnterBillingType DEF ReconcileOne, ReconcileStep
<1>3. CASE Reap(p) BY <1>3 DEF Reap
<1>4. CASE ObserveStopped(p) BY <1>4, EnterBillingType DEF ObserveStopped
<1>5. CASE ObserveRoute(p) BY <1>5, RouteType DEF ObserveRoute
<1>6. CASE ObserveError(p) BY <1>6 DEF ObserveError
<1>7. CASE ObserveStoppedTooLate(p) BY <1>7 DEF ObserveStoppedTooLate
<1> QED BY <1>1, <1>2, <1>3, <1>4, <1>5, <1>6, <1>7 DEF ReconcilerStep

\* submit, observe, retrieve, heartbeat and cancel.
LEMMA WorkloadStepType ==
    ASSUME TypeOK, NEW p \in Procs, WorkloadStep(p)
    PROVE  TypeOK'
<1> USE AcquireType, ReleaseType, WorkloadType, LocalsType
     DEF TypeOK, Unwritten, Commit, TransitionNonterminal, Jump, End, Finish, PollAgain,
         external, history, Labels
<1>1. CASE Submit(p) BY <1>1 DEF Submit
<1>2. CASE SubmitDispatch(p) BY <1>2 DEF SubmitDispatch
<1>3. CASE SubmitCall(p)
  <2>1. \A w \in Observations : [loc[p] EXCEPT !.obs = w] \in Locals BY DEF Locals
  <2>2. \A w \in Observations : [loc EXCEPT ![p].obs = w] \in [Procs -> Locals] BY <2>1
  <2>3. [worker EXCEPT !.st = "running"] \in Observations BY DEF Observations
  <2>4. worker' \in Observations /\ loc' = [loc EXCEPT ![p].obs = worker']
    BY <1>3, <2>3 DEF SubmitCall, Answer
  <2>5. pc' \in [Procs -> Labels] BY <1>3 DEF SubmitCall, Answer
  <2> QED BY <1>3, <2>2, <2>4, <2>5 DEF SubmitCall
<1>4. CASE WorkerUnreachable(p) BY <1>4 DEF WorkerUnreachable
<1>5. CASE AnswerLost(p) BY <1>5 DEF AnswerLost
<1>6. CASE Observe(p) BY <1>6 DEF Observe
<1>7. CASE ObserveCall(p) BY <1>7 DEF ObserveCall, Answer, Locals, Observations
<1>8. CASE Record(p)
  <2>1. loc[p].obs \in Observations BY DEF Locals
  <2>2. WithObservation(row, loc[p].obs) \in Lease /\ WithSubmission(row, loc[p].obs) \in Lease
    BY <2>1, ObservationType
  <2>3. row' \in {row, WithObservation(row, loc[p].obs), WithSubmission(row, loc[p].obs)}
    BY <1>8 DEF Record, RecordObservation
  <2>4. pc' \in [Procs -> Labels] /\ loc' \in [Procs -> Locals] /\ fresh' \in SUBSET Procs
    BY <1>8 DEF Record, RecordObservation
  <2>5. UNCHANGED <<external, history>> BY <1>8 DEF Record
  <2> QED BY <2>2, <2>3, <2>4, <2>5
<1>9. CASE Retrieve(p) BY <1>9 DEF Retrieve
<1>10. CASE RetrieveDispatch(p) BY <1>10 DEF RetrieveDispatch
<1>11. CASE RetrieveCall(p) BY <1>11 DEF RetrieveCall
<1>12. CASE RecordEvidence(p) BY <1>12 DEF RecordEvidence
<1>13. CASE HeartbeatCall(p) BY <1>13 DEF HeartbeatCall
<1>14. CASE RequestCancellation(p) BY <1>14 DEF RequestCancellation
<1>15. CASE Cancel(p) BY <1>15 DEF Cancel
<1>16. CASE CancelCall(p) BY <1>16 DEF CancelCall, Observations
<1>17. CASE CancelError(p) BY <1>17 DEF CancelError
<1> QED BY <1>1, <1>2, <1>3, <1>4, <1>5, <1>6, <1>7, <1>8, <1>9, <1>10, <1>11, <1>12, <1>13, <1>14, <1>15, <1>16, <1>17 DEF WorkloadStep

\* acknowledge, recover and release of the result.
LEMMA HandoffStepType ==
    ASSUME TypeOK, NEW p \in Procs, HandoffStep(p)
    PROVE  TypeOK'
<1> USE AcquireType, ReleaseType, WorkloadType, LocalsType
     DEF TypeOK, Unwritten, Commit, TransitionNonterminal, Jump, End, Finish, PollAgain,
         external, history, Labels
<1>1. CASE Acknowledge(p)
  <2>1. PICK op \in AckOps, a \in Acks :
          /\ row' = [row EXCEPT !.ack = a] /\ fresh' = {}
          /\ pc' = [pc EXCEPT ![p] = "ack_load"]
          /\ loc' = [loc EXCEPT ![p].recover = (op = "recover"),
                              ![p].obs = [st |-> "acknowledged", res |-> row.result, ack |-> a]]
          /\ UNCHANGED <<external, history>>
    BY ONLY <1>1, Zenon DEF Acknowledge, Commit
  <2>2. row.result \in Results \cup {None} BY DEF Lease
  <2>3. [st |-> "acknowledged", res |-> row.result, ack |-> a] \in Observations
    BY <2>2 DEF Observations
  <2>4. (op = "recover") \in BOOLEAN OBVIOUS
  <2>5. [loc[p] EXCEPT !.recover = (op = "recover"),
                       !.obs = [st |-> "acknowledged", res |-> row.result, ack |-> a]] \in Locals
    BY <2>3, <2>4 DEF Locals
  <2>6. loc' \in [Procs -> Locals] BY <2>1, <2>5
  <2> QED BY <2>1, <2>6, AckType
<1>2. CASE AckDispatch(p) BY <1>2 DEF AckDispatch
<1>3. CASE AckCall(p)
  <2>1. loc[p].obs \in Observations BY DEF Locals
  <2>2. loc[p].obs.ack \in Acks \cup {None} BY <2>1 DEF Observations
  <2> QED BY <1>3, <2>1, <2>2 DEF AckCall
<1>4. CASE Confirm(p) BY <1>4 DEF Confirm
<1> QED BY <1>1, <1>2, <1>3, <1>4 DEF HandoffStep

\* Runpod, the worker and the clock.
LEMMA EnvironmentType ==
    ASSUME TypeOK, Environment
    PROVE  TypeOK'
<1> USE WorkloadType DEF TypeOK, Inside, external, history
<1>1. CASE ProviderAccepts
  <2>1. PICK m \in BOOLEAN : pod' = [st |-> "live", match |-> m] BY <1>1 DEF ProviderAccepts
  <2> QED BY <1>1, <2>1 DEF ProviderAccepts
<1>2. CASE ProviderDrops BY <1>2 DEF ProviderDrops
<1>3. CASE PodExits BY <1>3 DEF PodExits
<1>4. CASE WorkerStep BY <1>4 DEF WorkerStep, Observations
<1>5. CASE RunnerReplaced BY <1>5 DEF RunnerReplaced, NewWorker, Observations
<1>6. CASE Tick BY <1>6 DEF Tick
<1>7. CASE Age BY <1>7 DEF Age
<1> QED BY <1>1, <1>2, <1>3, <1>4, <1>5, <1>6, <1>7 DEF Environment

\* Every step of a process.
LEMMA ProcessType ==
    ASSUME TypeOK, NEW p \in Procs, ProcessStep(p) \/ Crash(p)
    PROVE  TypeOK'
<1>1. CASE RaiseError(p) \/ AbortPass(p) \/ Crash(p)
  BY <1>1, LocalsType DEF RaiseError, AbortPass, Crash, TypeOK, Unwritten, Commit, End, external,
     history, Labels
<1> QED BY <1>1, AcquireStepType, ReadinessStepType, ReleaseStepType, BillingStepType,
        ReconcilerStepType, WorkloadStepType, HandoffStepType DEF ProcessStep

\* Init establishes the types,
LEMMA InitType == Init => TypeOK
<1> SUFFICES ASSUME Init PROVE TypeOK OBVIOUS
<1>1. NoLease \in Lease
  BY DEF NoLease, Reserved, Lease, LeaseStates, CleanupStates, BillingStates, WorkloadStates
<1>2. pod \in [st : {"none", "inflight", "live", "stopped", "gone"}, match : BOOLEAN] BY DEF Init
<1>3. pc \in [Procs -> Labels] /\ loc \in [Procs -> Locals] BY LocalsType DEF Init, Labels
<1>4. worker \in Observations /\ cap \in {"none", "live", "revoked"} BY LocalsType DEF Init
<1>5. clock \in 0..2 /\ creates \in Nat BY DEF Init
<1>6. fresh \in SUBSET Procs /\ acked \in SUBSET (Acks \cup {None}) /\ misreaped \in BOOLEAN BY DEF Init
<1>7. row \in Lease BY <1>1 DEF Init
<1> QED BY <1>2, <1>3, <1>4, <1>5, <1>6, <1>7 DEF TypeOK

\* and every step keeps them.
LEMMA NextType == TypeOK /\ [Next]_vars => TypeOK'
<1> SUFFICES ASSUME TypeOK, [Next]_vars PROVE TypeOK' OBVIOUS
<1>1. CASE Next BY <1>1, EnvironmentType, ProcessType DEF Next
<1>2. CASE UNCHANGED vars BY <1>2 DEF vars, TypeOK
<1> QED BY <1>1, <1>2

\* Every reachable state is well typed: the row is a row of the table, and each
\* process is at a label of the service, for any hosts, reconcilers and faults.
THEOREM TypeCorrect == Spec => []TypeOK
BY InitType, NextType, PTL DEF Spec

-----------------------------------------------------------------------------
(* What a step may do to the state of the row, to the snapshots that still   *)
(* carry its revision and to the number of create requests.                  *)

Stopped ==
    {"cancel_requested", "reconcile_required", "result_retrieved", "releasing", "released"}

Frame ==
    /\ creates' = creates
    /\ misreaped => misreaped'
    /\ \/ row'.state = row.state
       \/ ~IsTerminal(row) /\ row'.state \in Stopped
       \/ Active(row) /\ row'.state # "absent"
    /\ \A q \in fresh' :
          pc'[q] = "acq_start" =>
              q \in fresh /\ pc[q] = "acq_start" /\ row'.state = row.state
    /\ \A q \in Procs :
          pc'[q] = "rel_terminate" => pc[q] = "rel_terminate" \/ row'.state \in Stopped
    /\ pod'.st = "gone" => pod.st = "gone" \/ \E q \in Procs : pc[q] = "rel_terminate"

\* Writes that leave the state of the row alone.
LEMMA StateKept ==
    ASSUME NEW r \in Lease, NEW b \in BOOLEAN, NEW kind, NEW a
    PROVE  /\ Heartbeat(r).state = r.state
           /\ CreateAccepted(r).state = r.state
           /\ CreateMismatch(r).state = r.state
           /\ RouteObserved(r, b).state = r.state
           /\ StopPending(r).state = r.state
           /\ BillingUnresolved(r).state = r.state
           /\ Billed(r, kind).state = r.state
           /\ FamilyRequested(r).state = r.state
           /\ FamilyComplete(r).state = r.state
           /\ [r EXCEPT !.ack = a].state = r.state
           /\ [r EXCEPT !.url = b].state = r.state
           /\ [r EXCEPT !.billing = "pending"].state = r.state
           /\ [r EXCEPT !.hb = "stale"].state = r.state
           /\ [Heartbeat(r) EXCEPT !.worker = TRUE].state = r.state
BY DEF Lease, Heartbeat, CreateAccepted, CreateMismatch, RouteObserved, StopPending,
       BillingUnresolved, Billed, FamilyRequested, FamilyComplete

\* The state in which a row is inserted.
LEMMA ReservedState ==
    ASSUME NEW hb
    PROVE  Reserved(hb).state = "requested"
BY DEF Reserved

\* The state a ready worker gives.
LEMMA StateReady == \A r \in Lease : WorkerReady(r).state = "ready"
BY DEF WorkerReady, Lease

\* Writes that stop the lease.
LEMMA StateStopped ==
    ASSUME NEW r \in Lease
    PROVE  /\ RetryableFailure(r).state \in Stopped
           /\ RetryableCreate(r).state \in Stopped
           /\ Releasing(r).state \in Stopped
           /\ StopConfirmed(r).state \in Stopped
           /\ FoundStopped(r).state \in Stopped
           /\ ZeroReceipt(r).state \in Stopped
           /\ CreateRejected(r).state \in Stopped
           /\ NoPodReceipt(r).state \in Stopped
           /\ Adopted(r).state \in Stopped
           /\ AwaitingCreate(r).state \in Stopped
           /\ Released(r).state \in Stopped
           /\ CancelRequested(r).state \in Stopped
           /\ HostConfirmed(r).state \in Stopped
BY DEF Lease, Stopped, RetryableFailure, RetryableCreate, Releasing, StopConfirmed, FoundStopped,
       ZeroReceipt, CreateRejected, NoPodReceipt, Adopted, AwaitingCreate, Released,
       CancelRequested, HostConfirmed

\* An observation of the workload keeps the state, advances an active row or stops it.
LEMMA StateObserved ==
    ASSUME NEW r \in Lease, NEW o \in Observations
    PROVE  \/ WithObservation(r, o).state = r.state
           \/ Active(r) /\ WithObservation(r, o).state # "absent"
<1>1. WithProof(r, o).state = r.state BY DEF WithProof, Lease
<1>2. CASE WorkloadFrozen(r) \/ Regresses(r, o) BY <1>1, <1>2 DEF WithObservation, ProofOnly
<1>3. CASE ~WorkloadFrozen(r)
  <2>1. Active(r) /\ r.state # "absent" BY <1>3 DEF WorkloadFrozen, Active
  <2>2. StateAfter(r, o) # "absent" BY <2>1 DEF StateAfter
  <2>3. WithObservation(r, o).state \in {r.state, StateAfter(r, o)}
    BY <1>1 DEF WithObservation, ProofOnly, WithProof, Lease
  <2> QED BY <2>1, <2>2, <2>3
<1> QED BY <1>2, <1>3

\* A submission gives the row the same state as an observation.
LEMMA StateSubmitted ==
    ASSUME NEW r \in Lease, NEW o \in Observations
    PROVE  WithSubmission(r, o).state = WithObservation(r, o).state
<1>1. WithObservation(r, o) \in Lease BY ObservationType
<1>2. \A q \in Lease : [q EXCEPT !.submitted = TRUE].state = q.state BY DEF Lease
<1>3. CASE ProofOnly(r, o) BY <1>3 DEF WithSubmission, WithObservation
<1>4. CASE ~ProofOnly(r, o) BY <1>1, <1>2, <1>4 DEF WithSubmission
<1> QED BY <1>3, <1>4

\* The steps of the readiness poll are framed.
LEMMA ReadinessStepFrame ==
    ASSUME TypeOK, NEW p \in Procs, ReadinessStep(p)
    PROVE  Frame
<1> USE StateKept, StateStopped DEF TypeOK, Frame, Unwritten, Commit, TransitionNonterminal, Jump, End,
         Finish, PollAgain, external, history
<1>1. CASE Poll(p) BY <1>1 DEF Poll
<1>2. CASE ReadinessRead(p) BY <1>2 DEF ReadinessRead
<1>3. CASE ReadinessRunning(p) BY <1>3 DEF ReadinessRunning
<1>4. CASE ReadinessNotYet(p) BY <1>4 DEF ReadinessNotYet
<1>5. CASE ReadinessUnusable(p) BY <1>5 DEF ReadinessUnusable
<1>6. CASE ReadinessError(p) BY <1>6 DEF ReadinessError
<1>7. CASE HealthOk(p) BY <1>7, StateReady DEF HealthOk, StillStarting, Active
<1>8. CASE HealthFails(p) BY <1>8 DEF HealthFails
<1>9. CASE ReadinessCancelled(p) BY <1>9 DEF ReadinessCancelled
<1>10. CASE ReadinessFailed(p) BY <1>10 DEF ReadinessFailed
<1> QED BY <1>1, <1>2, <1>3, <1>4, <1>5, <1>6, <1>7, <1>8, <1>9, <1>10 DEF ReadinessStep

\* The steps of a release are framed: the label before the DELETE is entered
\* only with a stopped row.
LEMMA ReleaseStepFrame ==
    ASSUME TypeOK, NEW p \in Procs, ReleaseStep(p)
    PROVE  Frame
<1> USE StateKept, StateStopped DEF TypeOK, Frame, Unwritten, Commit, TransitionNonterminal, Jump, End,
         Finish, PollAgain, external, history
<1>1. CASE Release(p) BY <1>1 DEF Release
<1>2. CASE MarkFamily(p) BY <1>2 DEF MarkFamily
<1>3. CASE ReleaseRead(p) BY <1>3 DEF ReleaseRead, EnterBilling, BillingStep, Stopped
<1>4. CASE ReleaseZero(p) BY <1>4 DEF ReleaseZero
<1>5. CASE ReleaseMark(p) BY <1>5 DEF ReleaseMark
<1>6. CASE Terminate(p) BY <1>6 DEF Terminate, At
<1>7. CASE TerminatePending(p) BY <1>7 DEF TerminatePending
<1>8. CASE TerminateError(p) BY <1>8 DEF TerminateError, At
<1>9. CASE ConfirmStop(p) BY <1>9 DEF ConfirmStop, EnterBilling, BillingStep
<1>10. CASE CompleteFamily(p) BY <1>10 DEF CompleteFamily
<1>11. CASE FindFound(p) BY <1>11 DEF FindFound, AfterLookup
<1>12. CASE FindAbsent(p) BY <1>12 DEF FindAbsent, AfterLookup
<1>13. CASE FindError(p) BY <1>13 DEF FindError, AfterLookup
<1> QED BY <1>1, <1>2, <1>3, <1>4, <1>5, <1>6, <1>7, <1>8, <1>9, <1>10, <1>11, <1>12, <1>13 DEF ReleaseStep

\* The steps of billing and revocation are framed.
LEMMA BillingStepFrame ==
    ASSUME TypeOK, NEW p \in Procs, BillingStepOf(p)
    PROVE  Frame
<1> USE StateKept, StateStopped DEF TypeOK, Frame, Unwritten, Commit, TransitionNonterminal, Jump, End,
         Finish, PollAgain, SettlementFails, external, history
<1>1. CASE BillUnresolved(p) BY <1>1 DEF BillUnresolved
<1>2. CASE BillNotYet(p) BY <1>2 DEF BillNotYet
<1>3. CASE BillReceipt(p) BY <1>3 DEF BillReceipt
<1>4. CASE BillError(p) BY <1>4 DEF BillError
<1>5. CASE Revoke(p) BY <1>5 DEF Revoke
<1>6. CASE RevokeError(p) BY <1>6 DEF RevokeError
<1>7. CASE FinalRelease(p) BY <1>7 DEF FinalRelease
<1> QED BY <1>1, <1>2, <1>3, <1>4, <1>5, <1>6, <1>7 DEF BillingStepOf

\* The steps of a reconciler pass are framed.
LEMMA ReconcilerStepFrame ==
    ASSUME TypeOK, NEW p \in Procs, ReconcilerStep(p)
    PROVE  Frame
<1> USE StateKept, StateStopped DEF TypeOK, Frame, Unwritten, Commit, TransitionNonterminal, Jump, End,
         Finish, PollAgain, external, history
<1>1. CASE ReconcileFamily(p) BY <1>1 DEF ReconcileFamily
<1>2. CASE ReconcileOne(p) BY <1>2 DEF ReconcileOne, ReconcileStep, EnterBilling, BillingStep
<1>3. CASE Reap(p) BY <1>3 DEF Reap
<1>4. CASE ObserveStopped(p) BY <1>4 DEF ObserveStopped, EnterBilling, BillingStep
<1>5. CASE ObserveRoute(p)
  <2>1. \A b \in BOOLEAN : [row EXCEPT !.url = b].state = row.state BY DEF Lease
  <2> QED BY <1>5, <2>1 DEF ObserveRoute
<1>6. CASE ObserveError(p) BY <1>6 DEF ObserveError
<1>7. CASE ObserveStoppedTooLate(p) BY <1>7 DEF ObserveStoppedTooLate
<1> QED BY <1>1, <1>2, <1>3, <1>4, <1>5, <1>6, <1>7 DEF ReconcilerStep

\* The steps of the workload are framed.
LEMMA WorkloadStepFrame ==
    ASSUME TypeOK, NEW p \in Procs, WorkloadStep(p)
    PROVE  Frame
<1> USE StateKept, StateStopped DEF TypeOK, Frame, Unwritten, Commit, TransitionNonterminal, Jump, End,
         Finish, PollAgain, external, history
<1>1. CASE Submit(p) BY <1>1 DEF Submit
<1>2. CASE SubmitDispatch(p) BY <1>2 DEF SubmitDispatch
<1>3. CASE SubmitCall(p) BY <1>3 DEF SubmitCall, Answer
<1>4. CASE WorkerUnreachable(p) BY <1>4 DEF WorkerUnreachable
<1>5. CASE AnswerLost(p) BY <1>5 DEF AnswerLost
<1>6. CASE Observe(p) BY <1>6 DEF Observe
<1>7. CASE ObserveCall(p) BY <1>7 DEF ObserveCall, Answer
<1>8. CASE Record(p)
  <2>1. loc[p].obs \in Observations BY DEF Locals
  <2> DEFINE o == loc[p].obs
  <2>2. row' \in {row, WithObservation(row, o), WithSubmission(row, o)}
    BY <1>8 DEF Record, RecordObservation
  <2>3. row'.state = row.state \/ (Active(row) /\ row'.state # "absent")
    BY <2>1, <2>2, StateObserved, StateSubmitted
  <2>4. /\ (row' = row /\ fresh' = fresh \ {p}) \/ fresh' = {}
        /\ \A q \in Procs : pc'[q] = pc[q] \/ pc'[q] \in {"idle", "raise", "abort", "release"}
        /\ UNCHANGED <<external, history>>
    BY <1>8 DEF Record, RecordObservation
  <2> QED BY <2>3, <2>4
<1>9. CASE Retrieve(p) BY <1>9 DEF Retrieve
<1>10. CASE RetrieveDispatch(p) BY <1>10 DEF RetrieveDispatch
<1>11. CASE RetrieveCall(p) BY <1>11 DEF RetrieveCall
<1>12. CASE RecordEvidence(p) BY <1>12 DEF RecordEvidence
<1>13. CASE HeartbeatCall(p) BY <1>13 DEF HeartbeatCall
<1>14. CASE RequestCancellation(p) BY <1>14 DEF RequestCancellation
<1>15. CASE Cancel(p) BY <1>15 DEF Cancel
<1>16. CASE CancelCall(p) BY <1>16 DEF CancelCall
<1>17. CASE CancelError(p) BY <1>17 DEF CancelError
<1> QED BY <1>1, <1>2, <1>3, <1>4, <1>5, <1>6, <1>7, <1>8, <1>9, <1>10, <1>11, <1>12, <1>13, <1>14, <1>15, <1>16, <1>17 DEF WorkloadStep

\* The steps of the result handoff are framed.
LEMMA HandoffStepFrame ==
    ASSUME TypeOK, NEW p \in Procs, HandoffStep(p)
    PROVE  Frame
<1> USE StateKept, StateStopped DEF TypeOK, Frame, Unwritten, Commit, TransitionNonterminal, Jump, End,
         Finish, PollAgain, external, history
<1>1. CASE Acknowledge(p) BY <1>1 DEF Acknowledge
<1>2. CASE AckDispatch(p) BY <1>2 DEF AckDispatch
<1>3. CASE AckCall(p) BY <1>3 DEF AckCall
<1>4. CASE Confirm(p) BY <1>4 DEF Confirm
<1> QED BY <1>1, <1>2, <1>3, <1>4 DEF HandoffStep

\* The steps of an acquisition are framed, but for Reserve and StartCreate.
LEMMA AcquireStepFrame ==
    ASSUME TypeOK, NEW p \in Procs, AcquireStep(p), ~Reserve(p), ~StartCreate(p)
    PROVE  Frame
<1> USE StateKept, StateStopped DEF TypeOK, Frame, Unwritten, Commit, TransitionNonterminal, Jump, End,
         external, history
<1>1. CASE Acquire(p) BY <1>1 DEF Acquire
<1>2. CASE AcquireReplay(p) BY <1>2 DEF AcquireReplay
<1>3. CASE CreateReturns(p) BY <1>3 DEF CreateReturns
<1>4. CASE CreateMismatched(p) BY <1>4 DEF CreateMismatched
<1>5. CASE CreateAmbiguous(p) BY <1>5 DEF CreateAmbiguous
<1>6. CASE CreateRefused(p) BY <1>6 DEF CreateRefused
<1>7. CASE CreateCancelled(p) BY <1>7 DEF CreateCancelled
<1>8. CASE LoadCapability(p) BY <1>8 DEF LoadCapability
<1>9. CASE LoadCapabilityError(p) BY <1>9 DEF LoadCapabilityError
<1> QED BY <1>1, <1>2, <1>3, <1>4, <1>5, <1>6, <1>7, <1>8, <1>9 DEF AcquireStep

\* The steps of the environment are framed.
LEMMA EnvironmentFrame ==
    ASSUME TypeOK, Environment
    PROVE  Frame
<1> USE DEF TypeOK, Frame, Inside, external, history
<1>1. CASE ProviderAccepts
  <2>1. pod'.st = "live" BY <1>1 DEF ProviderAccepts
  <2> QED BY <1>1, <2>1 DEF ProviderAccepts
<1>2. CASE ProviderDrops BY <1>2 DEF ProviderDrops
<1>3. CASE PodExits BY <1>3 DEF PodExits
<1>4. CASE WorkerStep BY <1>4 DEF WorkerStep
<1>5. CASE RunnerReplaced BY <1>5 DEF RunnerReplaced
<1>6. CASE Tick BY <1>6 DEF Tick
<1>7. CASE Age BY <1>7, StateKept DEF Age
<1> QED BY <1>1, <1>2, <1>3, <1>4, <1>5, <1>6, <1>7 DEF Environment

\* Every step but the insertion of the row and the create request.
LEMMA NextFrame ==
    ASSUME TypeOK, Next, \A p \in Procs : ~Reserve(p) /\ ~StartCreate(p)
    PROVE  Frame
<1>1. CASE Environment BY <1>1, EnvironmentFrame
<1>2. CASE \E p \in Procs : ProcessStep(p) \/ Crash(p)
  <2> PICK p \in Procs : ProcessStep(p) \/ Crash(p) BY <1>2
  <2>1. CASE RaiseError(p) \/ AbortPass(p) \/ Crash(p)
    BY <2>1 DEF RaiseError, AbortPass, Crash, Frame, TypeOK, Unwritten, Commit, End, external, history
  <2> QED BY <2>1, AcquireStepFrame, ReadinessStepFrame, ReleaseStepFrame, BillingStepFrame,
        ReconcilerStepFrame, WorkloadStepFrame, HandoffStepFrame DEF ProcessStep
<1> QED BY <1>1, <1>2 DEF Next

-----------------------------------------------------------------------------
Inv == TypeOK /\ CreateInv /\ TeardownInv

\* Init establishes the invariant,
LEMMA InvInit == Init => Inv
<1> SUFFICES ASSUME Init PROVE Inv OBVIOUS
<1>1. NoLease.state = "absent" BY DEF NoLease, Reserved
<1>2. TypeOK BY InitType
<1> QED BY <1>1, <1>2 DEF Init, Inv, CreateInv, TeardownInv, At, Exists

\* and every step keeps it: framed steps at once, Reserve and StartCreate by the
\* revision test that only one process can pass.
LEMMA InvNext == Inv /\ [Next]_vars => Inv'
<1> SUFFICES ASSUME Inv, [Next]_vars PROVE Inv' OBVIOUS
<1>1. TypeOK' BY NextType DEF Inv
<1>2. CASE Next /\ \A p \in Procs : ~Reserve(p) /\ ~StartCreate(p)
  <2>1. Frame BY <1>2, NextFrame DEF Inv
  <2>2. CreateInv'
    BY <1>1, <2>1 DEF Frame, Inv, CreateInv, At, Exists, Stopped, TypeOK
  <2>3. TeardownInv'
    BY <1>1, <2>1 DEF Frame, Inv, TeardownInv, At, Exists, Active, Stopped, TypeOK
  <2> QED BY <1>1, <2>2, <2>3 DEF Inv
<1>3. ASSUME NEW p \in Procs, Reserve(p) PROVE Inv'
  <2> USE DEF Inv, TypeOK, At, Exists
  <2>1. CASE Inserts /\ row' # row
    <3>1. /\ row'.state = "requested" /\ fresh' = {p} /\ creates' = creates
          /\ pc' = [pc EXCEPT ![p] = "acq_start"]
      BY <1>3, <2>1 DEF Reserve, Inserts, Unwritten, Jump, Reserved, history
    <3>2. CreateInv' BY <2>1, <3>1 DEF CreateInv, Inserts
    <3>3. TeardownInv' BY <2>1, <3>1 DEF TeardownInv, Inserts
    <3> QED BY <1>1, <3>2, <3>3
  <2>2. CASE ~(Inserts /\ row' # row)
    <3>1. /\ row'.state = row.state /\ creates' = creates
          /\ fresh' \subseteq fresh \ {p}
      BY <1>3, <2>2, StateKept, ReservedState DEF Reserve, Inserts, Unwritten, Commit, history
    <3>2. \A q \in Procs : pc'[q] = pc[q] \/ pc'[q] \in {"idle", "raise"}
      BY <1>3, <2>2, ReservedState DEF Reserve, Inserts, Jump, End
    <3>3. CreateInv' BY <3>1, <3>2 DEF CreateInv
    <3>4. TeardownInv' BY <3>1, <3>2 DEF TeardownInv, Active
    <3> QED BY <1>1, <3>3, <3>4
  <2> QED BY <2>1, <2>2
<1>4. ASSUME NEW p \in Procs, StartCreate(p) PROVE Inv'
  <2> USE DEF Inv, TypeOK, At, Exists
  <2>1. CASE Unchanged(p)
    <3>1. row.state = "requested" /\ creates = 0
      BY <1>4, <2>1 DEF StartCreate, Unchanged, CreateInv
    <3>2. /\ row' = CreateStarting(row) /\ fresh' = {} /\ creates' = 1
          /\ pc' = [pc EXCEPT ![p] = "acq_create"]
      BY <1>4, <2>1, <3>1 DEF StartCreate, Commit, Jump
    <3>3. row'.state = "starting" BY <3>2 DEF CreateStarting, Lease
    <3>4. CreateInv' BY <3>2, <3>3 DEF CreateInv
    <3>5. TeardownInv' BY <3>1, <3>2 DEF TeardownInv, Active
    <3> QED BY <1>1, <3>4, <3>5
  <2>2. CASE ~Unchanged(p)
    <3>1. /\ row' = row /\ fresh' = fresh \ {p} /\ creates' = creates
          /\ pc' = [pc EXCEPT ![p] = "raise"]
      BY <1>4, <2>2 DEF StartCreate, Unwritten, Jump
    <3>2. CreateInv' BY <3>1 DEF CreateInv
    <3>3. TeardownInv' BY <3>1 DEF TeardownInv
    <3> QED BY <1>1, <3>2, <3>3
  <2> QED BY <2>1, <2>2
<1>5. CASE UNCHANGED vars
  BY <1>1, <1>5 DEF vars, Inv, CreateInv, TeardownInv, At, Exists
<1> QED BY <1>2, <1>3, <1>4, <1>5

\* The whole inductive invariant holds in every reachable state.
THEOREM InvHolds == Spec => []Inv
BY InvInit, InvNext, PTL DEF Spec

\* At most one create request leaves for Runpod, whatever hosts and
\* reconcilers race, crash and retry: reserve, strict compare_and_set, POST.
THEOREM CreateOnce == Spec => []SingleCreate
<1>1. Inv => SingleCreate BY DEF Inv, CreateInv, SingleCreate
<1> QED BY <1>1, InvHolds, PTL

\* A step never takes a stopped row back to use, nor a released one anywhere.
LEMMA StopStep ==
    ASSUME Inv, Next
    PROVE  /\ Exists /\ ~Active(row) => Exists' /\ ~Active(row')
           /\ IsTerminal(row) => IsTerminal(row')
<1> USE DEF Inv, TypeOK
<1>1. CASE \A p \in Procs : ~Reserve(p) /\ ~StartCreate(p)
  <2>1. Frame BY <1>1, NextFrame
  <2> QED BY <2>1 DEF Frame, Exists, Active, IsTerminal, Stopped
<1>2. ASSUME NEW p \in Procs, Reserve(p) PROVE ~Exists \/ row'.state = row.state
  BY <1>2, StateKept DEF Reserve, Inserts, Unwritten, Commit, Exists
<1>3. ASSUME NEW p \in Procs, StartCreate(p) PROVE row.state = "requested" \/ row' = row
  BY <1>3 DEF StartCreate, Unchanged, Unwritten, CreateInv, At
<1> QED BY <1>1, <1>2, <1>3 DEF Exists, Active, IsTerminal

\* A persisted stop is never undone and RELEASED is final: late readiness
\* polls, workload observations and create responses do not revive a lease.
THEOREM StopIsPermanent == Spec => StopIsForever
<1>1. Inv /\ [Next]_vars =>
        [/\ Exists /\ ~Active(row) => Exists' /\ ~Active(row')
         /\ IsTerminal(row) => IsTerminal(row')]_vars
  BY StopStep
<1> QED BY <1>1, InvHolds, PTL DEF Spec, StopIsForever

\* Wherever the service deletes the Pod, the stop was persisted before and no
\* other process has made the lease usable since.
THEOREM TeardownAfterStop == Spec => TeardownIsPersisted
<1>1. ASSUME Inv, Next, pod.st \in {"live", "stopped"}, pod'.st = "gone"
      PROVE  ~Active(row)
  <2>1. CASE \A p \in Procs : ~Reserve(p) /\ ~StartCreate(p)
    <3>1. Frame BY <1>1, <2>1, NextFrame DEF Inv
    <3> QED BY <1>1, <3>1 DEF Frame, Inv, TeardownInv, At
  <2>2. ASSUME NEW p \in Procs, Reserve(p) \/ StartCreate(p) PROVE FALSE
    BY <1>1, <2>2 DEF Reserve, StartCreate, external, Inv, TypeOK
  <2> QED BY <2>1, <2>2
<1>2. Inv /\ [Next]_vars =>
        [pod.st \in {"live", "stopped"} /\ pod'.st = "gone" => ~Active(row)]_vars
  BY <1>1
<1> QED BY <1>2, InvHolds, PTL DEF Spec, TeardownIsPersisted

-----------------------------------------------------------------------------
(* The workload and the handoff of its result. *)

\* Where a process has not seen the row, or is done with it.
Resting == {"idle", "raise", "abort", "acq_load", "acq_reserve"}
Loads(p) == LoadCapability(p) \/ LoadCapabilityError(p)

\* Before reserve() there is no row, and nobody works on one.
Born == ~Exists => row = NoLease /\ \A q \in Procs : pc[q] \in Resting

\* The answers of a worker that exist anywhere: its own state and those that
\* are on their way to the row.
Answered == {"sub_record", "obs_record", "ack_record"}
Delivering == {"ack_load", "ack_call"}

Genuine(o) ==
    /\ IsHandoff(o) => o.res # None
    /\ o.st = "acknowledged" => o.ack \in acked

HandoffInv ==
    /\ acked \subseteq {row.ack} /\ None \notin acked
    /\ row.remoteAck => row.ack \in acked /\ row.result # None
    /\ row.hostConf => row.remoteAck
    /\ Genuine(worker)
    /\ \A q \in Procs :
          /\ pc[q] \in Delivering =>
                /\ loc[q].obs.st = "acknowledged" /\ loc[q].obs.res # None
                /\ loc[q].obs.ack = row.ack /\ row.ack # None
          /\ pc[q] \in Answered => Genuine(loc[q].obs)

-----------------------------------------------------------------------------
(* The row before and after its reservation. *)

LEMMA NoLeaseFields ==
    /\ NoLease \in Lease
    /\ NoLease.state = "absent" /\ NoLease.wl = "not_submitted" /\ ~NoLease.pid /\ ~NoLease.famReq
    /\ NoLease.result = None /\ NoLease.ack = None /\ ~NoLease.remoteAck /\ ~NoLease.hostConf
BY DEF NoLease, Reserved, Lease, LeaseStates, CleanupStates, BillingStates, WorkloadStates

LEMMA ExistsKept == ASSUME Inv, [Next]_vars, Exists PROVE Exists'
<1>1. CASE Next /\ \A p \in Procs : ~Reserve(p) /\ ~StartCreate(p)
  <2>1. Frame BY <1>1, NextFrame DEF Inv
  <2> QED BY <2>1 DEF Frame, Exists, Stopped
<1>2. ASSUME NEW p \in Procs, Reserve(p) PROVE Exists'
  BY <1>2, StateKept DEF Reserve, Inserts, Unwritten, Commit, Exists, Inv, TypeOK
<1>3. ASSUME NEW p \in Procs, StartCreate(p) PROVE Exists'
  BY <1>3 DEF StartCreate, Unwritten, Commit, CreateStarting, Exists, Inv, TypeOK, Lease
<1>4. CASE UNCHANGED vars BY <1>4 DEF vars, Exists
<1> QED BY <1>1, <1>2, <1>3, <1>4

\* While there is no row the processes can only try to insert one.
LEMMA Unborn ==
    ASSUME Inv, Born, ~Exists, NEW p \in Procs, ProcessStep(p) \/ Crash(p)
    PROVE  Acquire(p) \/ Loads(p) \/ Reserve(p) \/ RaiseError(p) \/ AbortPass(p) \/ Crash(p)
<1>1. row = NoLease /\ pc[p] \in Resting BY DEF Born
<1> USE <1>1, NoLeaseFields DEF Exists, Resting, At, Call
<1>2. ASSUME AcquireStep(p), ~Acquire(p), ~Loads(p), ~Reserve(p) PROVE FALSE
  BY <1>2 DEF AcquireStep, Loads, AcquireReplay, StartCreate, CreateReturns, CreateMismatched, CreateAmbiguous,
     CreateRefused, CreateCancelled
<1>3. ASSUME ReadinessStep(p) PROVE FALSE
  BY <1>3 DEF ReadinessStep, Poll, ReadinessRead, ReadinessRunning, ReadinessNotYet, ReadinessUnusable,
     ReadinessFailed, ReadinessError, HealthOk, HealthFails, ReadinessCancelled
<1>4. ASSUME ReleaseStep(p) PROVE FALSE
  BY <1>4 DEF ReleaseStep, Release, MarkFamily, ReleaseRead, ReleaseZero, ReleaseMark, Terminate,
     TerminatePending, TerminateError, ConfirmStop, CompleteFamily, FindFound, FindAbsent, FindError
<1>5. ASSUME BillingStepOf(p) PROVE FALSE
  BY <1>5 DEF BillingStepOf, BillUnresolved, BillNotYet, BillReceipt, BillError, Revoke, RevokeError,
     FinalRelease
<1>6. ASSUME ReconcilerStep(p) PROVE FALSE
  BY <1>6 DEF ReconcilerStep, ReconcileFamily, ReconcileOne, Reap, ObserveStopped, ObserveStoppedTooLate,
     ObserveRoute, ObserveError, Unfinished
<1>7. ASSUME WorkloadStep(p) PROVE FALSE
  BY <1>7 DEF WorkloadStep, Submit, SubmitDispatch, SubmitCall, WorkerUnreachable, AnswerLost, Observe,
     ObserveCall, Record, Retrieve, RetrieveDispatch, RetrieveCall, RecordEvidence, HeartbeatCall,
     RequestCancellation, Cancel, CancelCall, CancelError, CatalogResultReady, Submittable
<1>8. ASSUME HandoffStep(p) PROVE FALSE
  BY <1>8 DEF HandoffStep, Acknowledge, AckDispatch, AckCall, Confirm, CatalogResultReady, AckAdmissible
<1> QED BY <1>2, <1>3, <1>4, <1>5, <1>6, <1>7, <1>8 DEF ProcessStep

LEMMA BornNext == ASSUME Inv, Born, [Next]_vars PROVE Born'
<1>1. CASE Exists BY <1>1, ExistsKept DEF Born
<1>2. CASE ~Exists
  <2>1. row = NoLease /\ \A q \in Procs : pc[q] \in Resting BY <1>2 DEF Born
  <2>2. CASE Environment \/ UNCHANGED vars
    <3>1. row' = row /\ pc' = pc
      BY <1>2, <2>2 DEF Environment, ProviderAccepts, ProviderDrops, PodExits, WorkerStep, RunnerReplaced, Tick,
         Age, Inside, vars
    <3> QED BY <2>1, <3>1 DEF Born
  <2>3. ASSUME NEW p \in Procs, ProcessStep(p) \/ Crash(p) PROVE Born'
    <3>1. Acquire(p) \/ Loads(p) \/ Reserve(p) \/ RaiseError(p) \/ AbortPass(p) \/ Crash(p) BY <1>2, <2>3, Unborn
    <3>2. CASE Reserve(p)
      <4>1. \A hb : Reserved(hb).state # "absent" BY ReservedState
      <4>2. Exists' \/ (row' = row /\ pc' = [pc EXCEPT ![p] = "raise"])
        BY <1>2, <3>2, <4>1 DEF Reserve, Inserts, Exists, Unwritten, Jump
      <4> QED BY <2>1, <4>2 DEF Born, Resting, Inv, TypeOK
    <3>3. CASE ~Reserve(p)
      <4>1. row' = row BY <1>2, <3>1, <3>3 DEF Acquire, Loads, LoadCapability, LoadCapabilityError, RaiseError, AbortPass, Crash,
           Unwritten, Unfinished, Exists
      <4>2. \A q \in Procs : pc'[q] \in Resting
        BY <2>1, <3>1, <3>3 DEF Acquire, Loads, LoadCapability, LoadCapabilityError, RaiseError, AbortPass, Crash,
           Jump, End, Resting, Inv, TypeOK
      <4> QED BY <2>1, <4>1, <4>2 DEF Born
    <3> QED BY <3>2, <3>3
  <2> QED BY <2>2, <2>3 DEF Next
<1> QED BY <1>1, <1>2

LEMMA BornInit == Init => Born
BY DEF Init, Born, Resting

-----------------------------------------------------------------------------
(* Steps that do not concern the handoff. *)

SameHandoff(r, s) ==
    r.result = s.result /\ r.ack = s.ack /\ r.remoteAck = s.remoteAck /\ r.hostConf = s.hostConf

SameWork(r, s) == SameHandoff(r, s) /\ r.wl = s.wl

LEMMA WorkKept ==
    ASSUME NEW r \in Lease, NEW b \in BOOLEAN, NEW kind
    PROVE  /\ SameWork(Heartbeat(r), r)
           /\ SameWork(CreateStarting(r), r)
           /\ SameWork(CreateAccepted(r), r)
           /\ SameWork(CreateMismatch(r), r)
           /\ SameWork(RouteObserved(r, b), r)
           /\ SameWork(WorkerReady(r), r)
           /\ SameWork(RetryableFailure(r), r)
           /\ SameWork(RetryableCreate(r), r)
           /\ SameWork(Releasing(r), r)
           /\ SameWork(StopPending(r), r)
           /\ SameWork(StopConfirmed(r), r)
           /\ SameWork(FoundStopped(r), r)
           /\ SameWork(ZeroReceipt(r), r)
           /\ SameWork(CreateRejected(r), r)
           /\ SameWork(NoPodReceipt(r), r)
           /\ SameWork(Adopted(r), r)
           /\ SameWork(AwaitingCreate(r), r)
           /\ SameWork(BillingUnresolved(r), r)
           /\ SameWork(Billed(r, kind), r)
           /\ SameWork(FamilyRequested(r), r)
           /\ SameWork(FamilyComplete(r), r)
           /\ SameWork(Released(r), r)
           /\ SameWork([r EXCEPT !.url = b], r)
           /\ SameWork([r EXCEPT !.billing = "pending"], r)
           /\ SameWork([r EXCEPT !.hb = "stale"], r)
           /\ SameWork([Heartbeat(r) EXCEPT !.worker = TRUE], r)
           /\ SameWork(r, r)
<1> USE DEF Lease, SameWork, SameHandoff
<1>1. /\ SameWork(Heartbeat(r), r) /\ SameWork(CreateStarting(r), r) /\ SameWork(CreateAccepted(r), r)
      /\ SameWork(CreateMismatch(r), r) /\ SameWork(RouteObserved(r, b), r) /\ SameWork(WorkerReady(r), r)
  BY DEF Heartbeat, CreateStarting, CreateAccepted, CreateMismatch, RouteObserved, WorkerReady
<1>2. /\ SameWork(RetryableFailure(r), r) /\ SameWork(RetryableCreate(r), r) /\ SameWork(Releasing(r), r)
      /\ SameWork(StopPending(r), r) /\ SameWork(StopConfirmed(r), r) /\ SameWork(FoundStopped(r), r)
  BY DEF RetryableFailure, RetryableCreate, Releasing, StopPending, StopConfirmed, FoundStopped
<1>3. /\ SameWork(ZeroReceipt(r), r) /\ SameWork(CreateRejected(r), r) /\ SameWork(NoPodReceipt(r), r)
      /\ SameWork(Adopted(r), r) /\ SameWork(AwaitingCreate(r), r)
  BY DEF ZeroReceipt, CreateRejected, NoPodReceipt, Adopted, AwaitingCreate
<1>4. /\ SameWork(BillingUnresolved(r), r) /\ SameWork(Billed(r, kind), r) /\ SameWork(FamilyRequested(r), r)
      /\ SameWork(FamilyComplete(r), r) /\ SameWork(Released(r), r)
  BY DEF BillingUnresolved, Billed, FamilyRequested, FamilyComplete, Released
<1>5. /\ SameWork([r EXCEPT !.url = b], r) /\ SameWork([r EXCEPT !.billing = "pending"], r)
      /\ SameWork([r EXCEPT !.hb = "stale"], r) /\ SameWork([Heartbeat(r) EXCEPT !.worker = TRUE], r)
      /\ SameWork(r, r)
  BY DEF Heartbeat
<1> QED BY <1>1, <1>2, <1>3, <1>4, <1>5

LEMMA RankType == \A w : Rank(w) \in 0..4
BY DEF Rank

\* Nothing is delivered or recorded, and the phase does not go back.
Quiet ==
    /\ SameHandoff(row', row) /\ Rank(row.wl) <= Rank(row'.wl)
    /\ worker' = worker /\ acked' = acked
    /\ \A q \in Procs :
          /\ pc'[q] \in Delivering => pc[q] \in Delivering /\ loc'[q] = loc[q]
          /\ pc'[q] \in Answered => pc[q] \in Answered /\ loc'[q] = loc[q]

LEMMA QuietWork ==
    ASSUME SameWork(row', row), worker' = worker, acked' = acked,
           \A q \in Procs :
              /\ pc'[q] \in Delivering => pc[q] \in Delivering /\ loc'[q] = loc[q]
              /\ pc'[q] \in Answered => pc[q] \in Answered /\ loc'[q] = loc[q]
    PROVE  Quiet
BY RankType DEF Quiet, SameWork

LEMMA AcquireQuiet == ASSUME Inv, Born, NEW p \in Procs, AcquireStep(p) PROVE Quiet
<1> USE WorkKept, QuietWork DEF Inv, TypeOK, Delivering, Answered, Unwritten, Commit, TransitionNonterminal, Jump, End,
         external, history
<1>1. CASE Acquire(p) BY <1>1 DEF Acquire
<1>2. CASE AcquireReplay(p) BY <1>2 DEF AcquireReplay
<1>3. CASE Reserve(p)
  <2>1. \A hb : SameWork(Reserved(hb), NoLease) BY DEF SameWork, SameHandoff, Reserved, NoLease
  <2>2. SameWork(row', row) BY <1>3, <2>1 DEF Reserve, Inserts, Born
  <2>3. worker' = worker /\ acked' = acked BY <1>3 DEF Reserve
  <2>4. \A q \in Procs : pc'[q] \in {"raise", "acq_start", "idle"} \/ (pc'[q] = pc[q] /\ loc'[q] = loc[q])
    BY <1>3 DEF Reserve
  <2> QED BY <2>2, <2>3, <2>4
<1>4. CASE StartCreate(p) BY <1>4 DEF StartCreate
<1>5. CASE CreateReturns(p) BY <1>5 DEF CreateReturns
<1>6. CASE CreateMismatched(p) BY <1>6 DEF CreateMismatched
<1>7. CASE CreateAmbiguous(p) BY <1>7 DEF CreateAmbiguous
<1>8. CASE CreateRefused(p) BY <1>8 DEF CreateRefused
<1>9. CASE CreateCancelled(p) BY <1>9 DEF CreateCancelled
<1>10. CASE LoadCapability(p) BY <1>10 DEF LoadCapability
<1>11. CASE LoadCapabilityError(p) BY <1>11 DEF LoadCapabilityError
<1> QED BY <1>1, <1>2, <1>3, <1>4, <1>5, <1>6, <1>7, <1>8, <1>9, <1>10, <1>11 DEF AcquireStep

LEMMA ReadinessQuiet == ASSUME Inv, NEW p \in Procs, ReadinessStep(p) PROVE Quiet
<1> USE WorkKept, QuietWork DEF Inv, TypeOK, Delivering, Answered, Unwritten, Commit, TransitionNonterminal, Jump, End,
         PollAgain, external, history
<1>1. CASE Poll(p) BY <1>1 DEF Poll
<1>2. CASE ReadinessRead(p) BY <1>2 DEF ReadinessRead
<1>3. CASE ReadinessRunning(p) BY <1>3 DEF ReadinessRunning
<1>4. CASE ReadinessNotYet(p) BY <1>4 DEF ReadinessNotYet
<1>5. CASE ReadinessUnusable(p) BY <1>5 DEF ReadinessUnusable
<1>6. CASE ReadinessError(p) BY <1>6 DEF ReadinessError
<1>7. CASE HealthOk(p) BY <1>7 DEF HealthOk
<1>8. CASE HealthFails(p) BY <1>8 DEF HealthFails
<1>9. CASE ReadinessCancelled(p) BY <1>9 DEF ReadinessCancelled
<1>10. CASE ReadinessFailed(p) BY <1>10 DEF ReadinessFailed
<1> QED BY <1>1, <1>2, <1>3, <1>4, <1>5, <1>6, <1>7, <1>8, <1>9, <1>10 DEF ReadinessStep

LEMMA ReleaseQuiet == ASSUME Inv, NEW p \in Procs, ReleaseStep(p) PROVE Quiet
<1> USE WorkKept, QuietWork DEF Inv, TypeOK, Delivering, Answered, Unwritten, Commit, TransitionNonterminal, Jump, End,
         Finish, external, history
<1>1. CASE Release(p) BY <1>1 DEF Release
<1>2. CASE MarkFamily(p) BY <1>2 DEF MarkFamily
<1>3. CASE ReleaseRead(p) BY <1>3 DEF ReleaseRead, EnterBilling, BillingStep
<1>4. CASE ReleaseZero(p) BY <1>4 DEF ReleaseZero
<1>5. CASE ReleaseMark(p) BY <1>5 DEF ReleaseMark
<1>6. CASE Terminate(p) BY <1>6 DEF Terminate
<1>7. CASE TerminatePending(p) BY <1>7 DEF TerminatePending
<1>8. CASE TerminateError(p) BY <1>8 DEF TerminateError
<1>9. CASE ConfirmStop(p) BY <1>9 DEF ConfirmStop, EnterBilling, BillingStep
<1>10. CASE CompleteFamily(p) BY <1>10 DEF CompleteFamily
<1>11. CASE FindFound(p) BY <1>11 DEF FindFound, AfterLookup
<1>12. CASE FindAbsent(p) BY <1>12 DEF FindAbsent, AfterLookup
<1>13. CASE FindError(p) BY <1>13 DEF FindError, AfterLookup
<1> QED BY <1>1, <1>2, <1>3, <1>4, <1>5, <1>6, <1>7, <1>8, <1>9, <1>10, <1>11, <1>12, <1>13 DEF ReleaseStep

LEMMA BillingQuiet == ASSUME Inv, NEW p \in Procs, BillingStepOf(p) PROVE Quiet
<1> USE WorkKept, QuietWork DEF Inv, TypeOK, Delivering, Answered, Unwritten, Commit, TransitionNonterminal, Jump, End,
         Finish, SettlementFails, external, history
<1>1. CASE BillUnresolved(p) BY <1>1 DEF BillUnresolved
<1>2. CASE BillNotYet(p) BY <1>2 DEF BillNotYet
<1>3. CASE BillReceipt(p)
  <2>1. row' = row \/ \E kind : row' = Billed(row, kind) BY <1>3 DEF BillReceipt
  <2>2. SameWork(row', row) BY <2>1
  <2>3. \A q \in Procs : pc'[q] \in {"raise", "rdy_failed", "revoke"} \/ (pc'[q] = pc[q] /\ loc'[q] = loc[q])
    BY <1>3 DEF BillReceipt
  <2> QED BY <1>3, <2>2, <2>3 DEF BillReceipt
<1>4. CASE BillError(p) BY <1>4 DEF BillError
<1>5. CASE Revoke(p) BY <1>5 DEF Revoke
<1>6. CASE RevokeError(p) BY <1>6 DEF RevokeError
<1>7. CASE FinalRelease(p) BY <1>7 DEF FinalRelease
<1> QED BY <1>1, <1>2, <1>3, <1>4, <1>5, <1>6, <1>7 DEF BillingStepOf

LEMMA ReconcilerQuiet == ASSUME Inv, NEW p \in Procs, ReconcilerStep(p) PROVE Quiet
<1> USE WorkKept, QuietWork DEF Inv, TypeOK, Delivering, Answered, Unwritten, Commit, TransitionNonterminal, Jump, End,
         Finish, external, history
<1>1. CASE ReconcileFamily(p) BY <1>1 DEF ReconcileFamily
<1>2. CASE ReconcileOne(p)
  <2>1. ReconcileStep \notin Delivering \cup Answered BY DEF ReconcileStep
  <2>2. BillingStep(row) \notin Delivering \cup Answered BY DEF BillingStep
  <2> QED BY <1>2, <2>1, <2>2 DEF ReconcileOne, EnterBilling
<1>3. CASE Reap(p) BY <1>3 DEF Reap
<1>4. CASE ObserveStopped(p)
  <2>1. \A r : BillingStep(r) \notin Delivering \cup Answered BY DEF BillingStep
  <2>2. SameWork(row', row) BY <1>4 DEF ObserveStopped
  <2>3. \A q \in Procs : (pc'[q] \notin Delivering \cup Answered) \/ (pc'[q] = pc[q] /\ loc'[q] = loc[q])
    BY <1>4, <2>1 DEF ObserveStopped, EnterBilling
  <2> QED BY <1>4, <2>2, <2>3 DEF ObserveStopped
<1>5. CASE ObserveRoute(p) BY <1>5 DEF ObserveRoute
<1>6. CASE ObserveError(p) BY <1>6 DEF ObserveError
<1>7. CASE ObserveStoppedTooLate(p) BY <1>7 DEF ObserveStoppedTooLate
<1> QED BY <1>1, <1>2, <1>3, <1>4, <1>5, <1>6, <1>7 DEF ReconcilerStep

LEMMA WorkloadQuiet ==
    ASSUME Inv, NEW p \in Procs, WorkloadStep(p),
           ~SubmitCall(p), ~ObserveCall(p), ~Record(p), ~CancelCall(p)
    PROVE  Quiet
<1> USE WorkKept, QuietWork DEF Inv, TypeOK, Delivering, Answered, Unwritten, Commit, TransitionNonterminal, Jump, End,
         external, history
<1>1. CASE Submit(p) BY <1>1 DEF Submit
<1>2. CASE SubmitDispatch(p) BY <1>2 DEF SubmitDispatch
<1>3. CASE WorkerUnreachable(p) BY <1>3 DEF WorkerUnreachable
<1>4. CASE AnswerLost(p) BY <1>4 DEF AnswerLost
<1>5. CASE Observe(p) BY <1>5 DEF Observe
<1>6. CASE Retrieve(p) BY <1>6 DEF Retrieve
<1>7. CASE RetrieveDispatch(p) BY <1>7 DEF RetrieveDispatch
<1>8. CASE RetrieveCall(p) BY <1>8 DEF RetrieveCall
<1>9. CASE RecordEvidence(p) BY <1>9 DEF RecordEvidence
<1>10. CASE HeartbeatCall(p) BY <1>10 DEF HeartbeatCall
<1>11. CASE CancelError(p) BY <1>11 DEF CancelError
<1>12. CASE RequestCancellation(p) \/ Cancel(p)
  <2>1. row' = CancelRequested(row) BY <1>12 DEF RequestCancellation, Cancel
  <2>2. SameHandoff(row', row) /\ row'.wl = "cancel_requested"
    BY <2>1 DEF CancelRequested, SameHandoff, Lease
  <2>3. Rank(row.wl) <= Rank(row'.wl) BY <2>2, RankType DEF Rank
  <2>4. \A q \in Procs : pc'[q] \in {"can_call", "release"} \/ (pc'[q] = pc[q] /\ loc'[q] = loc[q])
    BY <1>12 DEF RequestCancellation, Cancel
  <2> QED BY <1>12, <2>2, <2>3, <2>4 DEF RequestCancellation, Cancel, Quiet
<1> QED BY <1>1, <1>2, <1>3, <1>4, <1>5, <1>6, <1>7, <1>8, <1>9, <1>10, <1>11, <1>12 DEF WorkloadStep

LEMMA EndQuiet ==
    ASSUME Inv, NEW p \in Procs, AckDispatch(p) \/ RaiseError(p) \/ AbortPass(p) \/ Crash(p)
    PROVE  Quiet
<1> USE WorkKept, QuietWork DEF Inv, TypeOK, Delivering, Answered, Unwritten, Commit, Jump, End, external, history
<1>1. CASE AckDispatch(p) BY <1>1 DEF AckDispatch, At
<1>2. CASE RaiseError(p) BY <1>2 DEF RaiseError
<1>3. CASE AbortPass(p) BY <1>3 DEF AbortPass
<1>4. CASE Crash(p) BY <1>4 DEF Crash
<1> QED BY <1>1, <1>2, <1>3, <1>4

LEMMA EnvironmentQuiet == ASSUME Inv, Environment, ~WorkerStep, ~RunnerReplaced PROVE Quiet
<1> USE WorkKept, QuietWork DEF Inv, TypeOK, Inside, external, history
<1>1. CASE ProviderAccepts BY <1>1 DEF ProviderAccepts
<1>2. CASE ProviderDrops BY <1>2 DEF ProviderDrops
<1>3. CASE PodExits BY <1>3 DEF PodExits
<1>4. CASE Tick BY <1>4 DEF Tick
<1>5. CASE Age BY <1>5 DEF Age
<1> QED BY <1>1, <1>2, <1>3, <1>4, <1>5 DEF Environment

-----------------------------------------------------------------------------
(* The handoff. *)

\* What a recorded answer changes in the row.
LEMMA Recorded ==
    ASSUME NEW r \in Lease, NEW o \in Observations,
           NEW s, s = WithObservation(r, o) \/ s = WithSubmission(r, o)
    PROVE  /\ s.result = IF IsHandoff(o) THEN o.res ELSE r.result
           /\ s.ack = r.ack /\ s.hostConf = r.hostConf
           /\ s.remoteAck <=> r.remoteAck \/ o.st = "acknowledged"
           /\ Rank(r.wl) <= Rank(s.wl)
<1> DEFINE w == WithProof(r, o)
<1>1. /\ w.result = IF IsHandoff(o) THEN o.res ELSE r.result
      /\ w.ack = r.ack /\ w.hostConf = r.hostConf /\ w.wl = r.wl
      /\ w.remoteAck <=> r.remoteAck \/ o.st = "acknowledged"
  <2>1. CASE IsHandoff(o) BY <2>1 DEF WithProof, Lease
  <2>2. CASE ~IsHandoff(o) BY <2>2 DEF WithProof, IsHandoff
  <2> QED BY <2>1, <2>2
<1>2. w \in Lease
  <2>1. \A q \in Results \cup {None}, x \in BOOLEAN : [r EXCEPT !.result = q, !.remoteAck = x] \in Lease
    BY DEF Lease
  <2>2. o.res \in Results \cup {None} BY DEF Observations
  <2>3. (r.remoteAck \/ o.st = "acknowledged") \in BOOLEAN BY DEF Lease
  <2> QED BY <2>1, <2>2, <2>3, Zenon DEF WithProof
<1>3. CASE ProofOnly(r, o)
  <2>1. s = w BY <1>3 DEF WithObservation, WithSubmission
  <2> QED BY <1>1, <2>1, RankType
<1>4. CASE ~ProofOnly(r, o)
  <2> HIDE DEF w
  <2>1. s = [w EXCEPT !.wl = o.st, !.state = StateAfter(r, o), !.hb = "fresh"]
        \/ s = [[w EXCEPT !.wl = o.st, !.state = StateAfter(r, o), !.hb = "fresh"] EXCEPT !.submitted = TRUE]
    BY <1>4 DEF WithObservation, WithSubmission, w
  <2>2. s.result = w.result /\ s.ack = w.ack /\ s.hostConf = w.hostConf /\ s.remoteAck = w.remoteAck
        /\ s.wl = o.st
    BY <1>2, <2>1 DEF Lease
  <2>3. Rank(r.wl) <= Rank(o.st)
    <3>1. CASE o.st \in {"idle", "running", "awaiting_ack", "acknowledged"}
      BY <1>4, <3>1, RankType DEF ProofOnly, Regresses
    <3>2. CASE o.st \in {"failed", "cancelled", "cancel_requested"} BY <3>2, RankType DEF Rank
    <3> QED BY <3>1, <3>2 DEF Observations
  <2> QED BY <1>1, <2>2, <2>3
<1> QED BY <1>3, <1>4

\* What HandoffWriteOnce and PhaseNeverRegresses ask of one step.
Kept ==
    /\ row.result # None => row'.result = row.result
    /\ row.ack # None => row'.ack = row.ack
    /\ row.remoteAck => row'.remoteAck
    /\ row.hostConf => row'.hostConf
    /\ Rank(row'.wl) >= Rank(row.wl)

LEMMA QuietKeeps == ASSUME HandoffInv, Quiet PROVE HandoffInv' /\ Kept
<1>1. Kept BY RankType DEF Quiet, SameHandoff, Kept
<1>2. HandoffInv'
  <2>1. ASSUME NEW q \in Procs, pc'[q] \in Delivering
        PROVE  /\ loc'[q].obs.st = "acknowledged" /\ loc'[q].obs.res # None
               /\ loc'[q].obs.ack = row'.ack /\ row'.ack # None
    BY <2>1 DEF Quiet, SameHandoff, HandoffInv
  <2>2. ASSUME NEW q \in Procs, pc'[q] \in Answered PROVE Genuine(loc[q].obs)'
    BY <2>2 DEF Quiet, HandoffInv, Genuine
  <2>3. Genuine(worker)' BY DEF Quiet, HandoffInv, Genuine
  <2> QED BY <2>1, <2>2, <2>3 DEF Quiet, SameHandoff, HandoffInv
<1> QED BY <1>1, <1>2

\* The worker moves, or answers, and the row stays as it is.
LEMMA WorkerKeeps ==
    ASSUME Inv, HandoffInv, row' = row, acked' = acked, Genuine(worker)',
           \A q \in Procs :
              /\ pc'[q] \in Delivering => pc[q] \in Delivering /\ loc'[q] = loc[q]
              /\ pc'[q] \in Answered => (pc[q] \in Answered /\ loc'[q] = loc[q]) \/ loc'[q].obs = worker'
    PROVE  HandoffInv' /\ Kept
<1>1. Kept BY RankType DEF Kept
<1>2. ASSUME NEW q \in Procs, pc'[q] \in Delivering
      PROVE  /\ loc'[q].obs.st = "acknowledged" /\ loc'[q].obs.res # None
             /\ loc'[q].obs.ack = row'.ack /\ row'.ack # None
  BY <1>2 DEF HandoffInv
<1>3. ASSUME NEW q \in Procs, pc'[q] \in Answered PROVE Genuine(loc[q].obs)'
  BY <1>3 DEF HandoffInv, Genuine
<1> QED BY <1>1, <1>2, <1>3 DEF HandoffInv

LEMMA WorkerStepKeeps ==
    ASSUME Inv, HandoffInv, NEW p \in Procs,
           SubmitCall(p) \/ ObserveCall(p) \/ CancelCall(p)
    PROVE  HandoffInv' /\ Kept
<1> USE DEF Inv, TypeOK, Delivering, Answered, Unwritten, Jump, external, history, Answer
<1>0. Genuine(worker) BY DEF HandoffInv
<1>1. CASE SubmitCall(p)
  <2>1. Genuine(worker)' BY <1>0, <1>1 DEF SubmitCall, Genuine, IsHandoff, Observations
  <2>2. \A q \in Procs : (q = p /\ pc'[q] = "sub_record" /\ loc'[q].obs = worker')
                          \/ (pc'[q] = pc[q] /\ loc'[q] = loc[q])
    BY <1>1 DEF SubmitCall, Locals
  <2> QED BY <1>1, <2>1, <2>2, WorkerKeeps DEF SubmitCall
<1>2. CASE ObserveCall(p)
  <2>1. Genuine(worker)' BY <1>0, <1>2 DEF ObserveCall, Genuine
  <2>2. \A q \in Procs : (q = p /\ pc'[q] = "obs_record" /\ loc'[q].obs = worker')
                          \/ (pc'[q] = pc[q] /\ loc'[q] = loc[q])
    BY <1>2 DEF ObserveCall, Locals
  <2> QED BY <1>2, <2>1, <2>2, WorkerKeeps DEF ObserveCall
<1>3. CASE CancelCall(p)
  <2>1. Genuine(worker)' BY <1>0, <1>3 DEF CancelCall, Genuine, IsHandoff, Observations
  <2>2. \A q \in Procs : pc'[q] = "release" \/ (pc'[q] = pc[q] /\ loc'[q] = loc[q])
    BY <1>3 DEF CancelCall
  <2> QED BY <1>3, <2>1, <2>2, WorkerKeeps DEF CancelCall
<1> QED BY <1>1, <1>2, <1>3

\* An answer is recorded only where it agrees with the row.
LEMMA RecordKeeps == ASSUME Inv, HandoffInv, NEW p \in Procs, Record(p) PROVE HandoffInv' /\ Kept
<1> DEFINE o == loc[p].obs
<1>1. o \in Observations BY DEF Inv, TypeOK, Locals
<1>2. Genuine(o) BY DEF Record, HandoffInv, Answered
<1>3. acked' = acked /\ worker' = worker BY DEF Record, external, history
<1>4. \A q \in Procs : pc'[q] \in {"idle", "raise", "abort", "release"} \/ (pc'[q] = pc[q] /\ loc'[q] = loc[q])
  BY DEF Record, RecordObservation, Jump, End, Inv, TypeOK
<1>5. row' = row \/ (~ObservationConflicts(row, o) /\ (row' = WithObservation(row, o) \/ row' = WithSubmission(row, o)))
  BY DEF Record, RecordObservation, Unwritten, Commit
<1>6. CASE row' = row
  BY <1>2, <1>3, <1>4, <1>6, WorkerKeeps DEF HandoffInv, Genuine, Delivering, Answered
<1>7. CASE ~ObservationConflicts(row, o) /\ (row' = WithObservation(row, o) \/ row' = WithSubmission(row, o))
  <2> HIDE DEF o
  <2>1. row \in Lease BY DEF Inv, TypeOK
  <2>2. /\ row'.result = IF IsHandoff(o) THEN o.res ELSE row.result
        /\ row'.ack = row.ack /\ row'.hostConf = row.hostConf
        /\ row'.remoteAck <=> row.remoteAck \/ o.st = "acknowledged"
        /\ Rank(row.wl) <= Rank(row'.wl)
    BY <1>1, <1>7, <2>1, Recorded
  <2>3. IsHandoff(o) => row.result \in {None, o.res} /\ o.res # None BY <1>2, <1>7 DEF ObservationConflicts, Genuine
  <2>4. o.st = "acknowledged" => IsHandoff(o) /\ row.ack = o.ack /\ o.ack \in acked
    BY <1>2, <1>7 DEF ObservationConflicts, Genuine, IsHandoff
  <2>5. Kept BY <2>2, <2>3, RankType DEF Kept
  <2>6. row'.remoteAck => row'.ack \in acked' /\ row'.result # None
    BY <1>3, <2>2, <2>3, <2>4 DEF HandoffInv
  <2>7. row'.hostConf => row'.remoteAck BY <2>2 DEF HandoffInv
  <2>8. ASSUME NEW q \in Procs, pc'[q] \in Delivering
        PROVE  /\ loc'[q].obs.st = "acknowledged" /\ loc'[q].obs.res # None
               /\ loc'[q].obs.ack = row'.ack /\ row'.ack # None
    BY <1>4, <2>2, <2>8 DEF HandoffInv, Delivering
  <2>9. ASSUME NEW q \in Procs, pc'[q] \in Answered PROVE Genuine(loc[q].obs)'
    BY <1>3, <1>4, <2>9 DEF HandoffInv, Genuine, Answered
  <2>10. Genuine(worker)' BY <1>3 DEF HandoffInv, Genuine
  <2> QED BY <1>3, <2>2, <2>5, <2>6, <2>7, <2>8, <2>9, <2>10 DEF HandoffInv
<1> QED BY <1>5, <1>6, <1>7

\* The intent is bound once, and what leaves for the worker is what is bound.
LEMMA AckKeeps ==
    ASSUME Inv, HandoffInv, NEW p \in Procs, Acknowledge(p) \/ AckCall(p) \/ Confirm(p)
    PROVE  HandoffInv' /\ Kept
<1> USE DEF Inv, TypeOK
<1>1. CASE Acknowledge(p)
  <2>0. PICK op \in AckOps, a \in Acks :
          /\ AckBinds(row, a) /\ ~row.remoteAck
          /\ row' = [row EXCEPT !.ack = a]
          /\ pc' = [pc EXCEPT ![p] = "ack_load"]
          /\ loc' = [loc EXCEPT ![p].recover = (op = "recover"),
                               ![p].obs = [st |-> "acknowledged", res |-> row.result, ack |-> a]]
          /\ worker' = worker /\ acked' = acked
    BY <1>1 DEF Acknowledge, Commit, external, history
  <2>1. /\ AckBinds(row, a) /\ ~row.remoteAck
        /\ row' = [row EXCEPT !.ack = a]
        /\ pc' = [pc EXCEPT ![p] = "ack_load"]
        /\ loc'[p].obs = [st |-> "acknowledged", res |-> row.result, ack |-> a]
        /\ \A q \in Procs \ {p} : loc'[q] = loc[q]
        /\ worker' = worker /\ acked' = acked
    BY <2>0 DEF Locals
  <2>2. a # None BY NoneAssumption
  <2>3. /\ row'.ack = a /\ row'.result = row.result /\ row'.remoteAck = row.remoteAck
        /\ row'.hostConf = row.hostConf /\ row'.wl = row.wl
    BY <2>1 DEF Lease
  <2>4. row.result # None /\ (row.ack = None \/ row.ack = a) BY <2>1 DEF AckBinds
  <2>5. Kept BY <2>2, <2>3, <2>4, RankType DEF Kept
  <2>6. acked' \subseteq {row'.ack} /\ None \notin acked' BY <2>1, <2>3, <2>4 DEF HandoffInv
  <2>7. ASSUME NEW q \in Procs, pc'[q] \in Delivering
        PROVE  /\ loc'[q].obs.st = "acknowledged" /\ loc'[q].obs.res # None
               /\ loc'[q].obs.ack = row'.ack /\ row'.ack # None
    <3>1. CASE q = p BY <2>1, <2>2, <2>3, <2>4, <3>1
    <3>2. CASE q # p BY <2>1, <2>2, <2>3, <2>4, <2>7, <3>2 DEF HandoffInv
    <3> QED BY <3>1, <3>2
  <2>8. ASSUME NEW q \in Procs, pc'[q] \in Answered PROVE Genuine(loc[q].obs)'
    BY <2>1, <2>8 DEF HandoffInv, Genuine, Answered
  <2>9. Genuine(worker)' BY <2>1 DEF HandoffInv, Genuine
  <2> QED BY <2>1, <2>3, <2>5, <2>6, <2>7, <2>8, <2>9 DEF HandoffInv
<1>2. CASE AckCall(p)
  <2>1. row' = row /\ loc' = loc BY <1>2 DEF AckCall, Unwritten, Jump
  <2>2. /\ loc[p].obs.st = "acknowledged" /\ loc[p].obs.res # None
        /\ loc[p].obs.ack = row.ack /\ row.ack # None
    BY <1>2 DEF AckCall, At, HandoffInv, Delivering
  <2>3. (worker' = worker /\ acked' = acked) \/ (worker' = loc[p].obs /\ acked' = acked \cup {row.ack})
    BY <1>2, <2>2 DEF AckCall
  <2>4. \A q \in Procs : pc'[q] = pc[q] \/ (q = p /\ pc'[q] = "raise")
                          \/ (q = p /\ pc'[q] = "ack_record" /\ acked' = acked \cup {row.ack})
    BY <1>2, <2>2 DEF AckCall, Jump
  <2>5. Kept BY <2>1, RankType DEF Kept
  <2>6. acked' \subseteq {row'.ack} /\ None \notin acked' /\ acked \subseteq acked' BY <2>1, <2>2, <2>3 DEF HandoffInv
  <2>7. ASSUME NEW q \in Procs, pc'[q] \in Delivering
        PROVE  /\ loc'[q].obs.st = "acknowledged" /\ loc'[q].obs.res # None
               /\ loc'[q].obs.ack = row'.ack /\ row'.ack # None
    BY <2>1, <2>4, <2>7 DEF HandoffInv, Delivering
  <2>8. ASSUME NEW q \in Procs, pc'[q] \in Answered PROVE Genuine(loc[q].obs)'
    BY <2>1, <2>2, <2>4, <2>6, <2>8 DEF HandoffInv, Genuine, Answered
  <2>9. Genuine(worker)' BY <2>2, <2>3, <2>6 DEF HandoffInv, Genuine
  <2>10. /\ row'.remoteAck => row'.ack \in acked' /\ row'.result # None
         /\ row'.hostConf => row'.remoteAck
    BY <2>1, <2>6 DEF HandoffInv
  <2> QED BY <2>5, <2>6, <2>7, <2>8, <2>9, <2>10 DEF HandoffInv
<1>3. CASE Confirm(p)
  <2>1. /\ row.remoteAck /\ (row' = row \/ row' = HostConfirmed(row))
        /\ worker' = worker /\ acked' = acked /\ loc' = loc
        /\ pc' = [pc EXCEPT ![p] = "release"]
    BY <1>3 DEF Confirm, Commit, Unwritten, Jump, external, history
  <2>2. /\ row'.ack = row.ack /\ row'.result = row.result /\ row'.remoteAck = row.remoteAck
        /\ row.hostConf => row'.hostConf
        /\ row'.wl = row.wl
    BY <2>1 DEF HostConfirmed, Lease
  <2>3. Kept BY <2>2, RankType DEF Kept
  <2>4. \A q \in Procs : pc'[q] = "release" \/ pc'[q] = pc[q] BY <2>1
  <2>5. ASSUME NEW q \in Procs, pc'[q] \in Delivering
        PROVE  /\ loc'[q].obs.st = "acknowledged" /\ loc'[q].obs.res # None
               /\ loc'[q].obs.ack = row'.ack /\ row'.ack # None
    BY <2>1, <2>2, <2>4, <2>5 DEF HandoffInv, Delivering
  <2>6. ASSUME NEW q \in Procs, pc'[q] \in Answered PROVE Genuine(loc[q].obs)'
    BY <2>1, <2>4, <2>6 DEF HandoffInv, Genuine, Answered
  <2>7. Genuine(worker)' BY <2>1 DEF HandoffInv, Genuine
  <2> QED BY <2>1, <2>2, <2>3, <2>5, <2>6, <2>7 DEF HandoffInv
<1> QED BY <1>1, <1>2, <1>3

\* Every step keeps HandoffInv and what has been recorded.
LEMMA HandoffNext == ASSUME Inv, Born, HandoffInv, [Next]_vars PROVE HandoffInv' /\ Kept
<1>1. CASE UNCHANGED vars
  <2>1. Quiet BY <1>1, RankType DEF vars, Quiet, SameHandoff
  <2> QED BY <2>1, QuietKeeps
<1>2. CASE Environment
  <2>0. Genuine(worker) BY DEF HandoffInv
  <2>1. CASE WorkerStep
    <3>1. Genuine(worker)'
      BY <2>0, <2>1, NoneAssumption DEF WorkerStep, Genuine, IsHandoff, Inv, TypeOK, Observations, Inside, history
    <3> QED BY <2>1, <3>1, WorkerKeeps DEF WorkerStep, Inside, history
  <2>2. CASE RunnerReplaced
    <3>1. Genuine(worker)' BY <2>2 DEF RunnerReplaced, NewWorker, Genuine, IsHandoff
    <3> QED BY <2>2, <3>1, WorkerKeeps DEF RunnerReplaced, Inside, history
  <2>3. CASE ~WorkerStep /\ ~RunnerReplaced BY <1>2, <2>3, EnvironmentQuiet, QuietKeeps
  <2> QED BY <2>1, <2>2, <2>3
<1>3. ASSUME NEW p \in Procs, ProcessStep(p) \/ Crash(p) PROVE HandoffInv' /\ Kept
  <2>1. CASE AcquireStep(p) \/ ReadinessStep(p) \/ ReleaseStep(p) \/ BillingStepOf(p) \/ ReconcilerStep(p)
    BY <2>1, AcquireQuiet, ReadinessQuiet, ReleaseQuiet, BillingQuiet, ReconcilerQuiet, QuietKeeps
  <2>2. CASE WorkloadStep(p)
    BY <2>2, WorkloadQuiet, QuietKeeps, WorkerStepKeeps, RecordKeeps
  <2>3. CASE HandoffStep(p) BY <2>3, EndQuiet, QuietKeeps, AckKeeps DEF HandoffStep
  <2>4. CASE RaiseError(p) \/ AbortPass(p) \/ Crash(p) BY <2>4, EndQuiet, QuietKeeps
  <2> QED BY <1>3, <2>1, <2>2, <2>3, <2>4 DEF ProcessStep
<1> QED BY <1>1, <1>2, <1>3 DEF Next

LEMMA HandoffInit == Init => HandoffInv
BY NoLeaseFields DEF Init, HandoffInv, Genuine, NewWorker, IsHandoff, Delivering, Answered

\* The inductive invariant of the handoff.
THEOREM HandoffInvHolds == Spec => [](Inv /\ Born /\ HandoffInv)
<1>1. Init => Inv /\ Born /\ HandoffInv BY InvInit, BornInit, HandoffInit
<1>2. Inv /\ Born /\ HandoffInv /\ [Next]_vars => (Inv /\ Born /\ HandoffInv)'
  BY InvNext, BornNext, HandoffNext
<1> QED BY <1>1, <1>2, PTL DEF Spec

\* The worker accepts one acknowledgement at most, and only the one that
\* evidence.bind_acknowledgement persisted before the call.
THEOREM IntentFirst == Spec => []IntentBeforeDelivery
<1>1. HandoffInv => IntentBeforeDelivery BY DEF HandoffInv, IntentBeforeDelivery
<1> QED BY <1>1, HandoffInvHolds, PTL

\* remote_ack_observed_at is recorded only of an acknowledgement the worker did
\* accept, for the recorded result, and the host confirms only after it.
THEOREM HandoffProved == Spec => []HandoffSound
<1>1. HandoffInv => HandoffSound BY DEF HandoffInv, HandoffSound
<1> QED BY <1>1, HandoffInvHolds, PTL

\* _record_catalog_observation and bind_acknowledgement never change a result,
\* an acknowledgement, a proof or a confirmation that is recorded.
THEOREM HandoffRecordedOnce == Spec => HandoffWriteOnce
<1>1. Inv /\ Born /\ HandoffInv /\ [Next]_vars =>
        [/\ row.result # None => row'.result = row.result
         /\ row.ack # None => row'.ack = row.ack
         /\ row.remoteAck => row'.remoteAck
         /\ row.hostConf => row'.hostConf]_vars
  BY HandoffNext DEF Kept
<1> QED BY <1>1, HandoffInvHolds, PTL DEF Spec, HandoffWriteOnce

\* No order in which answers are recorded takes the workload to an earlier
\* phase: a delayed answer is recorded as a proof only.
THEOREM PhaseMonotone == Spec => PhaseNeverRegresses
<1>1. Inv /\ Born /\ HandoffInv /\ [Next]_vars => [Rank(row'.wl) >= Rank(row.wl)]_vars
  BY HandoffNext DEF Kept
<1> QED BY <1>1, HandoffInvHolds, PTL DEF Spec, PhaseNeverRegresses
===============================================================================
