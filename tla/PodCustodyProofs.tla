--------------------------- MODULE PodCustodyProofs ---------------------------
(***************************************************************************)
(* Proofs about what the row of a catalog attempt says of its Pod, on top  *)
(* of PodCapacityProofs, for the same constants.                           *)
(*                                                                         *)
(* Everything that ends an attempt was decided some awaits earlier, on a   *)
(* row that has been written since.  What makes those decisions safe is    *)
(* not that the row is unchanged but that three facts are never lost       *)
(* again: Closed, nobody can send a create request any more; with it, the  *)
(* absence of anything billable; and a persisted stop.  PodInv attaches    *)
(* them to the labels of the processes and to the marks in the row that    *)
(* the decisions rest on.                                                  *)
(*                                                                         *)
(* One decision loses them: the zero receipt that _reconcile_one writes     *)
(* over a reservation it read as dead, without testing that the create was *)
(* not sent meanwhile.  The history variable misreaped records that it     *)
(* happened; until then PodInv is inductive, and nothing is claimed after. *)
(***************************************************************************)
EXTENDS PodCapacityProofs

\* No process holds the revision of the reservation before its POST.
Closed == Exists /\ \A q \in fresh : ~At(q, "acq_start")

\* The lease is stopped, and nothing billable exists or can still come.
Over == Closed /\ ~Billable /\ ~Active(row)
NeverHad == Closed /\ pod.st = "none"

\* The labels of a teardown, and of those who lead to one.
Following ==
    {"acq_create", "rdy_read", "rdy_observe", "rdy_health", "rel_read", "rel_find",
     "rdy_failed", "rel_mark", "rel_terminate", "rec_find", "rec_observe"}
Deleting == {"rel_mark", "rel_terminate", "rel_confirm"}
Settling == {"rel_confirm", "bill_unresolved", "bill_await", "bill_zero", "revoke", "rel_final"}
Zeroing == {"rel_zero", "bill_zero"}

\* What is recorded only at the end of an attempt.
Ending == row.terminated \/ row.receipt # "none" \/ IsTerminal(row) \/ cap = "revoked"

Marks ==
    /\ creates = 0 => pod.st = "none"
    /\ row.state = "requested" => creates = 0
    /\ row.famReq => Closed
    /\ pod.st # "none" => row.pid \/ row.uncertain
    /\ row.pid => Accepted
    /\ Ending => Over
    /\ row.billing = "authoritative" => row.receipt # "none"
    /\ row.receipt = "zero" => pod.st = "none"

Places ==
    \A q \in Procs :
        /\ pc[q] \in Following => Closed
        /\ pc[q] \in Deleting => row.pid
        /\ pc[q] \in Settling => Over
        /\ pc[q] \in Zeroing => NeverHad

PodInv == Marks /\ Places

-----------------------------------------------------------------------------
(* What every step but the reservation and the create request does. *)

\* Who holds the revision of the reservation held it before.
Tended == \A q \in fresh' : pc'[q] = "acq_start" => q \in fresh /\ pc[q] = "acq_start"

PodMoves ==
    \/ pod'.st = pod.st
    \/ pod.st = "inflight" /\ pod'.st = "live" /\ row' = row
    \/ /\ pod.st = "inflight" /\ pod'.st = "none"
       /\ row' = row \/ (~IsTerminal(row) /\ row'.state = "releasing")
    \/ pod.st = "live" /\ pod'.st = "stopped" /\ row' = row
    \/ /\ Accepted /\ pod'.st = "gone"
       /\ ~IsTerminal(row) /\ ~IsTerminal(row')

RowMoves ==
    /\ row'.state = "requested" => row.state = "requested"
    /\ row'.famReq => row.famReq \/ Closed'
    /\ row.pid => row'.pid
    /\ row'.pid => row.pid \/ Accepted
    /\ row.uncertain => row'.pid \/ row'.uncertain \/ pod'.st = "none"
    /\ Ending' => Ending \/ Over'
    /\ IsTerminal(row') => IsTerminal(row) \/ Over
    /\ row.receipt # "none" => row'.receipt # "none"
    /\ row'.billing = "authoritative" => row.billing = "authoritative" \/ row'.receipt # "none"
    /\ row'.receipt = "zero" => row.receipt = "zero" \/ pod'.st = "none"

Arrivals ==
    \A q \in Procs :
        /\ pc'[q] \in Following => pc[q] \in Following \/ Closed'
        /\ pc'[q] \in Deleting => pc[q] \in Deleting \/ row'.pid
        /\ pc'[q] \in Settling => pc[q] \in Settling \/ Over'
        /\ pc'[q] \in Zeroing => pc[q] \in Zeroing \/ NeverHad'

Careful == creates' = creates /\ Tended /\ PodMoves /\ RowMoves /\ Arrivals

-----------------------------------------------------------------------------
(* Such a step keeps PodInv. *)

LEMMA ClosedKept == ASSUME Inv, [Next]_vars, Tended, Closed PROVE Closed'
BY ExistsKept DEF Closed, Tended, At

LEMMA StoppedKept == ASSUME Inv, [Next]_vars, Exists, ~Active(row) PROVE ~Active(row')
<1>1. CASE Next BY <1>1, StopStep
<1>2. CASE UNCHANGED vars BY <1>2 DEF vars, Active
<1> QED BY <1>1, <1>2

LEMMA OverKept == ASSUME Inv, [Next]_vars, Tended, PodMoves, Over PROVE Over'
<1>1. Closed' BY ClosedKept DEF Over
<1>2. ~Billable' BY DEF Over, PodMoves, Billable, Accepted
<1>3. ~Active(row') BY StoppedKept DEF Over, Closed
<1> QED BY <1>1, <1>2, <1>3 DEF Over

LEMMA NeverHadKept == ASSUME Inv, [Next]_vars, Tended, PodMoves, NeverHad PROVE NeverHad'
<1>1. Closed' BY ClosedKept DEF NeverHad
<1>2. pod'.st = "none" BY DEF NeverHad, PodMoves, Accepted
<1> QED BY <1>1, <1>2 DEF NeverHad

LEMMA CarefulKeeps == ASSUME Inv, PodInv, [Next]_vars, Careful PROVE PodInv'
<1> USE DEF Careful
<1>1. Closed => Closed' BY ClosedKept
<1>2. Over => Over' BY OverKept
<1>3. NeverHad => NeverHad' BY NeverHadKept
<1>4. Marks'
  <2> USE DEF PodInv, Marks
  <2>1. pod.st = "none" => pod'.st = "none" BY DEF PodMoves, Accepted
  <2>2. Accepted => Accepted' BY DEF PodMoves, Accepted
  <2>3. (creates = 0 => pod.st = "none")' /\ (row.state = "requested" => creates = 0)' BY <2>1 DEF RowMoves
  <2>4. (row.famReq => Closed)' BY <1>1 DEF RowMoves
  <2>5. (pod.st # "none" => row.pid \/ row.uncertain)' BY <2>1 DEF RowMoves
  <2>6. (row.pid => Accepted)' BY <2>2 DEF RowMoves
  <2>7. (Ending => Over)' BY <1>2 DEF RowMoves
  <2>8. (row.billing = "authoritative" => row.receipt # "none")' BY DEF RowMoves
  <2>9. (row.receipt = "zero" => pod.st = "none")' BY <2>1 DEF RowMoves
  <2> QED BY <2>3, <2>4, <2>5, <2>6, <2>7, <2>8, <2>9
<1>5. Places' BY <1>1, <1>2, <1>3 DEF PodInv, Places, Arrivals, RowMoves
<1> QED BY <1>4, <1>5 DEF PodInv

-----------------------------------------------------------------------------
(* A step of one process. *)

Local(p) ==
    /\ creates' = creates
    /\ (row' = row /\ fresh' \subseteq fresh \cup {p}) \/ fresh' \subseteq {p}
    /\ pc'[p] # "acq_start"
    /\ \A q \in Procs \ {p} : pc'[q] = pc[q]

Reaches(p) ==
    /\ pc'[p] \in Following => pc[p] \in Following \/ Closed \/ (Exists /\ fresh' = {})
    /\ pc'[p] \in Deleting => pc[p] \in Deleting \/ row'.pid
    /\ pc'[p] \in Settling => pc[p] \in Settling \/ Over \/ Over'
    /\ pc'[p] \in Zeroing => pc[p] \in Zeroing \/ NeverHad \/ NeverHad'

\* Writes that say nothing new about the Pod.
Same(s, r) ==
    /\ s.pid = r.pid /\ s.famReq = r.famReq /\ s.terminated = r.terminated /\ s.receipt = r.receipt
    /\ r.uncertain => s.uncertain
    /\ s.billing = "authoritative" => r.billing = "authoritative"
    /\ s.state = "requested" => r.state = "requested"
    /\ s.state = "released" => r.state = "released"

LEMMA CarefulAt ==
    ASSUME Inv, Next, NEW p \in Procs, Local(p), PodMoves, RowMoves, Reaches(p)
    PROVE  Careful
<1>1. Tended
  <2>1. fresh' \in SUBSET Procs BY NextType DEF Inv, TypeOK
  <2> QED BY <2>1 DEF Local, Tended
<1>2. Closed => Closed' BY <1>1, ClosedKept
<1>3. Exists /\ fresh' = {} => Closed' BY ExistsKept DEF Closed
<1>4. Over => Over' BY <1>1, OverKept
<1>5. NeverHad => NeverHad' BY <1>1, NeverHadKept
<1>6. Arrivals
  <2> USE DEF Arrivals
  <2> TAKE q \in Procs
  <2>1. CASE q = p BY <1>2, <1>3, <1>4, <1>5, <2>1 DEF Local, Reaches
  <2>2. CASE q # p BY <2>2 DEF Local
  <2> QED BY <2>1, <2>2
<1> QED BY <1>1, <1>6 DEF Careful, Local

LEMMA SameMoves ==
    ASSUME Same(row', row), cap' = "revoked" => cap = "revoked" PROVE RowMoves
BY DEF Same, RowMoves, Ending, IsTerminal

LEMMA CalmAt ==
    ASSUME Inv, Next, NEW p \in Procs, Local(p), pod' = pod, Same(row', row),
           cap' = "revoked" => cap = "revoked", Reaches(p)
    PROVE  Careful
BY CarefulAt, SameMoves DEF PodMoves

LEMMA SameRows ==
    ASSUME NEW r \in Lease, NEW b \in BOOLEAN, NEW a
    PROVE  /\ Same(Heartbeat(r), r)
           /\ Same(RouteObserved(r, b), r)
           /\ Same(WorkerReady(r), r)
           /\ Same(RetryableFailure(r), r)
           /\ Same(RetryableCreate(r), r)
           /\ Same(Releasing(r), r)
           /\ Same(StopPending(r), r)
           /\ Same(AwaitingCreate(r), r)
           /\ Same(BillingUnresolved(r), r)
           /\ Same(FamilyComplete(r), r)
           /\ Same(CancelRequested(r), r)
           /\ Same(HostConfirmed(r), r)
           /\ Same([r EXCEPT !.url = b], r)
           /\ Same([r EXCEPT !.ack = a], r)
           /\ Same([r EXCEPT !.billing = "pending"], r)
           /\ Same([r EXCEPT !.hb = "stale"], r)
           /\ Same([Heartbeat(r) EXCEPT !.worker = TRUE], r)
           /\ Same(r, r)
<1> USE DEF Lease, Same
<1>1. /\ Same(Heartbeat(r), r) /\ Same(RouteObserved(r, b), r) /\ Same(WorkerReady(r), r)
      /\ Same(RetryableFailure(r), r) /\ Same(RetryableCreate(r), r)
  BY DEF Heartbeat, RouteObserved, WorkerReady, RetryableFailure, RetryableCreate
<1>2. /\ Same(Releasing(r), r) /\ Same(StopPending(r), r) /\ Same(AwaitingCreate(r), r)
      /\ Same(BillingUnresolved(r), r) /\ Same(FamilyComplete(r), r)
  BY DEF Releasing, StopPending, AwaitingCreate, BillingUnresolved, FamilyComplete
<1>3. Same(CancelRequested(r), r) /\ Same(HostConfirmed(r), r) BY DEF CancelRequested, HostConfirmed
<1>4. /\ Same([r EXCEPT !.url = b], r) /\ Same([r EXCEPT !.ack = a], r)
      /\ Same([r EXCEPT !.billing = "pending"], r) /\ Same([r EXCEPT !.hb = "stale"], r)
      /\ Same([Heartbeat(r) EXCEPT !.worker = TRUE], r) /\ Same(r, r)
  BY DEF Heartbeat
<1> QED BY <1>1, <1>2, <1>3, <1>4

LEMMA SameObserved ==
    ASSUME NEW r \in Lease, NEW o \in Observations
    PROVE  Same(WithObservation(r, o), r) /\ Same(WithSubmission(r, o), r)
<1> DEFINE w == WithProof(r, o)
<1>1. w \in Lease
  <2>1. \A q \in Results \cup {None}, x \in BOOLEAN : [r EXCEPT !.result = q, !.remoteAck = x] \in Lease
    BY DEF Lease
  <2>2. o.res \in Results \cup {None} BY DEF Observations
  <2>3. (r.remoteAck \/ o.st = "acknowledged") \in BOOLEAN BY DEF Lease
  <2> QED BY <2>1, <2>2, <2>3, Zenon DEF WithProof
<1>2. /\ w.pid = r.pid /\ w.famReq = r.famReq /\ w.terminated = r.terminated /\ w.receipt = r.receipt
      /\ w.uncertain = r.uncertain /\ w.billing = r.billing /\ w.state = r.state
  BY DEF WithProof, Lease
<1>3. StateAfter(r, o) \in {"job_submitted", "job_completed", "cancel_requested", r.state} BY DEF StateAfter
<1> HIDE DEF w
<1>4. ASSUME NEW st \in {"job_submitted", "job_completed", "cancel_requested", r.state}
      PROVE  /\ Same([w EXCEPT !.wl = o.st, !.state = st, !.hb = "fresh"], r)
             /\ Same([[w EXCEPT !.wl = o.st, !.state = st, !.hb = "fresh"] EXCEPT !.submitted = TRUE], r)
  BY <1>1, <1>2 DEF Same, Lease
<1>5. Same(w, r) BY <1>2 DEF Same
<1>6. CASE ProofOnly(r, o) BY <1>5, <1>6 DEF WithObservation, WithSubmission, w
<1>7. CASE ~ProofOnly(r, o) BY <1>3, <1>4, <1>7 DEF WithObservation, WithSubmission, w
<1> QED BY <1>6, <1>7

-----------------------------------------------------------------------------
(* The steps, group by group. *)

LEMMA ReadinessCareful == ASSUME Inv, PodInv, Next, NEW p \in Procs, ReadinessStep(p) PROVE Careful
<1> USE SameRows, CalmAt DEF Inv, TypeOK, Local, Reaches, Following, Deleting, Settling, Zeroing, Unwritten, Commit,
         TransitionNonterminal, Jump, End, PollAgain, At, Exists, StillStarting, external, history
<1>1. CASE Poll(p) BY <1>1 DEF Poll, Call
<1>2. CASE ReadinessRead(p) BY <1>2 DEF ReadinessRead
<1>3. CASE ReadinessRunning(p) BY <1>3 DEF ReadinessRunning
<1>4. CASE ReadinessNotYet(p) BY <1>4 DEF ReadinessNotYet
<1>5. CASE ReadinessUnusable(p) BY <1>5 DEF ReadinessUnusable
<1>6. CASE ReadinessError(p) BY <1>6 DEF ReadinessError
<1>7. CASE HealthOk(p) BY <1>7 DEF HealthOk
<1>8. CASE HealthFails(p) BY <1>8 DEF HealthFails
<1>9. CASE ReadinessCancelled(p) BY <1>9 DEF ReadinessCancelled
<1>10. CASE ReadinessFailed(p) BY <1>10 DEF ReadinessFailed
<1> QED BY <1>1, <1>2, <1>3, <1>4, <1>5, <1>6, <1>7, <1>8, <1>9, <1>10 DEF ReadinessStep

LEMMA WorkloadCareful ==
    ASSUME Inv, PodInv, Next, NEW p \in Procs, WorkloadStep(p) PROVE Careful
<1> USE SameRows, CalmAt DEF Inv, TypeOK, Local, Reaches, Following, Deleting, Settling, Zeroing, Unwritten, Commit,
         TransitionNonterminal, Jump, End, At, Call, Answer, external, history
<1>1. CASE Submit(p) BY <1>1 DEF Submit
<1>2. CASE SubmitDispatch(p) BY <1>2 DEF SubmitDispatch
<1>3. CASE SubmitCall(p) BY <1>3 DEF SubmitCall
<1>4. CASE WorkerUnreachable(p) BY <1>4 DEF WorkerUnreachable
<1>5. CASE AnswerLost(p) BY <1>5 DEF AnswerLost
<1>6. CASE Observe(p) BY <1>6 DEF Observe
<1>7. CASE ObserveCall(p) BY <1>7 DEF ObserveCall
<1>8. CASE Record(p)
  <2> DEFINE o == loc[p].obs
  <2>1. o \in Observations BY DEF Locals
  <2>2. row' \in {row, WithObservation(row, o), WithSubmission(row, o)} BY <1>8 DEF Record, RecordObservation
  <2>3. Same(row', row) BY <2>1, <2>2, SameObserved
  <2>4. /\ (row' = row /\ fresh' \subseteq fresh) \/ fresh' = {}
        /\ pc'[p] \in {"idle", "raise", "abort", "release"}
        /\ \A q \in Procs \ {p} : pc'[q] = pc[q]
        /\ pod' = pod /\ cap' = cap /\ creates' = creates
    BY <1>8 DEF Record, RecordObservation
  <2> QED BY <2>3, <2>4
<1>9. CASE Retrieve(p) BY <1>9 DEF Retrieve
<1>10. CASE RetrieveDispatch(p) BY <1>10 DEF RetrieveDispatch
<1>11. CASE RetrieveCall(p) BY <1>11 DEF RetrieveCall
<1>12. CASE RecordEvidence(p) BY <1>12 DEF RecordEvidence
<1>13. CASE HeartbeatCall(p) BY <1>13 DEF HeartbeatCall
<1>14. CASE RequestCancellation(p) BY <1>14 DEF RequestCancellation
<1>15. CASE Cancel(p) BY <1>15 DEF Cancel
<1>16. CASE CancelCall(p) BY <1>16 DEF CancelCall
<1>17. CASE CancelError(p) BY <1>17 DEF CancelError
<1> QED BY <1>1, <1>2, <1>3, <1>4, <1>5, <1>6, <1>7, <1>8, <1>9, <1>10, <1>11, <1>12, <1>13, <1>14, <1>15, <1>16,
        <1>17 DEF WorkloadStep

LEMMA HandoffCareful ==
    ASSUME Inv, PodInv, Next, NEW p \in Procs,
           HandoffStep(p) \/ RaiseError(p) \/ AbortPass(p) \/ Crash(p)
    PROVE  Careful
<1> USE SameRows, CalmAt DEF Inv, TypeOK, Local, Reaches, Following, Deleting, Settling, Zeroing, Unwritten, Commit,
         Jump, End, At, Call, external, history
<1>1. CASE Acknowledge(p)
  <2>1. \E a \in Acks : row' = [row EXCEPT !.ack = a] BY <1>1 DEF Acknowledge
  <2>2. Same(row', row) BY <2>1
  <2>3. pc' = [pc EXCEPT ![p] = "ack_load"] /\ fresh' = {} BY <1>1 DEF Acknowledge
  <2> QED BY <1>1, <2>2, <2>3 DEF Acknowledge
<1>2. CASE AckDispatch(p) BY <1>2 DEF AckDispatch
<1>3. CASE AckCall(p) BY <1>3 DEF AckCall
<1>4. CASE Confirm(p) BY <1>4 DEF Confirm
<1>5. CASE RaiseError(p) BY <1>5 DEF RaiseError
<1>6. CASE AbortPass(p) BY <1>6 DEF AbortPass
<1>7. CASE Crash(p) BY <1>7 DEF Crash
<1> QED BY <1>1, <1>2, <1>3, <1>4, <1>5, <1>6, <1>7 DEF HandoffStep

\* What the writes about the Pod do to the facts that PodInv names.
LEMMA PodRows ==
    ASSUME NEW r \in Lease
    PROVE  /\ LET s == CreateAccepted(r) IN
                s.pid /\ s.famReq = r.famReq /\ s.terminated = r.terminated /\ s.receipt = r.receipt
                /\ s.billing = r.billing /\ s.state = r.state
           /\ LET s == CreateMismatch(r) IN
                s.pid /\ s.famReq = r.famReq /\ s.terminated = r.terminated /\ s.receipt = r.receipt
                /\ s.billing = r.billing /\ s.state = r.state
           /\ LET s == Adopted(r) IN
                s.pid /\ s.famReq = r.famReq /\ s.terminated = r.terminated /\ s.receipt = r.receipt
                /\ s.billing = r.billing /\ s.state = "reconcile_required"
           /\ LET s == StopConfirmed(r) IN
                s.pid = r.pid /\ s.famReq = r.famReq /\ s.receipt = r.receipt
                /\ s.billing = "pending" /\ s.state = "releasing"
           /\ LET s == FoundStopped(r) IN
                s.pid = r.pid /\ s.uncertain = r.uncertain /\ s.famReq = r.famReq /\ s.receipt = r.receipt
                /\ s.billing = "pending" /\ s.state = "releasing"
           /\ LET s == Released(r) IN
                s.pid = r.pid /\ s.uncertain = r.uncertain /\ s.famReq = r.famReq /\ s.terminated = r.terminated
                /\ s.receipt = r.receipt /\ s.billing = r.billing /\ s.state = "released"
BY DEF Lease, CreateAccepted, CreateMismatch, Adopted, StopConfirmed, FoundStopped, Released

LEMMA ReceiptRows ==
    ASSUME NEW r \in Lease, NEW kind \in {"zero", "billed"}
    PROVE  /\ \A s \in {ZeroReceipt(r), CreateRejected(r), NoPodReceipt(r)} :
                s.pid = r.pid /\ s.famReq = r.famReq /\ s.receipt = "zero"
                /\ s.billing = "authoritative" /\ s.state = "releasing"
           /\ LET s == Billed(r, kind) IN
                s.pid = r.pid /\ s.uncertain = r.uncertain /\ s.famReq = r.famReq /\ s.terminated = r.terminated
                /\ s.receipt = kind /\ s.billing = "authoritative" /\ s.state = r.state
<1>1. ASSUME NEW s \in {ZeroReceipt(r), CreateRejected(r), NoPodReceipt(r)}
      PROVE  s.pid = r.pid /\ s.famReq = r.famReq /\ s.receipt = "zero"
             /\ s.billing = "authoritative" /\ s.state = "releasing"
  BY DEF Lease, ZeroReceipt, CreateRejected, NoPodReceipt
<1> QED BY <1>1 DEF Lease, Billed

\* A receipt without a Pod is written where there is none.
LEMMA ZeroCareful ==
    ASSUME Inv, PodInv, Next, NEW p \in Procs, Exists, pod'.st = "none",
           row' \in {ZeroReceipt(row), CreateRejected(row), NoPodReceipt(row)}, fresh' = {},
           ~IsTerminal(row), pc' = [pc EXCEPT ![p] = "revoke"],
           creates' = creates, cap' = cap, pod.st \in {"none", "inflight"}
    PROVE  Careful
<1>1. /\ row'.pid = row.pid /\ row'.famReq = row.famReq /\ row'.receipt = "zero"
      /\ row'.billing = "authoritative" /\ row'.state = "releasing"
  BY ReceiptRows DEF Inv, TypeOK
<1>2. Closed' BY ExistsKept DEF Closed
<1>3. Over' BY <1>1, <1>2 DEF Over, Billable, Active
<1>4. RowMoves BY <1>1, <1>3 DEF RowMoves, IsTerminal
<1>5. PodMoves BY <1>1 DEF PodMoves
<1>6. Local(p) BY DEF Local, Inv, TypeOK
<1>7. Reaches(p) BY <1>3 DEF Reaches, Following, Deleting, Zeroing, Inv, TypeOK
<1> QED BY <1>4, <1>5, <1>6, <1>7, CarefulAt

LEMMA AcquireCareful ==
    ASSUME Inv, PodInv, Next, NEW p \in Procs, AcquireStep(p),
           ~(Reserve(p) /\ ~Exists /\ Exists'), ~(StartCreate(p) /\ Unchanged(p))
    PROVE  Careful
<1> USE SameRows, CalmAt DEF Inv, TypeOK, Local, Reaches, Following, Deleting, Settling, Zeroing, Unwritten, Commit,
         Jump, End, At, Call, Exists, external, history
<1>1. CASE Acquire(p) BY <1>1 DEF Acquire
<1>2. CASE AcquireReplay(p) BY <1>2 DEF AcquireReplay
<1>3. CASE Reserve(p)
  <2>1. \A hb : Reserved(hb).state = "requested" BY ReservedState
  <2>2. CASE ~Exists
    <3>1. row' = row /\ fresh' = fresh \ {p} /\ pc' = [pc EXCEPT ![p] = "raise"]
      BY <1>3, <2>1, <2>2 DEF Reserve, Inserts
    <3> QED BY <1>3, <3>1 DEF Reserve
  <2>3. CASE Exists BY <1>3, <2>3 DEF Reserve, Inserts
  <2> QED BY <2>2, <2>3
<1>4. CASE StartCreate(p) BY <1>4 DEF StartCreate
<1>5. ASSUME CreateReturns(p) \/ CreateMismatched(p) PROVE Careful
  <2>1. CASE row' = row
    <3>1. fresh' \subseteq fresh BY <1>5, <2>1 DEF CreateReturns, CreateMismatched, TransitionNonterminal
    <3>2. pc'[p] \in {"abort", "rdy_read", "rel_read", "idle"} /\ \A q \in Procs \ {p} : pc'[q] = pc[q]
      BY <1>5 DEF CreateReturns, CreateMismatched
    <3> QED BY <1>5, <2>1, <3>1, <3>2 DEF CreateReturns, CreateMismatched
  <2>2. CASE row' # row
    <3>1. /\ row' = CreateAccepted(row) \/ row' = CreateMismatch(row)
          /\ fresh' = {} /\ Accepted
      BY <1>5, <2>2 DEF CreateReturns, CreateMismatched, TransitionNonterminal
    <3>2. /\ row'.pid /\ row'.famReq = row.famReq /\ row'.terminated = row.terminated
          /\ row'.receipt = row.receipt /\ row'.billing = row.billing /\ row'.state = row.state
      BY <3>1, PodRows
    <3>3. /\ pc'[p] \in {"rdy_read", "rel_read", "idle", "abort"} /\ \A q \in Procs \ {p} : pc'[q] = pc[q]
          /\ pc[p] = "acq_create"
          /\ pod' = pod /\ cap' = cap /\ creates' = creates
      BY <1>5 DEF CreateReturns, CreateMismatched
    <3>4. RowMoves BY <3>1, <3>2, <3>3 DEF RowMoves, Ending, IsTerminal
    <3> QED BY <3>1, <3>3, <3>4, CarefulAt DEF PodMoves
  <2> QED BY <2>1, <2>2
<1>6. CASE CreateAmbiguous(p) BY <1>6 DEF CreateAmbiguous, TransitionNonterminal
<1>7. CASE CreateRefused(p)
  <2>1. /\ pod.st = "inflight" /\ pod'.st = "none" /\ pc[p] = "acq_create"
        /\ cap' = cap /\ creates' = creates
    BY <1>7 DEF CreateRefused
  <2>2. ~Ending BY <2>1 DEF PodInv, Marks, Over, Billable
  <2>3. Exists BY <2>1 DEF PodInv, Places, Closed
  <2>4. row' = CreateRejected(row) /\ fresh' = {} /\ pc' = [pc EXCEPT ![p] = "revoke"]
    BY <1>7, <2>2 DEF CreateRefused, Ending
  <2> QED BY <2>1, <2>2, <2>3, <2>4, ZeroCareful DEF Ending
<1>8. CASE CreateCancelled(p) BY <1>8 DEF CreateCancelled
<1>9. CASE LoadCapability(p)
  <2>1. /\ row' = row /\ fresh' = fresh \ {p} /\ pc' = [pc EXCEPT ![p] = "acq_reserve"]
        /\ pod' = pod /\ creates' = creates /\ (cap' = "revoked" => cap = "revoked")
    BY <1>9 DEF LoadCapability
  <2> QED BY <2>1
<1>10. CASE LoadCapabilityError(p) BY <1>10 DEF LoadCapabilityError
<1> QED BY <1>1, <1>2, <1>3, <1>4, <1>5, <1>6, <1>7, <1>8, <1>9, <1>10 DEF AcquireStep

\* What is never lost again, in the step of a process.
LEMMA LocalKeeps ==
    ASSUME Inv, Next, NEW p \in Procs, Local(p), PodMoves
    PROVE  (Closed => Closed') /\ (Over => Over') /\ (NeverHad => NeverHad')
<1>1. Tended
  <2>1. fresh' \in SUBSET Procs BY NextType DEF Inv, TypeOK
  <2> QED BY <2>1 DEF Local, Tended
<1> QED BY <1>1, ClosedKept, OverKept, NeverHadKept

\* No Pod without an id or a doubt in the row.
LEMMA NoDoubt == ASSUME PodInv, Closed, ~row.pid, ~row.uncertain PROVE NeverHad
BY DEF PodInv, Marks, NeverHad

\* Where billing is entered,
LEMMA BillingPlaces ==
    ASSUME NEW r \in Lease
    PROVE  /\ BillingStep(r) \in {"revoke", "bill_unresolved", "bill_zero", "bill_await", "raise"}
           /\ BillingStep(r) = "bill_zero" => ~r.pid /\ ~r.uncertain
BY DEF BillingStep, Lease

\* and where the lookup of an uncertain create leads.
LEMMA LookupPlaces ==
    ASSUME Inv, NEW p \in Procs, NEW r \in Lease, AfterLookup(p, r)
    PROVE  /\ pc'[p] \in {"rel_read", "idle", "raise", "rel_zero", "rel_mark"}
           /\ \A q \in Procs \ {p} : pc'[q] = pc[q]
           /\ pc'[p] = "rel_mark" => r.pid
           /\ pc'[p] = "rel_zero" => ~r.pid /\ ~r.uncertain
<1>1. CASE At(p, "rec_find") BY <1>1 DEF AfterLookup, Jump, End, Inv, TypeOK
<1>2. CASE ~At(p, "rec_find")
  <2> DEFINE label == CASE ~r.pid /\ r.uncertain  -> "raise"
                        [] ~r.pid /\ ~r.uncertain -> "rel_zero"
                        [] OTHER                 -> "rel_mark"
  <2>1. pc' = [pc EXCEPT ![p] = label] BY <1>2 DEF AfterLookup, Jump
  <2>2. label \in {"raise", "rel_zero", "rel_mark"} /\ (label = "rel_mark" => r.pid)
        /\ (label = "rel_zero" => ~r.pid /\ ~r.uncertain)
    BY DEF Lease
  <2> QED BY <2>1, <2>2 DEF Inv, TypeOK
<1> QED BY <1>1, <1>2

\* Entering billing on a row that is over.
LEMMA BillingCareful ==
    ASSUME Inv, PodInv, Next, NEW p \in Procs, Over, row' = row, EnterBilling(p, row, fresh),
           pod' = pod, cap' = cap, creates' = creates
    PROVE  Careful
<1>1. row \in Lease BY DEF Inv, TypeOK
<1>2. /\ pc'[p] \in {"revoke", "bill_unresolved", "bill_zero", "bill_await", "raise"}
      /\ pc'[p] = "bill_zero" => ~row.pid /\ ~row.uncertain
      /\ \A q \in Procs \ {p} : pc'[q] = pc[q]
      /\ fresh' \subseteq fresh \cup {p}
  BY <1>1, BillingPlaces DEF EnterBilling, Inv, TypeOK
<1>3. Local(p) BY <1>2 DEF Local
<1>4. Reaches(p) BY <1>2, NoDoubt DEF Reaches, Following, Deleting, Zeroing, Over
<1>5. Same(row', row) BY DEF Same
<1> QED BY <1>3, <1>4, <1>5, CalmAt

\* Deletion, where the row knows the Pod.
LEMMA DeleteCareful ==
    ASSUME Inv, PodInv, Next, NEW p \in Procs, pc[p] = "rel_terminate", ~IsTerminal(row), ~IsTerminal(row'),
           fresh' = {}, Same(row', row), pod'.st \in {pod.st, "gone"}, cap' = cap, creates' = creates,
           \/ pc' = [pc EXCEPT ![p] = "raise"]
           \/ pc' = [pc EXCEPT ![p] = "rel_confirm"] /\ pod'.st = "gone"
    PROVE  Careful
<1>1. Accepted BY DEF PodInv, Places, Deleting, Marks
<1>2. PodMoves BY <1>1 DEF PodMoves
<1>3. RowMoves BY SameMoves
<1>4. Local(p) BY DEF Local, Inv, TypeOK
<1>5. Closed' BY <1>2, <1>4, LocalKeeps DEF PodInv, Places, Following
<1>6. ~Active(row') BY StoppedKept DEF Inv, TeardownInv, At
<1>7. Reaches(p)
  BY <1>5, <1>6 DEF Reaches, Following, Deleting, Settling, Zeroing, Over, Billable, Inv, TypeOK
<1> QED BY <1>2, <1>3, <1>4, <1>7, CarefulAt

\* _resolve_uncertain_creation.
LEMMA FindCareful ==
    ASSUME Inv, PodInv, Next, NEW p \in Procs, FindFound(p) \/ FindAbsent(p) \/ FindError(p) PROVE Careful
<1>0. /\ pc[p] \in {"rel_find", "rec_find"} /\ Closed
      /\ pod' = pod /\ cap' = cap /\ creates' = creates
  BY DEF FindFound, FindAbsent, FindError, PodInv, Places, Following, external, history
<1>1. row \in Lease BY DEF Inv, TypeOK
<1>2. PodMoves BY <1>0 DEF PodMoves
<1>3. ASSUME row' = row, fresh' = fresh \ {p}, Jump(p, "abort") \/ Jump(p, "raise") PROVE Careful
  <2>1. Local(p) BY <1>0, <1>3 DEF Local, Jump, Inv, TypeOK
  <2>2. Reaches(p) BY <1>3 DEF Reaches, Following, Deleting, Settling, Zeroing, Jump, Inv, TypeOK
  <2>3. Same(row', row) BY <1>3 DEF Same
  <2> QED BY <1>0, <2>1, <2>2, <2>3, CalmAt
<1>4. ASSUME NEW r \in Lease, AfterLookup(p, r), (row' = row /\ fresh' = fresh \ {p}) \/ fresh' = {},
             RowMoves, r.pid => row'.pid, ~r.pid /\ ~r.uncertain => ~row.pid /\ ~row.uncertain
      PROVE  Careful
  <2>1. /\ pc'[p] \in {"rel_read", "idle", "raise", "rel_zero", "rel_mark"}
        /\ \A q \in Procs \ {p} : pc'[q] = pc[q]
        /\ pc'[p] = "rel_mark" => r.pid
        /\ pc'[p] = "rel_zero" => ~r.pid /\ ~r.uncertain
    BY <1>4, LookupPlaces
  <2>2. Local(p) BY <1>0, <1>4, <2>1 DEF Local
  <2>3. Reaches(p) BY <1>0, <1>4, <2>1, NoDoubt DEF Reaches, Following, Deleting, Settling, Zeroing
  <2> QED BY <1>2, <1>4, <2>2, <2>3, CarefulAt
<1>5. CASE FindFound(p)
  <2>1. CASE IsTerminal(row)
    <3>1. row' = row /\ fresh' = fresh \ {p} /\ AfterLookup(p, row) BY <1>5, <2>1 DEF FindFound, Unwritten
    <3>2. RowMoves BY <1>0, <1>1, <3>1, SameRows, SameMoves
    <3> QED BY <1>1, <1>4, <3>1, <3>2
  <2>2. CASE ~IsTerminal(row) /\ (AdoptedTooLate(row) \/ row.realized)
    <3>1. row' = row /\ fresh' = fresh \ {p} /\ (Jump(p, "abort") \/ Jump(p, "raise"))
      BY <1>5, <2>2 DEF FindFound, Unwritten
    <3> QED BY <1>3, <3>1
  <2>3. CASE ~IsTerminal(row) /\ ~AdoptedTooLate(row) /\ ~row.realized
    <3>1. row' = Adopted(row) /\ fresh' = {} /\ AfterLookup(p, Adopted(row)) /\ Accepted
      BY <1>5, <2>3 DEF FindFound, Commit, Visible, Accepted
    <3>2. /\ row'.pid /\ row'.famReq = row.famReq /\ row'.terminated = row.terminated /\ row'.receipt = row.receipt
          /\ row'.billing = row.billing /\ row'.state = "reconcile_required"
      BY <1>1, <3>1, PodRows
    <3>3. RowMoves BY <1>0, <3>1, <3>2 DEF RowMoves, Ending, IsTerminal
    <3>4. Adopted(row) \in Lease BY <1>1, ReleaseType
    <3> QED BY <1>4, <3>1, <3>2, <3>3, <3>4
  <2> QED BY <2>1, <2>2, <2>3
<1>6. CASE FindAbsent(p)
  <2>1. (row' = row /\ fresh' = fresh \ {p}) \/ (row' = AwaitingCreate(row) /\ fresh' = {})
    BY <1>6 DEF FindAbsent, TransitionNonterminal, Unwritten, Commit
  <2>2. Same(row', row) BY <1>1, <2>1, SameRows
  <2>3. RowMoves BY <1>0, <2>2, SameMoves
  <2> QED BY <1>1, <1>4, <1>6, <2>1, <2>2, <2>3 DEF FindAbsent, Same
<1>7. CASE FindError(p)
  <2> DEFINE r == IF IsTerminal(row) THEN row ELSE RetryableCreate(row)
  <2>1. row' = r /\ ((row' = row /\ fresh' = fresh \ {p}) \/ fresh' = {}) /\ AfterLookup(p, r)
    BY <1>7 DEF FindError, TransitionNonterminal, Unwritten, Commit
  <2>2. r \in Lease BY <1>1, AcquireType
  <2>3. Same(r, row) BY <1>1, SameRows
  <2>4. RowMoves BY <1>0, <2>1, <2>3, SameMoves
  <2>5. ~r.pid /\ ~r.uncertain => ~row.pid /\ ~row.uncertain BY <2>3 DEF Same
  <2> QED BY <1>4, <2>1, <2>2, <2>4, <2>5
<1> QED BY <1>5, <1>6, <1>7

LEMMA ReleaseCareful ==
    ASSUME Inv, Born, PodInv, Next, NEW p \in Procs, ReleaseStep(p) PROVE Careful
<1> USE SameRows, CalmAt DEF Inv, TypeOK, Local, Reaches, Following, Deleting, Settling, Zeroing, Unwritten, Commit,
         TransitionNonterminal, Jump, End, Finish, At, Call, external, history
<1>1. CASE Release(p) BY <1>1 DEF Release
<1>2. CASE MarkFamily(p)
  <2>1. /\ pc' = [pc EXCEPT ![p] = "rel_read"] /\ pc[p] = "release"
        /\ pod' = pod /\ cap' = cap /\ creates' = creates
    BY <1>2 DEF MarkFamily
  <2>2. CASE row.famReq
    <3>1. Closed BY <2>2 DEF PodInv, Marks
    <3> QED BY <1>2, <2>1, <2>2, <3>1 DEF MarkFamily
  <2>3. CASE ~row.famReq
    <3>1. Exists BY <2>1 DEF Born, Resting
    <3>2. row' = [row EXCEPT !.famReq = TRUE, !.famDone = FALSE, !.hb = "fresh"] /\ fresh' = {}
      BY <1>2, <2>3 DEF MarkFamily, FamilyRequested
    <3>3. Closed' BY <3>1, <3>2, ExistsKept DEF Closed
    <3>4. /\ row'.pid = row.pid /\ row'.uncertain = row.uncertain /\ row'.terminated = row.terminated
          /\ row'.receipt = row.receipt /\ row'.billing = row.billing /\ row'.state = row.state
      BY <3>2 DEF Lease
    <3>5. RowMoves BY <2>1, <3>3, <3>4 DEF RowMoves, Ending, IsTerminal
    <3>6. PodMoves BY <2>1 DEF PodMoves
    <3>7. Local(p) /\ Reaches(p) BY <2>1, <3>1, <3>2
    <3> QED BY <3>5, <3>6, <3>7, CarefulAt
  <2> QED BY <2>2, <2>3
<1>3. CASE ReleaseRead(p)
  <2>1. Closed BY <1>3 DEF ReleaseRead, PodInv, Places
  <2>2. row' = row /\ pod' = pod /\ cap' = cap /\ creates' = creates BY <1>3 DEF ReleaseRead
  <2>3. CASE ~IsTerminal(row) /\ AwaitsBilling(row)
    <3>1. Over BY <2>3 DEF AwaitsBilling, PodInv, Marks, Ending
    <3>2. EnterBilling(p, row, fresh) BY <1>3, <2>3 DEF ReleaseRead
    <3> QED BY <2>2, <3>1, <3>2, BillingCareful
  <2>4. CASE ~(~IsTerminal(row) /\ AwaitsBilling(row))
    <3> DEFINE label == CASE ~row.pid /\ row.uncertain           -> "rel_find"
                          [] ~row.pid /\ ~row.uncertain          -> "rel_zero"
                          [] row.pid /\ row.state # "releasing" -> "rel_mark"
                          [] OTHER                              -> "rel_terminate"
    <3>1. /\ label \in {"rel_find", "rel_zero", "rel_mark", "rel_terminate"}
          /\ label \in {"rel_mark", "rel_terminate"} => row.pid
          /\ label = "rel_zero" => ~row.pid /\ ~row.uncertain
      BY DEF Lease
    <3>2. fresh' = fresh \ {p} /\ (Finish(p) \/ Jump(p, label)) BY <1>3, <2>4 DEF ReleaseRead
    <3> HIDE DEF label
    <3>3. pc'[p] \in {"idle", "rel_family", label} /\ \A q \in Procs \ {p} : pc'[q] = pc[q] BY <3>2
    <3> QED BY <2>1, <2>2, <3>1, <3>2, <3>3, NoDoubt
  <2> QED BY <2>3, <2>4
<1>4. CASE ReleaseZero(p)
  <2>1. NeverHad BY <1>4 DEF ReleaseZero, PodInv, Places
  <2>2. pod' = pod /\ cap' = cap /\ creates' = creates BY <1>4 DEF ReleaseZero
  <2>3. CASE IsTerminal(row) \/ row.receipt # "none"
    <3>1. Over BY <2>3 DEF PodInv, Marks, Ending
    <3>2. row' = row /\ fresh' = fresh \ {p} /\ pc'[p] \in {"revoke", "raise"} /\ \A q \in Procs \ {p} : pc'[q] = pc[q]
      BY <1>4, <2>3 DEF ReleaseZero
    <3> QED BY <2>2, <3>1, <3>2
  <2>4. CASE ~(IsTerminal(row) \/ row.receipt # "none")
    <3>1. row' = NoPodReceipt(row) /\ fresh' = {} /\ pc' = [pc EXCEPT ![p] = "revoke"] BY <1>4, <2>4 DEF ReleaseZero
    <3> QED BY <2>1, <2>2, <2>4, <3>1, ZeroCareful DEF NeverHad, Closed
  <2> QED BY <2>3, <2>4
<1>5. CASE ReleaseMark(p)
  <2>1. row.pid BY <1>5 DEF ReleaseMark, PodInv, Places
  <2> QED BY <1>5, <2>1 DEF ReleaseMark
<1>6. CASE Terminate(p)
  <2>1. CASE IsTerminal(row) BY <1>6, <2>1 DEF Terminate
  <2>2. CASE ~IsTerminal(row) BY <1>6, <2>2, DeleteCareful DEF Terminate
  <2> QED BY <2>1, <2>2
<1>7. CASE TerminatePending(p) BY <1>7 DEF TerminatePending
<1>8. CASE TerminateError(p)
  <2>1. row' = RetryableFailure(row) /\ fresh' = {} /\ ~IsTerminal(row) BY <1>8 DEF TerminateError
  <2>2. ~IsTerminal(row') BY <2>1 DEF RetryableFailure, IsTerminal, Lease
  <2>3. pod'.st \in {pod.st, "gone"} BY <1>8 DEF TerminateError
  <2> QED BY <1>8, <2>1, <2>2, <2>3, DeleteCareful DEF TerminateError
<1>9. CASE ConfirmStop(p)
  <2>1. Over /\ row.pid BY <1>9 DEF ConfirmStop, PodInv, Places
  <2>2. pod' = pod /\ cap' = cap /\ creates' = creates BY <1>9 DEF ConfirmStop
  <2>3. CASE IsTerminal(row) BY <1>9, <2>1, <2>2, <2>3, BillingCareful DEF ConfirmStop
  <2>4. CASE ~IsTerminal(row)
    <3>1. row' = StopConfirmed(row) /\ EnterBilling(p, StopConfirmed(row), {}) BY <1>9, <2>4 DEF ConfirmStop
    <3>2. /\ row'.pid = row.pid /\ row'.famReq = row.famReq /\ row'.receipt = row.receipt
          /\ row'.billing = "pending" /\ row'.state = "releasing"
      BY <3>1, PodRows
    <3>3. /\ pc'[p] \in {"revoke", "bill_unresolved", "bill_await", "raise"}
          /\ \A q \in Procs \ {p} : pc'[q] = pc[q]
          /\ fresh' \subseteq {p}
      BY <2>1, <3>1, <3>2, BillingPlaces, ReleaseType DEF EnterBilling
    <3>4. Local(p) BY <2>2, <3>3
    <3>5. PodMoves BY <2>2 DEF PodMoves
    <3>6. Over' BY <2>1, <3>4, <3>5, LocalKeeps
    <3>7. RowMoves BY <2>1, <2>2, <3>2, <3>6 DEF RowMoves, IsTerminal
    <3>8. Reaches(p) BY <3>3, <3>6
    <3> QED BY <3>4, <3>5, <3>7, <3>8, CarefulAt
  <2> QED BY <2>3, <2>4
<1>10. CASE CompleteFamily(p) BY <1>10 DEF CompleteFamily
<1>11. CASE FindFound(p) \/ FindAbsent(p) \/ FindError(p) BY <1>11, FindCareful
<1> QED BY <1>1, <1>2, <1>3, <1>4, <1>5, <1>6, <1>7, <1>8, <1>9, <1>10, <1>11 DEF ReleaseStep

LEMMA BillingStepCareful ==
    ASSUME Inv, PodInv, Next, NEW p \in Procs, BillingStepOf(p) PROVE Careful
<1> USE SameRows, CalmAt DEF Inv, TypeOK, Local, Reaches, Following, Deleting, Settling, Zeroing, Unwritten, Commit,
         TransitionNonterminal, Jump, End, Finish, SettlementFails, At, external, history
<1>0. pc[p] \in Settling \cup Zeroing => Closed BY DEF PodInv, Places, Over, NeverHad
<1>1. CASE BillUnresolved(p) BY <1>0, <1>1 DEF BillUnresolved
<1>2. CASE BillNotYet(p) BY <1>0, <1>2 DEF BillNotYet
<1>3. CASE BillReceipt(p)
  <2>1. /\ pc[p] \in {"bill_await", "bill_zero"} /\ Over
        /\ pod' = pod /\ cap' = cap /\ creates' = creates
    BY <1>3 DEF BillReceipt, PodInv, Places
  <2>2. CASE IsTerminal(row) \/ row.receipt # "none"
    <3>1. row' = row /\ fresh' = fresh \ {p} /\ pc'[p] \in {"revoke", "raise", "rdy_failed"} /\ \A q \in Procs \ {p} : pc'[q] = pc[q]
      BY <1>3, <2>2 DEF BillReceipt
    <3> QED BY <1>0, <2>1, <3>1
  <2>3. CASE ~(IsTerminal(row) \/ row.receipt # "none")
    <3> DEFINE kind == IF At(p, "bill_zero") THEN "zero" ELSE "billed"
    <3>1. row' = Billed(row, kind) /\ fresh' = {} /\ pc' = [pc EXCEPT ![p] = "revoke"]
      BY <1>3, <2>3 DEF BillReceipt
    <3>2. /\ row'.pid = row.pid /\ row'.uncertain = row.uncertain /\ row'.famReq = row.famReq
          /\ row'.terminated = row.terminated /\ row'.receipt = kind /\ row'.billing = "authoritative"
          /\ row'.state = row.state
      BY <3>1, ReceiptRows
    <3>3. kind # "none" /\ (kind = "zero" => pod.st = "none") BY DEF PodInv, Places, NeverHad
    <3> HIDE DEF kind
    <3>4. Local(p) BY <2>1, <3>1
    <3>5. PodMoves BY <2>1 DEF PodMoves
    <3>6. Over' BY <2>1, <3>4, <3>5, LocalKeeps
    <3>7. RowMoves BY <2>1, <3>2, <3>3, <3>6 DEF RowMoves, IsTerminal
    <3>8. Reaches(p) BY <3>1, <3>6
    <3> QED BY <3>4, <3>5, <3>7, <3>8, CarefulAt
  <2> QED BY <2>2, <2>3
<1>4. CASE BillError(p) BY <1>0, <1>4 DEF BillError
<1>5. CASE Revoke(p)
  <2>1. /\ Over /\ pc[p] = "revoke" /\ pc' = [pc EXCEPT ![p] = "rel_final"]
        /\ row' = row /\ fresh' = fresh \ {p}
        /\ pod' = pod /\ creates' = creates
    BY <1>5 DEF Revoke, PodInv, Places
  <2>2. Local(p) BY <2>1
  <2>3. PodMoves BY <2>1 DEF PodMoves
  <2>4. Over' BY <2>1, <2>2, <2>3, LocalKeeps
  <2>5. RowMoves BY <2>1, <2>4 DEF RowMoves
  <2>6. Reaches(p) BY <2>1
  <2> QED BY <2>2, <2>3, <2>5, <2>6, CarefulAt
<1>6. CASE RevokeError(p) BY <1>0, <1>6 DEF RevokeError
<1>7. CASE FinalRelease(p)
  <2>1. /\ Over /\ pc[p] = "rel_final" /\ pc'[p] \in {"rel_family", "idle"}
        /\ \A q \in Procs \ {p} : pc'[q] = pc[q]
        /\ pod' = pod /\ cap' = cap /\ creates' = creates
    BY <1>7 DEF FinalRelease, PodInv, Places
  <2>2. CASE IsTerminal(row) BY <1>7, <2>1, <2>2 DEF FinalRelease
  <2>3. CASE ~IsTerminal(row)
    <3>1. row' = Released(row) /\ fresh' = {} BY <1>7, <2>3 DEF FinalRelease
    <3>2. /\ row'.pid = row.pid /\ row'.uncertain = row.uncertain /\ row'.famReq = row.famReq
          /\ row'.terminated = row.terminated /\ row'.receipt = row.receipt /\ row'.billing = row.billing
          /\ row'.state = "released"
      BY <3>1, PodRows
    <3>3. Local(p) BY <2>1, <3>1
    <3>4. PodMoves BY <2>1 DEF PodMoves
    <3>5. Over' BY <2>1, <3>3, <3>4, LocalKeeps
    <3>6. RowMoves BY <2>1, <3>2, <3>5 DEF RowMoves
    <3>7. Reaches(p) BY <2>1
    <3> QED BY <3>3, <3>4, <3>6, <3>7, CarefulAt
  <2> QED BY <2>2, <2>3
<1> QED BY <1>1, <1>2, <1>3, <1>4, <1>5, <1>6, <1>7 DEF BillingStepOf

LEMMA ReconcileCareful ==
    ASSUME Inv, PodInv, Next, NEW p \in Procs, ReconcileOne(p) PROVE Careful
<1>1. /\ pc[p] = "idle" /\ Exists /\ row' = row
      /\ pod' = pod /\ cap' = cap /\ creates' = creates
  BY DEF ReconcileOne, At, Unfinished, Exists, external, history
<1>2. CASE IsTerminal(row)
  <2>1. Over BY <1>2 DEF PodInv, Marks, Ending
  <2>2. EnterBilling(p, row, fresh) BY <1>2 DEF ReconcileOne
  <2> QED BY <1>1, <2>1, <2>2, BillingCareful
<1>3. CASE ~IsTerminal(row)
  <2>1. pc' = [pc EXCEPT ![p] = ReconcileStep] /\ fresh' \subseteq fresh \cup {p}
    BY <1>3 DEF ReconcileOne, Jump
  <2>2. ReconcileStep \in {"rec_reap", "idle", "rec_find", "rel_read", "obs_call", "raise", "rec_observe"}
    BY DEF ReconcileStep
  <2>3. ReconcileStep \in {"rec_find", "rel_read", "rec_observe"} => row.state # "requested"
    BY DEF ReconcileStep, Unstarted
  <2>4. row.state # "requested" => Closed BY <1>1 DEF Inv, CreateInv, Closed
  <2>5. Local(p) BY <1>1, <2>1, <2>2 DEF Local, Inv, TypeOK
  <2>6. Reaches(p)
    BY <2>1, <2>2, <2>3, <2>4 DEF Reaches, Following, Deleting, Settling, Zeroing, Inv, TypeOK
  <2>7. Same(row', row) BY <1>1 DEF Same
  <2> QED BY <1>1, <2>5, <2>6, <2>7, CalmAt
<1> QED BY <1>2, <1>3

\* A reservation reaped before its create was sent can send none any more: the
\* reaper's write takes the revision from its owner.
LEMMA ReconcilerCareful ==
    ASSUME Inv, Born, PodInv, Next, NEW p \in Procs, ReconcilerStep(p), ~misreaped' PROVE Careful
<1> USE SameRows, CalmAt DEF Inv, TypeOK, Local, Reaches, Following, Deleting, Settling, Zeroing, Unwritten, Commit,
         Jump, End, At, external, history
<1>1. CASE ReconcileFamily(p) BY <1>1 DEF ReconcileFamily
<1>2. CASE ReconcileOne(p) BY <1>2, ReconcileCareful
<1>3. CASE Reap(p)
  <2>1. Exists BY <1>3 DEF Reap, Born, Resting
  <2>2. pod' = pod /\ cap' = cap /\ creates' = creates BY <1>3 DEF Reap
  <2>3. CASE IsTerminal(row) \/ row.receipt # "none" \/ row.accepted \/ row.adopted
    <3>1. /\ row' = row /\ fresh' = fresh \ {p} /\ pc'[p] \in {"revoke", "raise", "abort"}
          /\ \A q \in Procs \ {p} : pc'[q] = pc[q]
          /\ pc'[p] = "revoke" => IsTerminal(row)
      BY <1>3, <2>3 DEF Reap
    <3>2. IsTerminal(row) => Over BY DEF PodInv, Marks, Ending
    <3> QED BY <2>2, <3>1, <3>2
  <2>4. CASE ~(IsTerminal(row) \/ row.receipt # "none" \/ row.accepted \/ row.adopted)
    <3>1. row' = ZeroReceipt(row) /\ fresh' = {} /\ pc' = [pc EXCEPT ![p] = "revoke"] BY <1>3, <2>4 DEF Reap
    <3>2. row' # row BY <2>4, <3>1, ReceiptRows
    <3>3. ~(creates > 0) BY <1>3, <3>2 DEF Reap
    <3>4. pod.st = "none" BY <3>3 DEF PodInv, Marks
    <3> QED BY <2>1, <2>2, <2>4, <3>1, <3>4, ZeroCareful
  <2> QED BY <2>3, <2>4
<1>4. CASE ObserveStopped(p)
  <2>1. /\ Closed /\ pod.st \in {"stopped", "gone"}
        /\ pod' = pod /\ cap' = cap /\ creates' = creates
    BY <1>4 DEF ObserveStopped, PodInv, Places
  <2>2. CASE IsTerminal(row)
    <3>1. Over BY <2>2 DEF PodInv, Marks, Ending
    <3> QED BY <1>4, <2>1, <2>2, <3>1, BillingCareful DEF ObserveStopped
  <2>3. CASE ~IsTerminal(row)
    <3>1. row' = FoundStopped(row) /\ EnterBilling(p, FoundStopped(row), {}) BY <1>4, <2>3 DEF ObserveStopped
    <3>2. /\ row'.pid = row.pid /\ row'.uncertain = row.uncertain /\ row'.famReq = row.famReq
          /\ row'.receipt = row.receipt /\ row'.billing = "pending" /\ row'.state = "releasing"
      BY <3>1, PodRows
    <3>3. row.pid \/ row.uncertain BY <2>1 DEF PodInv, Marks
    <3>4. FoundStopped(row) \in Lease BY ReleaseType
    <3>5. /\ pc'[p] \in {"revoke", "bill_unresolved", "bill_await", "raise"}
          /\ \A q \in Procs \ {p} : pc'[q] = pc[q]
          /\ fresh' \subseteq {p}
      BY <3>1, <3>2, <3>3, <3>4, BillingPlaces DEF EnterBilling
    <3>6. Local(p) BY <2>1, <3>5
    <3>7. PodMoves BY <2>1 DEF PodMoves
    <3>8. Closed' BY <2>1, <3>6, <3>7, LocalKeeps
    <3>9. Over' BY <2>1, <3>2, <3>8 DEF Over, Billable, Active
    <3>10. RowMoves BY <2>1, <3>2, <3>9 DEF RowMoves, IsTerminal
    <3>11. Reaches(p) BY <3>5, <3>9
    <3> QED BY <3>6, <3>7, <3>10, <3>11, CarefulAt
  <2> QED BY <2>2, <2>3
<1>5. CASE ObserveRoute(p)
  <2>1. row' = row \/ \E route \in BOOLEAN : row' = [row EXCEPT !.url = route] BY <1>5 DEF ObserveRoute
  <2>2. Same(row', row) BY <2>1
  <2>3. /\ (row' = row /\ fresh' = fresh \ {p}) \/ fresh' = {}
        /\ pc'[p] \in {"idle", "raise"} /\ \A q \in Procs \ {p} : pc'[q] = pc[q]
        /\ pod' = pod /\ cap' = cap /\ creates' = creates
    BY <1>5 DEF ObserveRoute
  <2> QED BY <2>2, <2>3
<1>6. CASE ObserveError(p) BY <1>6 DEF ObserveError
<1>7. CASE ObserveStoppedTooLate(p) BY <1>7 DEF ObserveStoppedTooLate
<1> QED BY <1>1, <1>2, <1>3, <1>4, <1>5, <1>6, <1>7 DEF ReconcilerStep

LEMMA EnvironmentCareful == ASSUME Inv, PodInv, Environment PROVE Careful
<1>1. pc' = pc /\ fresh' = fresh /\ creates' = creates /\ cap' = cap
  BY DEF Environment, ProviderAccepts, ProviderDrops, PodExits, WorkerStep, RunnerReplaced, Tick, Age, Inside,
     external, history
<1>2. Tended BY <1>1 DEF Tended
<1>3. Same(row', row)
  <2>1. row' = row \/ row' = [row EXCEPT !.hb = "stale"]
    BY DEF Environment, ProviderAccepts, ProviderDrops, PodExits, WorkerStep, RunnerReplaced, Tick, Age, Inside
  <2> QED BY <2>1, SameRows DEF Inv, TypeOK
<1>4. PodMoves
  <2>1. CASE ProviderAccepts
    <3>1. pod'.st = "live" BY <2>1 DEF ProviderAccepts
    <3> QED BY <2>1, <3>1 DEF ProviderAccepts, Inside, PodMoves
  <2>2. CASE ProviderDrops BY <2>2 DEF ProviderDrops, Inside, PodMoves, Inv, TypeOK
  <2>3. CASE PodExits BY <2>3 DEF PodExits, Inside, PodMoves, Inv, TypeOK
  <2>4. CASE WorkerStep \/ RunnerReplaced \/ Tick \/ Age
    BY <2>4 DEF WorkerStep, RunnerReplaced, Tick, Age, external, PodMoves
  <2> QED BY <2>1, <2>2, <2>3, <2>4 DEF Environment
<1>5. Arrivals BY <1>1, <1>3 DEF Arrivals, Same
<1> QED BY <1>1, <1>2, <1>3, <1>4, <1>5, SameMoves DEF Careful

-----------------------------------------------------------------------------
(* The reservation and the create request. *)

LEMMA ReserveKeeps ==
    ASSUME Inv, Born, PodInv, NEW p \in Procs, Reserve(p), ~Exists, Exists'
    PROVE  PodInv'
<1>1. creates = 0 /\ pod.st = "none" /\ cap # "revoked"
  BY DEF Inv, CreateInv, PodInv, Marks, Ending, Over, Closed
<1>2. /\ \E hb : row' = Reserved(hb)
      /\ fresh' = {p}
      /\ pc' = [pc EXCEPT ![p] = "acq_start"]
      /\ pod' = pod /\ cap' = cap /\ creates' = creates
  BY DEF Reserve, Inserts, Unwritten, Jump, Exists, external, history, Inv, TypeOK
<1>3. /\ row'.state = "requested" /\ ~row'.famReq /\ ~row'.pid /\ ~row'.terminated /\ row'.receipt = "none"
      /\ row'.billing = "pending"
  BY <1>2 DEF Reserved
<1>4. Marks' BY <1>1, <1>2, <1>3 DEF Marks, Ending, IsTerminal
<1>5. \A q \in Procs : pc'[q] \in Resting \cup {"acq_start"} BY <1>2 DEF Born, Inv, TypeOK
<1>6. Places' BY <1>5 DEF Places, Resting, Following, Deleting, Settling, Zeroing
<1> QED BY <1>4, <1>6 DEF PodInv

LEMMA StartKeeps ==
    ASSUME Inv, PodInv, Next, NEW p \in Procs, StartCreate(p), Unchanged(p)
    PROVE  /\ PodInv'
           /\ creates = 0 /\ creates' = 1 /\ pod.st = "none" /\ pod'.st = "inflight"
           /\ row.state = "requested" /\ row'.state = "starting"
<1>1. /\ row.state = "requested" /\ creates = 0 /\ pc[p] = "acq_start" /\ p \in fresh
  BY DEF StartCreate, Unchanged, Inv, CreateInv, At
<1>2. pod.st = "none" /\ ~row.pid /\ ~Ending /\ ~row.famReq /\ row.billing # "authoritative"
  BY <1>1 DEF PodInv, Marks, Accepted, Over, Closed, At, Ending
<1>3. /\ row' = CreateStarting(row) /\ fresh' = {} /\ creates' = 1 /\ pod' = [pod EXCEPT !.st = "inflight"]
      /\ pc' = [pc EXCEPT ![p] = "acq_create"] /\ cap' = cap
  BY <1>1 DEF StartCreate, Commit, Jump
<1>4. /\ row'.state = "starting" /\ row'.uncertain /\ row'.pid = row.pid /\ row'.famReq = row.famReq
      /\ row'.terminated = row.terminated /\ row'.receipt = row.receipt /\ row'.billing = row.billing
  BY <1>3 DEF CreateStarting, Lease, Inv, TypeOK
<1>5. pod'.st = "inflight" BY <1>3 DEF Inv, TypeOK
<1>6. Marks' BY <1>2, <1>3, <1>4, <1>5 DEF Marks, Ending, IsTerminal
<1>7. Closed' BY <1>3, <1>4 DEF Closed, Exists
<1>8. ASSUME NEW q \in Procs, q # p
      PROVE  pc'[q] = pc[q] /\ pc[q] \notin Following \cup Deleting \cup Settling \cup Zeroing
  <2>1. ~Closed BY <1>1 DEF Closed, At
  <2>2. pc[q] \notin Following \cup Settling \cup Zeroing BY <2>1 DEF PodInv, Places, Over, NeverHad
  <2>3. pc[q] \notin Deleting BY <1>2 DEF PodInv, Places
  <2> QED BY <1>3, <1>8, <2>2, <2>3 DEF Inv, TypeOK
<1>9. pc'[p] = "acq_create" BY <1>3 DEF Inv, TypeOK
<1>10. Places' BY <1>7, <1>8, <1>9 DEF Places, Deleting, Settling, Zeroing
<1> QED BY <1>1, <1>2, <1>3, <1>4, <1>5, <1>6, <1>10 DEF PodInv

-----------------------------------------------------------------------------
(* Every step. *)

LEMMA StepKinds ==
    ASSUME Inv, Born, PodInv, Next, ~misreaped'
    PROVE  \/ Careful
           \/ \E p \in Procs : Reserve(p) /\ ~Exists /\ Exists'
           \/ \E p \in Procs : StartCreate(p) /\ Unchanged(p)
<1>1. CASE Environment BY <1>1, EnvironmentCareful
<1>2. ASSUME NEW p \in Procs, ProcessStep(p) \/ Crash(p),
             ~(Reserve(p) /\ ~Exists /\ Exists'), ~(StartCreate(p) /\ Unchanged(p))
      PROVE  Careful
  <2>1. CASE AcquireStep(p) BY <1>2, <2>1, AcquireCareful
  <2>2. CASE ReadinessStep(p) BY <2>2, ReadinessCareful
  <2>3. CASE ReleaseStep(p) BY <2>3, ReleaseCareful
  <2>4. CASE BillingStepOf(p) BY <2>4, BillingStepCareful
  <2>5. CASE ReconcilerStep(p) BY <2>5, ReconcilerCareful
  <2>6. CASE WorkloadStep(p) BY <2>6, WorkloadCareful
  <2>7. CASE HandoffStep(p) \/ RaiseError(p) \/ AbortPass(p) \/ Crash(p) BY <2>7, HandoffCareful
  <2> QED BY <1>2, <2>1, <2>2, <2>3, <2>4, <2>5, <2>6, <2>7 DEF ProcessStep
<1> QED BY <1>1, <1>2 DEF Next

LEMMA PodInit == Init => PodInv
<1> SUFFICES ASSUME Init PROVE PodInv OBVIOUS
<1>1. /\ NoLease.state = "absent" /\ ~NoLease.famReq /\ ~NoLease.pid /\ ~NoLease.terminated
      /\ NoLease.receipt = "none" /\ NoLease.billing = "pending"
  BY DEF NoLease, Reserved
<1>2. Marks BY <1>1 DEF Init, Marks, Ending, IsTerminal
<1>3. Places BY DEF Init, Places, Following, Deleting, Settling, Zeroing
<1> QED BY <1>2, <1>3 DEF PodInv

\* What was reaped wrongly once stays so.
LEMMA MisreapedKept == ASSUME Inv, [Next]_vars, misreaped PROVE misreaped'
<1>1. CASE Next /\ \A p \in Procs : ~Reserve(p) /\ ~StartCreate(p) BY <1>1, NextFrame DEF Inv, Frame
<1>2. ASSUME NEW p \in Procs, Reserve(p) \/ StartCreate(p) PROVE misreaped'
  BY <1>2 DEF Reserve, StartCreate, history
<1>3. CASE UNCHANGED vars BY <1>3 DEF vars
<1> QED BY <1>1, <1>2, <1>3

LEMMA PodNext == ASSUME Inv, Born, PodInv, [Next]_vars, ~misreaped' PROVE PodInv'
<1>1. CASE Next
  <2>1. CASE Careful BY <2>1, CarefulKeeps
  <2>2. ASSUME NEW p \in Procs, Reserve(p), ~Exists, Exists' PROVE PodInv' BY <2>2, ReserveKeeps
  <2>3. ASSUME NEW p \in Procs, StartCreate(p), Unchanged(p) PROVE PodInv' BY <1>1, <2>3, StartKeeps
  <2> QED BY <1>1, <2>1, <2>2, <2>3, StepKinds
<1>2. CASE UNCHANGED vars
  <2>1. Marks' BY <1>2 DEF vars, PodInv, Marks, Ending, Over, Closed, Exists, At, Billable, Accepted, Active, IsTerminal
  <2>2. Places' BY <1>2 DEF vars, PodInv, Places, Over, NeverHad, Closed, Exists, At, Billable, Active
  <2> QED BY <2>1, <2>2 DEF PodInv
<1> QED BY <1>1, <1>2

\* The inductive invariant of the custody of the Pod.
THEOREM PodInvHolds == Spec => [](Inv /\ Born /\ (misreaped \/ PodInv))
<1>1. Init => Inv /\ Born /\ PodInv BY InvInit, BornInit, PodInit
<1>2. Inv /\ Born /\ (misreaped \/ PodInv) /\ [Next]_vars => (Inv /\ Born /\ (misreaped \/ PodInv))'
  BY InvNext, BornNext, MisreapedKept, PodNext
<1> QED BY <1>1, <1>2, PTL DEF Spec

\* As long as a Pod is billed, or its create may still be accepted, there is a
\* row that list_for_reconciliation returns: no release, reconciliation or
\* refused create ends the lease of a Pod that exists, except the reap of a
\* reservation whose create was sent after the reconciler read the row.
THEOREM NoPodStranded == Spec => []NoStrandedPod
<1>1. Inv /\ (misreaped \/ PodInv) => NoStrandedPod
  BY DEF Inv, CreateInv, PodInv, Marks, Ending, Over, Billable, NoStrandedPod
<1> QED BY <1>1, PodInvHolds, PTL

\* _zero_cost_receipt is never written for an attempt that has, had or can
\* still get a Pod, with the same exception.
THEOREM ZeroReceiptsHonest == Spec => []ZeroReceiptHonest
<1>1. misreaped \/ PodInv => ZeroReceiptHonest BY DEF PodInv, Marks, ZeroReceiptHonest
<1> QED BY <1>1, PodInvHolds, PTL

\* _revoke_and_release revokes the capability only when no Pod can present it,
\* with the same exception.
THEOREM RevokedLast == Spec => []RevokedAfterTeardown
<1>1. misreaped \/ PodInv => RevokedAfterTeardown BY DEF PodInv, Marks, Ending, Over, RevokedAfterTeardown
<1> QED BY <1>1, PodInvHolds, PTL

-----------------------------------------------------------------------------
(* PodCapacity implements LeaseAuthority. *)

\* The two mapped variables, case by case.
LEMMA ClaimCases ==
    ASSUME NEW r \in Lease
    PROVE  /\ r.state = "absent" => ClaimOf(r) = "none"
           /\ IsTerminal(r) => ClaimOf(r) = "ended"
           /\ Active(r) => ClaimOf(r) = "open"
           /\ r.state # "absent" /\ ~IsTerminal(r) /\ ~Active(r) => ClaimOf(r) = "closing"
BY DEF ClaimOf, IsTerminal, Active

LEMMA ResourceCases ==
    ASSUME NEW n
    PROVE  /\ ResourceOf("none", n) = IF n = 0 THEN "none" ELSE "refused"
           /\ ResourceOf("inflight", n) = "requested"
           /\ ResourceOf("live", n) = "live"
           /\ ResourceOf("stopped", n) = "lost"
           /\ ResourceOf("gone", n) = "deleted"
BY DEF ResourceOf

\* The row is inserted by reserve() and by nothing else,
LEMMA OnlyReserved == ASSUME Inv, Born, Next, ~Exists, Exists' PROVE \E p \in Procs : Reserve(p)
<1>1. CASE Environment
  BY <1>1 DEF Environment, ProviderAccepts, ProviderDrops, PodExits, WorkerStep, RunnerReplaced, Tick, Age, Inside,
     Exists
<1>2. ASSUME NEW p \in Procs, ProcessStep(p) \/ Crash(p), ~Reserve(p) PROVE FALSE
  <2>1. Acquire(p) \/ Loads(p) \/ RaiseError(p) \/ AbortPass(p) \/ Crash(p) BY <1>2, Unborn
  <2> QED BY <2>1 DEF Acquire, Loads, LoadCapability, LoadCapabilityError, RaiseError, AbortPass, Crash, Unwritten, Unfinished, Exists
<1> QED BY <1>1, <1>2 DEF Next

\* and the Pod is deleted under a persisted stop.
LEMMA TeardownStep == ASSUME Inv, Next, pod.st \in {"live", "stopped"}, pod'.st = "gone" PROVE ~Active(row)
<1>1. ASSUME NEW p \in Procs, Reserve(p) \/ StartCreate(p) PROVE FALSE
  BY <1>1 DEF Reserve, StartCreate, external, Inv, TypeOK
<1>2. Frame BY <1>1, NextFrame DEF Inv
<1> QED BY <1>2 DEF Frame, Inv, TeardownInv, At

\* A careful step moves the claim or the resource, or refuses and closes.
LEMMA CarefulImplements ==
    ASSUME Inv, PodInv, Next, Careful, Exists \/ ~Exists'
    PROVE  [Authority!Next]_(Authority!vars)
<1> DEFINE c == ClaimOf(row)
           d == ClaimOf(row')
           x == ResourceOf(pod.st, creates)
           y == ResourceOf(pod'.st, creates')
<1>1. row \in Lease /\ row' \in Lease /\ creates' = creates /\ pod.st \in {"none", "inflight", "live", "stopped", "gone"}
  BY NextType DEF Inv, TypeOK, Careful
<1>2. /\ ~Exists => c = "none"
      /\ IsTerminal(row) => c = "ended"
      /\ Active(row) => c = "open"
      /\ Exists /\ ~IsTerminal(row) /\ ~Active(row) => c = "closing"
  BY <1>1, ClaimCases DEF Exists
<1>3. /\ ~Exists' => d = "none"
      /\ IsTerminal(row') => d = "ended"
      /\ Active(row') => d = "open"
      /\ Exists' /\ ~IsTerminal(row') /\ ~Active(row') => d = "closing"
  BY <1>1, ClaimCases DEF Exists
<1>4. /\ Exists => Exists'
      /\ Exists /\ ~Active(row) => ~Active(row')
      /\ IsTerminal(row) => IsTerminal(row')
      /\ IsTerminal(row') => IsTerminal(row) \/ Over
  BY ExistsKept, StopStep DEF Careful, RowMoves
<1> HIDE DEF c, d, x, y
<1> SUFFICES \/ d = c /\ y = x
             \/ c = "open" /\ d = "closing" /\ y = x
             \/ c = "closing" /\ d = "ended" /\ y = x /\ x \notin {"requested", "live"}
             \/ x = "requested" /\ y = "live" /\ d = c
             \/ x = "requested" /\ y = "refused" /\ (d = c \/ (c = "open" /\ d = "closing"))
             \/ x = "live" /\ y = "lost" /\ d = c
             \/ c = "closing" /\ d = c /\ x \in {"live", "lost"} /\ y = "deleted"
  BY DEF Authority!Next, Authority!vars, Authority!Grant, Authority!Refuse, Authority!Close, Authority!RefuseAndClose,
     Authority!Delete, Authority!Vanish, Authority!End, Authority!Billable, c, d, x, y
<1>5. CASE pod'.st = pod.st
  <2>1. y = x BY <1>1, <1>5 DEF x, y
  <2>2. Over => x \notin {"requested", "live"} BY <1>1, ResourceCases DEF Over, Billable, x
  <2>3. \/ d = c
        \/ c = "open" /\ d = "closing"
        \/ c = "closing" /\ d = "ended" /\ Over
    BY <1>2, <1>3, <1>4 DEF Over
  <2> QED BY <2>1, <2>2, <2>3
<1>6. CASE pod.st = "inflight" /\ pod'.st = "live" /\ row' = row
  BY <1>1, <1>6, ResourceCases DEF c, d, x, y
<1>7. CASE /\ pod.st = "inflight" /\ pod'.st = "none"
           /\ row' = row \/ (~IsTerminal(row) /\ row'.state = "releasing")
  <2>1. creates # 0 /\ x = "requested" /\ y = "refused"
    BY <1>1, <1>7, ResourceCases DEF PodInv, Marks, x, y
  <2>2. d = c \/ (c = "open" /\ d = "closing")
    <3>1. CASE row' = row BY <3>1 DEF c, d
    <3>2. CASE ~IsTerminal(row) /\ row'.state = "releasing"
      <4>1. d = "closing" BY <1>3, <3>2 DEF IsTerminal, Active, Exists
      <4>2. Exists BY <2>1 DEF Inv, CreateInv
      <4> QED BY <1>2, <3>2, <4>1, <4>2
    <3> QED BY <1>7, <3>1, <3>2
  <2> QED BY <2>1, <2>2
<1>8. CASE pod.st = "live" /\ pod'.st = "stopped" /\ row' = row
  BY <1>1, <1>8, ResourceCases DEF c, d, x, y
<1>9. CASE /\ Accepted /\ pod'.st = "gone" /\ pod.st # "gone"
           /\ ~IsTerminal(row) /\ ~IsTerminal(row')
  <2>1. x \in {"live", "lost"} /\ y = "deleted" BY <1>1, <1>9, ResourceCases DEF Accepted, x, y
  <2>2. Exists /\ ~Active(row)
    <3>1. creates # 0 BY <1>9 DEF PodInv, Marks, Accepted
    <3>2. ~Active(row) BY <1>9, TeardownStep DEF Accepted
    <3> QED BY <3>1, <3>2 DEF Inv, CreateInv
  <2>3. c = "closing" /\ d = "closing" BY <1>2, <1>3, <1>4, <1>9, <2>2
  <2> QED BY <2>1, <2>3
<1> QED BY <1>5, <1>6, <1>7, <1>8, <1>9 DEF Careful, PodMoves

\* Every behaviour of the catalog lane is one that LeaseAuthority allows: one
\* create request for an open claim, deletion under a closing one, and an end
\* only when nothing billable is left; up to the reap of a reservation whose
\* create was sent after the reconciler read the row.
THEOREM PodImplementsAuthority == Spec => Implements
<1>1. Init => Authority!Init
  <2>1. NoLease \in Lease /\ NoLease.state = "absent" BY NoLeaseFields
  <2> QED BY <2>1, ClaimCases, ResourceCases DEF Init, Authority!Init
<1>2. ASSUME Inv, Born, PodInv, [Next]_vars, ~misreaped' PROVE [Authority!Next]_(Authority!vars)
  <2>1. CASE UNCHANGED vars BY <2>1 DEF vars, Authority!vars
  <2>2. CASE Next /\ Careful /\ (Exists \/ ~Exists') BY <1>2, <2>2, CarefulImplements
  <2>3. ASSUME NEW p \in Procs, Reserve(p), ~Exists, Exists' PROVE Authority!Next
    <3>1. /\ row'.state = "requested" /\ pod' = pod /\ creates' = creates
      BY <1>2, <2>3, ReservedState DEF Reserve, Inserts, Unwritten, Exists, external, history
    <3>2. ClaimOf(row) = "none" /\ ClaimOf(row') = "open"
      BY <2>3, <3>1 DEF ClaimOf, Exists, IsTerminal, Active
    <3> QED BY <3>1, <3>2 DEF Authority!Next, Authority!Claim
  <2>4. ASSUME NEW p \in Procs, StartCreate(p), Unchanged(p), Next PROVE Authority!Next
    <3>1. /\ creates = 0 /\ creates' = 1 /\ pod.st = "none" /\ pod'.st = "inflight"
          /\ row.state = "requested" /\ row'.state = "starting"
      BY <1>2, <2>4, StartKeeps
    <3>2. ClaimOf(row) = "open" /\ ClaimOf(row') = "open" BY <3>1 DEF ClaimOf, IsTerminal, Active
    <3>3. ResourceOf(pod.st, creates) = "none" /\ ResourceOf(pod'.st, creates') = "requested"
      BY <3>1, ResourceCases
    <3> QED BY <3>2, <3>3 DEF Authority!Next, Authority!Request
  <2>5. ASSUME Next, ~Exists, Exists' PROVE \E p \in Procs : Reserve(p) BY <1>2, <2>5, OnlyReserved
  <2> QED BY <1>2, <2>1, <2>2, <2>3, <2>4, <2>5, StepKinds
<1>3. Inv /\ Born /\ (misreaped \/ PodInv) /\ [Next]_vars
        => [misreaped' \/ Authority!Next]_(Authority!vars)
  BY <1>2, MisreapedKept
<1> QED BY <1>1, <1>3, PodInvHolds, PTL DEF Spec, Implements
===============================================================================
