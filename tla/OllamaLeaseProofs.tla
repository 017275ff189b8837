-------------------------- MODULE OllamaLeaseProofs --------------------------
(***************************************************************************)
(* Proofs about OllamaLease, for every number of hosts and reconcilers,    *)
(* every set of operations and every set of faults.                        *)
(*                                                                         *)
(* NoOrphan is not inductive: that a lease is not ended under a resource   *)
(* depends on where each process stands that still holds the stored        *)
(* revision, and on what the state of the row says about the resource.     *)
(* CustodyInv adds exactly that.  A step is one compare_and_set, whose     *)
(* author's position tells the state it replaces, or changes no row.       *)
(***************************************************************************)
EXTENDS OllamaLease, TLAPS

Inv == TypeOK /\ CustodyInv

\* The rows the service writes are rows.
LEMMA RowTypes ==
    ASSUME NEW r \in Lease, NEW why \in {"released", "expired"}
    PROVE  /\ NoLease \in Lease /\ Requested \in Lease
           /\ Provisioning(r) \in Lease /\ Failed(r) \in Lease
           /\ ReconcileRequired(r) \in Lease /\ WaitingForModel(r) \in Lease
           /\ Ready(r) \in Lease /\ Touched(r) \in Lease
           /\ Releasing(r, why) \in Lease /\ StopRetryable(r) \in Lease
           /\ Recovered(r) \in Lease /\ Terminated(r, why) \in Lease
<1> USE DEF Lease, LeaseStates
<1>1. NoLease \in Lease BY DEF NoLease
<1>2. Requested \in Lease BY <1>1 DEF Requested
<1>3. Provisioning(r) \in Lease BY DEF Provisioning
<1>4. Failed(r) \in Lease BY DEF Failed
<1>5. ReconcileRequired(r) \in Lease BY DEF ReconcileRequired
<1>6. WaitingForModel(r) \in Lease BY DEF WaitingForModel
<1>7. Ready(r) \in Lease BY DEF Ready
<1>8. Touched(r) \in Lease BY DEF Touched
<1>9. StopRetryable(r) \in Lease BY DEF StopRetryable
<1>10. Recovered(r) \in Lease BY DEF Recovered
<1>11. ReasonFirst(r, why) \in {"none", "released", "expired"} BY DEF ReasonFirst
<1>12. Releasing(r, why) \in Lease BY <1>11 DEF Releasing
<1>13. Terminated(r, why) \in Lease BY <1>11 DEF Terminated
<1> QED BY <1>1, <1>2, <1>3, <1>4, <1>5, <1>6, <1>7, <1>8, <1>9, <1>10, <1>12, <1>13

\* What each of them says about the state, the id and the uncertainty.
LEMMA RowFields ==
    ASSUME NEW r \in Lease, NEW why \in {"released", "expired"}
    PROVE  /\ Requested.state = "requested" /\ ~Requested.pid /\ ~Requested.uncertain
           /\ Provisioning(r).state = "provisioning" /\ Provisioning(r).uncertain
           /\ Provisioning(r).pid = r.pid
           /\ Failed(r).state = "failed"
           /\ Failed(r).pid = r.pid /\ Failed(r).uncertain = r.uncertain
           /\ ReconcileRequired(r).state = "reconcile_required"
           /\ ReconcileRequired(r).pid = r.pid
           /\ ReconcileRequired(r).uncertain = r.uncertain
           /\ WaitingForModel(r).state = "waiting_for_model"
           /\ WaitingForModel(r).pid /\ ~WaitingForModel(r).uncertain
           /\ Ready(r).state = "ready"
           /\ Ready(r).pid = r.pid /\ Ready(r).uncertain = r.uncertain
           /\ Touched(r).state = r.state
           /\ Touched(r).pid = r.pid /\ Touched(r).uncertain = r.uncertain
           /\ Releasing(r, why).state = "releasing"
           /\ Releasing(r, why).pid = r.pid
           /\ Releasing(r, why).uncertain = r.uncertain
           /\ StopRetryable(r).state = r.state
           /\ StopRetryable(r).pid = r.pid /\ StopRetryable(r).uncertain = r.uncertain
           /\ Recovered(r).state = r.state
           /\ Recovered(r).pid /\ ~Recovered(r).uncertain
           /\ Terminated(r, why).state = "terminated"
           /\ Terminated(r, why).pid = r.pid
BY DEF Lease, Requested, NoLease, Provisioning, Failed, ReconcileRequired, WaitingForModel,
       Ready, Touched, Releasing, StopRetryable, Recovered, Terminated

-----------------------------------------------------------------------------
(* Type correctness. *)

\* The local records the service's processes build.
LEMMA LocalTypes ==
    ASSUME NEW l \in Locals, NEW op \in AllHostOps, NEW n \in 0..2, NEW b \in BOOLEAN
    PROVE  /\ NoLocals \in Locals
           /\ [NoLocals EXCEPT !.op = op, !.now = n] \in Locals
           /\ [NoLocals EXCEPT !.op = op, !.reason = "expired"] \in Locals
           /\ [NoLocals EXCEPT !.op = op, !.now = n, !.reason = "expired"] \in Locals
           /\ [op |-> "reconcile", now |-> n, reason |-> "expired", caught |-> b] \in Locals
           /\ [l EXCEPT !.now = n] \in Locals
           /\ [l EXCEPT !.now = n, !.caught = b] \in Locals
<1> USE DEF Locals, NoLocals, AllHostOps
<1>1. NoLocals \in Locals OBVIOUS
<1>2. [NoLocals EXCEPT !.op = op, !.now = n] \in Locals OBVIOUS
<1>3. [NoLocals EXCEPT !.op = op, !.reason = "expired"] \in Locals
  <2>1. \A k \in Locals : [k EXCEPT !.op = op, !.reason = "expired"] \in Locals OBVIOUS
  <2> HIDE DEF Locals, NoLocals
  <2> QED BY <1>1, <2>1
<1>4. [NoLocals EXCEPT !.op = op, !.now = n, !.reason = "expired"] \in Locals OBVIOUS
<1>5. [op |-> "reconcile", now |-> n, reason |-> "expired", caught |-> b] \in Locals OBVIOUS
<1>6. [l EXCEPT !.now = n] \in Locals OBVIOUS
<1>7. [l EXCEPT !.now = n, !.caught = b] \in Locals OBVIOUS
<1> QED BY <1>1, <1>2, <1>3, <1>4, <1>5, <1>6, <1>7

\* Where the continuation of a resolved creation may lead.
LEMMA AfterCreationLabel ==
    ASSUME NEW r, NEW n
    PROVE  /\ AfterCreation(r, n) \in {"release", "check", "route", "idle"}
           /\ AfterCreation(r, n) = "check" => r.state = "waiting_for_model"
           /\ AfterCreation(r, n) = "route" => r.state = "ready"
BY DEF AfterCreation

\* The continuation of a resolved creation is well typed,
LEMMA ContinueType ==
    ASSUME TypeOK, NEW p \in Procs, NEW r \in Lease, Continue(p, r)
    PROVE  pc' \in [Procs -> Labels] /\ loc' \in [Procs -> Locals]
<1>1. loc[p] \in Locals /\ loc[p].now \in 0..2 /\ clock \in 0..2 BY DEF TypeOK, Locals
<1>2. CASE loc[p].op = "reconcile" /\ AfterCreation(r, loc[p].now) # "idle"
  <2> DEFINE n == IF AfterCreation(r, loc[p].now) = "check" THEN clock ELSE loc[p].now
             c == AfterCreation(r, loc[p].now) = "release"
  <2>1. n \in 0..2 /\ c \in BOOLEAN BY <1>1
  <2>2. pc' = [pc EXCEPT ![p] = AfterCreation(r, loc[p].now)] BY <1>2 DEF Continue
  <2>3. loc' = [loc EXCEPT ![p] = [loc[p] EXCEPT !.now = n, !.caught = c]]
    BY <1>2 DEF Continue, TypeOK
  <2> HIDE DEF n, c
  <2>4. [loc[p] EXCEPT !.now = n, !.caught = c] \in Locals BY <1>1, <2>1 DEF Locals
  <2> QED BY <2>2, <2>3, <2>4, AfterCreationLabel DEF TypeOK, Labels
<1>3. CASE ~(loc[p].op = "reconcile" /\ AfterCreation(r, loc[p].now) # "idle")
  <2>1. NoLocals \in Locals BY DEF NoLocals, Locals
  <2>2. [loc[p] EXCEPT !.now = clock] \in Locals BY <1>1 DEF Locals
  <2> QED BY <1>3, <2>1, <2>2 DEF Continue, End, TypeOK, Labels
<1> QED BY <1>2, <1>3

\* and so is the entry into a release.
LEMMA BeginReleaseType ==
    ASSUME TypeOK, NEW p \in Procs, NEW b \in BOOLEAN, BeginRelease(p, "expired", b)
    PROVE  pc' \in [Procs -> Labels] /\ loc' \in [Procs -> Locals]
<1>1. [loc[p] EXCEPT !.reason = "expired", !.caught = b] \in Locals BY DEF TypeOK, Locals
<1> QED BY <1>1 DEF BeginRelease, TypeOK, Labels

\* The synchronous prefix of each operation.
LEMMA UseStepType ==
    ASSUME TypeOK, NEW p \in Procs, UseStep(p)
    PROVE  TypeOK'
<1> USE RowTypes DEF TypeOK, Read, Keep, Labels
<1>1. ASSUME NEW op \in AllHostOps, NEW label \in Labels, Begin(p, op, label)
      PROVE  pc' \in [Procs -> Labels] /\ loc' \in [Procs -> Locals]
  <2>1. [NoLocals EXCEPT !.op = op, !.now = clock] \in Locals BY LocalTypes
  <2> QED BY <1>1, <2>1 DEF Begin
<1>2. CASE Acquire(p)
  <2>1. PICK op \in {"acquire", "provision"} :
          (AcquireNew(p, op) \/ AcquireAgain(p, op)) /\ UNCHANGED <<res, clock, creates>>
    BY <1>2 DEF Acquire
  <2>2. op \in AllHostOps BY DEF AllHostOps
  <2>3. CASE AcquireNew(p, op) BY <1>1, <2>1, <2>2, <2>3 DEF AcquireNew
  <2>4. CASE AcquireAgain(p, op) BY <1>1, <2>1, <2>2, <2>4 DEF AcquireAgain
  <2> QED BY <2>1, <2>3, <2>4
<1>3. CASE UseReady(p)
  <2>1. PICK op \in {"acquire", "provision", "get", "touch"} :
          /\ Read(p)
          /\ pc' = [pc EXCEPT ![p] = IF RouteExpired THEN "release" ELSE "route"]
          /\ loc' = [loc EXCEPT ![p] = [NoLocals EXCEPT !.op = op, !.now = clock,
                                                        !.reason = "expired"]]
          /\ UNCHANGED <<res, clock, creates>>
    BY <1>3 DEF UseReady
  <2>2. op \in AllHostOps BY DEF AllHostOps
  <2>3. [NoLocals EXCEPT !.op = op, !.now = clock, !.reason = "expired"] \in Locals
    BY <2>2, LocalTypes
  <2> QED BY <2>1, <2>3
<1>4. CASE AcquireExpired(p)
  <2>1. PICK op \in {"acquire", "provision"} :
          /\ Read(p)
          /\ pc' = [pc EXCEPT ![p] = "release"]
          /\ loc' = [loc EXCEPT ![p] = [NoLocals EXCEPT !.op = op, !.reason = "expired"]]
          /\ UNCHANGED <<res, clock, creates>>
    BY <1>4 DEF AcquireExpired
  <2>2. op \in AllHostOps BY DEF AllHostOps
  <2>3. [NoLocals EXCEPT !.op = op, !.reason = "expired"] \in Locals BY <2>2, LocalTypes
  <2> QED BY <2>1, <2>3
<1>5. CASE Release(p) BY <1>1, <1>5 DEF Release, AllHostOps
<1>6. CASE Reconcile(p)
  <2>1. PICK label \in
           {CASE row.state = "releasing" -> "release"
              [] row.state = "requested" -> IF Late THEN "release" ELSE "plan"
              [] Creating                -> "find"
              [] OTHER                   -> AfterCreation(row, clock)} :
          /\ pc' = [pc EXCEPT ![p] = label]
          /\ loc' = [loc EXCEPT ![p] =
                        [op |-> "reconcile", now |-> clock, reason |-> "expired",
                         caught |-> label = "release" /\ row.state # "requested"]]
    BY <1>6 DEF Reconcile
  <2>2. label \in Labels BY AfterCreationLabel DEF Creating, Late
  <2> DEFINE b == label = "release" /\ row.state # "requested"
  <2>3. b \in BOOLEAN OBVIOUS
  <2> HIDE DEF b
  <2>4. [op |-> "reconcile", now |-> clock, reason |-> "expired", caught |-> b] \in Locals
    BY <2>3 DEF Locals, AllHostOps
  <2> QED BY <1>6, <2>1, <2>2, <2>4 DEF Reconcile, b
<1> QED BY <1>2, <1>3, <1>4, <1>5, <1>6 DEF UseStep

\* An operation that loses its compare_and_set, or ends.
LEMMA StopType ==
    ASSUME TypeOK, NEW p \in Procs
    PROVE  /\ Conflict(p) /\ UNCHANGED <<res, clock, creates>> => TypeOK'
           /\ End(p) => pc' \in [Procs -> Labels] /\ loc' \in [Procs -> Locals]
<1>1. NoLocals \in Locals BY DEF NoLocals, Locals
<1> QED BY <1>1 DEF Conflict, Forget, Jump, End, TypeOK, Labels

\* Planning, the create request and the lookup.
LEMMA CreateStepType ==
    ASSUME TypeOK, NEW p \in Procs, CreateStep(p)
    PROVE  TypeOK'
<1> USE RowTypes, StopType, ContinueType
    DEF TypeOK, Commit, Conflict, Forget, Keep, Jump, Labels
<1>1. CASE StartCreate(p) BY <1>1 DEF StartCreate
<1>2. CASE PlanFails(p) BY <1>2 DEF PlanFails
<1>3. CASE CreateReturns(p) BY <1>3 DEF CreateReturns
<1>4. CASE CreateFails(p) BY <1>4 DEF CreateFails
<1>5. CASE FindFound(p) BY <1>5 DEF FindFound
<1>6. CASE FindAbsent(p) BY <1>6 DEF FindAbsent
<1>7. CASE FindError(p) BY <1>7 DEF FindError
<1> QED BY <1>1, <1>2, <1>3, <1>4, <1>5, <1>6, <1>7 DEF CreateStep

\* Readiness, route and touch.
LEMMA ObserveStepType ==
    ASSUME TypeOK, NEW p \in Procs, ObserveStep(p)
    PROVE  TypeOK'
<1> USE RowTypes, StopType, BeginReleaseType
    DEF TypeOK, Commit, Conflict, Forget, Keep, Jump, Labels
<1>1. CASE CheckNotReady(p) BY <1>1 DEF CheckNotReady, LookAgain
<1>2. CASE CheckError(p) BY <1>2 DEF CheckError, LookAgain
<1>3. CASE CheckReady(p) BY <1>3 DEF CheckReady
<1>4. CASE RouteOk(p) BY <1>4 DEF RouteOk
<1>5. CASE RouteUnavailable(p) BY <1>5 DEF RouteUnavailable
<1>6. CASE Touch(p) BY <1>6 DEF Touch
<1> QED BY <1>1, <1>2, <1>3, <1>4, <1>5, <1>6 DEF ObserveStep

\* Release and teardown.
LEMMA ReleaseStepType ==
    ASSUME TypeOK, NEW p \in Procs, ReleaseStep(p)
    PROVE  TypeOK'
<1>0. loc[p].reason \in {"released", "expired"} BY DEF TypeOK, Locals
<1> USE <1>0, RowTypes, StopType
    DEF TypeOK, Commit, Conflict, Forget, Keep, Jump, Labels
<1>1. CASE ReleaseMark(p) BY <1>1 DEF ReleaseMark
<1>2. CASE ReleaseResource(p) BY <1>2 DEF ReleaseResource
<1>3. CASE ReleaseFound(p) BY <1>3 DEF ReleaseFound
<1>4. CASE ReleaseNotFound(p) BY <1>4 DEF ReleaseNotFound, TeardownFails
<1>5. CASE DeleteResource(p) BY <1>5 DEF DeleteResource, Deletion
<1>6. CASE DeleteFails(p) BY <1>6 DEF DeleteFails, TeardownFails, Deletion
<1>7. CASE ConfirmTerminated(p) BY <1>7 DEF ConfirmTerminated
<1> QED BY <1>1, <1>2, <1>3, <1>4, <1>5, <1>6, <1>7 DEF ReleaseStep

\* Every step keeps the types.
LEMMA NextType == TypeOK /\ [Next]_vars => TypeOK'
<1> SUFFICES ASSUME TypeOK, [Next]_vars PROVE TypeOK' OBVIOUS
<1>1. ASSUME NEW p \in Procs, ProcessStep(p) \/ Crash(p) PROVE TypeOK'
  <2>1. CASE RaiseError(p) \/ Crash(p)
    BY <2>1, StopType DEF RaiseError, Crash, Forget, TypeOK
  <2> QED BY <1>1, <2>1, UseStepType, CreateStepType, ObserveStepType, ReleaseStepType
      DEF ProcessStep
<1>2. CASE Environment
  <2>1. [row EXCEPT !.idle = TRUE] \in Lease BY DEF TypeOK, Lease
  <2>2. CASE Tick BY <2>2 DEF Tick, Inside, TypeOK
  <2>3. CASE IdleElapses BY <2>1, <2>3 DEF IdleElapses, TypeOK
  <2>4. CASE ProviderAccepts \/ ProviderRefuses \/ ResourceLost
    BY <2>4 DEF ProviderAccepts, ProviderRefuses, ResourceLost, Inside, TypeOK
  <2> QED BY <1>2, <2>2, <2>3, <2>4 DEF Environment
<1>3. CASE UNCHANGED vars BY <1>3 DEF vars, TypeOK
<1> QED BY <1>1, <1>2, <1>3 DEF Next

\* Init establishes them.
LEMMA InitType == Init => TypeOK
<1>1. NoLocals \in Locals /\ NoLease \in Lease
  BY DEF NoLocals, Locals, NoLease, Lease, LeaseStates
<1> QED BY <1>1 DEF Init, TypeOK, Labels

\* Every reachable state is well typed, for any hosts, reconcilers and faults.
THEOREM TypeCorrect == Spec => []TypeOK
BY InitType, NextType, PTL DEF Spec
-----------------------------------------------------------------------------
(* Custody of the resource. *)

Closed == {"releasing", "terminated"}

\* What a process at this label that holds row r relies on.
Fits(label, r) ==
    /\ label = "plan" => r.state = "requested"
    /\ label = "create" => r.state = "provisioning"
    /\ label = "find" => r.state \in {"provisioning", "reconcile_required"}
    /\ label = "check" => r.state = "waiting_for_model"
    /\ label \in {"route", "touch"} => r.state = "ready"
    /\ label = "release" => r.state \notin {"absent", "terminated"}
    /\ label \in {"teardown", "rel_find", "delete", "confirm"} => r.state = "releasing"
    /\ label = "rel_find" => ~r.pid

\* The one argument behind every step: a process p moves to a label that fits
\* the row it then holds; if the row changed, nobody else holds it any more.
LEMMA Moves ==
    ASSUME Inv, NEW p \in Procs, NEW label,
           pc' = [pc EXCEPT ![p] = label],
           \/ row' = row /\ fresh' \subseteq fresh \cup {p}
           \/ fresh' \subseteq {p},
           p \in fresh' => Fits(label, row'),
           row.pid => row'.pid,
           row.state \in Closed => row'.state \in Closed,
           label \in {"delete", "confirm"} => row'.pid /\ row'.state \in Closed,
           label = "confirm" => res' \in {"lost", "deleted"},
           res \in {"lost", "deleted"} => res' \in {"lost", "deleted"},
           ResourceBound'
    PROVE  CustodyInv'
<1>1. ASSUME NEW q \in fresh' PROVE Fits(pc'[q], row')
  <2>1. CASE q = p BY <2>1 DEF Inv, TypeOK
  <2>2. CASE q # p BY <2>2 DEF Inv, TypeOK, CustodyInv, SnapshotCurrent, Fits, At, Creating
  <2> QED BY <2>1, <2>2
<1>2. SnapshotCurrent' BY <1>1 DEF SnapshotCurrent, Fits, At, Creating
<1>3. DeletionOwned'
  <2> SUFFICES ASSUME NEW q \in Procs
               PROVE  /\ pc'[q] \in {"delete", "confirm"} => row'.pid /\ row'.state \in Closed
                      /\ pc'[q] = "confirm" => res' \in {"lost", "deleted"}
    BY DEF DeletionOwned, At, Closed
  <2>1. CASE q = p BY <2>1 DEF Inv, TypeOK
  <2>2. CASE q # p BY <2>2 DEF Inv, TypeOK, CustodyInv, DeletionOwned, At, Closed
  <2> QED BY <2>1, <2>2
<1> QED BY <1>2, <1>3 DEF CustodyInv

\* A process that stops, reads or forgets the row disturbs nothing.
LEMMA QuietStep ==
    ASSUME Inv, NEW p \in Procs, NEW label, label \notin {"delete", "confirm"},
           pc' = [pc EXCEPT ![p] = label], row' = row, res' = res,
           fresh' \subseteq fresh \cup {p}, p \in fresh' => Fits(label, row)
    PROVE  CustodyInv'
<1>1. ResourceBound' BY DEF Inv, CustodyInv, ResourceBound, IsTerminal, Creating
<1>2. res \in {"lost", "deleted"} => res' \in {"lost", "deleted"} OBVIOUS
<1> QED BY <1>1, <1>2, Moves

\* Nor does one that loses its compare_and_set.
LEMMA ConflictStep ==
    ASSUME Inv, NEW p \in Procs, Conflict(p), res' = res
    PROVE  CustodyInv'
BY QuietStep DEF Conflict, Forget, Jump, Fits

\* The caller of a resolved creation goes where the row allows.
LEMMA ContinueFits ==
    ASSUME NEW p \in Procs, NEW r \in Lease, Continue(p, r),
           r.state \notin {"absent", "terminated"}
    PROVE  \E label \in {"release", "check", "route", "idle"} :
              pc' = [pc EXCEPT ![p] = label] /\ Fits(label, r)
<1>1. CASE loc[p].op = "reconcile" /\ AfterCreation(r, loc[p].now) # "idle"
  <2>1. pc' = [pc EXCEPT ![p] = AfterCreation(r, loc[p].now)] BY <1>1 DEF Continue
  <2> QED BY <2>1, AfterCreationLabel DEF Fits
<1>2. CASE ~(loc[p].op = "reconcile" /\ AfterCreation(r, loc[p].now) # "idle")
  <2>1. \/ pc' = [pc EXCEPT ![p] = "idle"]
        \/ r.state = "waiting_for_model" /\ pc' = [pc EXCEPT ![p] = "check"]
    BY <1>2 DEF Continue, End
  <2> QED BY <2>1 DEF Fits
<1> QED BY <1>1, <1>2


\* The operations begin by reading the row; only a first acquire writes it.
LEMMA UseStepCustody ==
    ASSUME Inv, NEW p \in Procs, UseStep(p)
    PROVE  CustodyInv'
<1> USE DEF Read, Begin, Exists, IsTerminal
<1>0. row \in Lease /\ row.pid \in BOOLEAN /\ row.uncertain \in BOOLEAN BY DEF Inv, TypeOK, Lease
<1>1. CASE Acquire(p)
  <2>1. PICK op \in {"acquire", "provision"} :
          (AcquireNew(p, op) \/ AcquireAgain(p, op)) /\ UNCHANGED <<res, clock, creates>>
    BY <1>1 DEF Acquire
  <2>2. CASE AcquireNew(p, op)
    <3>1. row.state = "absent" /\ ~row.pid /\ res = "none"
      BY <2>2 DEF AcquireNew, Inv, CustodyInv, ResourceBound
    <3>2. row' = Requested /\ fresh' = {p} /\ pc' = [pc EXCEPT ![p] = "plan"] /\ res' = res
      BY <2>1, <2>2 DEF AcquireNew
    <3>3. row'.state = "requested" /\ ~row'.pid /\ ~row'.uncertain BY <3>2 DEF Requested, NoLease
    <3>4. ResourceBound' BY <3>1, <3>2, <3>3 DEF ResourceBound, Creating
    <3> QED BY <3>1, <3>2, <3>3, <3>4, Moves DEF Fits, Closed
  <2>3. CASE AcquireAgain(p, op)
    BY <2>1, <2>3, QuietStep DEF AcquireAgain, Creating, Fits
  <2> QED BY <2>1, <2>2, <2>3
<1>2. CASE UseReady(p)
  <2>1. /\ row.state = "ready" /\ Read(p) /\ res' = res
        /\ pc' = [pc EXCEPT ![p] = IF RouteExpired THEN "release" ELSE "route"]
    BY <1>2 DEF UseReady
  <2> QED BY <2>1, QuietStep DEF Fits
<1>3. CASE AcquireExpired(p)
  <2>1. /\ row.state = "requested" /\ Read(p) /\ res' = res
        /\ pc' = [pc EXCEPT ![p] = "release"]
    BY <1>3 DEF AcquireExpired
  <2> QED BY <2>1, QuietStep DEF Fits
<1>4. CASE Release(p) BY <1>4, QuietStep DEF Release, Fits
<1>5. CASE Reconcile(p)
  <2>1. PICK label \in
           {CASE row.state = "releasing" -> "release"
              [] row.state = "requested" -> IF Late THEN "release" ELSE "plan"
              [] Creating                -> "find"
              [] OTHER                   -> AfterCreation(row, clock)} :
          pc' = [pc EXCEPT ![p] = label]
    BY <1>5 DEF Reconcile
  <2>2. row.state \notin {"absent", "terminated"} /\ Read(p) /\ res' = res
    BY <1>5 DEF Reconcile
  <2>3. label \notin {"delete", "confirm"} /\ Fits(label, row)
    BY <2>2, AfterCreationLabel DEF Fits, Creating
  <2> QED BY <2>1, <2>2, <2>3, QuietStep
<1> QED BY <1>1, <1>2, <1>3, <1>4, <1>5 DEF UseStep

\* Creation: the row is marked uncertain before the request leaves, and the
\* mark is taken off only by the write that stores the id of the resource.
LEMMA CreateStepCustody ==
    ASSUME Inv, NEW p \in Procs, CreateStep(p)
    PROVE  CustodyInv'
<1>0. row \in Lease /\ row.pid \in BOOLEAN /\ row.uncertain \in BOOLEAN BY DEF Inv, TypeOK, Lease
<1>a. ASSUME p \in fresh PROVE Fits(pc[p], row)
  BY <1>a DEF Inv, CustodyInv, SnapshotCurrent, Fits, At, Creating
<1>b. ASSUME Unchanged(p), At(p, "create") \/ At(p, "find"), res \in {"live", "lost", "deleted"},
             Commit(p, WaitingForModel(row)), Continue(p, WaitingForModel(row)), res' = res
      PROVE  CustodyInv'
  <2>1. row.state \in {"provisioning", "reconcile_required"}
    BY <1>a, <1>b DEF Unchanged, Fits, At
  <2>2. res \in {"live", "lost"} BY <1>b, <2>1 DEF Inv, CustodyInv, ResourceBound, Creating
  <2>3. WaitingForModel(row) \in Lease BY <1>0, RowTypes
  <2>4. /\ row'.state = "waiting_for_model" /\ row'.pid /\ ~row'.uncertain /\ fresh' = {p}
        /\ row' = WaitingForModel(row)
    BY <1>0, <1>b, RowFields DEF Commit
  <2>5. PICK label \in {"release", "check", "route", "idle"} :
          pc' = [pc EXCEPT ![p] = label] /\ Fits(label, row')
    BY <1>b, <2>3, <2>4, ContinueFits
  <2>6. ResourceBound' BY <1>b, <2>2, <2>4 DEF ResourceBound, Creating, IsTerminal
  <2> QED BY <1>b, <2>1, <2>2, <2>4, <2>5, <2>6, Moves DEF Closed
<1>1. CASE StartCreate(p)
  <2>1. CASE Conflict(p) /\ UNCHANGED res BY <2>1, ConflictStep
  <2>2. CASE Unchanged(p) /\ Commit(p, Provisioning(row)) /\ res' = "inflight" /\ Jump(p, "create")
    <3>1. row.state = "requested" BY <1>1, <1>a, <2>2 DEF StartCreate, Unchanged, Fits, At
    <3>2. ~row.pid /\ res = "none" BY <3>1 DEF Inv, CustodyInv, ResourceBound
    <3>3. row'.state = "provisioning" /\ ~row'.pid /\ row'.uncertain /\ fresh' = {p}
      BY <1>0, <2>2, <3>2, RowFields DEF Commit
    <3>4. ResourceBound' BY <2>2, <3>3 DEF ResourceBound, Creating, IsTerminal
    <3> QED BY <2>2, <3>1, <3>2, <3>3, <3>4, Moves DEF Jump, Fits, Closed
  <2> QED BY <1>1, <2>1, <2>2 DEF StartCreate
<1>2. CASE PlanFails(p)
  <2>1. pc' = [pc EXCEPT ![p] = "raise"] /\ res' = res BY <1>2 DEF PlanFails, Jump
  <2>2. CASE ~Unchanged(p)
    BY <1>2, <2>1, <2>2, QuietStep DEF PlanFails, Forget, Fits
  <2>3. CASE Unchanged(p)
    <3>1. row.state = "requested" BY <1>2, <1>a, <2>3 DEF PlanFails, Unchanged, Fits, At
    <3>2. ~row.pid /\ ~row.uncertain /\ res = "none" BY <3>1 DEF Inv, CustodyInv, ResourceBound
    <3>3. row'.state = "failed" /\ ~row'.pid /\ ~row'.uncertain /\ fresh' = {}
      BY <1>0, <1>2, <2>3, <3>2, RowFields DEF PlanFails
    <3>4. ResourceBound' BY <2>1, <3>2, <3>3 DEF ResourceBound, Creating, IsTerminal
    <3> QED BY <2>1, <3>1, <3>2, <3>3, <3>4, Moves DEF Closed
  <2> QED BY <2>2, <2>3
<1>3. CASE CreateReturns(p) BY <1>3, <1>b, ConflictStep DEF CreateReturns
<1>4. CASE CreateFails(p)
  <2>1. pc' = [pc EXCEPT ![p] = "raise"] /\ res' = res BY <1>4 DEF CreateFails, Jump
  <2>2. CASE ~Unchanged(p)
    BY <1>4, <2>1, <2>2, QuietStep DEF CreateFails, Forget, Fits
  <2>3. CASE Unchanged(p)
    <3>1. row.state = "provisioning" BY <1>4, <1>a, <2>3 DEF CreateFails, Unchanged, Fits, At
    <3>2. ~row.pid /\ row.uncertain /\ res \in {"inflight", "live", "refused", "lost"}
      BY <3>1 DEF Inv, CustodyInv, ResourceBound, Creating
    <3>3. row'.state = "reconcile_required" /\ ~row'.pid /\ row'.uncertain /\ fresh' = {}
      BY <1>0, <1>4, <2>3, <3>2, RowFields DEF CreateFails
    <3>4. ResourceBound' BY <2>1, <3>2, <3>3 DEF ResourceBound, Creating, IsTerminal
    <3> QED BY <2>1, <3>1, <3>2, <3>3, <3>4, Moves DEF Closed
  <2> QED BY <2>2, <2>3
<1>5. CASE FindFound(p) BY <1>5, <1>b, ConflictStep DEF FindFound
<1>c. ASSUME Unchanged(p), At(p, "find"), Continue(p, row), row' = row, res' = res,
             fresh' \subseteq fresh
      PROVE  CustodyInv'
  <2>1. row.state \in {"provisioning", "reconcile_required"}
    BY <1>a, <1>c DEF Unchanged, Fits, At
  <2>2. PICK label \in {"release", "check", "route", "idle"} :
          pc' = [pc EXCEPT ![p] = label] /\ Fits(label, row)
    BY <1>0, <1>c, <2>1, ContinueFits
  <2> QED BY <1>c, <2>2, QuietStep
<1>6. CASE FindAbsent(p)
  <2>1. CASE Unchanged(p) BY <1>6, <1>c, <2>1 DEF FindAbsent, Keep
  <2>2. CASE ~Unchanged(p)
    BY <1>6, <2>2, QuietStep DEF FindAbsent, Forget, Jump, End, Fits
  <2> QED BY <2>1, <2>2
<1>7. CASE FindError(p)
  BY <1>7, <1>c, ConflictStep DEF FindError, Commit, Unchanged
<1> QED BY <1>1, <1>2, <1>3, <1>4, <1>5, <1>6, <1>7 DEF CreateStep


\* Observation writes evidence only; READY replaces WAITING_FOR_MODEL.
LEMMA ObserveStepCustody ==
    ASSUME Inv, NEW p \in Procs, ObserveStep(p)
    PROVE  CustodyInv'
<1>0. row \in Lease BY DEF Inv, TypeOK
<1>a. ASSUME p \in fresh PROVE Fits(pc[p], row)
  BY <1>a DEF Inv, CustodyInv, SnapshotCurrent, Fits, At, Creating
<1>b. ASSUME Unchanged(p), At(p, "check"), row' = row, fresh' = {p}, res' = res,
             LookAgain(p) \/ BeginRelease(p, "expired", FALSE)
      PROVE  CustodyInv'
  <2>1. row.state = "waiting_for_model" BY <1>a, <1>b DEF Unchanged, Fits, At
  <2>2. PICK label \in {"idle", "release", "check"} : pc' = [pc EXCEPT ![p] = label]
    BY <1>b DEF LookAgain, End, BeginRelease, Jump
  <2> QED BY <1>b, <2>1, <2>2, QuietStep DEF Fits
<1>c. ASSUME Unchanged(p), At(p, "check") \/ At(p, "touch"), NEW r,
             r = IF At(p, "check") THEN Ready(row) ELSE Touched(row),
             Commit(p, r), End(p), res' = res
      PROVE  CustodyInv'
  <2>1. row.state = IF At(p, "check") THEN "waiting_for_model" ELSE "ready"
    BY <1>a, <1>c DEF Unchanged, Fits, At
  <2>2. row.pid /\ ~row.uncertain /\ res \in {"live", "lost"}
    BY <2>1 DEF Inv, CustodyInv, ResourceBound
  <2>3. row'.state = "ready" /\ row'.pid /\ ~row'.uncertain /\ fresh' = {p}
    BY <1>0, <1>c, <2>1, <2>2, RowFields DEF Commit
  <2>4. ResourceBound' BY <1>c, <2>2, <2>3 DEF ResourceBound, Creating, IsTerminal
  <2>5. pc' = [pc EXCEPT ![p] = "idle"] BY <1>c DEF End
  <2> QED BY <1>c, <2>1, <2>2, <2>3, <2>4, <2>5, Moves DEF Fits, Closed
<1>1. CASE CheckNotReady(p) BY <1>1, <1>b, ConflictStep DEF CheckNotReady, Commit
<1>2. CASE CheckError(p) BY <1>2, <1>b, ConflictStep DEF CheckError, Commit
<1>3. CASE CheckReady(p) BY <1>3, <1>c, ConflictStep DEF CheckReady, At
<1>4. CASE RouteOk(p)
  <2>1. CASE Conflict(p) /\ res' = res BY <2>1, ConflictStep
  <2>2. CASE Unchanged(p) /\ Commit(p, row) /\ res' = res
    <3>1. row.state = "ready" BY <1>4, <1>a, <2>2 DEF RouteOk, Unchanged, Fits, At
    <3>2. PICK label \in {"touch", "idle"} : pc' = [pc EXCEPT ![p] = label]
      BY <1>4, <2>2 DEF RouteOk, Jump, End, Conflict
    <3> QED BY <2>2, <3>1, <3>2, QuietStep DEF Commit, Fits
  <2> QED BY <1>4, <2>1, <2>2 DEF RouteOk
<1>5. CASE RouteUnavailable(p)
  BY <1>5, QuietStep DEF RouteUnavailable, Forget, Jump, Fits
<1>6. CASE Touch(p)
  <2>1. CASE clock = 2
    <3>1. row' = row /\ fresh' = fresh /\ res' = res /\ pc' = [pc EXCEPT ![p] = "release"]
      BY <1>6, <2>1 DEF Touch, Keep, BeginRelease
    <3>2. p \in fresh => row.state = "ready" BY <1>6, <1>a DEF Touch, Fits, At
    <3> QED BY <3>1, <3>2, QuietStep DEF Fits
  <2>2. CASE clock # 2 BY <1>6, <1>c, <2>2, ConflictStep DEF Touch, At
  <2> QED BY <2>1, <2>2
<1> QED BY <1>1, <1>2, <1>3, <1>4, <1>5, <1>6 DEF ObserveStep

\* Release: an end is written only where the row says that nothing was ever
\* requested, or where the resource has been seen to be gone.
LEMMA ReleaseStepCustody ==
    ASSUME Inv, NEW p \in Procs, ReleaseStep(p)
    PROVE  CustodyInv'
<1>0. row \in Lease /\ row.pid \in BOOLEAN /\ row.uncertain \in BOOLEAN BY DEF Inv, TypeOK, Lease
<1>r. loc[p].reason \in {"released", "expired"} BY DEF Inv, TypeOK, Locals
<1>a. ASSUME p \in fresh PROVE Fits(pc[p], row)
  BY <1>a DEF Inv, CustodyInv, SnapshotCurrent, Fits, At, Creating
<1>b. ASSUME Commit(p, Terminated(row, loc[p].reason)), End(p), res' = res,
             res \in IF row.pid THEN {"lost", "deleted"} ELSE {"none"}
      PROVE  CustodyInv'
  <2>1. row'.state = "terminated" /\ row'.pid = row.pid /\ fresh' = {p}
        /\ pc' = [pc EXCEPT ![p] = "idle"]
    BY <1>0, <1>r, <1>b, RowFields DEF Commit, End
  <2>2. ResourceBound' BY <1>b, <2>1 DEF ResourceBound, Creating, IsTerminal
  <2> QED BY <1>b, <2>1, <2>2, Moves DEF Fits, Closed
<1>c. ASSUME Unchanged(p), row' = StopRetryable(row), fresh' = {}, TeardownFails(p),
             row.state = "releasing",
             \/ res' = res
             \/ row.pid /\ res = "live" /\ res' = "deleted"
      PROVE  CustodyInv'
  <2>1. row'.state = "releasing" /\ row'.pid = row.pid /\ row'.uncertain = row.uncertain
    BY <1>0, <1>c, RowFields
  <2>2. PICK label \in {"idle", "raise"} : pc' = [pc EXCEPT ![p] = label]
    BY <1>c DEF TeardownFails, End, Jump
  <2>3. ResourceBound'
    BY <1>0, <1>c, <2>1 DEF Inv, CustodyInv, ResourceBound, Creating, IsTerminal
  <2>4. res \in {"lost", "deleted"} => res' \in {"lost", "deleted"} BY <1>c
  <2> QED BY <1>c, <2>1, <2>2, <2>3, <2>4, Moves DEF Closed
<1>1. CASE ReleaseMark(p)
  <2>1. CASE Unchanged(p) /\ row.state = "requested"
    <3>1. ~row.pid /\ res = "none" BY <2>1 DEF Inv, CustodyInv, ResourceBound
    <3>2. Commit(p, Terminated(row, loc[p].reason)) /\ End(p) /\ res' = res
      BY <1>1, <2>1 DEF ReleaseMark, Conflict
    <3> QED BY <1>b, <3>1, <3>2
  <2>2. CASE Unchanged(p) /\ row.state = "releasing" /\ Keep /\ Jump(p, "teardown") /\ res' = res
    BY <2>2, QuietStep DEF Keep, Jump, Fits
  <2>3. CASE /\ Unchanged(p) /\ row.state \notin {"requested", "releasing"}
             /\ Commit(p, Releasing(row, loc[p].reason)) /\ Jump(p, "teardown") /\ res' = res
    <3>1. row.state \notin {"absent", "terminated"}
      BY <1>1, <1>a, <2>3 DEF ReleaseMark, Unchanged, Fits, At
    <3>2. row.state \in {"provisioning", "reconcile_required", "waiting_for_model", "ready", "failed"}
      BY <1>0, <2>3, <3>1 DEF Lease, LeaseStates
    <3>3. /\ row'.state = "releasing" /\ row'.pid = row.pid /\ row'.uncertain = row.uncertain
          /\ fresh' = {p} /\ pc' = [pc EXCEPT ![p] = "teardown"]
      BY <1>0, <1>r, <2>3, RowFields DEF Commit, Jump
    <3>4. ResourceBound'
      BY <1>0, <2>3, <3>2, <3>3 DEF Inv, CustodyInv, ResourceBound, Creating, IsTerminal
    <3> QED BY <2>3, <3>2, <3>3, <3>4, Moves DEF Fits, Closed
  <2>4. CASE Conflict(p) /\ res' = res BY <2>4, ConflictStep
  <2> QED BY <1>1, <2>1, <2>2, <2>3, <2>4 DEF ReleaseMark
<1>2. CASE ReleaseResource(p)
  <2>1. CASE Conflict(p) /\ res' = res BY <2>1, ConflictStep
  <2>2. CASE Unchanged(p)
    <3>1. row.state = "releasing" BY <1>2, <1>a, <2>2 DEF ReleaseResource, Unchanged, Fits, At
    <3>2. CASE row.pid /\ Commit(p, row) /\ Jump(p, "delete") /\ res' = res
      <4>1. ResourceBound'
        BY <3>2 DEF Commit, Inv, CustodyInv, ResourceBound, Creating, IsTerminal
      <4> QED BY <3>1, <3>2, <4>1, Moves DEF Commit, Jump, Fits, Closed
    <3>3. CASE ~row.pid /\ Keep /\ Jump(p, "rel_find") /\ res' = res
      BY <3>1, <3>3, QuietStep DEF Keep, Jump, Fits
    <3>4. CASE ~row.pid /\ ~row.uncertain /\ Commit(p, Terminated(row, loc[p].reason)) /\ End(p)
               /\ res' = res
      BY <1>b, <3>1, <3>4 DEF Inv, CustodyInv, ResourceBound
    <3> QED BY <1>2, <2>1, <3>2, <3>3, <3>4 DEF ReleaseResource
  <2> QED BY <1>2, <2>1, <2>2 DEF ReleaseResource
<1>3. CASE ReleaseFound(p)
  <2>1. CASE Conflict(p) /\ res' = res BY <2>1, ConflictStep
  <2>2. CASE Unchanged(p) /\ Commit(p, Recovered(row)) /\ Jump(p, "teardown") /\ res' = res
    <3>1. row.state = "releasing" /\ res = "live"
      BY <1>3, <1>a, <2>2 DEF ReleaseFound, Unchanged, Fits, At
    <3>2. row'.state = "releasing" /\ row'.pid /\ ~row'.uncertain /\ fresh' = {p}
      BY <1>0, <2>2, <3>1, RowFields DEF Commit
    <3>3. ResourceBound' BY <2>2, <3>1, <3>2 DEF ResourceBound, Creating, IsTerminal
    <3> QED BY <2>2, <3>1, <3>2, <3>3, Moves DEF Jump, Fits, Closed
  <2> QED BY <1>3, <2>1, <2>2 DEF ReleaseFound
<1>4. CASE ReleaseNotFound(p)
  <2>1. CASE Conflict(p) /\ res' = res BY <2>1, ConflictStep
  <2>2. CASE Unchanged(p) /\ row' = StopRetryable(row) /\ fresh' = {} /\ TeardownFails(p) /\ res' = res
    <3>1. row.state = "releasing" BY <1>4, <1>a, <2>2 DEF ReleaseNotFound, Unchanged, Fits, At
    <3> QED BY <1>c, <2>2, <3>1
  <2> QED BY <1>4, <2>1, <2>2 DEF ReleaseNotFound
<1>d. ASSUME At(p, "delete")
      PROVE  row.pid /\ row.state \in Closed
  BY <1>d DEF Inv, CustodyInv, DeletionOwned, At, Closed
<1>e. ASSUME At(p, "delete")
      PROVE  res \in {"live", "lost", "deleted"} /\ (res = "live" => row.state = "releasing")
  BY <1>d, <1>e DEF Inv, CustodyInv, ResourceBound, IsTerminal, Closed
<1>5. CASE DeleteResource(p)
  <2>1. /\ At(p, "delete") /\ row' = row /\ fresh' = fresh /\ pc' = [pc EXCEPT ![p] = "confirm"]
        /\ res' = IF res = "live" THEN "deleted" ELSE res
    BY <1>5 DEF DeleteResource, Keep, Jump, Deletion
  <2>2. row.pid /\ row.state \in Closed /\ res' \in {"lost", "deleted"} BY <1>d, <1>e, <2>1
  <2>3. ResourceBound'
    BY <1>0, <1>e, <2>1, <2>2 DEF Inv, CustodyInv, ResourceBound, Creating, IsTerminal, Closed
  <2>4. p \in fresh => row.state = "releasing" BY <1>a, <2>1 DEF Fits, At
  <2> QED BY <2>1, <2>2, <2>3, <2>4, Moves DEF Fits
<1>6. CASE DeleteFails(p)
  <2>1. At(p, "delete") /\ res' \in {res, IF res = "live" THEN "deleted" ELSE res}
    BY <1>6 DEF DeleteFails, Deletion
  <2>2. CASE Conflict(p)
    <3>1. row' = row /\ fresh' = fresh \ {p} /\ pc' = [pc EXCEPT ![p] = "raise"]
      BY <2>2 DEF Conflict, Forget, Jump
    <3>2. ResourceBound'
      BY <1>0, <1>d, <1>e, <2>1, <3>1
      DEF Inv, CustodyInv, ResourceBound, Creating, IsTerminal, Closed
    <3> QED BY <2>1, <3>1, <3>2, Moves
  <2>3. CASE Unchanged(p) /\ row' = StopRetryable(row) /\ fresh' = {} /\ TeardownFails(p)
    <3>1. row.state = "releasing" BY <1>a, <2>1, <2>3 DEF Unchanged, Fits, At
    <3> QED BY <1>c, <1>d, <2>1, <2>3, <3>1
  <2> QED BY <1>6, <2>2, <2>3 DEF DeleteFails
<1>7. CASE ConfirmTerminated(p)
  <2>1. row.pid /\ res \in {"lost", "deleted"}
    BY <1>7 DEF ConfirmTerminated, Inv, CustodyInv, DeletionOwned, At
  <2> QED BY <1>7, <1>b, <2>1, ConflictStep DEF ConfirmTerminated
<1> QED BY <1>1, <1>2, <1>3, <1>4, <1>5, <1>6, <1>7 DEF ReleaseStep

\* Time and the provider: a create is answered, a resource disappears.
LEMMA EnvironmentCustody ==
    ASSUME Inv, Environment
    PROVE  CustodyInv'
<1>0. row \in Lease /\ row.pid \in BOOLEAN /\ row.uncertain \in BOOLEAN BY DEF Inv, TypeOK, Lease
<1> USE DEF Inv, CustodyInv, At, Creating, IsTerminal
<1>1. CASE ProviderAccepts \/ ProviderRefuses \/ ResourceLost \/ Tick
  <2>1. /\ row' = row /\ fresh' = fresh /\ pc' = pc
        /\ \/ res' = res
           \/ res = "inflight" /\ res' \in {"live", "refused"}
           \/ res = "live" /\ res' = "lost"
    BY <1>1 DEF ProviderAccepts, ProviderRefuses, ResourceLost, Tick, Inside
  <2>2. ResourceBound' BY <1>0, <2>1 DEF ResourceBound
  <2>3. SnapshotCurrent' BY <2>1 DEF SnapshotCurrent
  <2>4. DeletionOwned' BY <2>1 DEF DeletionOwned
  <2> QED BY <2>2, <2>3, <2>4
<1>2. CASE IdleElapses
  <2>1. /\ row.state = "ready" /\ row' = [row EXCEPT !.idle = TRUE]
        /\ fresh' = fresh /\ pc' = pc /\ res' = res
    BY <1>2 DEF IdleElapses
  <2>2. row'.state = row.state /\ row'.pid = row.pid /\ row'.uncertain = row.uncertain
    BY <1>0, <2>1 DEF Lease
  <2>3. ResourceBound' BY <1>0, <2>1, <2>2 DEF ResourceBound
  <2>4. SnapshotCurrent' BY <2>1, <2>2 DEF SnapshotCurrent
  <2>5. DeletionOwned' BY <2>1, <2>2 DEF DeletionOwned
  <2> QED BY <2>3, <2>4, <2>5
<1> QED BY <1>1, <1>2 DEF Environment

\* Init establishes the invariant,
LEMMA InvInit == Init => Inv
<1> SUFFICES ASSUME Init PROVE Inv OBVIOUS
<1>1. TypeOK BY InitType
<1>2. row = NoLease /\ fresh = {} /\ res = "none" /\ \A q \in Procs : pc[q] = "idle" BY DEF Init
<1>3. ResourceBound BY <1>2 DEF ResourceBound, NoLease, Creating, IsTerminal
<1> QED BY <1>1, <1>2, <1>3 DEF Inv, CustodyInv, SnapshotCurrent, DeletionOwned, At

\* and every step keeps it.
LEMMA InvNext == Inv /\ [Next]_vars => Inv'
<1> SUFFICES ASSUME Inv, [Next]_vars PROVE Inv' OBVIOUS
<1>1. TypeOK' BY NextType DEF Inv
<1>2. CASE Environment BY <1>1, <1>2, EnvironmentCustody DEF Inv
<1>3. ASSUME NEW p \in Procs, ProcessStep(p) \/ Crash(p) PROVE CustodyInv'
  <2>1. CASE RaiseError(p)
    BY <2>1, QuietStep DEF RaiseError, Forget, End, Fits
  <2>2. CASE Crash(p) BY <2>2, QuietStep DEF Crash, Forget, End, Fits
  <2> QED BY <1>3, <2>1, <2>2, UseStepCustody, CreateStepCustody, ObserveStepCustody,
             ReleaseStepCustody DEF ProcessStep
<1>4. CASE UNCHANGED vars
  <2>1. ResourceBound' BY <1>4 DEF vars, Inv, CustodyInv, ResourceBound, Creating, IsTerminal
  <2>2. SnapshotCurrent' BY <1>4 DEF vars, Inv, CustodyInv, SnapshotCurrent, Creating, At
  <2>3. DeletionOwned' BY <1>4 DEF vars, Inv, CustodyInv, DeletionOwned, At
  <2> QED BY <1>1, <2>1, <2>2, <2>3 DEF Inv, CustodyInv
<1> QED BY <1>1, <1>2, <1>3, <1>4 DEF Next, Inv

\* The inductive invariant: in every reachable state the row bounds what can
\* exist at Runpod, and whoever still holds it stands where it allows.
THEOREM Custody == Spec => []CustodyInv
<1>1. Inv => CustodyInv BY DEF Inv
<1> QED BY <1>1, InvInit, InvNext, PTL DEF Spec

\* No race, crash or lost answer leaves a resource, or a create request that
\* may still succeed, without an unfinished row that can find it.
THEOREM ResourceNeverOrphaned == Spec => []NoOrphan
<1>1. Inv => NoOrphan
  <2> SUFFICES ASSUME Inv, res \in {"inflight", "live"}
               PROVE  Exists /\ ~IsTerminal(row) /\ (row.pid \/ row.uncertain)
    BY DEF NoOrphan
  <2>1. row.state \in LeaseStates BY DEF Inv, TypeOK, Lease
  <2> QED BY <2>1 DEF Inv, CustodyInv, ResourceBound, Exists, IsTerminal, Creating, LeaseStates
<1> QED BY <1>1, InvInit, InvNext, PTL DEF Spec

\* A lease offered as READY has its known resource behind it.
THEOREM ReadyBacked == Spec => []ReadyIsBacked
<1>1. Inv => ReadyIsBacked BY DEF Inv, CustodyInv, ResourceBound, ReadyIsBacked
<1> QED BY <1>1, InvInit, InvNext, PTL DEF Spec
-----------------------------------------------------------------------------
(* The transitions of the lease, and the abstract specification. *)

\* Every row the service stores is the old one under one of its writes.
LEMMA RowWritten ==
    ASSUME Inv, [Next]_vars
    PROVE  \/ row' = row
           \/ row.state = "absent" /\ row' = Requested
           \/ row' \in {Provisioning(row), Failed(row), ReconcileRequired(row),
                        WaitingForModel(row), Ready(row), Touched(row), StopRetryable(row),
                        Recovered(row), [row EXCEPT !.idle = TRUE]}
           \/ \E p \in Procs : row' \in {Releasing(row, loc[p].reason), Terminated(row, loc[p].reason)}
<1> USE DEF Read, Keep, Forget, Commit, Conflict
<1>1. CASE Environment
  BY <1>1 DEF Environment, ProviderAccepts, ProviderRefuses, ResourceLost, Tick, IdleElapses, Inside
<1>2. ASSUME NEW p \in Procs, UseStep(p)
      PROVE  row' = row \/ (row.state = "absent" /\ row' = Requested)
  <2>1. CASE Acquire(p) BY <2>1 DEF Acquire, AcquireNew, AcquireAgain, Exists
  <2>2. CASE UseReady(p) BY <2>2 DEF UseReady
  <2>3. CASE AcquireExpired(p) BY <2>3 DEF AcquireExpired
  <2>4. CASE Release(p) \/ Reconcile(p) BY <2>4 DEF Release, Reconcile
  <2> QED BY <1>2, <2>1, <2>2, <2>3, <2>4 DEF UseStep
<1>3. ASSUME NEW p \in Procs, CreateStep(p)
      PROVE  row' \in {row, Provisioning(row), Failed(row), ReconcileRequired(row),
                       WaitingForModel(row)}
  BY <1>3 DEF CreateStep, StartCreate, PlanFails, CreateReturns, CreateFails, FindFound,
     FindAbsent, FindError
<1>4. ASSUME NEW p \in Procs, ObserveStep(p)
      PROVE  row' \in {row, Ready(row), Touched(row)}
  BY <1>4 DEF ObserveStep, CheckNotReady, CheckError, CheckReady, RouteOk, RouteUnavailable, Touch
<1>5. ASSUME NEW p \in Procs, ReleaseStep(p)
      PROVE  row' \in {row, StopRetryable(row), Recovered(row), Releasing(row, loc[p].reason),
                       Terminated(row, loc[p].reason)}
  BY <1>5 DEF ReleaseStep, ReleaseMark, ReleaseResource, ReleaseFound, ReleaseNotFound,
     DeleteResource, DeleteFails, ConfirmTerminated
<1>6. ASSUME NEW p \in Procs, RaiseError(p) \/ Crash(p)
      PROVE  row' = row
  BY <1>6 DEF RaiseError, Crash
<1>7. CASE UNCHANGED vars BY <1>7 DEF vars
<1> QED BY <1>1, <1>2, <1>3, <1>4, <1>5, <1>6, <1>7 DEF Next, ProcessStep

\* A persisted termination_reason is never replaced, by whichever process and
\* for whichever reason the lease is released again.
THEOREM ReasonIsFinal == Spec => ReasonWriteOnce
<1>1. ASSUME Inv, [Next]_vars PROVE row.reason # "none" => row'.reason = row.reason
  <2> SUFFICES ASSUME row.reason # "none" PROVE row'.reason = row.reason OBVIOUS
  <2>1. row \in Lease BY <1>1 DEF Inv, TypeOK
  <2>2. row.state # "absent" BY <1>1 DEF Inv, CustodyInv, ResourceBound, NoLease
  <2>3. /\ Provisioning(row).reason = row.reason /\ Failed(row).reason = row.reason
        /\ ReconcileRequired(row).reason = row.reason /\ WaitingForModel(row).reason = row.reason
        /\ Ready(row).reason = row.reason /\ Touched(row).reason = row.reason
        /\ StopRetryable(row).reason = row.reason /\ Recovered(row).reason = row.reason
        /\ [row EXCEPT !.idle = TRUE].reason = row.reason
    BY <2>1 DEF Lease, Provisioning, Failed, ReconcileRequired, WaitingForModel, Ready, Touched,
       StopRetryable, Recovered
  <2>4. ASSUME NEW why
        PROVE  Releasing(row, why).reason = row.reason /\ Terminated(row, why).reason = row.reason
    BY <2>1 DEF Lease, Releasing, Terminated, ReasonFirst
  <2>5. CASE \E p \in Procs : row' \in {Releasing(row, loc[p].reason), Terminated(row, loc[p].reason)}
    BY <2>4, <2>5
  <2> QED BY <1>1, <2>2, <2>3, <2>5, RowWritten
<1>2. Inv /\ [Next]_vars => [row.reason # "none" => row'.reason = row.reason]_vars BY <1>1
<1> QED BY <1>2, InvInit, InvNext, PTL DEF Spec, ReasonWriteOnce

\* The transitions of the lease's state, each with what it does to the resource.
Transition(from, to) == row.state \in from /\ row'.state = to

Transitions ==
    \/ row'.state = row.state /\ res' = res
    \/ row'.state = row.state /\ res = "inflight" /\ res' \in {"live", "refused"}
    \/ row'.state = row.state /\ res = "live" /\ res' = "lost"
    \/ Transition({"absent"}, "requested") /\ res' = res
    \/ Transition({"requested"}, "provisioning") /\ res = "none" /\ res' = "inflight"
    \/ Transition({"requested"}, "failed") /\ res' = res
    \/ Transition({"provisioning"}, "reconcile_required") /\ res' = res
    \/ Transition({"provisioning", "reconcile_required"}, "waiting_for_model") /\ res' = res
    \/ Transition({"waiting_for_model"}, "ready") /\ res' = res
    \/ /\ Transition({"provisioning", "reconcile_required", "waiting_for_model", "ready", "failed"},
                     "releasing")
       /\ res' = res
    \/ Transition({"requested"}, "terminated") /\ res = "none" /\ res' = res
    \/ /\ Transition({"releasing"}, "terminated")
       /\ res \notin {"inflight", "live"} /\ res' = res
    \/ Transition({"releasing"}, "releasing") /\ res = "live" /\ res' = "deleted"

\* A write of p replaces the row that p's label announces.
LEMMA StepTransitions ==
    ASSUME Inv, [Next]_vars
    PROVE  Transitions
<1>0. row \in Lease /\ row.state \in LeaseStates BY DEF Inv, TypeOK, Lease
<1>q. row' = row /\ res' = res => Transitions BY DEF Transitions
<1>a. ASSUME NEW p \in Procs, p \in fresh PROVE Fits(pc[p], row)
  BY <1>a DEF Inv, CustodyInv, SnapshotCurrent, Fits, At, Creating
<1>c. ASSUME NEW p \in Procs, Conflict(p), res' = res PROVE Transitions
  BY <1>c, <1>q DEF Conflict, Forget
<1>1. CASE Environment
  <2>1. CASE IdleElapses
    <3>1. row'.state = row.state /\ res' = res BY <1>0, <2>1 DEF IdleElapses, Lease
    <3> QED BY <3>1 DEF Transitions
  <2>2. CASE ProviderAccepts \/ ProviderRefuses \/ ResourceLost \/ Tick
    BY <2>2 DEF ProviderAccepts, ProviderRefuses, ResourceLost, Tick, Inside, Transitions
  <2> QED BY <1>1, <2>1, <2>2 DEF Environment
<1>2. ASSUME NEW p \in Procs, UseStep(p) PROVE Transitions
  <2>1. CASE Acquire(p)
    <3>1. res' = res BY <2>1 DEF Acquire
    <3>2. row' = row \/ (row.state = "absent" /\ row' = Requested)
      BY <2>1 DEF Acquire, AcquireNew, AcquireAgain, Read, Exists
    <3>3. Requested.state = "requested" BY DEF Requested, NoLease
    <3> QED BY <3>1, <3>2, <3>3 DEF Transitions, Transition
  <2>2. CASE ~Acquire(p)
    BY <1>2, <1>q, <2>2 DEF UseStep, UseReady, AcquireExpired, Release, Reconcile, Read
  <2> QED BY <2>1, <2>2
<1>3. ASSUME NEW p \in Procs, CreateStep(p) PROVE Transitions
  <2> USE <1>0 DEF At, Unchanged, Commit
  <2>1. CASE StartCreate(p)
    <3>1. CASE p \in fresh
      <4>1. row.state = "requested" BY <1>a, <2>1, <3>1 DEF StartCreate, Fits
      <4>2. res = "none" BY <4>1 DEF Inv, CustodyInv, ResourceBound
      <4>3. row'.state = "provisioning" /\ res' = "inflight"
        BY <2>1, <3>1, RowFields DEF StartCreate, Conflict
      <4> QED BY <4>1, <4>2, <4>3 DEF Transitions, Transition
    <3>2. CASE p \notin fresh BY <1>c, <2>1, <3>2 DEF StartCreate
    <3> QED BY <3>1, <3>2
  <2>2. CASE PlanFails(p)
    <3>1. CASE p \in fresh
      <4>1. row.state = "requested" BY <1>a, <2>2, <3>1 DEF PlanFails, Fits
      <4>2. row'.state = "failed" /\ res' = res BY <2>2, <3>1, RowFields DEF PlanFails
      <4> QED BY <4>1, <4>2 DEF Transitions, Transition
    <3>2. CASE p \notin fresh BY <1>q, <2>2, <3>2 DEF PlanFails, Forget
    <3> QED BY <3>1, <3>2
  <2>3. CASE CreateReturns(p) \/ FindFound(p)
    <3>1. CASE p \in fresh
      <4>1. row.state \in {"provisioning", "reconcile_required"}
        BY <1>a, <2>3, <3>1 DEF CreateReturns, FindFound, Fits
      <4>2. row'.state = "waiting_for_model" /\ res' = res
        BY <2>3, <3>1, RowFields DEF CreateReturns, FindFound, Conflict
      <4> QED BY <4>1, <4>2 DEF Transitions, Transition
    <3>2. CASE p \notin fresh BY <1>c, <2>3, <3>2 DEF CreateReturns, FindFound
    <3> QED BY <3>1, <3>2
  <2>4. CASE CreateFails(p)
    <3>1. CASE p \in fresh
      <4>1. row.state = "provisioning" BY <1>a, <2>4, <3>1 DEF CreateFails, Fits
      <4>2. row'.state = "reconcile_required" /\ res' = res BY <2>4, <3>1, RowFields DEF CreateFails
      <4> QED BY <4>1, <4>2 DEF Transitions, Transition
    <3>2. CASE p \notin fresh BY <1>q, <2>4, <3>2 DEF CreateFails, Forget
    <3> QED BY <3>1, <3>2
  <2>5. CASE FindAbsent(p) \/ FindError(p)
    BY <1>q, <2>5 DEF FindAbsent, FindError, Keep, Forget, Conflict
  <2> QED BY <1>3, <2>1, <2>2, <2>3, <2>4, <2>5 DEF CreateStep
<1>4. ASSUME NEW p \in Procs, ObserveStep(p) PROVE Transitions
  <2> USE <1>0 DEF At, Unchanged, Commit
  <2>1. CASE CheckReady(p)
    <3>1. CASE p \in fresh
      <4>1. row.state = "waiting_for_model" BY <1>a, <2>1, <3>1 DEF CheckReady, Fits
      <4>2. row'.state = "ready" /\ res' = res BY <2>1, <3>1, RowFields DEF CheckReady, Conflict
      <4> QED BY <4>1, <4>2 DEF Transitions, Transition
    <3>2. CASE p \notin fresh BY <1>c, <2>1, <3>2 DEF CheckReady
    <3> QED BY <3>1, <3>2
  <2>2. CASE Touch(p)
    <3>1. Touched(row).state = row.state BY RowFields
    <3>2. row' \in {row, Touched(row)} /\ res' = res
      BY <2>2 DEF Touch, Keep, Conflict, Forget
    <3> QED BY <3>1, <3>2 DEF Transitions
  <2>3. CASE CheckNotReady(p) \/ CheckError(p) \/ RouteOk(p) \/ RouteUnavailable(p)
    BY <1>q, <2>3 DEF CheckNotReady, CheckError, RouteOk, RouteUnavailable, Conflict, Forget
  <2> QED BY <1>4, <2>1, <2>2, <2>3 DEF ObserveStep
<1>5. ASSUME NEW p \in Procs, ReleaseStep(p) PROVE Transitions
  <2>r. loc[p].reason \in {"released", "expired"} BY DEF Inv, TypeOK, Locals
  <2> USE <1>0, <2>r DEF At, Unchanged, Commit
  <2>t. ASSUME row' = Terminated(row, loc[p].reason), res' = res,
               row.state \in {"requested", "releasing"}, res \notin {"inflight", "live"}
        PROVE  Transitions
    <3>1. row'.state = "terminated" BY <2>t, RowFields
    <3>2. row.state = "requested" => res = "none" BY DEF Inv, CustodyInv, ResourceBound
    <3> QED BY <2>t, <3>1, <3>2 DEF Transitions, Transition
  <2>1. CASE ReleaseMark(p)
    <3>1. CASE p \in fresh /\ row.state = "requested"
      <4>1. res = "none" BY <3>1 DEF Inv, CustodyInv, ResourceBound
      <4>2. row' = Terminated(row, loc[p].reason) /\ res' = res
        BY <2>1, <3>1 DEF ReleaseMark, Conflict
      <4> QED BY <2>t, <3>1, <4>1, <4>2
    <3>2. CASE p \in fresh /\ row.state = "releasing"
      BY <1>q, <2>1, <3>2 DEF ReleaseMark, Conflict, Keep
    <3>3. CASE p \in fresh /\ row.state \notin {"requested", "releasing"}
      <4>1. row.state \notin {"absent", "terminated"} BY <1>a, <2>1, <3>3 DEF ReleaseMark, Fits
      <4>2. row'.state = "releasing" /\ res' = res
        BY <2>1, <3>3, RowFields DEF ReleaseMark, Conflict
      <4> QED BY <3>3, <4>1, <4>2 DEF Transitions, Transition, LeaseStates
    <3>4. CASE p \notin fresh BY <1>c, <2>1, <3>4 DEF ReleaseMark
    <3> QED BY <3>1, <3>2, <3>3, <3>4
  <2>2. CASE ReleaseResource(p)
    <3>1. CASE p \in fresh
      <4>1. row.state = "releasing" BY <1>a, <2>2, <3>1 DEF ReleaseResource, Fits
      <4>2. ~row.pid /\ ~row.uncertain => res = "none"
        BY <4>1 DEF Inv, CustodyInv, ResourceBound
      <4>3. \/ row' = row /\ res' = res
            \/ ~row.pid /\ ~row.uncertain /\ row' = Terminated(row, loc[p].reason) /\ res' = res
        BY <2>2, <3>1 DEF ReleaseResource, Conflict, Keep
      <4> QED BY <1>q, <2>t, <4>1, <4>2, <4>3
    <3>2. CASE p \notin fresh BY <1>c, <2>2, <3>2 DEF ReleaseResource
    <3> QED BY <3>1, <3>2
  <2>3. CASE ReleaseFound(p) \/ ReleaseNotFound(p)
    <3>1. row'.state = row.state /\ res' = res
      BY <2>3, RowFields DEF ReleaseFound, ReleaseNotFound, Conflict, Forget
    <3> QED BY <3>1 DEF Transitions
  <2>4. CASE DeleteResource(p) \/ DeleteFails(p)
    <3>1. row'.state = row.state /\ res' \in {res, IF res = "live" THEN "deleted" ELSE res}
      <4>1. row'.state = row.state
        BY <2>4, RowFields DEF DeleteResource, DeleteFails, Keep, Conflict, Forget
      <4> QED BY <2>4, <4>1 DEF DeleteResource, DeleteFails, Deletion
    <3>2. row.pid /\ row.state \in Closed
      BY <2>4 DEF DeleteResource, DeleteFails, Inv, CustodyInv, DeletionOwned, Closed
    <3>3. res = "live" => row.state = "releasing"
      BY <3>2 DEF Inv, CustodyInv, ResourceBound, IsTerminal, Closed
    <3> QED BY <3>1, <3>3 DEF Transitions, Transition
  <2>5. CASE ConfirmTerminated(p)
    <3>1. CASE p \in fresh
      <4>1. row.state = "releasing" /\ res \in {"lost", "deleted"}
        BY <1>a, <2>5, <3>1 DEF ConfirmTerminated, Fits, Inv, CustodyInv, DeletionOwned
      <4> QED BY <2>5, <2>t, <3>1, <4>1 DEF ConfirmTerminated, Conflict
    <3>2. CASE p \notin fresh BY <1>c, <2>5, <3>2 DEF ConfirmTerminated
    <3> QED BY <3>1, <3>2
  <2> QED BY <1>5, <2>1, <2>2, <2>3, <2>4, <2>5 DEF ReleaseStep
<1>6. ASSUME NEW p \in Procs, RaiseError(p) \/ Crash(p) PROVE Transitions
  BY <1>6, <1>q DEF RaiseError, Crash, Forget
<1>7. CASE UNCHANGED vars BY <1>7, <1>q DEF vars
<1> QED BY <1>1, <1>2, <1>3, <1>4, <1>5, <1>6, <1>7 DEF Next, ProcessStep

\* The service implements LeaseAuthority: one create request, deletion only
\* after a persisted stop, an end only without a billable resource.
THEOREM ImplementsAuthority == Spec => Implements
<1>1. Init => Authority!Init
  BY DEF Init, NoLease, Authority!Init, ClaimOf, ResourceOf
<1>2. ASSUME Inv, [Next]_vars PROVE [Authority!Next]_(Authority!vars)
  <2>1. Transitions BY <1>2, StepTransitions
  <2> USE DEF ClaimOf, ResourceOf, IsTerminal, Authority!vars, Authority!Next
  <2>2. CASE row'.state = row.state /\ res' = res BY <2>2
  <2>3. CASE row'.state = row.state /\ res = "inflight" /\ res' \in {"live", "refused"}
    BY <2>3 DEF Authority!Grant, Authority!Refuse
  <2>4. CASE row'.state = row.state /\ res = "live" /\ res' = "lost"
    BY <2>4 DEF Authority!Vanish
  <2>5. CASE Transition({"absent"}, "requested") /\ res' = res
    BY <2>5 DEF Transition, Authority!Claim
  <2>6. CASE Transition({"requested"}, "provisioning") /\ res = "none" /\ res' = "inflight"
    BY <2>6 DEF Transition, Authority!Request
  <2>7. CASE Transition({"requested"}, "failed") /\ res' = res
    BY <2>7 DEF Transition, Authority!Close
  <2>8. CASE Transition({"provisioning"}, "reconcile_required") /\ res' = res
    BY <2>8 DEF Transition
  <2>9. CASE Transition({"provisioning", "reconcile_required"}, "waiting_for_model") /\ res' = res
    BY <2>9 DEF Transition
  <2>10. CASE Transition({"waiting_for_model"}, "ready") /\ res' = res
    BY <2>10 DEF Transition
  <2>11. CASE /\ Transition({"provisioning", "reconcile_required", "waiting_for_model", "ready",
                             "failed"}, "releasing")
              /\ res' = res
    BY <2>11 DEF Transition, Authority!Close
  <2>12. CASE Transition({"requested"}, "terminated") /\ res = "none" /\ res' = res
    BY <2>12 DEF Transition, Authority!End
  <2>13. CASE /\ Transition({"releasing"}, "terminated")
              /\ res \notin {"inflight", "live"} /\ res' = res
    <3>1. res # "requested" BY <1>2 DEF Inv, TypeOK
    <3> QED BY <2>13, <3>1 DEF Transition, Authority!End, Authority!Billable
  <2>14. CASE Transition({"releasing"}, "releasing") /\ res = "live" /\ res' = "deleted"
    BY <2>14 DEF Transition, Authority!Delete
  <2> QED BY <2>1, <2>2, <2>3, <2>4, <2>5, <2>6, <2>7, <2>8, <2>9, <2>10, <2>11, <2>12, <2>13,
             <2>14 DEF Transitions
<1>3. Inv /\ [Next]_vars => [Authority!Next]_(Authority!vars) BY <1>2
<1> QED BY <1>1, <1>3, InvInit, InvNext, PTL DEF Spec, Implements, Authority!Spec
===============================================================================
