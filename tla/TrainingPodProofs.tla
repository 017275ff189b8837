-------------------------- MODULE TrainingPodProofs --------------------------
(***************************************************************************)
(* Proofs about TrainingPod, for every number of hosts, reconcilers and    *)
(* profiles, every set of operations and every set of faults.              *)
(*                                                                         *)
(* What the properties need beside themselves is where each process may    *)
(* stand: that a label of an operation implies a row of its own, that one  *)
(* host acquires at a time, and what a process that is about to write      *)
(* RELEASED, or to stop a Pod, knows of the Pod.                           *)
(***************************************************************************)
EXTENDS TrainingPod, TLAPS

\* The labels of an acquisition, and the labels that stand for work on a row.
Acquiring == {"begin", "observe", "attach", "resume", "create", "ready"}
Working == Labels \ {"idle", "admit", "row"}

\* Those that are reached only after the reservation.
Started ==
    {"create", "resume", "ready", "post", "recover", "polled", "downloaded", "cancelling",
     "stop", "observed"}

\* Work is done on rows that were inserted, and labels fit their row.
KnownAt(p) ==
    LET c == proc[p]  r == rows[proc[p].at] IN
    /\ c.pc \in Working => r.state # "absent"
    /\ c.pc \in Started => r.state # "requested"
    /\ c.pc \in {"observe", "attach", "resume"} => r.source = "existing"
    /\ c.pc \in {"create", "found"} => r.source = "created"
    /\ c.pc = "stop" => r.pid
    /\ c.pc \in {"family", "close"} => c.at = Root
    /\ c.pc \in {"release", "found"} /\ c.at = Root => r.state # "requested" \/ r.famReq
    /\ c.pc = "found" => c.saw \in {"none", "found"}
    /\ c.pc \in Acquiring => p \in Hosts

KnownInv ==
    /\ session # 0 => rows[session].state \notin {"absent", "requested"}
    /\ rows[Root].famReq => rows[Root].state # "absent"
    /\ rows[Root].famDone => rows[Root].famReq
    /\ \A i \in Attempts :
          /\ rows[i].source = "existing" => i = Root /\ rows[i].pid
          /\ rows[i].own = "preexisting_running" => rows[i].source = "existing"
    /\ \A p \in Procs : KnownAt(p)
    /\ \A p, q \in Procs :
          proc[p].pc \in Acquiring /\ proc[q].pc \in Acquiring => p = q

\* Only one attempt is unfinished, and a process that closes the family has
\* seen to it.
FamilyAt(p) ==
    /\ "family" \in proc[p].ret =>
          /\ proc[p].pc \in {"release", "void", "found", "stop"}
          /\ rows[Root].famReq
          /\ \A j \in Attempts \ {proc[p].at} : ~Unfinished(j)
    /\ proc[p].pc = "close" => rows[Root].famReq /\ \A j \in Attempts : ~Unfinished(j)

FamilyInv ==
    /\ \A i, j \in Attempts : Unfinished(i) /\ Unfinished(j) => i = j
    /\ \A p \in Procs : FamilyAt(p)
    /\ FamilyClosed

\* Whoever may still bring a Pod to life, or write RELEASED, finds it owed, or
\* its row was ended over the create.
Covered(i) == i \in gaveUp \/ Owed(i)

OwedRow(i) ==
    /\ pods[i] # "none" =>
          rows[i].source = "created" /\ rows[i].state \notin {"absent", "requested"}
    /\ Billable(i) => Covered(i)
    /\ rows[i].pid /\ rows[i].source = "created" => pods[i] \in {"running", "stopped"}

OwedAt(p) ==
    LET i == proc[p].at IN
    /\ proc[p].pc = "create" => pods[i] # "pending" /\ (pods[i] = "stopped" \/ Covered(i))
    /\ proc[p].pc = "found" /\ proc[p].saw = "found" => pods[i] \in {"running", "stopped"}
    /\ proc[p].pc = "observed" /\ rows[i].source = "created" => pods[i] = "stopped"

OwedInv ==
    /\ \A i \in Attempts : OwedRow(i)
    /\ \A p \in Procs : OwedAt(p)

\* The grounds on which the existing Pod may be stopped.
Free == "stopped" \in grounds \/ ("unobserved" \in grounds /\ rows[Root].famReq)

\* The attempt on the existing Pod believes that it started the Pod.
Claim(r) ==
    /\ r.state \notin {"absent", "released", "requested"}
    /\ r.source = "existing" /\ r.own # "preexisting_running"

SharedAt(p) ==
    /\ proc[p].pc = "stop" /\ rows[proc[p].at].source = "existing" => Free
    /\ proc[p].pc = "resume" => Free

SharedInv ==
    /\ \A p \in Procs : SharedAt(p)
    /\ Claim(rows[Root]) => Free

-----------------------------------------------------------------------------
(* Type correctness. *)

\* The attempts and the Pods they stand for.
LEMMA Constants ==
    /\ Root \in Attempts /\ Attempts \subseteq Nat /\ 0 \notin Attempts
    /\ Attempts \subseteq PodIds /\ Shared \in PodIds /\ Shared \notin Attempts
    /\ Hosts \subseteq Procs /\ Reconcilers \subseteq Procs
    /\ \A i \in Attempts : i < Profiles => i + 1 \in Attempts
BY ProfileAssumption DEF Root, Attempts, PodIds, Shared, Procs

\* The rows the service writes are rows,
LEMMA RowTypes ==
    ASSUME NEW r \in Row
    PROVE  /\ Beat(r) \in Row
           /\ \A state \in LeaseStates : InState(r, state) \in Row
           /\ CreateStarting(r) \in Row /\ CreateAccepted(r) \in Row
           /\ Attached(r) \in Row /\ Owned(r) \in Row
           /\ RetryableFailure(r) \in Row /\ StillUncertain(r) \in Row
           /\ Released(r) \in Row /\ ReleasedSurely(r) \in Row /\ Unowned(r) \in Row
           /\ FamilyRequested(r) \in Row /\ FamilyComplete(r) \in Row
           /\ Releasing(r) \in Row /\ Adopted(r) \in Row /\ AwaitingCreate(r) \in Row
           /\ [r EXCEPT !.hb = "stale"] \in Row
<1> USE DEF Row
<1>1. Beat(r) \in Row BY DEF Beat
<1>2. \A state \in LeaseStates : InState(r, state) \in Row BY <1>1 DEF InState
<1>3. /\ InState(r, "starting") \in Row /\ InState(r, "releasing") \in Row
      /\ InState(r, "released") \in Row /\ RetryableFailure(r) \in Row
  BY <1>2 DEF LeaseStates, RetryableFailure
<1>4. CreateStarting(r) \in Row BY <1>3 DEF CreateStarting
<1>5. CreateAccepted(r) \in Row BY <1>1 DEF CreateAccepted
<1>6. Attached(r) \in Row BY <1>3 DEF Attached
<1>7. Owned(r) \in Row BY <1>1 DEF Owned
<1>8. StillUncertain(r) \in Row BY <1>3 DEF StillUncertain
<1>9. Released(r) \in Row BY <1>3 DEF Released
<1>10. ReleasedSurely(r) \in Row BY <1>9 DEF ReleasedSurely
<1>11. Unowned(r) \in Row BY <1>9 DEF Unowned
<1>12. [Beat(r) EXCEPT !.famReq = TRUE, !.famDone = FALSE] \in Row BY <1>1
<1>13. [Beat(r) EXCEPT !.famDone = TRUE] \in Row BY <1>1
<1>14. Adopted(r) \in Row BY DEF Adopted, LeaseStates
<1>15. AwaitingCreate(r) \in Row BY DEF AwaitingCreate, LeaseStates
<1>16. [r EXCEPT !.hb = "stale"] \in Row OBVIOUS
<1> HIDE DEF Row
<1>17. FamilyRequested(r) \in Row BY <1>12 DEF FamilyRequested
<1>18. FamilyComplete(r) \in Row BY <1>13 DEF FamilyComplete
<1>19. Releasing(r) \in Row BY <1>3 DEF Releasing
<1> QED BY <1>1, <1>2, <1>3, <1>4, <1>5, <1>6, <1>7, <1>8, <1>9, <1>10, <1>11, <1>14, <1>15,
           <1>16, <1>17, <1>18, <1>19

\* those it inserts,
LEMMA InsertTypes ==
    NoRow \in Row /\ \A source \in {"created", "existing"} : Reserved(source) \in Row
<1>1. \A source \in {"created", "existing"} : Reserved(source) \in Row
  BY DEF Row, LeaseStates, Reserved
<1> QED BY <1>1 DEF Row, LeaseStates, NoRow

\* and those that carry what was learnt of a job or of a create.
LEMMA AnswerTypes ==
    ASSUME NEW r \in Row, NEW status
    PROVE  WithStatus(r, status) \in Row /\ Resolved(r, status) \in Row
BY RowTypes DEF WithStatus, Resolved, LeaseStates

\* What the caller of a release goes on with.
LEMMA Returns ==
    ASSUME TypeOK, NEW p \in Procs, NEW ok \in BOOLEAN, Return(p, ok)
    PROVE  /\ proc' \in [Procs -> Control]
           /\ session' \in {0, session}
           /\ \A q \in Procs \ {p} : proc'[q] = proc[q]
           /\ proc'[p].pc \in {"close", "admit", "row", "idle"}
           /\ proc'[p].pc = "close" => ok /\ "family" \in proc[p].ret /\ proc'[p].at = Root
           /\ "family" \notin proc'[p].ret
<1> DEFINE c == proc[p]
<1>1. c \in Control BY DEF TypeOK
<1>2. [c EXCEPT !.pc = "close", !.at = Root, !.ret = @ \ {"family"}] \in Control
  BY <1>1, Constants DEF Control, Labels
<1>3. c.at < Profiles => [Idle EXCEPT !.pc = "admit", !.at = c.at + 1] \in Control
  BY <1>1, Constants DEF Control, Labels, Idle
<1>4. [Idle EXCEPT !.pc = "row"] \in Control /\ Idle \in Control
  BY Constants DEF Control, Labels, Idle
<1> DEFINE next ==
          CASE ok /\ "family" \in c.ret ->
                 [c EXCEPT !.pc = "close", !.at = Root, !.ret = @ \ {"family"}]
            [] ok /\ "acquire" \in c.ret /\ Mine(p).source = "created"
                  /\ c.at < Profiles ->
                 [Idle EXCEPT !.pc = "admit", !.at = c.at + 1]
            [] "pass" \in c.ret -> [Idle EXCEPT !.pc = "row"]
            [] OTHER -> Idle
<1>5. proc' = [proc EXCEPT ![p] = next] BY DEF Return
<1>6. next \in Control BY <1>2, <1>3, <1>4
<1>7. /\ next.pc \in {"close", "admit", "row", "idle"}
      /\ next.pc = "close" => ok /\ "family" \in c.ret /\ next.at = Root
      /\ "family" \notin next.ret
  BY <1>1 DEF Control, Idle
<1>8. session' \in {0, session} BY DEF Return
<1> HIDE DEF next
<1> QED BY <1>5, <1>6, <1>7, <1>8 DEF TypeOK

\* The steps from one label to the next keep the processes at labels.
LEMMA ControlType ==
    ASSUME TypeOK, NEW p \in Procs, NEW label \in Labels, NEW i \in Attempts,
           NEW ret \in SUBSET {"acquire", "family", "drop", "pass"},
           Goto(p, label) \/ Jump(p, label, i, ret) \/ End(p) \/ ServiceRelease(p, i, ret)
    PROVE  proc' \in [Procs -> Control]
<1>1. proc[p] \in Control BY DEF TypeOK
<1>2. [proc[p] EXCEPT !.pc = label] \in Control BY <1>1 DEF Control
<1>3. \A l \in Labels : [pc |-> l, at |-> i, ret |-> ret, saw |-> "none"] \in Control
  BY DEF Control
<1>4. Idle \in Control BY Constants DEF Idle, Control, Labels
<1>5. "family" \in Labels /\ "release" \in Labels BY DEF Labels
<1> QED BY <1>2, <1>3, <1>4, <1>5 DEF TypeOK, Goto, Jump, End, ServiceRelease

\* What a process knows of its place.
LEMMA Place ==
    ASSUME TypeOK, NEW p \in Procs
    PROVE  /\ proc[p].pc \in Labels /\ proc[p].at \in Attempts
           /\ proc[p].ret \in SUBSET {"acquire", "family", "drop", "pass"}
           /\ proc[p].saw \in {"none", "found", "running", "stopped", "completed", "failed"}
           /\ Mine(p) \in Row
           /\ \A i \in Attempts : rows[i] \in Row /\ PodOf(i) \in PodIds
           /\ PodOf(proc[p].at) \in PodIds
           /\ pods \in [PodIds -> {"none", "pending", "running", "stopped"}]
           /\ jobs \in [PodIds -> {"none", "running", "completed", "failed"}]
BY Constants DEF TypeOK, Control, Mine, PodOf

-----------------------------------------------------------------------------
(* What a write may make of a row. *)

\* Its source and its insertion are for good, its Pod too; nothing becomes
\* requested again, and nothing comes back from RELEASED.
Evolves(r, s) ==
    /\ s \in Row
    /\ s.source = r.source
    /\ s.state = "absent" <=> r.state = "absent"
    /\ s.state = "requested" => r.state = "requested"
    /\ r.state = "released" => s.state = "released"
    /\ r.pid => s.pid
    /\ s.own = "preexisting_running" => r.own = s.own \/ r.source = "existing"
    /\ s.famReq = r.famReq /\ s.famDone = r.famDone

Evolution ==
    /\ rows' \in [Attempts -> Row]
    /\ \A i \in Attempts : Evolves(rows[i], rows'[i])

\* The writes that keep the state of the row, and those that move it on.
LEMMA RowOps ==
    ASSUME NEW r \in Row
    PROVE  /\ Evolves(r, r) /\ Evolves(r, Beat(r)) /\ Evolves(r, Owned(r))
           /\ Evolves(r, CreateAccepted(r)) /\ Evolves(r, [r EXCEPT !.hb = "stale"])
           /\ r.age < 2 => Evolves(r, [r EXCEPT !.age = @ + 1])
           /\ r.state # "absent" =>
                /\ Evolves(r, Released(r)) /\ Evolves(r, ReleasedSurely(r))
                /\ r.source = "existing" => Evolves(r, Unowned(r))
           /\ r.state \notin {"absent", "released"} =>
                /\ \A state \in LeaseStates \ {"absent", "requested"} :
                      Evolves(r, InState(r, state))
                /\ Evolves(r, CreateStarting(r)) /\ Evolves(r, RetryableFailure(r))
                /\ Evolves(r, StillUncertain(r)) /\ Evolves(r, Releasing(r))
                /\ Evolves(r, Adopted(r)) /\ Evolves(r, AwaitingCreate(r))
                /\ r.source = "existing" => Evolves(r, Attached(r))
<1> USE DEF Row
<1>1. Evolves(r, r) BY DEF Evolves
<1>2. Evolves(r, Beat(r)) BY DEF Evolves, Beat
<1>3. Evolves(r, Owned(r)) BY DEF Evolves, Beat, Owned
<1>4. Evolves(r, CreateAccepted(r)) BY DEF Evolves, Beat, CreateAccepted
<1>5. Evolves(r, [r EXCEPT !.hb = "stale"]) BY DEF Evolves
<1>6. r.age < 2 => Evolves(r, [r EXCEPT !.age = @ + 1]) BY DEF Evolves
<1>7. ASSUME r.state # "absent"
      PROVE  /\ Evolves(r, Released(r)) /\ Evolves(r, ReleasedSurely(r))
             /\ r.source = "existing" => Evolves(r, Unowned(r))
  <2> HIDE DEF Row
  <2>1. Released(r) \in Row /\ ReleasedSurely(r) \in Row /\ Unowned(r) \in Row BY RowTypes
  <2>2. \A s \in {Released(r), ReleasedSurely(r), Unowned(r)} :
           /\ s.source = r.source /\ s.state = "released" /\ s.pid = r.pid
           /\ s.famReq = r.famReq /\ s.famDone = r.famDone
    BY DEF Row, Beat, InState, Released, ReleasedSurely, Unowned
  <2>3. Released(r).own = r.own /\ ReleasedSurely(r).own = r.own
    BY DEF Row, Beat, InState, Released, ReleasedSurely
  <2> QED BY <1>7, <2>1, <2>2, <2>3 DEF Evolves
<1>8. ASSUME r.state \notin {"absent", "released"}
      PROVE  /\ \A state \in LeaseStates \ {"absent", "requested"} : Evolves(r, InState(r, state))
             /\ Evolves(r, CreateStarting(r)) /\ Evolves(r, RetryableFailure(r))
             /\ Evolves(r, StillUncertain(r)) /\ Evolves(r, Releasing(r))
             /\ Evolves(r, Adopted(r)) /\ Evolves(r, AwaitingCreate(r))
             /\ r.source = "existing" => Evolves(r, Attached(r))
  <2> USE <1>8 DEF Beat, InState, Evolves
  <2>1. \A state \in LeaseStates \ {"absent", "requested"} : Evolves(r, InState(r, state)) OBVIOUS
  <2> USE DEF LeaseStates
  <2>2. Evolves(r, CreateStarting(r)) BY DEF CreateStarting
  <2>3. Evolves(r, RetryableFailure(r)) BY DEF RetryableFailure
  <2>4. Evolves(r, StillUncertain(r)) BY DEF RetryableFailure, StillUncertain
  <2>5. Evolves(r, InState(r, "releasing")) OBVIOUS
  <2>6. Evolves(r, Adopted(r)) BY DEF Adopted
  <2>7. Evolves(r, AwaitingCreate(r)) BY DEF AwaitingCreate
  <2>8. r.source = "existing" => Evolves(r, Attached(r)) BY DEF Attached
  <2> HIDE DEF Evolves, InState
  <2>9. Evolves(r, Releasing(r)) BY <1>1, <2>5 DEF Releasing
  <2> QED BY <2>1, <2>2, <2>3, <2>4, <2>6, <2>7, <2>8, <2>9
<1> HIDE DEF Row
<1> QED BY <1>1, <1>2, <1>3, <1>4, <1>5, <1>6, <1>7, <1>8

\* The same of the answers of a trainer and of a lookup.
LEMMA AnswerOps ==
    ASSUME NEW r \in Row, NEW answer, r.state \notin {"absent", "released"}
    PROVE  Evolves(r, WithStatus(r, answer)) /\ Evolves(r, Resolved(r, answer))
<1>1. Evolves(r, WithStatus(r, answer)) BY RowOps DEF WithStatus, LeaseStates
<1>2. Evolves(r, Resolved(r, answer)) BY RowOps DEF Resolved
<1> QED BY <1>1, <1>2

\* One row is written, the others stay.
LEMMA OneWrite ==
    ASSUME TypeOK, NEW i \in Attempts, NEW new,
           \/ rows' = Write(i, new) /\ Evolves(rows[i], new)
           \/ rows' = Transition(i, new) /\ (rows[i].state # "released" => Evolves(rows[i], new))
    PROVE  Evolution /\ \A j \in Attempts \ {i} : rows'[j] = rows[j]
<1>1. rows \in [Attempts -> Row] BY DEF TypeOK
<1>2. \A j \in Attempts : Evolves(rows[j], rows[j]) BY <1>1, RowOps
<1>3. CASE rows' = Write(i, new) /\ Evolves(rows[i], new)
  <2>1. new \in Row BY <1>3 DEF Evolves
  <2>2. rows' = [rows EXCEPT ![i] = new] BY <1>3 DEF Write
  <2> QED BY <1>1, <1>2, <1>3, <2>1, <2>2 DEF Evolution
<1>4. CASE rows' = Transition(i, new) /\ (rows[i].state # "released" => Evolves(rows[i], new))
  <2> DEFINE s == IF IsTerminal(rows[i]) THEN rows[i] ELSE new
  <2>1. Evolves(rows[i], s) BY <1>2, <1>4 DEF IsTerminal
  <2>2. s \in Row BY <2>1 DEF Evolves
  <2>3. rows' = [rows EXCEPT ![i] = s] BY <1>4 DEF Transition
  <2> HIDE DEF s
  <2> QED BY <1>1, <1>2, <2>1, <2>2, <2>3 DEF Evolution
<1> QED BY <1>3, <1>4

\* The writes of the actions.
LEMMA Writes ==
    ASSUME TypeOK, NEW i \in Attempts, rows[i].state # "absent",
           LET r == rows[i] IN
           \/ rows' \in
                {rows, Write(i, Beat(r)), Write(i, Owned(r)),
                 Transition(i, CreateAccepted(r)), Transition(i, Released(r)),
                 Transition(i, ReleasedSurely(r)), Transition(i, Beat(r)),
                 Transition(i, RetryableFailure(r)), Transition(i, StillUncertain(r)),
                 Transition(i, Releasing(r)), Transition(i, InState(r, "cancel_requested"))}
           \/ r.source = "existing" /\ rows' = Transition(i, Unowned(r))
           \/ r.state # "released" /\ rows' \in
                {Write(i, CreateStarting(r)), Write(i, InState(r, "starting")),
                 Write(i, InState(r, "ready")), Write(i, InState(r, "job_submitted")),
                 Write(i, InState(r, "result_retrieved"))}
           \/ r.state # "released" /\ r.source = "existing" /\ rows' = Write(i, Attached(r))
    PROVE  Evolution /\ \A j \in Attempts \ {i} : rows'[j] = rows[j]
<1>1. rows[i] \in Row BY DEF TypeOK
<1>2. CASE rows' = rows
  <2>1. \A j \in Attempts : rows[j] \in Row BY DEF TypeOK
  <2> QED BY <1>2, <2>1, RowOps DEF Evolution, TypeOK
<1>3. CASE \E new : rows' = Write(i, new) /\ Evolves(rows[i], new) BY <1>3, OneWrite
<1>4. CASE \E new : rows' = Transition(i, new) /\ (rows[i].state # "released" => Evolves(rows[i], new))
  BY <1>4, OneWrite
<1>5. {"starting", "ready", "job_submitted", "result_retrieved", "cancel_requested"}
        \subseteq LeaseStates \ {"absent", "requested"}
  BY DEF LeaseStates
<1> QED BY <1>1, <1>2, <1>3, <1>4, <1>5, RowOps
-----------------------------------------------------------------------------
(* The steps keep the types, and all but three let the rows evolve. *)

LEMMA AppliedType ==
    ASSUME TypeOK, NEW p \in Procs, NEW applied \in BOOLEAN,
           NEW landing \in {"pending", "running"}, Applied(p, applied, landing)
    PROVE  pods' \in [PodIds -> {"none", "pending", "running", "stopped"}]
<1>1. proc[p].at \in PodIds BY Place, Constants
<1> QED BY <1>1 DEF TypeOK, Applied

\* The effect of a call is a truth value.
LEMMA OutcomeType == \A outcome \in Outcomes(CreatePod) : outcome[1] \in BOOLEAN
<1> SUFFICES ASSUME NEW outcome \in Outcomes(CreatePod) PROVE outcome[1] \in BOOLEAN
  OBVIOUS
<1>1. CASE \E a : outcome = <<TRUE, CreatePod(a)>> BY <1>1
<1>2. CASE \E a : outcome = <<FALSE, CreatePod(a)>> BY <1>2
<1> QED BY <1>1, <1>2 DEF Outcomes, OutcomesOf

\* The label where a process stands has a row.
LEMMA HasRow ==
    ASSUME TypeOK, KnownInv, NEW p \in Procs, proc[p].pc \in Working
    PROVE  Mine(p).state # "absent" /\ proc[p].at \in Attempts
BY Place DEF KnownInv, KnownAt, Started, Mine

\* Acquisition, but for the insertion of the row.
LEMMA AcquireStep ==
    ASSUME TypeOK, KnownInv, NEW p \in Hosts,
           \/ StartTraining(p) \/ StartAgain(p) \/ Begin(p)
           \/ ObserveExisting(p) \/ Attach(p) \/ ObserveExistingFails(p)
           \/ Resume(p) \/ ResumeFails(p)
           \/ Create(p) \/ CreateRejected(p) \/ CreateAmbiguous(p) \/ CreateCancelled(p)
           \/ Ready(p) \/ NotReady(p)
    PROVE  TypeOK' /\ Evolution
<1> p \in Procs BY Constants
<1> USE DEF history
<1>0. /\ \A l \in {"admit", "begin", "observe", "attach", "create", "ready", "resume", "release"} :
            l \in Labels
      /\ {} \in SUBSET {"acquire", "family", "drop", "pass"}
      /\ \A l \in Acquiring : l \in Working
  BY DEF Labels, Acquiring, Working
<1> DEFINE i == proc[p].at
<1>a. i \in Attempts /\ Mine(p) \in Row /\ Mine(p) = rows[i] BY Place DEF Mine
<1>b. ASSUME NEW l \in Acquiring, At(p, l) PROVE rows[i].state # "absent"
  BY <1>b, <1>0, HasRow DEF At, Mine
<1> HIDE DEF i
<1>1. CASE StartTraining(p)
  <2>1. Evolution BY <1>1, <1>a, RowOps DEF StartTraining, Evolution, TypeOK
  <2> QED BY <1>0, <1>1, <2>1, ControlType, Constants DEF StartTraining, TypeOK
<1>2. CASE StartAgain(p)
  <2>1. PICK j \in Attempts : rows[j].state = "ready" /\ rows' = Write(j, Beat(rows[j])) /\ session' = j
    BY <1>2 DEF StartAgain
  <2>2. Evolution BY <2>1, Writes
  <2> QED BY <1>2, <2>1, <2>2 DEF StartAgain, TypeOK, Evolution
<1>3. CASE Begin(p)
  <2>0. rows[i].state # "absent" BY <1>3, <1>b DEF Begin, Acquiring
  <2>1. Evolution BY <1>3, <1>a, <2>0, Writes DEF Begin, AsReserved, i
  <2>2. proc' \in [Procs -> Control] BY <1>0, <1>3, Constants, ControlType DEF Begin
  <2> QED BY <1>3, <2>1, <2>2 DEF Begin, TypeOK, Evolution
<1>4. CASE ObserveExisting(p)
  <2>1. Evolution BY <1>4, <1>a, RowOps DEF ObserveExisting, Evolution, TypeOK
  <2>2. proc' \in [Procs -> Control]
    <3>1. proc[p] \in Control /\ pods[Shared] \in {"running", "stopped"}
      BY <1>4 DEF ObserveExisting, TypeOK
    <3>2. [proc[p] EXCEPT !.pc = "attach", !.saw = pods[Shared]] \in Control
      BY <1>0, <3>1 DEF Control
    <3>3. proc' = [proc EXCEPT ![p] = [proc[p] EXCEPT !.pc = "attach", !.saw = pods[Shared]]]
      BY <1>4 DEF ObserveExisting, TypeOK
    <3> QED BY <3>2, <3>3 DEF TypeOK
  <2> QED BY <1>4, <2>1, <2>2 DEF ObserveExisting, TypeOK
<1>14. CASE Attach(p)
  <2>0. rows[i].state # "absent" BY <1>14, <1>b DEF Attach, Acquiring
  <2>1. rows[i].source = "existing" BY <1>14 DEF Attach, At, KnownInv, KnownAt, Started, i
  <2>2. Evolution BY <1>14, <1>a, <2>0, <2>1, Writes DEF Attach, AsReserved, i
  <2>3. proc' \in [Procs -> Control]
    <3>1. CASE End(p) BY <1>0, <3>1, Constants, ControlType
    <3>2. CASE ~End(p)
      <4>1. PICK label \in {"resume", "ready"} : Jump(p, label, proc[p].at, proc[p].ret)
        BY <1>14, <3>2 DEF Attach
      <4>2. proc[p].at \in Attempts /\ proc[p].ret \in SUBSET {"acquire", "family", "drop", "pass"}
        BY Place
      <4>3. label \in Labels BY <1>0
      <4> QED BY <4>1, <4>2, <4>3, ControlType
    <3> QED BY <3>1, <3>2
  <2> QED BY <1>14, <2>2, <2>3 DEF Attach, TypeOK, Evolution
<1>5. CASE ObserveExistingFails(p)
  <2>0. rows[i].state # "absent" BY <1>5, <1>b DEF ObserveExistingFails, Acquiring, At
  <2>1. rows[i].source = "existing" BY <1>5 DEF ObserveExistingFails, At, KnownInv, KnownAt, Started, i
  <2>2. Evolution BY <1>5, <1>a, <2>0, <2>1, Writes DEF ObserveExistingFails, i
  <2>3. proc' \in [Procs -> Control] BY <1>0, <1>5, Constants, ControlType DEF ObserveExistingFails
  <2> QED BY <1>5, <2>2, <2>3 DEF ObserveExistingFails, TypeOK, Evolution
<1>6. CASE Resume(p)
  <2>0. rows[i].state # "absent" BY <1>6, <1>b DEF Resume, Acquiring
  <2>1. Evolution BY <1>6, <1>a, <2>0, Writes DEF Resume, i
  <2>2. proc' \in [Procs -> Control] BY <1>0, <1>6, Constants, ControlType DEF Resume
  <2> QED BY <1>6, <2>1, <2>2, Constants DEF Resume, Resumed, TypeOK, Evolution
<1>7. CASE ResumeFails(p)
  <2>0. rows[i].state # "absent" BY <1>7, <1>b DEF ResumeFails, Acquiring
  <2>1. Evolution BY <1>7, <1>a, <2>0, Writes DEF ResumeFails, i
  <2>2. proc' \in [Procs -> Control] BY <1>0, <1>7, <1>a, ControlType DEF ResumeFails, i
  <2> QED BY <1>7, <2>1, <2>2, Constants DEF ResumeFails, Resumed, TypeOK, Evolution
<1>8. CASE Create(p)
  <2>0. rows[i].state # "absent" BY <1>8, <1>b DEF Create, Acquiring
  <2>1. Evolution BY <1>8, <1>a, <2>0, Writes DEF Create, i
  <2>2. proc' \in [Procs -> Control] BY <1>0, <1>8, Constants, ControlType DEF Create
  <2>3. pods' \in [PodIds -> {"none", "pending", "running", "stopped"}] BY <1>8, AppliedType DEF Create
  <2> QED BY <1>8, <2>1, <2>2, <2>3 DEF Create, TypeOK, Evolution
<1>9. CASE CreateRejected(p)
  <2>0. rows[i].state # "absent" BY <1>9, <1>b DEF CreateRejected, Acquiring
  <2>1. Evolution BY <1>9, <1>a, <2>0, Writes DEF CreateRejected, i
  <2>2. proc' \in [Procs -> Control] /\ session' \in {0, session} BY <1>9, Returns DEF CreateRejected
  <2>3. PICK outcome \in Outcomes(CreatePod) : Applied(p, outcome[1], "running")
    BY <1>9 DEF CreateRejected
  <2>4. pods' \in [PodIds -> {"none", "pending", "running", "stopped"}]
    BY <2>3, AppliedType, OutcomeType
  <2> QED BY <1>9, <2>1, <2>2, <2>4 DEF CreateRejected, TypeOK, Evolution
<1>10. CASE CreateAmbiguous(p)
  <2>0. rows[i].state # "absent" BY <1>10, <1>b DEF CreateAmbiguous, Acquiring
  <2>1. Evolution BY <1>10, <1>a, <2>0, Writes DEF CreateAmbiguous, i
  <2>2. proc' \in [Procs -> Control] BY <1>0, <1>10, Constants, ControlType DEF CreateAmbiguous
  <2>3. PICK outcome \in Outcomes(CreatePod) :
               \E landing \in {"pending", "running"} : Applied(p, outcome[1], landing)
    BY <1>10 DEF CreateAmbiguous
  <2>4. pods' \in [PodIds -> {"none", "pending", "running", "stopped"}]
    BY <2>3, AppliedType, OutcomeType
  <2> QED BY <1>10, <2>1, <2>2, <2>4 DEF CreateAmbiguous, TypeOK, Evolution
<1>11. CASE CreateCancelled(p)
  <2>1. Evolution BY <1>11, <1>a, RowOps DEF CreateCancelled, Evolution, TypeOK
  <2>2. proc' \in [Procs -> Control] BY <1>0, <1>11, <1>a, ControlType DEF CreateCancelled, i
  <2>3. pods' \in [PodIds -> {"none", "pending", "running", "stopped"}]
    BY <1>11, AppliedType DEF CreateCancelled
  <2> QED BY <1>11, <2>1, <2>2, <2>3 DEF CreateCancelled, TypeOK, Evolution
<1>12. CASE Ready(p)
  <2>0. rows[i].state # "absent" BY <1>12, <1>b DEF Ready, Acquiring
  <2>1. Evolution BY <1>12, <1>a, <2>0, Writes DEF Ready, i
  <2>2. proc' \in [Procs -> Control] BY <1>0, <1>12, Constants, ControlType DEF Ready
  <2> QED BY <1>12, <1>a, <2>1, <2>2 DEF Ready, TypeOK, Evolution, i
<1>13. CASE NotReady(p)
  <2>0. rows[i].state # "absent" BY <1>13, <1>b DEF NotReady, Acquiring
  <2>1. Evolution BY <1>13, <1>a, <2>0, Writes DEF NotReady, i
  <2>2. proc' \in [Procs -> Control] BY <1>0, <1>13, <1>a, ControlType DEF NotReady, i
  <2> QED BY <1>13, <2>1, <2>2 DEF NotReady, TypeOK, Evolution
<1> QED BY <1>1, <1>2, <1>3, <1>4, <1>5, <1>6, <1>7, <1>8, <1>9, <1>10, <1>11, <1>12, <1>13,
           <1>14

\* The calls of a host that holds a session.
LEMMA JobStep ==
    ASSUME TypeOK, KnownInv, NEW p \in Hosts,
           \/ Submit(p) \/ PostTrain(p) \/ PostTrainFails(p) \/ Recover(p)
           \/ Poll(p) \/ Download(p) \/ Downloaded(p)
           \/ CancelJob(p) \/ Cancelling(p) \/ Touch(p) \/ Release(p)
    PROVE  TypeOK' /\ Evolution
<1> p \in Procs BY Constants
<1> USE DEF history
<1>0. /\ \A l \in {"post", "recover", "polled", "downloaded", "cancelling"} :
            l \in Labels /\ l \in Working
      /\ {} \in SUBSET {"acquire", "family", "drop", "pass"}
      /\ {"drop"} \in SUBSET {"acquire", "family", "drop", "pass"}
  BY DEF Labels, Working
<1> DEFINE i == proc[p].at
<1>a. i \in Attempts /\ Mine(p) = rows[i] BY Place DEF Mine
<1>b. ASSUME proc[p].pc \in {"post", "recover", "polled", "downloaded", "cancelling"}
      PROVE  rows[i].state # "absent"
  BY <1>b, <1>0, HasRow DEF Mine
<1>c. session # 0 => session \in Attempts /\ rows[session].state # "absent"
  BY DEF TypeOK, KnownInv
<1>d. ASSUME rows' = rows PROVE Evolution BY <1>d, RowOps DEF Evolution, TypeOK
<1>e. \A k \in Attempts : PodOf(k) \in PodIds BY Place
<1> HIDE DEF i
<1>1. CASE Submit(p)
  <2>1. Evolution BY <1>1, <1>c, Writes DEF Submit
  <2>2. proc' \in [Procs -> Control] BY <1>0, <1>1, <1>c, ControlType DEF Submit
  <2> QED BY <1>1, <2>1, <2>2 DEF Submit, TypeOK, Evolution
<1>2. ASSUME RecordJob(p), rows[i].state # "absent" PROVE proc' \in [Procs -> Control] /\ Evolution
  <2>1. proc' \in [Procs -> Control] BY <1>0, <1>2, <1>a, ControlType DEF RecordJob
  <2>2. Evolution BY <1>2, <1>a, Writes DEF RecordJob, i
  <2> QED BY <2>1, <2>2
<1>3. CASE PostTrain(p)
  <2>0. rows[i].state # "absent" BY <1>3, <1>b DEF PostTrain, At
  <2>1. proc' \in [Procs -> Control] BY <1>0, <1>2, <1>3, <1>a, <2>0, ControlType DEF PostTrain
  <2>2. Evolution BY <1>2, <1>3, <1>d, <2>0 DEF PostTrain
  <2>3. PodOf(proc[p].at) \in PodIds BY <1>a, <1>e DEF i
  <2> QED BY <1>3, <2>1, <2>2, <2>3 DEF PostTrain, TypeOK, Evolution
<1>4. CASE PostTrainFails(p)
  <2>0. rows[i].state # "absent" BY <1>4, <1>b DEF PostTrainFails, At
  <2>1. proc' \in [Procs -> Control] BY <1>0, <1>4, <1>a, ControlType DEF PostTrainFails, i
  <2>2. Evolution BY <1>4, <1>a, <2>0, Writes DEF PostTrainFails, i
  <2> QED BY <1>4, <2>1, <2>2 DEF PostTrainFails, TypeOK, Evolution
<1>5. CASE Recover(p)
  <2>0. rows[i].state # "absent" BY <1>5, <1>b DEF Recover, At
  <2>1. proc' \in [Procs -> Control] BY <1>0, <1>2, <1>5, <1>a, <2>0, ControlType DEF Recover, i
  <2>2. CASE RecordJob(p) BY <1>2, <1>5, <2>0, <2>1, <2>2 DEF Recover, TypeOK, Evolution
  <2>3. CASE rows' = Transition(proc[p].at, Beat(Mine(p)))
    <3>1. Evolution BY <2>3, <1>a, <2>0, Writes DEF i
    <3> QED BY <1>5, <2>1, <3>1 DEF Recover, TypeOK, Evolution
  <2> QED BY <1>5, <2>2, <2>3 DEF Recover
<1>6. CASE Poll(p)
  <2>0. session \in Attempts /\ rows[session].state # "absent" BY <1>6, <1>c DEF Poll
  <2>1. jobs[PodOf(session)] \in {"none", "running", "completed", "failed"}
    BY <2>0, <1>e DEF TypeOK
  <2>2. proc' \in [Procs -> Control] BY <1>0, <1>6, <2>0, <2>1 DEF Poll, Control, TypeOK
  <2>3. Evolution BY <1>6, <2>0, Writes DEF Poll
  <2> QED BY <1>6, <2>2, <2>3 DEF Poll, TypeOK, Evolution
<1>7. CASE Download(p)
  <2>1. proc' \in [Procs -> Control] BY <1>0, <1>7, <1>c, ControlType DEF Download
  <2>2. Evolution BY <1>7, <1>c, Writes DEF Download
  <2> QED BY <1>7, <2>1, <2>2 DEF Download, TypeOK, Evolution
<1>8. CASE Downloaded(p)
  <2>0. rows[i].state # "absent" BY <1>8, <1>b DEF Downloaded, At
  <2>1. proc' \in [Procs -> Control] BY <1>0, <1>8, <1>a, ControlType DEF Downloaded
  <2>2. Evolution BY <1>8, <1>a, <2>0, Writes DEF Downloaded, i
  <2> QED BY <1>8, <2>1, <2>2 DEF Downloaded, TypeOK, Evolution
<1>9. CASE CancelJob(p)
  <2>1. proc' \in [Procs -> Control] BY <1>0, <1>9, <1>c, ControlType DEF CancelJob
  <2>2. Evolution BY <1>9, <1>c, Writes DEF CancelJob
  <2> QED BY <1>9, <2>1, <2>2 DEF CancelJob, TypeOK, Evolution
<1>10. CASE Cancelling(p)
  <2>1. proc' \in [Procs -> Control] BY <1>0, <1>10, <1>a, ControlType DEF Cancelling, i
  <2>2. PodOf(proc[p].at) \in PodIds BY <1>a, <1>e DEF i
  <2> QED BY <1>10, <1>d, <2>1, <2>2 DEF Cancelling, TypeOK
<1>11. CASE Touch(p)
  <2>1. Evolution BY <1>11, <1>c, Writes DEF Touch
  <2> QED BY <1>11, <2>1 DEF Touch, TypeOK, Evolution
<1>12. CASE Release(p)
  <2>1. proc' \in [Procs -> Control] BY <1>0, <1>12, ControlType DEF Release
  <2> QED BY <1>12, <1>d, <2>1 DEF Release, TypeOK
<1> QED BY <1>1, <1>3, <1>4, <1>5, <1>6, <1>7, <1>8, <1>9, <1>10, <1>11, <1>12

\* The subroutines of a release, but for the flags of the family.
LEMMA ReleaseStep ==
    ASSUME TypeOK, KnownInv, NEW p \in Procs,
           \/ ReleaseOne(p) \/ Void(p) \/ FindByName(p) \/ FindByNameFails(p)
           \/ ResolveCreation(p) \/ StopConfirmed(p) \/ StopFails(p) \/ Polled(p)
    PROVE  TypeOK' /\ Evolution
<1> USE DEF history
<1>0. /\ \A l \in {"release", "void", "found", "stop", "polled"} : l \in Labels /\ l \in Working
      /\ {} \in SUBSET {"acquire", "family", "drop", "pass"}
  BY DEF Labels, Working
<1> DEFINE i == proc[p].at
<1>a. i \in Attempts /\ Mine(p) = rows[i] /\ rows[i] \in Row BY Place DEF Mine
<1>b. rows[i].state # "absent" BY <1>0, HasRow DEF Mine, ReleaseOne, Void, FindByName, FindByNameFails,
        ResolveCreation, StopConfirmed, StopFails, Polled, At
<1>d. ASSUME rows' = rows PROVE Evolution BY <1>d, RowOps DEF Evolution, TypeOK
<1>e. PodOf(i) \in PodIds BY Place
<1>f. ASSUME Voids(p)
      PROVE  /\ rows' = Transition(i, Released(rows[i])) /\ Return(p, TRUE)
             /\ gaveUp' \subseteq gaveUp \cup {i}
  BY <1>f, <1>a DEF Voids, EndsRow
<1> HIDE DEF i
<1>1. CASE ReleaseOne(p)
  <2>1. /\ rows' \in {rows, Transition(i, Released(rows[i])), Transition(i, Releasing(rows[i]))}
        /\ Return(p, TRUE) \/ ((Goto(p, "stop") \/ Goto(p, "void")) /\ UNCHANGED session)
        /\ gaveUp' \subseteq gaveUp \cup {i}
        /\ grounds' \subseteq grounds \cup {"unobserved"}
    BY <1>1, <1>a, <1>f DEF ReleaseOne, i
  <2>2. Evolution BY <1>a, <1>b, <2>1, Writes
  <2>3. proc' \in [Procs -> Control] /\ session' \in {0, session}
    BY <1>0, <2>1, Returns, ControlType, Constants
  <2> QED BY <1>1, <1>a, <2>1, <2>2, <2>3 DEF ReleaseOne, TypeOK, Evolution
<1>8. CASE Void(p)
  <2>1. Evolution BY <1>8, <1>a, <1>b, <1>f, Writes DEF Void
  <2>2. proc' \in [Procs -> Control] /\ session' \in {0, session} BY <1>8, <1>f, Returns DEF Void
  <2> QED BY <1>8, <1>a, <1>f, <2>1, <2>2 DEF Void, TypeOK, Evolution
<1>2. CASE FindByName(p)
  <2>1. proc' \in [Procs -> Control]
    <3> DEFINE saw == IF pods[proc[p].at] \in {"running", "stopped"} THEN "found" ELSE "none"
    <3>1. proc[p] \in Control BY DEF TypeOK
    <3>2. [proc[p] EXCEPT !.pc = "found", !.saw = saw] \in Control BY <1>0, <3>1 DEF Control
    <3>3. proc' = [proc EXCEPT ![p] = [proc[p] EXCEPT !.pc = "found", !.saw = saw]]
      BY <1>2 DEF FindByName, TypeOK
    <3> HIDE DEF saw
    <3> QED BY <3>2, <3>3 DEF TypeOK
  <2> QED BY <1>2, <1>d, <2>1 DEF FindByName, TypeOK
<1>3. CASE FindByNameFails(p)
  <2>1. Evolution BY <1>3, <1>a, <1>b, Writes DEF FindByNameFails, i
  <2>2. proc' \in [Procs -> Control] /\ session' \in {0, session} BY <1>3, Returns DEF FindByNameFails
  <2> QED BY <1>3, <2>1, <2>2 DEF FindByNameFails, TypeOK, Evolution
<1>4. CASE ResolveCreation(p)
  <2>1. rows[i].state # "released" => Evolves(rows[i], Resolved(rows[i], proc[p].saw))
    BY <1>a, <1>b, AnswerOps
  <2> DEFINE r == Resolved(rows[i], proc[p].saw)
  <2>0. /\ rows' = Transition(i, r) /\ gaveUp' \subseteq gaveUp \cup {i}
        /\ \/ Jump(p, "release", i, proc[p].ret) /\ UNCHANGED session
           \/ \E ok \in BOOLEAN : Return(p, ok)
    BY <1>4, <1>a DEF ResolveCreation, EndsRow, IsTerminal, i
  <2> HIDE DEF r
  <2>2. Evolution BY <1>a, <2>0, <2>1, OneWrite DEF r
  <2>4. proc[p].ret \in SUBSET {"acquire", "family", "drop", "pass"} BY Place
  <2>3. proc' \in [Procs -> Control] /\ session' \in {0, session}
    BY <1>0, <1>a, <2>0, <2>4, Returns, ControlType
  <2> QED BY <1>4, <1>a, <2>0, <2>2, <2>3 DEF ResolveCreation, TypeOK, Evolution
<1>5. CASE StopConfirmed(p)
  <2>1. Evolution BY <1>5, <1>a, <1>b, Writes DEF StopConfirmed, i
  <2>2. proc' \in [Procs -> Control] /\ session' \in {0, session} BY <1>5, Returns DEF StopConfirmed
  <2> QED BY <1>5, <1>e, <2>1, <2>2 DEF StopConfirmed, Stops, TypeOK, Evolution, i
<1>6. CASE StopFails(p)
  <2>1. Evolution BY <1>6, <1>a, <1>b, Writes DEF StopFails, i
  <2>2. proc' \in [Procs -> Control] /\ session' \in {0, session}
    BY <1>6, Returns DEF StopFails, IsTerminal
  <2> QED BY <1>6, <1>e, <2>1, <2>2 DEF StopFails, Stops, TypeOK, Evolution, i
<1>7. CASE Polled(p)
  <2>1. rows[i].state # "released" => Evolves(rows[i], WithStatus(rows[i], proc[p].saw))
    BY <1>a, <1>b, AnswerOps
  <2>2. Evolution BY <1>7, <1>a, <2>1, OneWrite DEF Polled, i
  <2>3. proc' \in [Procs -> Control] BY <1>0, <1>7, <1>a, ControlType DEF Polled, i
  <2> QED BY <1>7, <2>2, <2>3 DEF Polled, TypeOK, Evolution
<1> QED BY <1>1, <1>2, <1>3, <1>4, <1>5, <1>6, <1>7, <1>8

\* The passes of a reconciler.
LEMMA ReconcileStep ==
    ASSUME TypeOK, KnownInv, NEW p \in Reconcilers, ReconcilerStep(p)
    PROVE  TypeOK' /\ Evolution
<1> p \in Procs BY Constants
<1> USE DEF history
<1>0. /\ \A l \in {"release", "family", "reap", "observed", "polled"} :
            l \in Labels /\ l \in Working
      /\ \A ret \in {{}, {"pass"}} : ret \in SUBSET {"acquire", "family", "drop", "pass"}
  BY DEF Labels, Working
<1>d. ASSUME rows' = rows PROVE Evolution BY <1>d, RowOps DEF Evolution, TypeOK
<1>1. CASE ReconcileFamily(p)
  <2>1. proc' \in [Procs -> Control] BY <1>0, <1>1, Constants, ControlType DEF ReconcileFamily
  <2> QED BY <1>1, <1>d, <2>1 DEF ReconcileFamily, TypeOK
<1>2. CASE PassEnds(p)
  <2>1. proc' \in [Procs -> Control] BY <1>0, <1>2, Constants, ControlType DEF PassEnds
  <2> QED BY <1>2, <1>d, <2>1 DEF PassEnds, TypeOK
<1>3. CASE ReconcileStopped(p)
  <2>1. proc' \in [Procs -> Control] BY <1>0, <1>3, Constants, ControlType DEF ReconcileStopped
  <2>2. Mine(p).state # "absent" /\ proc[p].at \in Attempts BY <1>0, <1>3, HasRow DEF ReconcileStopped, At
  <2>3. Evolution BY <1>3, <2>2, Writes DEF ReconcileStopped, Mine
  <2> QED BY <1>3, <2>1, <2>3 DEF ReconcileStopped, TypeOK, Evolution
<1>4. ASSUME NEW i \in Attempts, ReapRequested(p, i) PROVE TypeOK' /\ Evolution
  <2>1. proc' \in [Procs -> Control] BY <1>0, <1>4, ControlType DEF ReapRequested
  <2> QED BY <1>4, <1>d, <2>1 DEF ReapRequested, TypeOK
<1>5. ASSUME NEW i \in Attempts, ReconcileRelease(p, i) PROVE TypeOK' /\ Evolution
  <2>1. proc' \in [Procs -> Control] BY <1>0, <1>5, ControlType DEF ReconcileRelease
  <2> QED BY <1>5, <1>d, <2>1 DEF ReconcileRelease, TypeOK
<1>6. ASSUME NEW i \in Attempts, ReconcileJob(p, i) PROVE TypeOK' /\ Evolution
  <2>1. jobs[PodOf(i)] \in {"none", "running", "completed", "failed"} BY Place
  <2>2. proc' \in [Procs -> Control]
    <3>1. CASE End(p) BY <3>1, <1>0, Constants, ControlType
    <3>2. CASE ~End(p) BY <1>0, <1>6, <2>1, <3>2 DEF ReconcileJob, Control, TypeOK
    <3> QED BY <3>1, <3>2
  <2>3. Evolution BY <1>6, Writes DEF ReconcileJob
  <2> QED BY <1>6, <2>2, <2>3 DEF ReconcileJob, TypeOK, Evolution
<1>7. ASSUME NEW i \in Attempts, ReconcileObserve(p, i) PROVE TypeOK' /\ Evolution
  <2>1. proc' \in [Procs -> Control] BY <1>0, <1>7, ControlType DEF ReconcileObserve
  <2> QED BY <1>7, <1>d, <2>1 DEF ReconcileObserve, TypeOK
<1>8. CASE Reap(p)
  <2>1. proc' \in [Procs -> Control] BY <1>0, <1>8, Constants, ControlType DEF Reap
  <2>2. Mine(p).state # "absent" /\ proc[p].at \in Attempts BY <1>0, <1>8, HasRow DEF Reap, At
  <2>3. /\ gaveUp' \subseteq gaveUp \cup {proc[p].at}
        /\ rows' = Transition(proc[p].at, IF Mine(p).source = "existing" THEN Unowned(Mine(p))
                                          ELSE Released(Mine(p)))
    BY <1>8 DEF Reap, EndsRow
  <2>4. Evolution BY <2>2, <2>3, Writes DEF Mine
  <2> QED BY <1>8, <2>1, <2>2, <2>3, <2>4 DEF Reap, TypeOK, Evolution
<1> QED BY <1>1, <1>2, <1>3, <1>4, <1>5, <1>6, <1>7, <1>8 DEF ReconcilerStep

\* What happens around the service.
LEMMA EnvironmentStep ==
    ASSUME TypeOK, KnownInv, Environment
    PROVE  TypeOK' /\ Evolution
<1> USE DEF history
<1>0. \A i \in Attempts : i \in PodIds BY Constants
<1>d. ASSUME rows' = rows PROVE Evolution BY <1>d, RowOps DEF Evolution, TypeOK
<1>e. \A i \in Attempts : PodOf(i) \in PodIds BY Constants DEF PodOf, TypeOK
<1>1. ASSUME NEW i \in Attempts, GoesStale(i) PROVE TypeOK' /\ Evolution
  <2>1. Evolves(rows[i], [rows[i] EXCEPT !.hb = "stale"]) BY RowOps DEF TypeOK
  <2>2. Evolution BY <1>1, <2>1, OneWrite DEF GoesStale
  <2> QED BY <1>1, <2>2 DEF GoesStale, TypeOK, Evolution
<1>2. ASSUME NEW i \in Attempts, DeadlinePasses(i) PROVE TypeOK' /\ Evolution
  <2>1. Evolves(rows[i], [rows[i] EXCEPT !.age = @ + 1]) BY <1>2, RowOps DEF DeadlinePasses, TypeOK
  <2>2. Evolution BY <1>2, <2>1, OneWrite DEF DeadlinePasses
  <2> QED BY <1>2, <2>2 DEF DeadlinePasses, TypeOK, Evolution
<1>3. ASSUME NEW i \in Attempts, CreateLands(i) PROVE TypeOK' /\ Evolution
  BY <1>0, <1>3, <1>d DEF CreateLands, TypeOK
<1>4. ASSUME NEW k \in PodIds, TrainerEnds(k) PROVE TypeOK' /\ Evolution
  BY <1>4, <1>d DEF TrainerEnds, TypeOK
<1>5. ASSUME NEW p \in Hosts, CreateArrives(p) PROVE TypeOK' /\ Evolution
  <2>1. pods' \in [PodIds -> {"none", "pending", "running", "stopped"}]
    BY <1>5, AppliedType, Constants DEF CreateArrives
  <2> QED BY <1>5, <1>d, <2>1 DEF CreateArrives, TypeOK
<1>6. CASE OthersUse BY <1>6, <1>d, Constants DEF OthersUse, Stops, TypeOK
<1>7. CASE Crash
  <2>1. Idle \in Control BY Constants DEF Idle, Control, Labels
  <2>2. proc' \in [Procs -> Control] BY <1>7, <2>1 DEF Crash, TypeOK
  <2>3. /\ pods' \in [PodIds -> {"none", "pending", "running", "stopped"}]
        /\ starter' \in {"others", "lease"}
        /\ jobs' \in [PodIds -> {"none", "running", "completed", "failed"}]
    <3>1. ASSUME NEW p \in Hosts, Applied(p, TRUE, "pending"), UNCHANGED <<starter, jobs>>
          PROVE  <2>3!:
      BY <3>1, AppliedType, Constants DEF TypeOK
    <3>2. ASSUME Resumed, UNCHANGED jobs PROVE <2>3!:
      BY <3>2, Constants DEF Resumed, TypeOK
    <3>3. ASSUME NEW p \in Hosts, Stops(PodOf(proc[p].at)), UNCHANGED starter PROVE <2>3!:
      <4>1. PodOf(proc[p].at) \in PodIds BY Place, Constants
      <4> QED BY <3>3, <4>1 DEF Stops, TypeOK
    <3>4. ASSUME UNCHANGED <<pods, starter, jobs>> PROVE <2>3!: BY <3>4 DEF TypeOK
    <3> QED BY <1>7, <3>1, <3>2, <3>3, <3>4 DEF Crash
  <2> QED BY <1>7, <1>d, <2>2, <2>3 DEF Crash, TypeOK
<1> QED BY <1>1, <1>2, <1>3, <1>4, <1>5, <1>6, <1>7 DEF Environment

\* The insertion of a row: it was not there, and no attempt is unfinished.
Inserted(p) ==
    /\ proc[p].at \in Attempts
    /\ rows[proc[p].at].state = "absent"
    /\ \A j \in Attempts : ~Unfinished(j)
    /\ proc[p].at # Root => rows[Root].state # "absent" /\ ~rows[Root].famReq
    /\ \E source \in {"created", "existing"} :
          /\ source = "existing" => proc[p].at = Root
          /\ rows' = [rows EXCEPT ![proc[p].at] = Reserved(source)]
    /\ proc' = [proc EXCEPT ![p] =
                  [pc |-> "begin", at |-> proc[p].at, ret |-> {"acquire"}, saw |-> "none"]]

LEMMA ReserveStep ==
    ASSUME TypeOK, NEW p \in Hosts, Reserve(p)
    PROVE  TypeOK' /\ (Inserted(p) \/ (rows' = rows /\ Evolution /\ End(p)))
<1> p \in Procs BY Constants
<1> USE DEF history
<1>0. {"acquire"} \in SUBSET {"acquire", "family", "drop", "pass"} /\ "begin" \in Labels
  BY DEF Labels
<1>1. proc[p].at \in Attempts BY Place
<1>2. proc' \in [Procs -> Control] BY <1>0, <1>1, ControlType DEF Reserve
<1>3. PICK source \in {"created", "existing"} :
        /\ source = "existing" <=> proc[p].at = Root /\ pods[Shared] # "none"
        /\ LET i == proc[p].at
               inserts == session = 0 /\ rows[i].state = "absent" /\ Reservable(i, source)
           IN  /\ rows' = IF inserts THEN Write(i, Reserved(source)) ELSE rows
               /\ IF inserts THEN Jump(p, "begin", i, {"acquire"}) ELSE End(p)
  BY DEF Reserve
<1>4. source = "existing" => proc[p].at = Root BY <1>3
<1>5. CASE rows[proc[p].at].state = "absent" /\ session = 0 /\ Reservable(proc[p].at, source)
  <2>1. rows' \in [Attempts -> Row] BY <1>1, <1>3, <1>4, <1>5, InsertTypes DEF Write, TypeOK
  <2>2. Inserted(p)
    <3>1. rows' = [rows EXCEPT ![proc[p].at] = Reserved(source)] BY <1>3, <1>5 DEF Write
    <3>2. proc' = [proc EXCEPT ![p] =
                  [pc |-> "begin", at |-> proc[p].at, ret |-> {"acquire"}, saw |-> "none"]]
      BY <1>3, <1>5 DEF Jump
    <3> QED BY <1>1, <1>4, <1>5, <3>1, <3>2 DEF Inserted, Reservable
  <2> QED BY <1>2, <2>1, <2>2 DEF Reserve, TypeOK
<1>6. CASE ~(rows[proc[p].at].state = "absent" /\ session = 0 /\ Reservable(proc[p].at, source))
  <2>1. rows' = rows /\ End(p) BY <1>3, <1>6
  <2>2. Evolution BY <2>1, RowOps DEF Evolution, TypeOK
  <2> QED BY <1>2, <2>1, <2>2 DEF Reserve, TypeOK
<1> QED BY <1>5, <1>6

\* The flags of the family are written, and nothing else of the rows.
Flagged ==
    /\ rows' \in [Attempts -> Row]
    /\ \A i \in Attempts \ {Root} : rows'[i] = rows[i]
    /\ LET r == rows[Root]  s == rows'[Root] IN
       /\ s.state = r.state /\ s.own = r.own /\ s.source = r.source /\ s.uncertain = r.uncertain
       /\ s.pid = r.pid /\ s.age = r.age
       /\ r.famReq => s.famReq

LEMMA FamilyStep ==
    ASSUME TypeOK, KnownInv, NEW p \in Procs, ReleaseFamily(p) \/ FamilyReleased(p)
    PROVE  /\ TypeOK' /\ Flagged
           /\ ReleaseFamily(p) => rows'[Root].famReq /\ (rows'[Root].famDone => rows[Root].famDone)
           /\ FamilyReleased(p) => rows'[Root].famReq = rows[Root].famReq
<1> USE DEF history
<1>0. /\ \A l \in {"release", "close"} : l \in Labels
      /\ proc[p].ret \cup {"family"} \in SUBSET {"acquire", "family", "drop", "pass"}
  BY Place DEF Labels
<1>1. rows[Root] \in Row BY Constants DEF TypeOK
<1>2. FamilyRequested(rows[Root]) \in Row /\ FamilyComplete(rows[Root]) \in Row BY <1>1, RowTypes
<1>3. CASE ReleaseFamily(p)
  <2>1. rows' = [rows EXCEPT ![Root] = FamilyRequested(rows[Root])] BY <1>3 DEF ReleaseFamily, Write
  <2>2. rows' \in [Attempts -> Row] BY <1>2, <2>1, Constants DEF TypeOK
  <2>3. rows'[Root] = FamilyRequested(rows[Root]) /\ \A i \in Attempts \ {Root} : rows'[i] = rows[i]
    BY <2>1, Constants DEF TypeOK
  <2>4. Flagged /\ rows'[Root].famReq /\ (rows'[Root].famDone => rows[Root].famDone)
    BY <1>1, <2>2, <2>3 DEF Flagged, FamilyRequested, Beat, Row
  <2>5. proc' \in [Procs -> Control]
    BY <1>0, <1>3, ControlType, Constants DEF ReleaseFamily
  <2>6. ReleaseFamily(p) /\ ~FamilyReleased(p) BY <1>3 DEF ReleaseFamily, FamilyReleased, At
  <2> QED BY <1>3, <2>2, <2>4, <2>5, <2>6 DEF ReleaseFamily, TypeOK
<1>4. CASE FamilyReleased(p)
  <2>1. rows' = [rows EXCEPT ![Root] = FamilyComplete(rows[Root])] BY <1>4 DEF FamilyReleased, Write
  <2>2. rows' \in [Attempts -> Row] BY <1>2, <2>1, Constants DEF TypeOK
  <2>3. rows'[Root] = FamilyComplete(rows[Root]) /\ \A i \in Attempts \ {Root} : rows'[i] = rows[i]
    BY <2>1, Constants DEF TypeOK
  <2>4. Flagged /\ rows'[Root].famReq = rows[Root].famReq
    BY <1>1, <2>2, <2>3 DEF Flagged, FamilyComplete, Beat, Row
  <2>5. proc' \in [Procs -> Control] /\ session' \in {0, session}
    BY <1>4, Returns DEF FamilyReleased
  <2>6. ~ReleaseFamily(p) BY <1>4 DEF ReleaseFamily, FamilyReleased, At
  <2> QED BY <1>4, <2>2, <2>4, <2>5, <2>6 DEF FamilyReleased, TypeOK
<1> QED BY <1>3, <1>4

-----------------------------------------------------------------------------
(* The places of the processes, and the closed family. *)

SafeAt(p) == KnownAt(p) /\ FamilyAt(p)

\* A process keeps its place, or is at a safe one.
Moves == \A q \in Procs :
    \/ proc'[q] = proc[q]
    \/ SafeAt(q)' /\ (proc'[q].pc \in Acquiring => proc[q].pc \in Acquiring)

\* A step that lets the rows evolve and moves processes to safe places keeps
\* both invariants.
LEMMA Kept ==
    ASSUME TypeOK, TypeOK', KnownInv, FamilyInv, Evolution, Moves,
           session' \in {0, session} \/
             (session' \in Attempts /\ rows[session'].state \notin {"absent", "requested"})
    PROVE  KnownInv' /\ FamilyInv'
<1>1. \A i \in Attempts : Evolves(rows[i], rows'[i]) BY DEF Evolution
<1>2. \A i \in Attempts : Unfinished(i)' => Unfinished(i) BY <1>1 DEF Unfinished, Evolves
<1>3. \A q \in Procs : proc[q].at \in Attempts BY Place
<1>4. \A q \in Procs : SafeAt(q) BY DEF KnownInv, FamilyInv, SafeAt
<1>5. ASSUME NEW q \in Procs, proc'[q] = proc[q] PROVE KnownAt(q)'
  <2>1. Evolves(rows[proc[q].at], rows'[proc[q].at]) BY <1>1, <1>3
  <2> QED BY <1>4, <1>5, <2>1 DEF SafeAt, KnownAt, Started, Evolves
<1>6. ASSUME NEW q \in Procs, proc'[q] = proc[q] PROVE FamilyAt(q)'
  <2>1. Evolves(rows[Root], rows'[Root]) BY <1>1, Constants
  <2> QED BY <1>2, <1>4, <1>6, <2>1 DEF SafeAt, FamilyAt, Evolves
<1>7. \A q \in Procs : KnownAt(q)' /\ FamilyAt(q)' BY <1>5, <1>6 DEF Moves, SafeAt
<1>8. KnownInv'
  <2>1. Root \in Attempts BY Constants
  <2>2. session' # 0 => rows'[session'].state \notin {"absent", "requested"}
    BY <1>1 DEF KnownInv, Evolves, TypeOK
  <2>3. /\ rows'[Root].famReq => rows'[Root].state # "absent"
        /\ rows'[Root].famDone => rows'[Root].famReq
    BY <1>1, <2>1 DEF KnownInv, Evolves
  <2>4. \A i \in Attempts :
          /\ rows'[i].source = "existing" => i = Root /\ rows'[i].pid
          /\ rows'[i].own = "preexisting_running" => rows'[i].source = "existing"
    BY <1>1 DEF KnownInv, Evolves
  <2>5. \A q \in Procs : proc'[q].pc \in Acquiring => proc[q].pc \in Acquiring BY DEF Moves
  <2> QED BY <1>7, <2>2, <2>3, <2>4, <2>5 DEF KnownInv
<1>9. FamilyInv'
  <2>1. Root \in Attempts BY Constants
  <2>2. FamilyClosed' BY <1>1, <1>2, <2>1 DEF FamilyInv, FamilyClosed, Evolves
  <2> QED BY <1>2, <1>7, <2>2 DEF FamilyInv
<1> QED BY <1>8, <1>9

\* One process moves.
LEMMA OneMoves ==
    ASSUME TypeOK, NEW p \in Procs, \A q \in Procs \ {p} : proc'[q] = proc[q],
           SafeAt(p)', proc'[p].pc \in Acquiring => proc[p].pc \in Acquiring
    PROVE  Moves
BY DEF Moves

\* The end of an operation is a safe place, and so are the labels of callers,
LEMMA EndSafe ==
    ASSUME TypeOK, NEW p \in Procs, End(p)
    PROVE  Moves
<1>1. proc'[p] = Idle /\ \A q \in Procs \ {p} : proc'[q] = proc[q] BY DEF End, TypeOK
<1>2. proc'[p].pc = "idle" /\ proc'[p].ret = {} BY <1>1 DEF Idle
<1>3. SafeAt(p)' BY <1>2 DEF SafeAt, KnownAt, Started, FamilyAt, Working, Acquiring
<1> QED BY <1>1, <1>2, <1>3 DEF Moves, Acquiring

\* what a caller goes on with when the attempt it released is closed,
LEMMA ReturnSafe ==
    ASSUME TypeOK, KnownInv, FamilyInv, Evolution, NEW p \in Procs, NEW ok \in BOOLEAN,
           Return(p, ok), ok => rows'[proc[p].at].state = "released"
    PROVE  Moves
<1>1. \A q \in Procs \ {p} : proc'[q] = proc[q] BY Returns
<1>2. /\ proc'[p].pc \in {"close", "admit", "row", "idle"}
      /\ proc'[p].pc = "close" => ok /\ "family" \in proc[p].ret /\ proc'[p].at = Root
      /\ "family" \notin proc'[p].ret
  BY Returns
<1>3. SafeAt(p)'
  <2>1. CASE proc'[p].pc \in {"admit", "row", "idle"}
    BY <1>2, <2>1 DEF SafeAt, KnownAt, Started, FamilyAt, Working, Acquiring
  <2>2. CASE proc'[p].pc = "close"
    <3>1. rows[Root].famReq /\ \A j \in Attempts \ {proc[p].at} : ~Unfinished(j)
      BY <1>2, <2>2 DEF FamilyInv, FamilyAt
    <3>2. \A j \in Attempts : Unfinished(j)' => Unfinished(j) BY DEF Evolution, Evolves, Unfinished
    <3>3. \A j \in Attempts : ~Unfinished(j)' BY <1>2, <2>2, <3>1, <3>2 DEF Unfinished
    <3>4. rows'[Root].famReq /\ rows'[Root].state # "absent"
      BY <3>1, Constants DEF KnownInv, Evolution, Evolves
    <3> QED BY <1>2, <2>2, <3>3, <3>4 DEF SafeAt, KnownAt, Started, FamilyAt, Acquiring
  <2> QED BY <1>2, <2>1, <2>2
<1>4. proc'[p].pc \notin Acquiring BY <1>2 DEF Acquiring
<1> QED BY <1>1, <1>3, <1>4 DEF Moves

\* and the release of an attempt that is not a mere reservation.
LEMMA ReleaseSafe ==
    ASSUME TypeOK, KnownInv, FamilyInv, Evolution, NEW p \in Procs,
           NEW i \in Attempts, NEW ret \in SUBSET {"acquire", "family", "drop", "pass"},
           "family" \notin ret, rows[i].state # "absent",
           \/ Jump(p, "release", i, ret) /\ rows'[i].state # "requested"
           \/ ServiceRelease(p, i, ret)
    PROVE  Moves
<1>1. \A q \in Procs \ {p} : proc'[q] = proc[q] BY DEF Jump, ServiceRelease, TypeOK
<1>2. /\ proc'[p].pc \in {"release", "family"} /\ proc'[p].at = i /\ proc'[p].ret = ret
      /\ proc'[p].pc = "family" => i = Root
      /\ proc'[p].pc = "release" /\ i = Root => rows'[i].state # "requested"
  BY DEF Jump, ServiceRelease, TypeOK
<1>3. rows'[i].state # "absent" BY DEF Evolution, Evolves
<1>4. SafeAt(p)' BY <1>2, <1>3 DEF SafeAt, KnownAt, Started, FamilyAt, Acquiring
<1> QED BY <1>1, <1>2, <1>4 DEF Moves, Acquiring

\* The label a process goes to keeps its attempt.
LEMMA GotoSafe ==
    ASSUME TypeOK, KnownInv, FamilyInv, Evolution, NEW p \in Procs, NEW label \in Labels,
           Goto(p, label) \/ Jump(p, label, proc[p].at, proc[p].ret), proc[p].pc \in Working,
           LET r == rows'[proc[p].at] IN
           /\ label \in Started \cup {"release"} => r.state # "requested"
           /\ label \in {"observe", "attach", "resume"} => r.source = "existing"
           /\ label = "create" => r.source = "created"
           /\ label = "stop" => r.pid
           /\ label \notin {"family", "close", "found"}
           /\ label \in Acquiring => proc[p].pc \in Acquiring
           /\ proc[p].pc \in {"release", "void", "found", "stop"} =>
                label \in {"release", "void", "stop"}
    PROVE  Moves
<1>1. /\ \A q \in Procs \ {p} : proc'[q] = proc[q]
      /\ proc'[p].pc = label /\ proc'[p].at = proc[p].at /\ proc'[p].ret = proc[p].ret
  BY DEF Goto, Jump, TypeOK, Control
<1>2. proc[p].at \in Attempts BY Place
<1>3. rows'[proc[p].at].state # "absent" BY <1>2 DEF KnownInv, KnownAt, Started, Evolution, Evolves
<1>4. p \in Hosts \/ proc[p].pc \notin Acquiring BY DEF KnownInv, KnownAt, Started
<1>5. KnownAt(p)' BY <1>1, <1>3, <1>4 DEF KnownAt, Started
<1>6. FamilyAt(p)'
  <2>1. \A j \in Attempts : Unfinished(j)' => Unfinished(j) BY DEF Evolution, Evolves, Unfinished
  <2>2. rows[Root].famReq => rows'[Root].famReq BY Constants DEF Evolution, Evolves
  <2>3. FamilyAt(p) BY DEF FamilyInv
  <2> QED BY <1>1, <2>1, <2>2, <2>3 DEF FamilyAt
<1> QED BY <1>1, <1>5, <1>6 DEF Moves, SafeAt

\* What a write leaves in its row.
LEMMA Written ==
    ASSUME TypeOK, NEW i \in Attempts, NEW new
    PROVE  /\ rows' = Write(i, new) => rows'[i] = new
           /\ rows' = Transition(i, new) => rows'[i] = IF IsTerminal(rows[i]) THEN rows[i] ELSE new
BY DEF TypeOK, Write, Transition

\* The states the writes of an operation leave.
LEMMA States ==
    ASSUME NEW r \in Row
    PROVE  /\ \A state \in LeaseStates : InState(r, state).state = state
           /\ CreateStarting(r).state = "starting" /\ Attached(r).state = "starting"
           /\ RetryableFailure(r).state = "reconcile_required"
           /\ StillUncertain(r).state = "reconcile_required"
           /\ Adopted(r).state = "reconcile_required"
           /\ Releasing(r).state = "releasing"
           /\ Released(r).state = "released" /\ ReleasedSurely(r).state = "released"
           /\ Beat(r).state = r.state /\ Owned(r).state = r.state /\ CreateAccepted(r).state = r.state
BY DEF Row, LeaseStates, Beat, InState, CreateStarting, Attached, RetryableFailure, StillUncertain,
       Adopted, Releasing, Released, ReleasedSurely, Owned, CreateAccepted

LEMMA ReleasedRows ==
    ASSUME NEW r \in Row, NEW s \in {Released(r), ReleasedSurely(r), Unowned(r)}
    PROVE  s.state = "released" /\ s.pid = r.pid /\ s.source = r.source
BY DEF Row, Released, ReleasedSurely, Unowned, InState, Beat

\* Acquisition, but for the insertion of the row,
LEMMA AcquireSafe ==
    ASSUME TypeOK, KnownInv, FamilyInv, NEW p \in Hosts,
           \/ StartTraining(p) \/ StartAgain(p) \/ Begin(p)
           \/ ObserveExisting(p) \/ Attach(p) \/ ObserveExistingFails(p)
           \/ Resume(p) \/ ResumeFails(p)
           \/ Create(p) \/ CreateRejected(p) \/ CreateAmbiguous(p) \/ CreateCancelled(p)
           \/ Ready(p) \/ NotReady(p)
    PROVE  KnownInv' /\ FamilyInv'
<1> p \in Procs BY Constants
<1> DEFINE i == proc[p].at
<1>0. TypeOK' /\ Evolution BY AcquireStep
<1>a. i \in Attempts /\ Mine(p) = rows[i] /\ rows[i] \in Row BY Place DEF Mine
<1>b. Evolves(rows[i], rows'[i]) BY <1>0, <1>a DEF Evolution
<1>c. KnownAt(p) BY DEF KnownInv
<1>d. /\ \A l \in Acquiring \cup {"release"} : l \in Labels /\ l \in Working
      /\ {} \in SUBSET {"acquire", "family", "drop", "pass"}
  BY DEF Labels, Acquiring, Working
<1>e. ASSUME Moves, session' \in {0, session} PROVE KnownInv' /\ FamilyInv' BY <1>0, <1>e, Kept
<1> HIDE DEF i
<1>1. CASE StartTraining(p)
  <2>1. /\ \A q \in Procs \ {p} : proc'[q] = proc[q]
        /\ proc'[p].pc = "admit" /\ proc'[p].ret = {}
    BY <1>1 DEF StartTraining, Jump, TypeOK
  <2>2. SafeAt(p)' BY <2>1 DEF SafeAt, KnownAt, Started, FamilyAt, Working, Acquiring
  <2> QED BY <1>1, <1>e, <2>1, <2>2 DEF Moves, Acquiring, StartTraining
<1>2. CASE StartAgain(p)
  <2>1. Moves /\ session' \in Attempts /\ rows[session'].state \notin {"absent", "requested"}
    BY <1>2 DEF StartAgain, Moves
  <2> QED BY <1>0, <2>1, Kept
<1>3. CASE Begin(p)
  <2>1. CASE End(p) BY <1>3, <1>e, <2>1, EndSafe DEF Begin
  <2>2. CASE Mine(p).source = "existing"
    <3>1. Goto(p, "observe") /\ At(p, "begin") BY <1>3, <2>2 DEF Begin
    <3>2. Moves BY <1>0, <1>a, <1>b, <1>d, <2>2, <3>1, GotoSafe DEF Evolves, Acquiring, At, i, Started
    <3> QED BY <1>3, <1>e, <3>2 DEF Begin
  <2>3. CASE Mine(p).source # "existing" /\ ~End(p)
    <3>1. Goto(p, "create") /\ At(p, "begin") /\ rows' = Write(i, CreateStarting(rows[i]))
      BY <1>3, <1>a, <2>3 DEF Begin, i
    <3>2. rows'[i].state = "starting" /\ rows'[i].source = "created"
      BY <1>a, <1>b, <2>3, <3>1, Written, States DEF Evolves, Row
    <3>3. Moves BY <1>0, <1>d, <3>1, <3>2, GotoSafe DEF Acquiring, At, i, Started
    <3> QED BY <1>3, <1>e, <3>3 DEF Begin
  <2> QED BY <2>1, <2>2, <2>3
<1>4. CASE ObserveExisting(p)
  <2>1. /\ \A q \in Procs \ {p} : proc'[q] = proc[q]
        /\ proc'[p].pc = "attach" /\ proc'[p].at = i /\ proc'[p].ret = proc[p].ret
        /\ proc[p].pc = "observe" /\ rows' = rows /\ session' = session
    BY <1>4 DEF ObserveExisting, At, TypeOK, Control, i
  <2>2. rows[i].state # "absent" /\ rows[i].source = "existing"
    BY <1>c, <1>d, <2>1 DEF KnownAt, Acquiring, i
  <2>3. KnownAt(p)' BY <2>1, <2>2 DEF KnownAt, Started
  <2>4. FamilyAt(p)' BY <2>1 DEF FamilyAt, FamilyInv
  <2>5. Moves BY <2>1, <2>3, <2>4 DEF Moves, SafeAt, Acquiring
  <2> QED BY <1>e, <2>1, <2>5
<1>14. CASE Attach(p)
  <2>1. CASE End(p) BY <1>14, <1>e, <2>1, EndSafe DEF Attach
  <2>2. CASE ~End(p)
    <3>1. PICK label \in {"resume", "ready"} :
             /\ Jump(p, label, proc[p].at, proc[p].ret)
             /\ At(p, "attach") /\ session' = session
             /\ rows' \in {Write(i, Attached(rows[i])), Write(i, InState(rows[i], "starting"))}
      BY <1>14, <1>a, <2>2 DEF Attach, i
    <3>2. rows'[i].state = "starting" BY <1>a, <3>1, Written, States DEF LeaseStates
    <3>3. rows'[i].source = "existing" BY <1>b, <1>c, <3>1 DEF KnownAt, Started, At, Evolves, i
    <3>4. Moves BY <1>0, <1>d, <3>1, <3>2, <3>3, GotoSafe DEF Acquiring, At, i, Started
    <3> QED BY <1>e, <3>1, <3>4
  <2> QED BY <2>1, <2>2
<1>5. CASE ObserveExistingFails(p) BY <1>5, <1>e, EndSafe DEF ObserveExistingFails
<1>6. CASE Resume(p)
  <2>1. rows'[i].state # "requested" BY <1>6, <1>b, <1>c DEF Resume, KnownAt, Started, At, Evolves, i
  <2>2. Moves BY <1>0, <1>6, <1>d, <2>1, GotoSafe DEF Resume, Acquiring, At, i, Started
  <2> QED BY <1>6, <1>e, <2>2 DEF Resume
<1>7. CASE ResumeFails(p)
  <2>1. rows'[i].state # "requested" /\ rows[i].state # "absent"
    BY <1>7, <1>b, <1>c, <1>d DEF ResumeFails, KnownAt, Started, At, Evolves, Acquiring, i
  <2>2. Moves BY <1>0, <1>7, <1>a, <1>d, <2>1, ReleaseSafe DEF ResumeFails, i
  <2> QED BY <1>7, <1>e, <2>2 DEF ResumeFails
<1>8. CASE Create(p)
  <2>1. rows'[i].state # "requested" BY <1>8, <1>b, <1>c DEF Create, KnownAt, Started, At, Evolves, i
  <2>2. Moves BY <1>0, <1>8, <1>d, <2>1, GotoSafe DEF Create, Acquiring, At, i, Started
  <2> QED BY <1>8, <1>e, <2>2 DEF Create
<1>9. CASE CreateRejected(p)
  <2>1. rows' = Transition(i, ReleasedSurely(rows[i])) BY <1>9, <1>a DEF CreateRejected, i
  <2>2. rows'[i].state = "released" BY <1>a, <2>1, Written, States DEF IsTerminal
  <2>3. Moves BY <1>0, <1>9, <2>2, ReturnSafe DEF CreateRejected, i
  <2>4. session' \in {0, session} BY <1>9, Returns DEF CreateRejected
  <2> QED BY <1>e, <2>3, <2>4
<1>10. CASE CreateAmbiguous(p)
  <2>1. rows'[i].state # "requested" BY <1>10, <1>b, <1>c DEF CreateAmbiguous, KnownAt, Started, At, Evolves, i
  <2>2. Moves BY <1>0, <1>10, <1>d, <2>1, GotoSafe DEF CreateAmbiguous, Acquiring, At, i, Started
  <2> QED BY <1>10, <1>e, <2>2 DEF CreateAmbiguous
<1>11. CASE CreateCancelled(p)
  <2>1. rows'[i].state # "requested" /\ rows[i].state # "absent"
    BY <1>11, <1>b, <1>c, <1>d DEF CreateCancelled, KnownAt, Started, At, Evolves, Acquiring, i
  <2>2. Moves BY <1>0, <1>11, <1>a, <1>d, <2>1, ReleaseSafe DEF CreateCancelled, i
  <2> QED BY <1>11, <1>e, <2>2 DEF CreateCancelled
<1>12. CASE Ready(p)
  <2>1. rows[i].state \notin {"absent", "requested"} BY <1>12, <1>c, <1>d DEF Ready, KnownAt, Started, At, Acquiring, i
  <2>2. Moves BY <1>12, EndSafe DEF Ready
  <2>3. session' = session \/ session' = i BY <1>12 DEF Ready, i
  <2> QED BY <1>0, <1>a, <2>1, <2>2, <2>3, Kept
<1>13. CASE NotReady(p)
  <2>1. rows'[i].state # "requested" /\ rows[i].state # "absent"
    BY <1>13, <1>b, <1>c, <1>d DEF NotReady, KnownAt, Started, At, Evolves, Acquiring, i
  <2>2. CASE Goto(p, "release")
    <3>1. Moves BY <1>0, <1>13, <1>d, <2>1, <2>2, GotoSafe DEF NotReady, Acquiring, At, i, Started
    <3> QED BY <1>13, <1>e, <3>1 DEF NotReady
  <2>3. CASE Jump(p, "release", i, {})
    <3>1. Moves BY <1>0, <1>a, <1>d, <2>1, <2>3, ReleaseSafe
    <3> QED BY <1>13, <1>e, <3>1 DEF NotReady
  <2> QED BY <1>13, <2>2, <2>3 DEF NotReady, i
<1> QED BY <1>1, <1>2, <1>3, <1>4, <1>5, <1>6, <1>7, <1>8, <1>9, <1>10, <1>11, <1>12, <1>13,
           <1>14

\* A process takes up the job of an attempt.
LEMMA JobLabelSafe ==
    ASSUME TypeOK, Evolution, NEW p \in Procs, NEW i \in Attempts,
           rows[i].state # "absent", NEW c \in Control, c.at = i, c.ret = {},
           c.pc \in {"post", "polled", "downloaded", "cancelling", "reap", "observed"},
           c.pc = "reap" \/ rows[i].state # "requested",
           proc' = [proc EXCEPT ![p] = c]
    PROVE  Moves
<1>1. proc'[p] = c /\ \A q \in Procs \ {p} : proc'[q] = proc[q] BY DEF TypeOK
<1>2. rows'[i].state # "absent" /\ (c.pc = "reap" \/ rows'[i].state # "requested")
  BY DEF Evolution, Evolves
<1>3. SafeAt(p)' BY <1>1, <1>2 DEF SafeAt, KnownAt, Started, FamilyAt, Acquiring
<1> QED BY <1>1, <1>3 DEF Moves, Acquiring

\* the calls of a host that holds a session,
LEMMA JobSafe ==
    ASSUME TypeOK, KnownInv, FamilyInv, NEW p \in Hosts,
           \/ Submit(p) \/ PostTrain(p) \/ PostTrainFails(p) \/ Recover(p)
           \/ Poll(p) \/ Download(p) \/ Downloaded(p)
           \/ CancelJob(p) \/ Cancelling(p) \/ Touch(p) \/ Release(p)
    PROVE  KnownInv' /\ FamilyInv'
<1> p \in Procs BY Constants
<1> DEFINE i == proc[p].at
<1>0. TypeOK' /\ Evolution BY JobStep
<1>a. i \in Attempts BY Place
<1>b. /\ \A l \in {"post", "recover", "polled", "downloaded", "cancelling"} :
            l \in Labels /\ l \in Working /\ l \notin Acquiring
      /\ \A ret \in {{}, {"drop"}} :
            ret \in SUBSET {"acquire", "family", "drop", "pass"} /\ "family" \notin ret
  BY DEF Labels, Working, Acquiring
<1>c. proc[p].pc \in Working => rows[i].state # "absent" BY DEF KnownInv, KnownAt, Started
<1>d. session # 0 => session \in Attempts /\ rows[session].state \notin {"absent", "requested"}
  BY DEF KnownInv, TypeOK
<1>e. session' = session
  BY DEF Submit, PostTrain, PostTrainFails, Recover, Poll, Download, Downloaded, CancelJob,
         Cancelling, Touch, Release
<1>f. SUFFICES Moves BY <1>0, <1>e, Kept
<1>g. ASSUME NEW k \in Attempts, NEW l \in Labels,
             NEW saw \in {"none", "found", "running", "stopped", "completed", "failed"}
      PROVE  [pc |-> l, at |-> k, ret |-> {}, saw |-> saw] \in Control
  BY DEF Control
<1> HIDE DEF i
<1>1. CASE Submit(p)
  <2>1. CASE Jump(p, "post", session, {})
    <3>1. [pc |-> "post", at |-> session, ret |-> {}, saw |-> "none"] \in Control
      BY <1>1, <1>b, <1>d, <1>g DEF Submit
    <3> QED BY <1>0, <1>1, <1>d, <2>1, <3>1, JobLabelSafe DEF Submit, Jump
  <2>2. CASE ServiceRelease(p, session, {})
    BY <1>0, <1>1, <1>b, <1>d, <2>2, ReleaseSafe DEF Submit
  <2> QED BY <1>1, <2>1, <2>2 DEF Submit
<1>2. ASSUME Goto(p, "recover"), At(p, "post") PROVE Moves
  <2>1. rows[i].state # "requested" BY <1>2 DEF KnownInv, KnownAt, Started, At, i
  <2>2. rows'[proc[p].at].state # "requested" BY <1>0, <1>a, <2>1 DEF Evolution, Evolves, i
  <2> QED BY <1>0, <1>2, <1>b, <2>2, GotoSafe DEF At, Started
<1>3. CASE PostTrain(p) BY <1>2, <1>3, EndSafe DEF PostTrain, RecordJob
<1>4. CASE PostTrainFails(p)
  <2>1. rows[i].state # "absent" BY <1>4, <1>b, <1>c DEF PostTrainFails, At
  <2> QED BY <1>0, <1>2, <1>4, <1>a, <1>b, <2>1, ReleaseSafe DEF PostTrainFails, i
<1>5. CASE Recover(p)
  <2>1. rows[i].state # "absent" BY <1>5, <1>b, <1>c DEF Recover, At
  <2> QED BY <1>0, <1>5, <1>a, <1>b, <2>1, ReleaseSafe, EndSafe DEF Recover, RecordJob, i
<1>6. CASE Poll(p)
  <2>1. session \in Attempts /\ rows[session].state \notin {"absent", "requested"} BY <1>6, <1>d DEF Poll
  <2>2. jobs[PodOf(session)] \in {"none", "running", "completed", "failed"} BY <2>1, Place
  <2> DEFINE c == [pc |-> "polled", at |-> session, ret |-> {}, saw |-> jobs[PodOf(session)]]
  <2>3. c \in Control BY <1>b, <2>1, <2>2 DEF Control
  <2>4. proc' = [proc EXCEPT ![p] = c] /\ c.at = session /\ c.ret = {} /\ c.pc = "polled"
    BY <1>6 DEF Poll
  <2> HIDE DEF c
  <2> QED BY <1>0, <2>1, <2>3, <2>4, JobLabelSafe
<1>7. CASE Download(p)
  <2>1. [pc |-> "downloaded", at |-> session, ret |-> {}, saw |-> "none"] \in Control
    BY <1>7, <1>b, <1>d, <1>g DEF Download
  <2> QED BY <1>0, <1>7, <1>d, <2>1, JobLabelSafe DEF Download, Jump
<1>8. CASE Downloaded(p) BY <1>8, EndSafe DEF Downloaded
<1>9. CASE CancelJob(p)
  <2>1. [pc |-> "cancelling", at |-> session, ret |-> {}, saw |-> "none"] \in Control
    BY <1>9, <1>b, <1>d, <1>g DEF CancelJob
  <2> QED BY <1>0, <1>9, <1>d, <2>1, JobLabelSafe DEF CancelJob, Jump
<1>10. CASE Cancelling(p)
  <2>1. rows[i].state # "absent" BY <1>10, <1>b, <1>c DEF Cancelling, At
  <2> QED BY <1>0, <1>10, <1>a, <1>b, <2>1, ReleaseSafe DEF Cancelling, i
<1>11. CASE Touch(p) BY <1>11 DEF Touch, Moves
<1>12. CASE Release(p) BY <1>0, <1>12, <1>b, ReleaseSafe DEF Release
<1> QED BY <1>1, <1>3, <1>4, <1>5, <1>6, <1>7, <1>8, <1>9, <1>10, <1>11, <1>12

\* the subroutines of a release,
LEMMA ReleaseStepSafe ==
    ASSUME TypeOK, KnownInv, FamilyInv, NEW p \in Procs,
           \/ ReleaseOne(p) \/ Void(p) \/ FindByName(p) \/ FindByNameFails(p)
           \/ ResolveCreation(p) \/ StopConfirmed(p) \/ StopFails(p) \/ Polled(p)
    PROVE  KnownInv' /\ FamilyInv'
<1> DEFINE i == proc[p].at
<1>0. TypeOK' /\ Evolution BY ReleaseStep
<1>a. i \in Attempts /\ Mine(p) = rows[i] /\ rows[i] \in Row BY Place DEF Mine
<1>b. /\ \A l \in {"release", "void", "found", "stop", "polled"} :
            l \in Labels /\ l \in Working /\ l \notin Acquiring
      /\ {} \in SUBSET {"acquire", "family", "drop", "pass"}
  BY DEF Labels, Working, Acquiring
<1>c. KnownAt(p) /\ FamilyAt(p) BY DEF KnownInv, FamilyInv
<1>d. rows[i].state # "absent"
  BY <1>b, <1>c DEF KnownAt, Started, ReleaseOne, Void, FindByName, FindByNameFails,
        ResolveCreation, StopConfirmed, StopFails, Polled, At
<1>e. ASSUME Moves, session' \in {0, session} PROVE KnownInv' /\ FamilyInv' BY <1>0, <1>e, Kept
<1>f. ASSUME NEW ok \in BOOLEAN, Return(p, ok), ok => rows'[i].state = "released"
      PROVE  KnownInv' /\ FamilyInv'
  <2>1. Moves BY <1>0, <1>f, ReturnSafe DEF i
  <2>2. session' \in {0, session} BY <1>f, Returns
  <2> QED BY <1>e, <2>1, <2>2
<1> HIDE DEF i
<1>g. ASSUME Voids(p) PROVE KnownInv' /\ FamilyInv'
  <2>1. rows' = Transition(i, Released(rows[i])) /\ Return(p, TRUE)
    BY <1>g, <1>a DEF Voids, EndsRow, i
  <2>2. rows'[i].state = "released" BY <1>a, <2>1, Written, States DEF IsTerminal
  <2> QED BY <1>f, <2>1, <2>2
<1>1. CASE ReleaseOne(p)
  <2>0. /\ At(p, "release")
        /\ \/ IsTerminal(rows[i]) /\ Return(p, TRUE) /\ rows' = rows
           \/ rows' = Transition(i, Released(rows[i])) /\ Return(p, TRUE)
           \/ /\ rows[i].pid /\ rows' = Transition(i, Releasing(rows[i]))
              /\ Goto(p, "stop") /\ session' = session
           \/ Goto(p, "void") /\ rows' = rows /\ session' = session
    BY <1>1, <1>a DEF ReleaseOne, Voids, EndsRow, i
  <2>1. CASE /\ rows[i].pid /\ rows' = Transition(i, Releasing(rows[i]))
             /\ Goto(p, "stop") /\ session' = session
    <3>2. rows'[i].state # "requested" BY <1>a, <2>1, Written, States DEF IsTerminal
    <3>4. rows'[i].pid BY <1>0, <1>a, <2>1 DEF Evolution, Evolves
    <3>3. Moves BY <1>0, <1>b, <2>0, <2>1, <3>2, <3>4, GotoSafe DEF At, i, Started
    <3> QED BY <1>e, <2>1, <3>3
  <2>2. CASE Goto(p, "void") /\ rows' = rows /\ session' = session
    <3>1. Moves BY <1>0, <1>b, <2>0, <2>2, GotoSafe DEF At, Started
    <3> QED BY <1>e, <2>2, <3>1
  <2>3. CASE IsTerminal(rows[i]) /\ Return(p, TRUE) /\ rows' = rows
    BY <1>f, <2>3 DEF IsTerminal
  <2>4. CASE rows' = Transition(i, Released(rows[i])) /\ Return(p, TRUE)
    <3>1. rows'[i].state = "released" BY <1>a, <2>4, Written, States DEF IsTerminal
    <3> QED BY <1>f, <2>4, <3>1
  <2> QED BY <2>0, <2>1, <2>2, <2>3, <2>4
<1>8. CASE Void(p) BY <1>8, <1>g DEF Void
<1>2. CASE FindByName(p)
  <2>1. /\ \A q \in Procs \ {p} : proc'[q] = proc[q]
        /\ proc'[p].pc = "found" /\ proc'[p].at = i /\ proc'[p].ret = proc[p].ret
        /\ proc'[p].saw \in {"none", "found"}
        /\ proc[p].pc = "release" /\ rows' = rows
    BY <1>2 DEF FindByName, At, TypeOK, Control, i
  <2>5. rows[i].source = "created" BY <1>2, <1>a DEF FindByName, KnownInv, Row
  <2>2. KnownAt(p)' BY <1>b, <1>c, <1>d, <2>1, <2>5 DEF KnownAt, Started, i
  <2>3. FamilyAt(p)' BY <1>b, <1>c, <2>1 DEF FamilyAt, Unfinished, i
  <2>4. Moves BY <1>b, <2>1, <2>2, <2>3 DEF Moves, SafeAt
  <2> QED BY <1>2, <1>e, <2>4 DEF FindByName
<1>3. CASE FindByNameFails(p) BY <1>3, <1>f DEF FindByNameFails
<1>4. CASE ResolveCreation(p)
  <2> DEFINE r == Resolved(rows[i], proc[p].saw)
  <2>0. /\ At(p, "found") /\ rows' = Transition(i, r)
        /\ IF ~IsTerminal(rows[i]) /\ r.pid /\ ~IsTerminal(r)
           THEN Jump(p, "release", proc[p].at, proc[p].ret) /\ UNCHANGED session
           ELSE Return(p, IsTerminal(rows[i]) \/ IsTerminal(r))
    BY <1>4, <1>a DEF ResolveCreation, EndsRow, i
  <2>1. CASE ~IsTerminal(rows[i]) /\ r.pid /\ ~IsTerminal(r)
    <3>1. r.state = "reconcile_required"
      BY <1>a, <2>1, States DEF Resolved, AwaitingCreate, IsTerminal, Row
    <3>2. rows'[i].state # "requested" BY <1>a, <2>0, <2>1, <3>1, Written
    <3>3. Moves BY <1>0, <1>b, <2>0, <2>1, <3>2, GotoSafe DEF At, i, Started
    <3> QED BY <1>e, <2>0, <2>1, <3>3
  <2>2. CASE ~(~IsTerminal(rows[i]) /\ r.pid /\ ~IsTerminal(r))
    <3>1. IsTerminal(rows[i]) \/ IsTerminal(r) => rows'[i].state = "released"
      BY <1>a, <2>0, Written DEF IsTerminal
    <3>2. (IsTerminal(rows[i]) \/ IsTerminal(r)) \in BOOLEAN BY DEF IsTerminal
    <3> QED BY <1>f, <2>0, <2>2, <3>1, <3>2
  <2> QED BY <2>1, <2>2
<1>5. CASE StopConfirmed(p)
  <2>1. rows' = Transition(i, ReleasedSurely(rows[i])) BY <1>5, <1>a DEF StopConfirmed, i
  <2>2. rows'[i].state = "released" BY <1>a, <2>1, Written, States DEF IsTerminal
  <2> QED BY <1>5, <1>f, <2>2 DEF StopConfirmed
<1>6. CASE StopFails(p)
  <2>1. IsTerminal(rows[i]) => rows'[i].state = "released"
    BY <1>0, <1>a DEF Evolution, Evolves, IsTerminal
  <2>2. IsTerminal(rows[i]) \in BOOLEAN BY DEF IsTerminal
  <2> QED BY <1>6, <1>a, <1>f, <2>1, <2>2 DEF StopFails
<1>7. CASE Polled(p)
  <2>1. CASE Jump(p, "release", i, {}) /\ rows'[i].state = "cancel_requested"
    <3>1. Moves BY <1>0, <1>a, <1>b, <1>d, <2>1, ReleaseSafe
    <3> QED BY <1>7, <1>e, <3>1 DEF Polled
  <2>2. CASE End(p) BY <1>7, <1>e, <2>2, EndSafe DEF Polled
  <2> QED BY <1>7, <2>1, <2>2 DEF Polled, i
<1> QED BY <1>1, <1>2, <1>3, <1>4, <1>5, <1>6, <1>7, <1>8

\* the passes of a reconciler,
LEMMA ReconcileSafe ==
    ASSUME TypeOK, KnownInv, FamilyInv, NEW p \in Reconcilers, ReconcilerStep(p)
    PROVE  KnownInv' /\ FamilyInv'
<1> p \in Procs BY Constants
<1>0. TypeOK' /\ Evolution BY ReconcileStep
<1>b. /\ \A l \in {"release", "family", "reap", "observed", "polled"} :
            l \in Labels /\ l \in Working /\ l \notin Acquiring
      /\ {} \in SUBSET {"acquire", "family", "drop", "pass"}
  BY DEF Labels, Working, Acquiring
<1>e. ASSUME Moves, session' = session PROVE KnownInv' /\ FamilyInv' BY <1>0, <1>e, Kept
<1>1. CASE ReconcileFamily(p)
  <2>1. /\ \A q \in Procs \ {p} : proc'[q] = proc[q]
        /\ proc'[p].pc = "family" /\ proc'[p].at = Root /\ proc'[p].ret = {"pass"}
        /\ rows[Root].famReq
    BY <1>1 DEF ReconcileFamily, Jump, TypeOK
  <2>2. rows'[Root].state # "absent" BY <1>1, <2>1 DEF ReconcileFamily, KnownInv
  <2>3. SafeAt(p)' BY <1>b, <2>1, <2>2 DEF SafeAt, KnownAt, Started, FamilyAt
  <2>4. Moves BY <1>b, <2>1, <2>3 DEF Moves
  <2> QED BY <1>1, <1>e, <2>4 DEF ReconcileFamily
<1>2. CASE PassEnds(p) BY <1>2, <1>e, EndSafe DEF PassEnds
<1>3. CASE ReconcileStopped(p) BY <1>3, <1>e, EndSafe DEF ReconcileStopped
<1>4. ASSUME NEW i \in Attempts, ReapRequested(p, i) PROVE KnownInv' /\ FamilyInv'
  <2> DEFINE c == [pc |-> "reap", at |-> i, ret |-> {}, saw |-> "none"]
  <2>1. c \in Control BY <1>b DEF Control
  <2>2. proc' = [proc EXCEPT ![p] = c] /\ c.at = i /\ c.ret = {} /\ c.pc = "reap"
    BY <1>4 DEF ReapRequested, Jump
  <2>3. rows[i].state # "absent" BY <1>4 DEF ReapRequested
  <2> HIDE DEF c
  <2>4. Moves BY <1>0, <2>1, <2>2, <2>3, JobLabelSafe
  <2> QED BY <1>4, <1>e, <2>4 DEF ReapRequested
<1>8. CASE Reap(p) BY <1>8, <1>e, EndSafe DEF Reap
<1>5. ASSUME NEW i \in Attempts, ReconcileRelease(p, i) PROVE KnownInv' /\ FamilyInv'
  <2>1. rows[i].state # "absent" /\ rows'[i].state # "requested" /\ Jump(p, "release", i, {})
    BY <1>5 DEF ReconcileRelease, Passing, Unfinished
  <2>2. Moves BY <1>0, <1>b, <2>1, ReleaseSafe
  <2> QED BY <1>5, <1>e, <2>2 DEF ReconcileRelease
<1>6. ASSUME NEW i \in Attempts, ReconcileJob(p, i) PROVE KnownInv' /\ FamilyInv'
  <2>1. CASE End(p) BY <1>6, <1>e, <2>1, EndSafe DEF ReconcileJob
  <2>2. CASE ~End(p)
    <3>1. jobs[PodOf(i)] \in {"none", "running", "completed", "failed"} BY Place
    <3> DEFINE c == [pc |-> "polled", at |-> i, ret |-> {}, saw |-> jobs[PodOf(i)]]
    <3>2. c \in Control BY <1>b, <3>1 DEF Control
    <3>3. proc' = [proc EXCEPT ![p] = c] /\ c.at = i /\ c.ret = {} /\ c.pc = "polled"
      BY <1>6, <2>2 DEF ReconcileJob
    <3>4. rows[i].state \notin {"absent", "requested"} BY <1>6 DEF ReconcileJob
    <3> HIDE DEF c
    <3>5. Moves BY <1>0, <3>2, <3>3, <3>4, JobLabelSafe
    <3> QED BY <1>6, <1>e, <3>5 DEF ReconcileJob
  <2> QED BY <2>1, <2>2
<1>7. ASSUME NEW i \in Attempts, ReconcileObserve(p, i) PROVE KnownInv' /\ FamilyInv'
  <2> DEFINE c == [pc |-> "observed", at |-> i, ret |-> {}, saw |-> "none"]
  <2>1. c \in Control BY <1>b DEF Control
  <2>2. proc' = [proc EXCEPT ![p] = c] /\ c.at = i /\ c.ret = {} /\ c.pc = "observed"
    BY <1>7 DEF ReconcileObserve, Jump
  <2>3. rows[i].state \notin {"absent", "requested"} BY <1>7 DEF ReconcileObserve
  <2> HIDE DEF c
  <2>4. Moves BY <1>0, <2>1, <2>2, <2>3, JobLabelSafe
  <2> QED BY <1>7, <1>e, <2>4 DEF ReconcileObserve
<1> QED BY <1>1, <1>2, <1>3, <1>4, <1>5, <1>6, <1>7, <1>8 DEF ReconcilerStep

\* what happens around the service,
LEMMA EnvironmentSafe ==
    ASSUME TypeOK, KnownInv, FamilyInv, Environment
    PROVE  KnownInv' /\ FamilyInv'
<1>0. TypeOK' /\ Evolution BY EnvironmentStep
<1>1. CASE Crash
  <2>1. \A p \in Procs : IF p \in Hosts THEN proc'[p] = Idle ELSE proc'[p] = proc[p]
    BY <1>1 DEF Crash
  <2>2. ASSUME NEW p \in Procs, proc'[p] = Idle PROVE SafeAt(p)' /\ proc'[p].pc \notin Acquiring
    BY <2>2 DEF Idle, SafeAt, KnownAt, Started, FamilyAt, Working, Acquiring
  <2>3. Moves BY <2>1, <2>2 DEF Moves
  <2> QED BY <1>0, <1>1, <2>3, Kept DEF Crash
<1>2. CASE ~Crash
  <2>1. proc' = proc /\ session' = session
    BY <1>2 DEF Environment, GoesStale, DeadlinePasses, CreateLands, TrainerEnds, CreateArrives, OthersUse
  <2>2. Moves BY <2>1 DEF Moves
  <2> QED BY <1>0, <2>1, <2>2, Kept
<1> QED BY <1>1, <1>2

\* the insertion of a row, one host at a time,
LEMMA ReserveSafe ==
    ASSUME TypeOK, KnownInv, FamilyInv, NEW p \in Hosts, Reserve(p)
    PROVE  KnownInv' /\ FamilyInv'
<1> p \in Procs BY Constants
<1>1. TypeOK' BY ReserveStep
<1>2. session' = session BY DEF Reserve
<1>3. CASE rows' = rows /\ Evolution /\ End(p) BY <1>1, <1>2, <1>3, EndSafe, Kept
<1>4. CASE Inserted(p)
  <2> DEFINE i == proc[p].at
  <2>1. PICK source \in {"created", "existing"} :
          /\ source = "existing" => i = Root
          /\ rows' = [rows EXCEPT ![i] = Reserved(source)]
    BY <1>4 DEF Inserted
  <2>2. /\ i \in Attempts /\ rows[i].state = "absent"
        /\ \A j \in Attempts : ~Unfinished(j)
        /\ i # Root => rows[Root].state # "absent" /\ ~rows[Root].famReq
    BY <1>4 DEF Inserted
  <2>3. /\ \A q \in Procs \ {p} : proc'[q] = proc[q]
        /\ proc'[p].pc = "begin" /\ proc'[p].at = i /\ proc'[p].ret = {"acquire"}
    BY <1>4 DEF Inserted, TypeOK
  <2>4. rows'[i] = Reserved(source) /\ \A j \in Attempts \ {i} : rows'[j] = rows[j]
    BY <2>1, <2>2 DEF TypeOK
  <2>5. /\ rows'[i].state = "requested" /\ rows'[i].own = "provisional"
        /\ rows'[i].source = source /\ (source = "existing" => rows'[i].pid)
        /\ ~rows'[i].famReq /\ ~rows'[i].famDone
    <3>1. Reserved(source).pid = (source = "existing") BY DEF Reserved
    <3>2. source = "existing" => rows'[i].pid BY <2>4, <3>1, Zenon
    <3> QED BY <2>4, <3>2 DEF Reserved
  <2>6. \A q \in Procs : proc[q].at \in Attempts BY Place
  <2> HIDE DEF i
  <2>7. ASSUME NEW q \in Procs \ {p} PROVE KnownAt(q)' /\ FamilyAt(q)' /\ proc[q].pc \notin Acquiring
    <3>1. KnownAt(q) /\ FamilyAt(q) BY DEF KnownInv, FamilyInv
    <3>2. proc[q].pc \in Working => rows'[proc[q].at] = rows[proc[q].at]
      BY <2>2, <2>4, <2>6, <3>1 DEF KnownAt, Started
    <3>3. KnownAt(q)' BY <2>3, <3>1, <3>2 DEF KnownAt, Started, Working, Labels, Acquiring
    <3>4. FamilyAt(q)'
      <4>1. rows[Root].famReq => rows[Root].state # "absent" BY DEF KnownInv
      <4>2. ~rows[Root].famReq BY <2>2, <4>1
      <4>3. "family" \notin proc[q].ret /\ proc[q].pc # "close" BY <3>1, <4>2 DEF FamilyAt
      <4> QED BY <2>3, <4>3 DEF FamilyAt
    <3>5. proc[q].pc \notin Acquiring
      BY <3>1 DEF Reserve, Admitted, KnownAt, Started, Acquiring
    <3> QED BY <3>3, <3>4, <3>5
  <2>8. KnownAt(p)' /\ FamilyAt(p)'
    BY <2>3, <2>5 DEF KnownAt, Started, FamilyAt, Acquiring
  <2>9. KnownInv'
    <3>1. session # 0 => rows'[session].state \notin {"absent", "requested"}
      BY <2>2, <2>4 DEF KnownInv, TypeOK
    <3>2. ~rows'[Root].famReq /\ ~rows'[Root].famDone
      BY <2>2, <2>4, <2>5, Constants DEF KnownInv
    <3>3. \A j \in Attempts :
            /\ rows'[j].source = "existing" => j = Root /\ rows'[j].pid
            /\ rows'[j].own = "preexisting_running" => rows'[j].source = "existing"
      BY <2>1, <2>4, <2>5 DEF KnownInv
    <3>4. \A q \in Procs : KnownAt(q)' BY <2>7, <2>8
    <3>5. \A q, r \in Procs : proc'[q].pc \in Acquiring /\ proc'[r].pc \in Acquiring => q = r
      BY <2>3, <2>7
    <3> QED BY <1>2, <3>1, <3>2, <3>3, <3>4, <3>5 DEF KnownInv
  <2>10. FamilyInv'
    <3>1. \A j \in Attempts : Unfinished(j)' => j = i BY <2>2, <2>4 DEF Unfinished
    <3>2. ~rows'[Root].famDone BY <2>2, <2>4, <2>5, Constants DEF KnownInv
    <3> QED BY <2>7, <2>8, <3>1, <3>2 DEF FamilyInv, FamilyClosed
  <2> QED BY <2>9, <2>10
<1> QED BY <1>3, <1>4, ReserveStep

\* and the flags of the family.
LEMMA FamilySafe ==
    ASSUME TypeOK, KnownInv, FamilyInv, NEW p \in Procs, ReleaseFamily(p) \/ FamilyReleased(p)
    PROVE  KnownInv' /\ FamilyInv'
<1>0. TypeOK' /\ Flagged BY FamilyStep
<1>1. Root \in Attempts /\ proc[p].at \in Attempts BY Constants, Place
<1>2. \A j \in Attempts : Unfinished(j)' = Unfinished(j) BY <1>0 DEF Flagged, Unfinished
<1>3. KnownAt(p) /\ FamilyAt(p) /\ proc[p].pc \in {"family", "close"}
  BY DEF KnownInv, FamilyInv, ReleaseFamily, FamilyReleased, At
<1>4. proc[p].at = Root /\ rows[Root].state # "absent" BY <1>3 DEF KnownAt, Started, Working, Labels
<1>5. \A q \in Procs : proc[q].at \in Attempts /\ KnownAt(q) /\ FamilyAt(q)
  BY Place DEF KnownInv, FamilyInv
<1>6. ASSUME NEW q \in Procs, proc'[q] = proc[q] PROVE KnownAt(q)' /\ FamilyAt(q)'
  <2>1. KnownAt(q)' BY <1>0, <1>5, <1>6 DEF Flagged, KnownAt, Started
  <2>2. FamilyAt(q)' BY <1>0, <1>2, <1>5, <1>6 DEF Flagged, FamilyAt
  <2> QED BY <2>1, <2>2
<1>7. /\ \A q \in Procs \ {p} : proc'[q] = proc[q]
      /\ session' \in {0, session}
      /\ rows'[Root].famDone => rows'[Root].famReq /\ (rows[Root].famDone \/ \A j \in Attempts : ~Unfinished(j))
      /\ KnownAt(p)' /\ FamilyAt(p)' /\ proc'[p].pc \notin Acquiring
  <2>1. CASE ReleaseFamily(p)
    <3>1. /\ \A q \in Procs \ {p} : proc'[q] = proc[q]
          /\ proc'[p].at \in Attempts
          /\ \/ proc'[p].pc = "close" /\ proc'[p].at = Root /\ \A j \in Attempts : ~Unfinished(j)
             \/ proc'[p].pc = "release" /\ Unfinished(proc'[p].at)
          /\ "family" \in proc'[p].ret => proc'[p].pc = "release"
      <4>1. CASE \E i \in Attempts : Unfinished(i)
        <5>1. PICK i \in Attempts : Unfinished(i) /\ Jump(p, "release", i, proc[p].ret \cup {"family"})
          BY <2>1, <4>1 DEF ReleaseFamily
        <5> QED BY <5>1 DEF Jump, TypeOK
      <4>2. CASE ~\E i \in Attempts : Unfinished(i)
        <5>1. Goto(p, "close") BY <2>1, <4>2 DEF ReleaseFamily
        <5>2. "family" \notin proc[p].ret BY <1>3 DEF FamilyAt
        <5> QED BY <1>1, <1>4, <4>2, <5>1, <5>2 DEF Goto, TypeOK, Control
      <4> QED BY <4>1, <4>2
    <3>2. rows'[Root].famReq /\ (rows'[Root].famDone => rows[Root].famDone) BY <2>1, FamilyStep
    <3>3. rows'[Root].state # "absent" /\ (proc'[p].pc = "release" => rows'[proc'[p].at].state # "absent")
      BY <1>0, <1>4, <3>1 DEF Flagged, Unfinished
    <3>4. KnownAt(p)' BY <3>1, <3>2, <3>3 DEF KnownAt, Started, Acquiring
    <3>5. FamilyAt(p)'
      <4>1. \A i, j \in Attempts : Unfinished(i) /\ Unfinished(j) => i = j BY DEF FamilyInv
      <4>2. CASE proc'[p].pc = "release"
        <5>1. Unfinished(proc'[p].at) /\ proc'[p].at \in Attempts BY <3>1, <4>2
        <5>2. \A j \in Attempts \ {proc'[p].at} : ~Unfinished(j) BY <4>1, <5>1
        <5>3. \A j \in Attempts \ {proc'[p].at} : ~Unfinished(j)' BY <1>2, <5>2
        <5> QED BY <3>2, <4>2, <5>3 DEF FamilyAt
      <4>3. CASE proc'[p].pc = "close" BY <1>2, <3>1, <3>2, <4>3 DEF FamilyAt
      <4> QED BY <3>1, <4>2, <4>3
    <3> QED BY <2>1, <3>1, <3>2, <3>4, <3>5 DEF ReleaseFamily, Acquiring
  <2>2. CASE FamilyReleased(p)
    <3>1. At(p, "close") /\ Return(p, TRUE) BY <2>2 DEF FamilyReleased
    <3>2. rows[Root].famReq /\ \A j \in Attempts : ~Unfinished(j) BY <1>3, <3>1 DEF FamilyAt, At
    <3>3. "family" \notin proc[p].ret BY <1>3, <3>1 DEF FamilyAt, At
    <3>4. proc'[p].pc \in {"admit", "row", "idle"} /\ "family" \notin proc'[p].ret
      BY <3>1, <3>3, Returns
    <3>5. (\A q \in Procs \ {p} : proc'[q] = proc[q]) /\ session' \in {0, session} BY <3>1, Returns
    <3>6. rows'[Root].famReq BY <2>2, <3>2, FamilyStep
    <3>7. KnownAt(p)' /\ FamilyAt(p)' BY <3>4 DEF KnownAt, Started, FamilyAt, Working, Acquiring
    <3> QED BY <3>2, <3>4, <3>5, <3>6, <3>7 DEF Acquiring
  <2> QED BY <2>1, <2>2
<1>8. \A q \in Procs : KnownAt(q)' /\ FamilyAt(q)' BY <1>6, <1>7
<1>9. KnownInv'
  <2>1. session' # 0 => rows'[session'].state \notin {"absent", "requested"} BY <1>0, <1>7 DEF KnownInv, Flagged, TypeOK
  <2>2. \A j \in Attempts :
          /\ rows'[j].source = "existing" => j = Root /\ rows'[j].pid
          /\ rows'[j].own = "preexisting_running" => rows'[j].source = "existing"
    BY <1>0 DEF KnownInv, Flagged
  <2>3. rows'[Root].state # "absent" BY <1>0, <1>4 DEF Flagged
  <2>4. \A q, r \in Procs : proc'[q].pc \in Acquiring /\ proc'[r].pc \in Acquiring => q = r
    BY <1>7 DEF KnownInv
  <2> QED BY <1>7, <1>8, <2>1, <2>2, <2>3, <2>4 DEF KnownInv
<1>10. FamilyInv' BY <1>2, <1>7, <1>8 DEF FamilyInv, FamilyClosed
<1> QED BY <1>9, <1>10

\* The initial state.
LEMMA InitInv == Init => TypeOK /\ KnownInv /\ FamilyInv
<1> SUFFICES ASSUME Init PROVE TypeOK /\ KnownInv /\ FamilyInv
  OBVIOUS
<1>1. Idle \in Control BY Constants DEF Idle, Control, Labels
<1>2. TypeOK BY <1>1, Constants, InsertTypes DEF Init, TypeOK
<1>3. /\ \A i \in Attempts : rows[i] = NoRow
      /\ \A p \in Procs : proc[p] = Idle
      /\ session = 0
  BY DEF Init
<1>4. /\ NoRow.state = "absent" /\ NoRow.source = "created" /\ NoRow.own = "provisional"
      /\ ~NoRow.famReq /\ ~NoRow.famDone
  BY DEF NoRow, Reserved
<1>5. Idle.pc = "idle" /\ Idle.ret = {} BY DEF Idle
<1>6. KnownInv BY <1>3, <1>4, <1>5, Constants DEF KnownInv, KnownAt, Started, Working, Acquiring
<1>7. FamilyInv BY <1>3, <1>4, <1>5, Constants DEF FamilyInv, FamilyAt, FamilyClosed, Unfinished
<1> QED BY <1>2, <1>6, <1>7

\* Every step keeps the types, the places and the closed family.
LEMMA NextInv ==
    ASSUME TypeOK, KnownInv, FamilyInv, [Next]_vars
    PROVE  TypeOK' /\ KnownInv' /\ FamilyInv'
<1>1. ASSUME NEW p \in Hosts, HostStep(p) PROVE TypeOK' /\ KnownInv' /\ FamilyInv'
  <2>1. CASE Reserve(p) BY <2>1, ReserveStep, ReserveSafe
  <2>2. CASE ~Reserve(p)
    BY <1>1, <2>2, AcquireStep, AcquireSafe, JobStep, JobSafe DEF HostStep
  <2> QED BY <2>1, <2>2
<1>2. ASSUME NEW p \in Procs, ServiceStep(p) PROVE TypeOK' /\ KnownInv' /\ FamilyInv'
  BY <1>2, FamilyStep, FamilySafe, ReleaseStep, ReleaseStepSafe DEF ServiceStep
<1>3. ASSUME NEW p \in Reconcilers, ReconcilerStep(p) PROVE TypeOK' /\ KnownInv' /\ FamilyInv'
  BY <1>3, ReconcileStep, ReconcileSafe
<1>4. CASE Environment BY <1>4, EnvironmentStep, EnvironmentSafe
<1>5. CASE UNCHANGED vars
  <2> USE <1>5 DEF vars
  <2>1. TypeOK' BY DEF TypeOK, history
  <2>2. Evolution BY RowOps DEF Evolution, TypeOK
  <2> QED BY <2>1, <2>2, Kept DEF Moves
<1> QED BY <1>1, <1>2, <1>3, <1>4, <1>5 DEF Next

\* Rows, Pods, jobs and processes keep their types on every path of the
\* training lane, whatever crashes, is cancelled or fails.
THEOREM TypeCorrect == Spec => []TypeOK
<1>1. Init => TypeOK /\ KnownInv /\ FamilyInv BY InitInv
<1>2. TypeOK /\ KnownInv /\ FamilyInv /\ [Next]_vars => (TypeOK /\ KnownInv /\ FamilyInv)' BY NextInv
<1> QED BY <1>1, <1>2, PTL DEF Spec

\* Once release() has recorded a family as complete, no attempt of it is, or
\* ever becomes, unfinished: not by an acquisition that was between two
\* profiles, and not by a second release.
THEOREM FamilyStaysClosed == Spec => []FamilyClosed
<1>1. Init => TypeOK /\ KnownInv /\ FamilyInv BY InitInv
<1>2. TypeOK /\ KnownInv /\ FamilyInv /\ [Next]_vars => (TypeOK /\ KnownInv /\ FamilyInv)' BY NextInv
<1>3. FamilyInv => FamilyClosed BY DEF FamilyInv
<1> QED BY <1>1, <1>2, <1>3, PTL DEF Spec

-----------------------------------------------------------------------------
(* A created Pod is owed by a row. *)

\* The labels that say nothing of a Pod.
Away(c) == c.pc \notin {"begin", "create", "found", "observed"}

\* A step that concerns one attempt has to be looked at for that attempt only.
LEMMA OwedLocal ==
    ASSUME TypeOK, TypeOK', OwedInv, gaveUp \subseteq gaveUp', NEW i \in Attempts,
           \A j \in Attempts \ {i} : rows'[j] = rows[j] /\ pods'[j] = pods[j],
           \A q \in Procs : proc'[q] = proc[q] \/ Away(proc'[q]) \/ proc'[q].at = i,
           OwedRow(i)', \A q \in Procs : proc'[q].at = i => OwedAt(q)'
    PROVE  OwedInv'
<1>1. ASSUME NEW j \in Attempts \ {i} PROVE OwedRow(j)'
  <2>0. OwedRow(j) BY DEF OwedInv
  <2>1. rows'[j] = rows[j] /\ pods'[j] = pods[j] OBVIOUS
  <2> QED BY <2>0, <2>1 DEF OwedRow, Billable, Covered, Owed, Unfinished
<1>2. ASSUME NEW q \in Procs, proc'[q].at # i PROVE OwedAt(q)'
  <2>1. proc'[q].at \in Attempts BY DEF TypeOK, Control
  <2>2. CASE Away(proc'[q]) BY <2>2 DEF Away, OwedAt
  <2>3. CASE proc'[q] = proc[q]
    BY <1>2, <2>1, <2>3 DEF OwedInv, OwedAt, Covered, Owed, Unfinished
  <2> QED BY <1>2, <2>2, <2>3
<1> QED BY <1>1, <1>2 DEF OwedInv

\* A write that says nothing new of the Pod of the row.
Quiet(r, s) ==
    /\ s.source = r.source
    /\ s.state = "absent" <=> r.state = "absent"
    /\ s.state = "requested" => r.state = "requested"
    /\ s.state = "released" <=> r.state = "released"
    /\ s.pid = r.pid /\ (r.uncertain => s.uncertain) /\ s.age = r.age
    /\ s.own \in {r.own, "preexisting_running"}

LEMMA QuietOps ==
    ASSUME NEW r \in Row
    PROVE  /\ Quiet(r, r) /\ Quiet(r, Beat(r)) /\ Quiet(r, [r EXCEPT !.hb = "stale"])
           /\ r.state \notin {"absent", "released"} =>
                /\ \A state \in LeaseStates \ {"absent", "requested", "released"} :
                      Quiet(r, InState(r, state))
                /\ Quiet(r, CreateStarting(r)) /\ Quiet(r, Attached(r))
                /\ Quiet(r, RetryableFailure(r)) /\ Quiet(r, StillUncertain(r))
                /\ Quiet(r, Releasing(r)) /\ Quiet(r, AwaitingCreate(r))
                /\ \A status : Quiet(r, WithStatus(r, status))
<1>1. Quiet(r, r) BY DEF Quiet
<1>2. Quiet(r, Beat(r)) BY DEF Quiet, Beat, Row
<1>4. Quiet(r, [r EXCEPT !.hb = "stale"]) BY DEF Quiet, Row
<1>5. ASSUME r.state \notin {"absent", "released"}
      PROVE  /\ \A state \in LeaseStates \ {"absent", "requested", "released"} :
                      Quiet(r, InState(r, state))
             /\ Quiet(r, CreateStarting(r)) /\ Quiet(r, Attached(r))
             /\ Quiet(r, RetryableFailure(r)) /\ Quiet(r, StillUncertain(r))
             /\ Quiet(r, Releasing(r)) /\ Quiet(r, AwaitingCreate(r))
             /\ \A status : Quiet(r, WithStatus(r, status))
  <2>1. \A state \in LeaseStates \ {"absent", "requested", "released"} : Quiet(r, InState(r, state))
    BY <1>5 DEF Quiet, Beat, InState, Row
  <2>2. \A state \in {"starting", "reconcile_required", "releasing", "job_completed", "cancel_requested"} :
           Quiet(r, InState(r, state))
    BY <2>1 DEF LeaseStates
  <2>3. Quiet(r, CreateStarting(r)) BY <1>5 DEF Quiet, Beat, InState, Row, CreateStarting
  <2>4. Quiet(r, Attached(r)) BY <1>5 DEF Quiet, Beat, InState, Row, Attached
  <2>5. Quiet(r, RetryableFailure(r)) BY <2>2 DEF RetryableFailure
  <2>6. Quiet(r, StillUncertain(r))
    BY <1>5 DEF Quiet, Beat, InState, Row, RetryableFailure, StillUncertain
  <2>7. Quiet(r, Releasing(r)) BY <1>1, <2>2 DEF Releasing
  <2>8. Quiet(r, AwaitingCreate(r)) BY <1>5 DEF Quiet, Row, AwaitingCreate
  <2>9. \A status : Quiet(r, WithStatus(r, status)) BY <1>2, <2>2 DEF WithStatus
  <2> QED BY <2>1, <2>3, <2>4, <2>5, <2>6, <2>7, <2>8, <2>9
<1> QED BY <1>1, <1>2, <1>4, <1>5

LEMMA QuietWrites ==
    ASSUME TypeOK, NEW i \in Attempts, rows[i].state # "absent",
           LET r == rows[i] IN
           \/ rows' \in
                {rows, Write(i, Beat(r)), Transition(i, Beat(r)),
                 Transition(i, RetryableFailure(r)), Transition(i, StillUncertain(r)),
                 Transition(i, Releasing(r)), Transition(i, InState(r, "cancel_requested"))}
           \/ \E status : rows' = Transition(i, WithStatus(r, status))
           \/ r.state # "released" /\ rows' \in
                {Write(i, CreateStarting(r)), Write(i, Attached(r)), Write(i, InState(r, "starting")),
                 Write(i, InState(r, "ready")), Write(i, InState(r, "job_submitted")),
                 Write(i, InState(r, "result_retrieved"))}
    PROVE  Quiet(rows[i], rows'[i]) /\ \A j \in Attempts \ {i} : rows'[j] = rows[j]
<1>1. rows[i] \in Row BY DEF TypeOK
<1>2. CASE rows' = rows BY <1>1, <1>2, QuietOps
<1>3. ASSUME NEW new, rows' = Write(i, new), Quiet(rows[i], new)
      PROVE  Quiet(rows[i], rows'[i]) /\ \A j \in Attempts \ {i} : rows'[j] = rows[j]
  BY <1>3 DEF Write, TypeOK
<1>4. ASSUME NEW new, rows' = Transition(i, new), rows[i].state # "released" => Quiet(rows[i], new)
      PROVE  Quiet(rows[i], rows'[i]) /\ \A j \in Attempts \ {i} : rows'[j] = rows[j]
  <2>1. rows' = [rows EXCEPT ![i] = IF IsTerminal(rows[i]) THEN rows[i] ELSE new]
    BY <1>4 DEF Transition
  <2>2. rows'[i] = IF IsTerminal(rows[i]) THEN rows[i] ELSE new BY <2>1 DEF TypeOK
  <2>3. \A j \in Attempts \ {i} : rows'[j] = rows[j] BY <2>1 DEF TypeOK
  <2> QED BY <1>1, <1>4, <2>2, <2>3, QuietOps DEF IsTerminal
<1>5. {"starting", "ready", "job_submitted", "result_retrieved", "cancel_requested"}
        \subseteq LeaseStates \ {"absent", "requested", "released"}
  BY DEF LeaseStates
<1> QED BY <1>1, <1>2, <1>3, <1>4, <1>5, QuietOps

\* Nothing about Pods is written, and processes go away.
LEMMA OwedQuiet ==
    ASSUME TypeOK, TypeOK', OwedInv, gaveUp \subseteq gaveUp', NEW i \in Attempts,
           Quiet(rows[i], rows'[i]) \/ rows'[i] = Owned(rows[i]),
           \A j \in Attempts \ {i} : rows'[j] = rows[j],
           \A j \in Attempts : pods'[j] = pods[j],
           \A q \in Procs : proc'[q] = proc[q] \/ Away(proc'[q])
    PROVE  OwedInv'
<1>1. OwedRow(i) BY DEF OwedInv
<1>0. LET r == rows[i]  s == rows'[i] IN
      /\ s.source = r.source
      /\ s.state = "absent" <=> r.state = "absent"
      /\ s.state = "requested" => r.state = "requested"
      /\ s.state = "released" <=> r.state = "released"
      /\ s.pid = r.pid /\ (r.uncertain => s.uncertain) /\ s.age = r.age
  <2>1. CASE rows'[i] = Owned(rows[i]) BY <2>1 DEF Owned, Beat, TypeOK, Row
  <2> QED BY <2>1 DEF Quiet
<1>2. Owed(i)' <=> Owed(i) \/ (Unfinished(i) /\ rows'[i].uncertain)
  BY <1>0 DEF Owed, Unfinished
<1>3. Covered(i) => Covered(i)' BY <1>2 DEF Covered
<1>4. OwedRow(i)' BY <1>0, <1>1, <1>3 DEF OwedRow, Billable
<1>5. ASSUME NEW q \in Procs, proc'[q].at = i PROVE OwedAt(q)'
  <2>1. CASE Away(proc'[q]) BY <2>1 DEF Away, OwedAt
  <2>2. CASE proc'[q] = proc[q]
    <3>1. OwedAt(q) BY DEF OwedInv
    <3>2. pods'[i] = pods[i] /\ rows'[i].source = rows[i].source BY <1>0
    <3> QED BY <1>3, <1>5, <2>2, <3>1, <3>2 DEF OwedAt
  <2> QED BY <2>1, <2>2
<1> QED BY <1>4, <1>5, OwedLocal

\* A row is closed over a create, or has no Pod to find, or one that is stopped.
LEMMA OwedReleased ==
    ASSUME TypeOK, TypeOK', OwedInv, gaveUp \subseteq gaveUp', NEW i \in Attempts,
           rows[i].state # "absent", rows'[i].state = "released",
           rows'[i].source = rows[i].source, rows'[i].pid = rows[i].pid,
           \A j \in Attempts \ {i} : rows'[j] = rows[j] /\ pods'[j] = pods[j],
           \/ pods'[i] = pods[i] /\ i \in gaveUp'
           \/ pods'[i] = "stopped" /\ rows[i].source = "created"
           \/ /\ pods'[i] = "none" /\ pods[i] = "none"
              /\ \A q \in Procs : proc'[q].pc = "create" => proc'[q].at # i,
           \A q \in Procs : proc'[q] = proc[q] \/ Away(proc'[q])
    PROVE  OwedInv'
<1>1. OwedRow(i) BY DEF OwedInv
<1>2. OwedRow(i)' BY <1>1 DEF OwedRow, Billable, Covered
<1>3. ASSUME NEW q \in Procs, proc'[q].at = i PROVE OwedAt(q)'
  <2>1. CASE Away(proc'[q]) BY <2>1 DEF Away, OwedAt
  <2>2. CASE proc'[q] = proc[q]
    <3>1. OwedAt(q) BY DEF OwedInv
    <3> QED BY <1>3, <2>2, <3>1 DEF OwedAt, Covered
  <2> QED BY <2>1, <2>2
<1> QED BY <1>2, <1>3, OwedLocal

\* Most steps go away.
LEMMA GoesAway ==
    ASSUME TypeOK, NEW p \in Procs, NEW label \in Labels \ {"begin", "create", "found", "observed"},
           NEW i, NEW ret, NEW ok \in BOOLEAN, NEW saw,
           \/ End(p) \/ Goto(p, label) \/ Jump(p, label, i, ret) \/ ServiceRelease(p, i, ret)
           \/ Return(p, ok)
           \/ proc' = [proc EXCEPT ![p] = [pc |-> "polled", at |-> i, ret |-> ret, saw |-> saw]]
           \/ proc' = proc
    PROVE  \A q \in Procs : proc'[q] = proc[q] \/ Away(proc'[q])
<1>1. CASE Return(p, ok)
  <2>1. (\A q \in Procs \ {p} : proc'[q] = proc[q]) /\ proc'[p].pc \in {"close", "admit", "row", "idle"}
    BY <1>1, Returns
  <2> QED BY <2>1 DEF Away
<1>2. CASE ~Return(p, ok)
  <2>1. \A q \in Procs \ {p} : proc'[q] = proc[q]
    BY <1>2 DEF End, Goto, Jump, ServiceRelease, TypeOK
  <2>2. proc' = proc \/ proc'[p].pc \in {"idle", label, "family", "release", "polled"}
    BY <1>2 DEF End, Goto, Jump, ServiceRelease, TypeOK, Idle, Control
  <2> QED BY <2>1, <2>2 DEF Away
<1> QED BY <1>1, <1>2

\* The POST of a create: whatever it leaves of the Pod is owed.
LEMMA AppliedOwed ==
    ASSUME TypeOK, TypeOK', KnownInv, OwedInv, gaveUp \subseteq gaveUp',
           NEW p \in Hosts, At(p, "create"), NEW i \in Attempts, proc[p].at = i,
           NEW applied \in BOOLEAN, NEW landing \in {"pending", "running"},
           Applied(p, applied, landing), applied => (landing = "pending" => proc'[p].pc # "create"),
           \A q \in Procs : proc'[q] = proc[q] \/ Away(proc'[q]),
           \A j \in Attempts \ {i} : rows'[j] = rows[j],
           Quiet(rows[i], rows'[i])
    PROVE  OwedInv'
<1> p \in Procs BY Constants
<1>0. i \in PodIds BY Constants
<1>1. /\ pods'[i] = IF applied /\ pods[i] = "none" THEN landing ELSE pods[i]
      /\ \A j \in Attempts \ {i} : pods'[j] = pods[j]
  BY <1>0, Constants DEF Applied, TypeOK
<1>2. OwedRow(i) /\ OwedAt(p) /\ KnownAt(p) BY <1>0 DEF OwedInv, KnownInv
<1>3. /\ pods[i] # "pending" /\ (pods[i] = "stopped" \/ Covered(i))
      /\ rows[i].source = "created" /\ rows[i].state \notin {"absent", "requested"}
  BY <1>2 DEF OwedAt, KnownAt, Started, At, Working, Labels
<1>5. Covered(i) => Covered(i)' BY DEF Covered, Owed, Unfinished, Quiet
<1>8. rows'[i].source = "created" /\ rows'[i].state \notin {"absent", "requested"} BY <1>3 DEF Quiet
<1>6. OwedRow(i)'
  <2>1. Billable(i)' => Covered(i)' BY <1>1, <1>3, <1>5, <1>2 DEF Billable, OwedRow
  <2>2. rows'[i].pid => pods'[i] \in {"running", "stopped"} BY <1>1, <1>2, <1>3 DEF OwedRow, Quiet
  <2> QED BY <1>8, <2>1, <2>2 DEF OwedRow
<1>7. ASSUME NEW q \in Procs, proc'[q].at = i PROVE OwedAt(q)'
  <2>1. CASE Away(proc'[q]) BY <2>1 DEF Away, OwedAt
  <2>2. CASE proc'[q] = proc[q]
    <3>1. OwedAt(q) BY DEF OwedInv
    <3>2. proc[q].pc = "create" => q = p BY DEF KnownInv, At, Acquiring
    <3>3. proc[q].pc = "create" => pods'[i] # "pending" /\ (pods'[i] = "stopped" \/ Covered(i)')
      BY <1>1, <1>3, <1>5, <2>2, <3>2
    <3>4. proc[q].pc = "found" /\ proc[q].saw = "found" => pods'[i] \in {"running", "stopped"}
      BY <1>1, <1>7, <2>2, <3>1 DEF OwedAt
    <3>5. proc[q].pc = "observed" => pods'[i] = "stopped"
      BY <1>1, <1>3, <1>7, <2>2, <3>1 DEF OwedAt
    <3> QED BY <1>7, <2>2, <3>3, <3>4, <3>5 DEF OwedAt
  <2> QED BY <2>1, <2>2
<1> QED BY <1>0, <1>1, <1>6, <1>7, OwedLocal

\* A definite refusal of a create excludes its effect.
LEMMA Refusals ==
    \A outcome \in Outcomes(CreatePod) : outcome[2] \in {"error", "missing"} => ~outcome[1]
<1> SUFFICES ASSUME NEW outcome \in Outcomes(CreatePod), outcome[2] \in {"error", "missing"}
             PROVE  ~outcome[1]
  OBVIOUS
<1>1. ASSUME NEW a \in Answers, MayApply(a), outcome = <<TRUE, CreatePod(a)>> PROVE FALSE
  <2>1. CreatePod(a) \in {"error", "missing"} BY <1>1
  <2>2. a \in Answers \ {"refused", "missing"} BY <1>1 DEF MayApply
  <2> QED BY <2>1, <2>2 DEF CreatePod, Mutation, Answers
<1>2. ASSUME NEW a, outcome = <<FALSE, CreatePod(a)>> PROVE ~outcome[1] BY <1>2
<1>3. \/ \E a \in Answers : MayApply(a) /\ outcome = <<TRUE, CreatePod(a)>>
      \/ \E a \in Answers : outcome = <<FALSE, CreatePod(a)>>
  BY DEF Outcomes, OutcomesOf
<1> QED BY <1>1, <1>2, <1>3

\* An attempt on the existing Pod created none.
LEMMA ExistingHasNone ==
    ASSUME KnownInv, OwedInv, NEW i \in Attempts, rows[i].source = "existing"
    PROVE  pods[i] = "none" /\ \A q \in Procs : proc[q].pc = "create" => proc[q].at # i
BY DEF OwedInv, OwedRow, KnownInv, KnownAt, Started

\* Such an attempt is closed.
LEMMA ExistingReleased ==
    ASSUME TypeOK, TypeOK', KnownInv, OwedInv, gaveUp \subseteq gaveUp', NEW i \in Attempts,
           rows[i].source = "existing", rows[i].state # "absent",
           rows' = Transition(i, Released(rows[i])) \/ rows' = Transition(i, Unowned(rows[i])),
           \A j \in Attempts : pods'[j] = pods[j],
           \A q \in Procs : proc'[q] = proc[q] \/ Away(proc'[q])
    PROVE  OwedInv'
<1>1. rows[i] \in Row BY DEF TypeOK
<1>2. Evolution /\ \A j \in Attempts \ {i} : rows'[j] = rows[j] BY Writes
<1>4. rows'[i].state = "released" /\ rows'[i].pid = rows[i].pid
  BY <1>1, ReleasedRows, Written DEF IsTerminal
<1>5. rows'[i].source = rows[i].source BY <1>2 DEF Evolution, Evolves
<1>6. \A q \in Procs : proc'[q].pc = "create" => proc'[q].at # i
  BY ExistingHasNone DEF Away
<1>7. pods[i] = "none" BY ExistingHasNone
<1> QED BY <1>2, <1>4, <1>5, <1>6, <1>7, OwedReleased

\* A row is ended, over a create or not.
LEMMA EndedOwed ==
    ASSUME TypeOK, TypeOK', KnownInv, OwedInv, NEW i \in Attempts, rows[i].state # "absent",
           NEW new \in {Released(rows[i]), ReleasedSurely(rows[i]), Unowned(rows[i])},
           EndsRow(i, new), gaveUp \subseteq gaveUp', \A j \in Attempts : pods'[j] = pods[j],
           \A q \in Procs : proc'[q] = proc[q] \/ Away(proc'[q])
    PROVE  OwedInv'
<1>0. rows[i] \in Row BY DEF TypeOK
<1>1. rows' = Transition(i, new) BY DEF EndsRow
<1>2. CASE IsTerminal(rows[i])
  <2>1. rows'[i] = rows[i] /\ \A j \in Attempts \ {i} : rows'[j] = rows[j]
    BY <1>1, <1>2 DEF Transition, TypeOK
  <2>2. Quiet(rows[i], rows'[i]) BY <1>0, <2>1, QuietOps
  <2> QED BY <2>1, <2>2, OwedQuiet
<1>3. CASE ~IsTerminal(rows[i])
  <2>1. rows'[i] = new /\ \A j \in Attempts \ {i} : rows'[j] = rows[j]
    BY <1>1, <1>3 DEF Transition, TypeOK
  <2>2. rows'[i].state = "released" /\ rows'[i].pid = rows[i].pid /\ rows'[i].source = rows[i].source
    BY <1>0, <2>1, ReleasedRows
  <2>3. OwedRow(i) /\ (\A q \in Procs : OwedAt(q)) BY DEF OwedInv
  <2>4. \/ i \in gaveUp'
        \/ pods[i] = "stopped" /\ rows[i].source = "created"
        \/ pods[i] = "none" /\ \A q \in Procs : proc[q].pc = "create" => proc[q].at # i
    <3>1. CASE rows[i].source = "existing" BY <3>1, ExistingHasNone
    <3>2. CASE rows[i].source # "existing" /\ Abandons(i) BY <3>2 DEF EndsRow
    <3>3. CASE rows[i].source # "existing" /\ ~Abandons(i) /\ i \notin gaveUp
      <4>1. rows[i].source = "created" BY <1>0, <3>3 DEF Row
      <4>2. ~Covered(i) BY <1>3, <3>3, <4>1 DEF Abandons, Covered, Owed
      <4>3. pods[i] \in {"none", "stopped"} BY <2>3, <4>2, Constants DEF OwedRow, Billable, TypeOK
      <4>4. \A q \in Procs : proc[q].pc = "create" /\ proc[q].at = i => pods[i] = "stopped"
        BY <2>3, <4>2 DEF OwedAt
      <4> QED BY <4>1, <4>3, <4>4
    <3> QED BY <3>1, <3>2, <3>3
  <2>5. \A q \in Procs : proc'[q].pc = "create" => proc'[q] = proc[q] BY DEF Away
  <2> QED BY <2>1, <2>2, <2>4, <2>5, OwedReleased
<1> QED BY <1>2, <1>3

\* Acquisition, but for the insertion of the row,
LEMMA AcquireOwed ==
    ASSUME TypeOK, KnownInv, FamilyInv, OwedInv, gaveUp \subseteq gaveUp',
           NEW p \in Hosts,
           \/ StartTraining(p) \/ StartAgain(p) \/ Begin(p)
           \/ ObserveExisting(p) \/ Attach(p) \/ ObserveExistingFails(p)
           \/ Resume(p) \/ ResumeFails(p)
           \/ Create(p) \/ CreateRejected(p) \/ CreateAmbiguous(p) \/ CreateCancelled(p)
           \/ Ready(p) \/ NotReady(p)
    PROVE  OwedInv'
<1> p \in Procs BY Constants
<1>0. TypeOK' /\ Evolution BY AcquireStep
<1> PICK i \in Attempts : i = proc[p].at BY Place
<1>a. Mine(p) = rows[i] /\ rows[i] \in Row BY Place DEF Mine
<1>b. KnownAt(p) /\ OwedRow(i) /\ OwedAt(p) BY DEF KnownInv, OwedInv
<1>c. proc[p].pc \in Acquiring => rows[i].state # "absent"
  BY <1>b DEF KnownAt, Started, Acquiring, Working, Labels
<1>d. \A l \in {"admit", "observe", "resume", "ready", "release"} :
         l \in Labels \ {"begin", "create", "found", "observed"}
  BY DEF Labels
<1>e. 0 \notin Attempts /\ Shared \notin Attempts /\ \A k \in Attempts : rows[k] \in Row
  BY Constants DEF TypeOK
<1>f. ASSUME Resumed PROVE \A j \in Attempts : pods'[j] = pods[j] BY <1>e, <1>f DEF Resumed, TypeOK
<1>1. CASE StartTraining(p)
  <2>1. \A q \in Procs : proc'[q] = proc[q] \/ Away(proc'[q]) BY <1>1, <1>d, GoesAway DEF StartTraining
  <2>2. Quiet(rows[i], rows'[i]) BY <1>1, <1>a, QuietOps DEF StartTraining
  <2> QED BY <1>0, <1>1, <2>1, <2>2, OwedQuiet DEF StartTraining
<1>2. CASE StartAgain(p)
  <2>1. PICK k \in Attempts : rows[k].state = "ready" /\ rows' = Write(k, Beat(rows[k]))
    BY <1>2 DEF StartAgain
  <2>2. Quiet(rows[k], rows'[k]) /\ \A j \in Attempts \ {k} : rows'[j] = rows[j] BY <2>1, QuietWrites
  <2> QED BY <1>0, <1>2, <2>2, OwedQuiet DEF StartAgain
<1>3. CASE Begin(p)
  <2>0. rows[i].state # "absent" BY <1>3, <1>c DEF Begin, At, Acquiring
  <2>1. Quiet(rows[i], rows'[i]) /\ \A j \in Attempts \ {i} : rows'[j] = rows[j]
    BY <1>3, <1>a, <2>0, QuietWrites DEF Begin, AsReserved
  <2>2. CASE ~Goto(p, "create")
    <3>1. \A q \in Procs : proc'[q] = proc[q] \/ Away(proc'[q]) BY <1>3, <1>d, <2>2, GoesAway DEF Begin
    <3> QED BY <1>0, <1>3, <2>1, <3>1, OwedQuiet DEF Begin
  <2>3. CASE Goto(p, "create")
    <3>1. /\ \A q \in Procs \ {p} : proc'[q] = proc[q]
          /\ proc'[p].pc = "create" /\ proc'[p].at = i /\ proc[p].pc = "begin"
      BY <1>3, <2>3 DEF Goto, Begin, At, TypeOK, Control
    <3>2. ~End(p) /\ ~Goto(p, "observe") BY <3>1 DEF End, Goto, Idle, TypeOK, Control
    <3>3. rows' = Write(i, CreateStarting(rows[i])) /\ rows[i].state = "requested" /\ rows[i].source # "existing"
      BY <1>3, <1>a, <3>2 DEF Begin, AsReserved
    <3>4. rows'[i].uncertain /\ rows'[i].state = "starting" /\ rows'[i].source = rows[i].source
      <4>1. rows'[i] = CreateStarting(rows[i]) BY <3>3, Written
      <4> QED BY <1>a, <4>1 DEF CreateStarting, InState, Beat, Row
    <3>5. pods' = pods /\ pods[i] = "none" BY <1>3, <1>b, <3>3 DEF Begin, OwedRow
    <3>7. OwedRow(i)'
      BY <1>b, <2>1, <3>4, <3>5 DEF OwedRow, Quiet, Billable, Unfinished
    <3>8. Covered(i)' BY <3>4 DEF Covered, Owed, Unfinished
    <3>9. ASSUME NEW q \in Procs, proc'[q].at = i PROVE OwedAt(q)'
      <4>1. CASE q = p BY <3>1, <3>5, <3>8, <4>1 DEF OwedAt
      <4>2. CASE q # p
        <5>1. proc'[q] = proc[q] /\ OwedAt(q) BY <3>1, <4>2 DEF OwedInv
        <5>2. proc[q].pc # "create" BY <3>1, <4>2 DEF KnownInv, Acquiring
        <5> QED BY <3>4, <3>5, <3>9, <5>1, <5>2 DEF OwedAt
      <4> QED BY <4>1, <4>2
    <3> QED BY <1>0, <2>1, <3>1, <3>5, <3>7, <3>9, OwedLocal
  <2> QED BY <2>2, <2>3
<1>4. CASE ObserveExisting(p)
  <2>1. \A q \in Procs : proc'[q] = proc[q] \/ Away(proc'[q])
    BY <1>4 DEF ObserveExisting, Away, TypeOK, Control
  <2>2. Quiet(rows[i], rows'[i]) BY <1>4, <1>a, QuietOps DEF ObserveExisting
  <2> QED BY <1>0, <1>4, <2>1, <2>2, OwedQuiet DEF ObserveExisting
<1>14. CASE Attach(p)
  <2>0. rows[i].state # "absent" BY <1>14, <1>c DEF Attach, At, Acquiring
  <2>1. Quiet(rows[i], rows'[i]) /\ \A j \in Attempts \ {i} : rows'[j] = rows[j]
    BY <1>14, <1>a, <2>0, QuietWrites DEF Attach, AsReserved
  <2>2. \A q \in Procs : proc'[q] = proc[q] \/ Away(proc'[q]) BY <1>14, <1>d, GoesAway DEF Attach
  <2> QED BY <1>0, <1>14, <2>1, <2>2, OwedQuiet DEF Attach
<1>5. CASE ObserveExistingFails(p)
  <2>0. rows[i].state # "absent" /\ rows[i].source = "existing"
    BY <1>5, <1>b, <1>c DEF ObserveExistingFails, At, Acquiring, KnownAt, Started
  <2>1. \A q \in Procs : proc'[q] = proc[q] \/ Away(proc'[q]) BY <1>5, <1>d, GoesAway DEF ObserveExistingFails
  <2> QED BY <1>0, <1>5, <1>a, <2>0, <2>1, ExistingReleased DEF ObserveExistingFails
<1>6. CASE Resume(p)
  <2>0. rows[i].state # "absent" BY <1>6, <1>c DEF Resume, At, Acquiring
  <2>1. rows'[i] = Owned(rows[i]) /\ \A j \in Attempts \ {i} : rows'[j] = rows[j]
    BY <1>6, <1>a, <2>0, Written, Writes DEF Resume
  <2>2. \A q \in Procs : proc'[q] = proc[q] \/ Away(proc'[q]) BY <1>6, <1>d, GoesAway DEF Resume
  <2> QED BY <1>0, <1>6, <1>f, <2>1, <2>2, OwedQuiet DEF Resume
<1>7. CASE ResumeFails(p)
  <2>0. rows[i].state # "absent" BY <1>7, <1>c DEF ResumeFails, At, Acquiring
  <2>1. Quiet(rows[i], rows'[i]) /\ \A j \in Attempts \ {i} : rows'[j] = rows[j]
    BY <1>7, <1>a, <2>0, QuietWrites DEF ResumeFails
  <2>2. \A q \in Procs : proc'[q] = proc[q] \/ Away(proc'[q]) BY <1>7, <1>d, GoesAway DEF ResumeFails
  <2>3. \A j \in Attempts : pods'[j] = pods[j] BY <1>7, <1>f DEF ResumeFails
  <2> QED BY <1>0, <2>1, <2>2, <2>3, OwedQuiet
<1>8. CASE Create(p)
  <2>1. At(p, "create") /\ Applied(p, TRUE, "running") /\ rows' = Transition(i, CreateAccepted(rows[i]))
    BY <1>8, <1>a DEF Create
  <2>2. /\ \A q \in Procs \ {p} : proc'[q] = proc[q]
        /\ proc'[p].pc = "ready"
    BY <1>8 DEF Create, Goto, TypeOK, Control
  <2>3. /\ pods'[i] = IF pods[i] = "none" THEN "running" ELSE pods[i]
        /\ \A j \in Attempts \ {i} : pods'[j] = pods[j]
    BY <2>1, Constants DEF Applied, TypeOK
  <2>4. \A j \in Attempts \ {i} : rows'[j] = rows[j] BY <2>1 DEF Transition, TypeOK
  <2>5. /\ pods[i] # "pending" /\ (pods[i] = "stopped" \/ Covered(i))
        /\ rows[i].source = "created" /\ rows[i].state \notin {"absent", "requested"}
    BY <1>b, <1>c, <2>1 DEF OwedAt, KnownAt, Started, At, Acquiring
  <2>6. pods'[i] \in {"running", "stopped"} BY <2>3, <2>5, Constants DEF TypeOK
  <2>8. /\ rows'[i].source = "created" /\ rows'[i].state = rows[i].state /\ rows'[i].age = rows[i].age
        /\ Unfinished(i) => rows'[i].pid
    <3>1. CASE IsTerminal(rows[i])
      BY <2>1, <2>5, <3>1, Written DEF IsTerminal, Unfinished
    <3>2. CASE ~IsTerminal(rows[i])
      <4>1. rows'[i] = CreateAccepted(rows[i]) BY <2>1, <3>2, Written
      <4> QED BY <1>a, <2>5, <4>1 DEF CreateAccepted, Beat, Row
    <3> QED BY <3>1, <3>2
  <2>9. OwedRow(i)'
    <3>1. Billable(i)' => i \in gaveUp \/ Unfinished(i)
      BY <1>b, <2>3, <2>5 DEF Billable, OwedRow, Covered, Owed
    <3>2. Unfinished(i)' <=> Unfinished(i) BY <2>8 DEF Unfinished
    <3> QED BY <2>5, <2>6, <2>8, <3>1, <3>2 DEF OwedRow, Covered, Owed
  <2>10. ASSUME NEW q \in Procs, proc'[q].at = i PROVE OwedAt(q)'
    <3>1. proc'[q].pc # "create" BY <2>1, <2>2 DEF KnownInv, At, Acquiring
    <3>2. CASE q = p BY <2>2, <3>2 DEF OwedAt
    <3>3. CASE q # p
      <4>1. proc'[q] = proc[q] /\ OwedAt(q) BY <2>2, <3>3 DEF OwedInv
      <4>2. proc[q].pc = "observed" => pods'[i] = "stopped" BY <2>3, <2>5, <2>10, <4>1 DEF OwedAt
      <4> QED BY <2>6, <2>10, <3>1, <4>1, <4>2 DEF OwedAt
    <3> QED BY <3>2, <3>3
  <2>11. \A q \in Procs : proc'[q] = proc[q] \/ Away(proc'[q]) BY <2>2 DEF Away
  <2> QED BY <1>0, <2>3, <2>4, <2>9, <2>10, <2>11, OwedLocal
<1>9. CASE CreateRejected(p)
  <2>1. PICK outcome \in Outcomes(CreatePod) :
             outcome[2] \in {"error", "missing"} /\ Applied(p, outcome[1], "running")
    BY <1>9 DEF CreateRejected
  <2>2. outcome[1] = FALSE BY <2>1, Refusals, OutcomeType
  <2>3. pods[i] = "none" /\ \A j \in Attempts : pods'[j] = pods[j]
    BY <2>1, <2>2, Constants DEF Applied, TypeOK
  <2>4. rows' = Transition(i, ReleasedSurely(rows[i])) /\ proc[p].pc = "create" /\ Return(p, TRUE)
    BY <1>9, <1>a DEF CreateRejected, At
  <2>5. rows'[i].state = "released" /\ rows'[i].pid = rows[i].pid /\ rows'[i].source = rows[i].source
    BY <1>a, <2>4, Written, ReleasedRows DEF IsTerminal
  <2>6. \A j \in Attempts \ {i} : rows'[j] = rows[j] BY <2>4 DEF Transition, TypeOK
  <2>7. \A q \in Procs : proc'[q] = proc[q] \/ Away(proc'[q]) BY <1>d, <2>4, GoesAway
  <2>8. \A q \in Procs : proc'[q].pc # "create"
    <3>1. \A q \in Procs \ {p} : proc[q].pc # "create" BY <2>4 DEF KnownInv, Acquiring
    <3>2. proc'[p].pc # "create" BY <2>4, Returns
    <3> QED BY <2>7, <3>1, <3>2 DEF Away
  <2>9. rows[i].state # "absent" BY <1>c, <2>4 DEF Acquiring
  <2> QED BY <1>0, <2>3, <2>5, <2>6, <2>7, <2>8, <2>9, OwedReleased
<1>10. CASE CreateAmbiguous(p)
  <2>0. rows[i].state # "absent" BY <1>10, <1>c DEF CreateAmbiguous, At, Acquiring
  <2>1. PICK outcome \in Outcomes(CreatePod), landing \in {"pending", "running"} :
             Applied(p, outcome[1], landing)
    BY <1>10 DEF CreateAmbiguous
  <2>2. Quiet(rows[i], rows'[i]) /\ \A j \in Attempts \ {i} : rows'[j] = rows[j]
    BY <1>10, <1>a, <2>0, QuietWrites DEF CreateAmbiguous
  <2>3. \A q \in Procs : proc'[q] = proc[q] \/ Away(proc'[q]) BY <1>10, <1>d, GoesAway DEF CreateAmbiguous
  <2>4. proc'[p].pc # "create" BY <1>10 DEF CreateAmbiguous, Goto, TypeOK, Control
  <2>5. At(p, "create") /\ outcome[1] \in BOOLEAN BY <1>10, OutcomeType DEF CreateAmbiguous
  <2> QED BY <1>0, <2>1, <2>2, <2>3, <2>4, <2>5, AppliedOwed
<1>11. CASE CreateCancelled(p)
  <2>1. \A q \in Procs : proc'[q] = proc[q] \/ Away(proc'[q]) BY <1>11, <1>d, GoesAway DEF CreateCancelled
  <2>2. Quiet(rows[i], rows'[i]) BY <1>11, <1>a, QuietOps DEF CreateCancelled
  <2> QED BY <1>0, <1>11, <2>1, <2>2, AppliedOwed DEF CreateCancelled
<1>12. CASE Ready(p)
  <2>0. rows[i].state # "absent" BY <1>12, <1>c DEF Ready, At, Acquiring
  <2>1. Quiet(rows[i], rows'[i]) /\ \A j \in Attempts \ {i} : rows'[j] = rows[j]
    BY <1>12, <1>a, <2>0, QuietWrites DEF Ready
  <2>2. \A q \in Procs : proc'[q] = proc[q] \/ Away(proc'[q]) BY <1>12, <1>d, GoesAway DEF Ready
  <2> QED BY <1>0, <1>12, <2>1, <2>2, OwedQuiet DEF Ready
<1>13. CASE NotReady(p)
  <2>0. rows[i].state # "absent" BY <1>13, <1>c DEF NotReady, At, Acquiring
  <2>1. Quiet(rows[i], rows'[i]) /\ \A j \in Attempts \ {i} : rows'[j] = rows[j]
    BY <1>13, <1>a, <2>0, QuietWrites DEF NotReady
  <2>2. \A q \in Procs : proc'[q] = proc[q] \/ Away(proc'[q]) BY <1>13, <1>d, GoesAway DEF NotReady
  <2> QED BY <1>0, <1>13, <2>1, <2>2, OwedQuiet DEF NotReady
<1> QED BY <1>1, <1>2, <1>3, <1>4, <1>5, <1>6, <1>7, <1>8, <1>9, <1>10, <1>11, <1>12, <1>13,
           <1>14

\* the calls of a host that holds a session,
LEMMA JobOwed ==
    ASSUME TypeOK, KnownInv, FamilyInv, OwedInv, gaveUp \subseteq gaveUp',
           NEW p \in Hosts,
           \/ Submit(p) \/ PostTrain(p) \/ PostTrainFails(p) \/ Recover(p)
           \/ Poll(p) \/ Download(p) \/ Downloaded(p)
           \/ CancelJob(p) \/ Cancelling(p) \/ Touch(p) \/ Release(p)
    PROVE  OwedInv'
<1> p \in Procs BY Constants
<1>0. TypeOK' BY JobStep
<1> PICK i \in Attempts : i = proc[p].at BY Place
<1>a. Mine(p) = rows[i] BY DEF Mine
<1>b. \A l \in {"post", "recover", "polled", "downloaded", "cancelling", "idle"} :
         l \in Labels \ {"begin", "create", "found", "observed"}
  BY DEF Labels
<1>c. proc[p].pc \in {"post", "recover", "downloaded", "cancelling"} => rows[i].state # "absent"
  BY DEF KnownInv, KnownAt, Started, Working, Labels
<1>d. session # 0 => session \in Attempts /\ rows[session].state # "absent"
  BY DEF KnownInv, TypeOK
<1>e. pods' = pods
  BY DEF Submit, PostTrain, PostTrainFails, Recover, Poll, Download, Downloaded, CancelJob,
         Cancelling, Touch, Release
<1>f. \A q \in Procs : proc'[q] = proc[q] \/ Away(proc'[q])
  <2>1. CASE Submit(p) BY <1>b, <2>1, GoesAway DEF Submit
  <2>2. CASE PostTrain(p) BY <1>b, <2>2, GoesAway DEF PostTrain, RecordJob
  <2>3. CASE PostTrainFails(p) BY <1>b, <2>3, GoesAway DEF PostTrainFails
  <2>4. CASE Recover(p) BY <1>b, <2>4, GoesAway DEF Recover, RecordJob
  <2>5. CASE Poll(p) BY <1>b, <2>5, GoesAway DEF Poll
  <2>6. CASE Download(p) BY <1>b, <2>6, GoesAway DEF Download
  <2>7. CASE Downloaded(p) BY <1>b, <2>7, GoesAway DEF Downloaded
  <2>8. CASE CancelJob(p) BY <1>b, <2>8, GoesAway DEF CancelJob
  <2>9. CASE Cancelling(p) BY <1>b, <2>9, GoesAway DEF Cancelling
  <2>10. CASE Touch(p) BY <2>10 DEF Touch
  <2>11. CASE Release(p) BY <1>b, <2>11, GoesAway DEF Release
  <2> QED BY <2>1, <2>2, <2>3, <2>4, <2>5, <2>6, <2>7, <2>8, <2>9, <2>10, <2>11
<1>g. \E k \in Attempts : Quiet(rows[k], rows'[k]) /\ \A j \in Attempts \ {k} : rows'[j] = rows[j]
  <2>0. rows' = rows => <1>g BY QuietOps DEF TypeOK
  <2>1. CASE Submit(p) BY <1>d, <2>1, QuietWrites DEF Submit
  <2>2. ASSUME RecordJob(p), rows[i].state # "absent" PROVE <1>g
    BY <1>a, <2>2, QuietWrites DEF RecordJob
  <2>3. CASE PostTrain(p) BY <1>c, <2>0, <2>2, <2>3 DEF PostTrain, At
  <2>4. CASE PostTrainFails(p) BY <1>a, <1>c, <2>4, QuietWrites DEF PostTrainFails, At
  <2>5. CASE Recover(p)
    <3>1. rows[i].state # "absent" BY <1>c, <2>5 DEF Recover, At
    <3>2. CASE rows' = Transition(i, Beat(rows[i])) BY <3>1, <3>2, QuietWrites
    <3> QED BY <1>a, <2>2, <2>5, <3>1, <3>2 DEF Recover
  <2>6. CASE Poll(p) BY <1>d, <2>6, QuietWrites DEF Poll
  <2>7. CASE Download(p) BY <1>d, <2>7, QuietWrites DEF Download
  <2>8. CASE Downloaded(p) BY <1>a, <1>c, <2>8, QuietWrites DEF Downloaded, At
  <2>9. CASE CancelJob(p) BY <1>d, <2>9, QuietWrites DEF CancelJob
  <2>10. CASE Cancelling(p) BY <2>0, <2>10 DEF Cancelling
  <2>11. CASE Touch(p) BY <1>d, <2>11, QuietWrites DEF Touch
  <2>12. CASE Release(p) BY <2>0, <2>12 DEF Release
  <2> QED BY <2>1, <2>3, <2>4, <2>5, <2>6, <2>7, <2>8, <2>9, <2>10, <2>11, <2>12
<1> QED BY <1>0, <1>e, <1>f, <1>g, OwedQuiet

\* the subroutines of a release,
LEMMA ReleaseOwed ==
    ASSUME TypeOK, KnownInv, FamilyInv, OwedInv, gaveUp \subseteq gaveUp',
           NEW p \in Procs,
           \/ ReleaseOne(p) \/ Void(p) \/ FindByName(p) \/ FindByNameFails(p)
           \/ ResolveCreation(p) \/ StopConfirmed(p) \/ StopFails(p) \/ Polled(p)
    PROVE  OwedInv'
<1>0. TypeOK' /\ Evolution BY ReleaseStep
<1> PICK i \in Attempts : i = proc[p].at BY Place
<1>a. Mine(p) = rows[i] /\ rows[i] \in Row BY Place DEF Mine
<1>b. \A l \in {"release", "void", "stop", "polled"} :
         l \in Labels \ {"begin", "create", "found", "observed"}
  BY DEF Labels
<1>c. KnownAt(p) /\ OwedRow(i) /\ OwedAt(p) BY DEF KnownInv, OwedInv
<1>d. rows[i].state # "absent"
  BY <1>c DEF KnownAt, Started, ReleaseOne, Void, FindByName, FindByNameFails,
        ResolveCreation, StopConfirmed, StopFails, Polled, At, Working, Labels
<1>e. i \in PodIds /\ i # Shared BY Constants
<1>f. \A q \in Procs : proc[q].pc = "create" => OwedAt(q) /\ KnownAt(q) BY DEF KnownInv, OwedInv
<1>g. ASSUME Voids(p), pods' = pods PROVE OwedInv'
  <2>1. EndsRow(i, Released(rows[i])) /\ Return(p, TRUE) BY <1>g, <1>a DEF Voids
  <2>2. \A q \in Procs : proc'[q] = proc[q] \/ Away(proc'[q]) BY <1>b, <2>1, GoesAway
  <2> QED BY <1>0, <1>d, <1>g, <2>1, <2>2, EndedOwed
<1>1. CASE ReleaseOne(p)
  <2>0. pods' = pods BY <1>1 DEF ReleaseOne
  <2>1. CASE Voids(p) BY <1>g, <2>0, <2>1
  <2>2. CASE ~Voids(p)
    <3>1. \A q \in Procs : proc'[q] = proc[q] \/ Away(proc'[q])
      BY <1>1, <1>b, <2>2, GoesAway DEF ReleaseOne
    <3>2. CASE rows' \in {rows, Transition(i, Releasing(rows[i]))}
      <4>1. Quiet(rows[i], rows'[i]) /\ \A j \in Attempts \ {i} : rows'[j] = rows[j]
        BY <1>d, <3>2, QuietWrites
      <4> QED BY <1>0, <2>0, <3>1, <4>1, OwedQuiet
    <3>3. CASE rows[i].own = "preexisting_running" /\ rows' = Transition(i, Released(rows[i]))
      <4>1. rows[i].source = "existing" BY <3>3 DEF KnownInv
      <4> QED BY <1>0, <1>d, <2>0, <3>1, <3>3, <4>1, ExistingReleased
    <3> QED BY <1>1, <1>a, <2>2, <3>2, <3>3 DEF ReleaseOne
  <2> QED BY <2>1, <2>2
<1>9. CASE Void(p) BY <1>9, <1>g DEF Void
<1>2. CASE FindByName(p)
  <2>1. /\ \A q \in Procs \ {p} : proc'[q] = proc[q]
        /\ proc'[p].pc = "found" /\ proc'[p].at = i
        /\ proc'[p].saw = IF pods[i] \in {"running", "stopped"} THEN "found" ELSE "none"
        /\ rows' = rows /\ pods' = pods
    BY <1>2 DEF FindByName, TypeOK, Control
  <2>2. Covered(i) => Covered(i)' BY <2>1 DEF Covered, Owed, Unfinished
  <2>3. OwedRow(i)' BY <1>c, <2>1, <2>2 DEF OwedRow, Billable
  <2>4. ASSUME NEW q \in Procs, proc'[q].at = i PROVE OwedAt(q)'
    <3>1. CASE q = p BY <2>1, <3>1 DEF OwedAt
    <3>2. CASE q # p BY <2>1, <2>2, <2>4, <3>2 DEF OwedAt, OwedInv
    <3> QED BY <3>1, <3>2
  <2> QED BY <1>0, <2>1, <2>3, <2>4, OwedLocal
<1>3. CASE FindByNameFails(p)
  <2>1. Quiet(rows[i], rows'[i]) /\ \A j \in Attempts \ {i} : rows'[j] = rows[j]
    BY <1>3, <1>a, <1>d, QuietWrites DEF FindByNameFails
  <2>2. \A q \in Procs : proc'[q] = proc[q] \/ Away(proc'[q]) BY <1>3, <1>b, GoesAway DEF FindByNameFails
  <2> QED BY <1>0, <1>3, <2>1, <2>2, OwedQuiet DEF FindByNameFails
<1>4. CASE ResolveCreation(p)
  <2> DEFINE r == Resolved(rows[i], proc[p].saw)
  <2>0. /\ At(p, "found") /\ rows' = Transition(i, r) /\ pods' = pods
        /\ IsTerminal(r) => EndsRow(i, r)
    BY <1>4, <1>a DEF ResolveCreation, EndsRow
  <2>1. \A q \in Procs : proc'[q] = proc[q] \/ Away(proc'[q])
    <3>1. (IsTerminal(rows[i]) \/ IsTerminal(r)) \in BOOLEAN BY DEF IsTerminal
    <3> QED BY <1>4, <1>a, <1>b, <3>1, GoesAway DEF ResolveCreation
  <2>2. \A j \in Attempts \ {i} : rows'[j] = rows[j] BY <2>0 DEF Transition, TypeOK
  <2>3. rows'[i] = IF IsTerminal(rows[i]) THEN rows[i] ELSE r BY <2>0, Written
  <2>4. CASE IsTerminal(rows[i]) \/ r = AwaitingCreate(rows[i])
    <3>1. Quiet(rows[i], rows'[i]) BY <1>a, <1>d, <2>3, <2>4, QuietOps DEF IsTerminal
    <3> QED BY <1>0, <2>0, <2>1, <2>2, <3>1, OwedQuiet
  <2>5. CASE ~IsTerminal(rows[i]) /\ proc[p].saw = "found"
    <3>1. rows'[i] = Adopted(rows[i]) BY <2>3, <2>5 DEF Resolved
    <3>2. /\ rows'[i].pid /\ rows'[i].source = rows[i].source
          /\ rows'[i].state = "reconcile_required" /\ rows'[i].age = rows[i].age
      BY <1>a, <3>1 DEF Adopted, Row
    <3>3. pods[i] \in {"running", "stopped"} BY <1>c, <2>0, <2>5 DEF OwedAt, At
    <3>5. Covered(i)' BY <1>d, <2>5, <3>2 DEF Covered, Owed, Unfinished
    <3>6. OwedRow(i)' BY <1>c, <2>0, <3>2, <3>3, <3>5 DEF OwedRow
    <3>7. ASSUME NEW q \in Procs, proc'[q].at = i PROVE OwedAt(q)'
      <4>1. CASE Away(proc'[q]) BY <4>1 DEF Away, OwedAt
      <4>2. CASE proc'[q] = proc[q]
        BY <2>0, <3>2, <3>5, <3>7, <4>2 DEF OwedAt, OwedInv
      <4> QED BY <2>1, <4>1, <4>2
    <3> QED BY <1>0, <2>0, <2>1, <2>2, <3>6, <3>7, OwedLocal
  <2>6. CASE ~IsTerminal(rows[i]) /\ proc[p].saw # "found" /\ rows[i].age # 0
    <3>1. r = ReleasedSurely(rows[i]) BY <2>6 DEF Resolved
    <3>2. EndsRow(i, r) BY <1>a, <2>0, <3>1, ReleasedRows DEF IsTerminal
    <3> QED BY <1>0, <1>d, <2>0, <2>1, <3>1, <3>2, EndedOwed
  <2>7. \/ proc[p].saw = "found" \/ r = AwaitingCreate(rows[i]) \/ rows[i].age # 0 BY DEF Resolved
  <2> QED BY <2>4, <2>5, <2>6, <2>7
<1>5. ASSUME Stops(PodOf(proc[p].at)), At(p, "stop")
      PROVE  /\ rows[i].state \notin {"absent", "requested"}
             /\ \A j \in Attempts \ {i} : pods'[j] = pods[j]
             /\ rows[i].source = "created" => pods'[i] = "stopped"
             /\ rows[i].source # "created" => pods'[i] = "none" /\ pods[i] = "none"
             /\ rows[i].source \in {"created", "existing"}
  <2>1. rows[i].state \notin {"absent", "requested"} BY <1>5, <1>c, <1>d DEF KnownAt, Started, At
  <2>2. rows[i].source \in {"created", "existing"} BY <1>a DEF Row
  <2>3. PodOf(i) = IF rows[i].source = "existing" THEN Shared ELSE i BY DEF PodOf
  <2>4. \A j \in Attempts : j \in PodIds /\ j # Shared BY Constants
  <2>5. pods' = [pods EXCEPT ![PodOf(i)] = "stopped"] BY <1>5 DEF Stops
  <2>6. rows[i].source # "created" => pods[i] = "none" BY <1>c DEF OwedRow
  <2> QED BY <2>1, <2>2, <2>3, <2>4, <2>5, <2>6 DEF TypeOK
<1>6. CASE StopConfirmed(p)
  <2>1. rows' = Transition(i, ReleasedSurely(rows[i])) /\ At(p, "stop") /\ Stops(PodOf(proc[p].at))
    BY <1>6, <1>a DEF StopConfirmed
  <2>2. \A q \in Procs : proc'[q] = proc[q] \/ Away(proc'[q]) BY <1>6, <1>b, GoesAway DEF StopConfirmed
  <2>3. rows'[i].state = "released" /\ rows'[i].pid = rows[i].pid /\ rows'[i].source = rows[i].source
    BY <1>a, <2>1, Written, ReleasedRows DEF IsTerminal
  <2>4. \A j \in Attempts \ {i} : rows'[j] = rows[j] BY <2>1 DEF Transition, TypeOK
  <2>5. \A q \in Procs : proc'[q].pc = "create" /\ proc'[q].at = i => rows[i].source = "created"
    BY <1>f, <2>2 DEF KnownAt, Started, Away
  <2> QED BY <1>0, <1>5, <1>d, <2>1, <2>2, <2>3, <2>4, <2>5, OwedReleased
<1>7. CASE StopFails(p)
  <2>1. Quiet(rows[i], rows'[i]) /\ \A j \in Attempts \ {i} : rows'[j] = rows[j]
    BY <1>7, <1>a, <1>d, QuietWrites DEF StopFails
  <2>2. \A q \in Procs : proc'[q] = proc[q] \/ Away(proc'[q])
    <3>1. IsTerminal(Mine(p)) \in BOOLEAN BY DEF IsTerminal
    <3> QED BY <1>7, <1>b, <3>1, GoesAway DEF StopFails
  <2>3. CASE pods' = pods BY <1>0, <2>1, <2>2, <2>3, OwedQuiet
  <2>4. CASE Stops(PodOf(proc[p].at))
    <3>0. At(p, "stop") BY <1>7 DEF StopFails
    <3>1. CASE rows[i].source # "created"
      <4>1. \A j \in Attempts : pods'[j] = pods[j] BY <1>5, <2>4, <3>0, <3>1
      <4> QED BY <1>0, <2>1, <2>2, <4>1, OwedQuiet
    <3>2. CASE rows[i].source = "created"
      <4>1. pods'[i] = "stopped" /\ \A j \in Attempts \ {i} : pods'[j] = pods[j]
        BY <1>5, <2>4, <3>0, <3>2
      <4>4. OwedRow(i)'
        BY <1>5, <1>c, <2>1, <2>4, <3>0, <3>2, <4>1 DEF OwedRow, Quiet, Billable, Unfinished
      <4>5. \A q \in Procs : proc'[q].at = i => OwedAt(q)' BY <4>1 DEF OwedAt
      <4> QED BY <1>0, <2>1, <2>2, <4>1, <4>4, <4>5, OwedLocal
    <3> QED BY <3>1, <3>2
  <2> QED BY <1>7, <2>3, <2>4 DEF StopFails
<1>8. CASE Polled(p)
  <2>1. Quiet(rows[i], rows'[i]) /\ \A j \in Attempts \ {i} : rows'[j] = rows[j]
    BY <1>8, <1>a, <1>d, QuietWrites DEF Polled
  <2>2. \A q \in Procs : proc'[q] = proc[q] \/ Away(proc'[q]) BY <1>8, <1>b, GoesAway DEF Polled
  <2> QED BY <1>0, <1>8, <2>1, <2>2, OwedQuiet DEF Polled
<1> QED BY <1>1, <1>2, <1>3, <1>4, <1>6, <1>7, <1>8, <1>9

\* the passes of a reconciler,
LEMMA ReconcileOwed ==
    ASSUME TypeOK, KnownInv, FamilyInv, OwedInv, gaveUp \subseteq gaveUp',
           NEW p \in Reconcilers, ReconcilerStep(p)
    PROVE  OwedInv'
<1> p \in Procs BY Constants
<1>0. TypeOK' /\ Evolution BY ReconcileStep
<1>a. Root \in Attempts /\ \A k \in Attempts : rows[k] \in Row BY Constants DEF TypeOK
<1>b. \A l \in {"release", "family", "reap", "polled"} :
         l \in Labels \ {"begin", "create", "found", "observed"}
  BY DEF Labels
<1>c. ASSUME rows' = rows, pods' = pods, \A q \in Procs : proc'[q] = proc[q] \/ Away(proc'[q])
      PROVE  OwedInv'
  <2>1. Quiet(rows[Root], rows'[Root]) BY <1>a, <1>c, QuietOps
  <2> QED BY <1>0, <1>a, <1>c, <2>1, OwedQuiet
<1>1. CASE ReconcileFamily(p) BY <1>1, <1>b, <1>c, GoesAway DEF ReconcileFamily
<1>2. CASE PassEnds(p) BY <1>2, <1>b, <1>c, GoesAway DEF PassEnds
<1>3. CASE ReconcileStopped(p)
  <2> PICK i \in Attempts : i = proc[p].at BY Place
  <2>1. rows' = Transition(i, Released(rows[i])) /\ pods' = pods /\ proc[p].pc = "observed"
    BY <1>3 DEF ReconcileStopped, Mine, At
  <2>2. \A q \in Procs : proc'[q] = proc[q] \/ Away(proc'[q]) BY <1>3, <1>b, GoesAway DEF ReconcileStopped
  <2>3. rows[i].state # "absent" BY <2>1 DEF KnownInv, KnownAt, Started, Working, Labels
  <2>4. CASE rows[i].source = "existing" BY <1>0, <2>1, <2>2, <2>3, <2>4, ExistingReleased
  <2>5. CASE rows[i].source = "created"
    <3>1. pods[i] = "stopped" BY <2>1, <2>5 DEF OwedInv, OwedAt
    <3>2. rows'[i].state = "released" /\ rows'[i].pid = rows[i].pid /\ rows'[i].source = rows[i].source
      BY <1>a, <2>1, Written, ReleasedRows DEF IsTerminal
    <3>3. \A j \in Attempts \ {i} : rows'[j] = rows[j] BY <2>1 DEF Transition, TypeOK
    <3> QED BY <1>0, <2>1, <2>2, <2>3, <2>5, <3>1, <3>2, <3>3, OwedReleased
  <2> QED BY <1>a, <2>4, <2>5 DEF Row
<1>4. ASSUME NEW i \in Attempts, ReapRequested(p, i) PROVE OwedInv'
  BY <1>4, <1>b, <1>c, GoesAway DEF ReapRequested
<1>8. CASE Reap(p)
  <2> PICK i \in Attempts : i = proc[p].at BY Place
  <2>1. pods' = pods /\ proc[p].pc = "reap" BY <1>8 DEF Reap, At
  <2>2. rows[i].state # "absent" BY <2>1 DEF KnownInv, KnownAt, Working, Labels
  <2>3. PICK new \in {Released(rows[i]), Unowned(rows[i])} : EndsRow(i, new) BY <1>8 DEF Reap, Mine
  <2>4. \A q \in Procs : proc'[q] = proc[q] \/ Away(proc'[q]) BY <1>8, <1>b, GoesAway DEF Reap
  <2> QED BY <1>0, <2>1, <2>2, <2>3, <2>4, EndedOwed
<1>5. ASSUME NEW i \in Attempts, ReconcileRelease(p, i) PROVE OwedInv'
  BY <1>5, <1>b, <1>c, GoesAway DEF ReconcileRelease
<1>6. ASSUME NEW i \in Attempts, ReconcileJob(p, i) PROVE OwedInv'
  <2>1. \A q \in Procs : proc'[q] = proc[q] \/ Away(proc'[q]) BY <1>6, <1>b, GoesAway DEF ReconcileJob
  <2>2. Quiet(rows[i], rows'[i]) /\ \A j \in Attempts \ {i} : rows'[j] = rows[j]
    BY <1>6, QuietWrites DEF ReconcileJob
  <2> QED BY <1>0, <1>6, <2>1, <2>2, OwedQuiet DEF ReconcileJob
<1>7. ASSUME NEW i \in Attempts, ReconcileObserve(p, i) PROVE OwedInv'
  <2>1. /\ rows' = rows /\ pods' = pods /\ pods[PodOf(i)] = "stopped"
        /\ \A q \in Procs \ {p} : proc'[q] = proc[q]
        /\ proc'[p].pc = "observed" /\ proc'[p].at = i
    BY <1>7 DEF ReconcileObserve, Jump, TypeOK
  <2>2. rows[i].source = "created" => pods[i] = "stopped" BY <2>1 DEF PodOf
  <2>3. Covered(i) => Covered(i)' BY <2>1 DEF Covered, Owed, Unfinished
  <2>4. OwedRow(i)' BY <2>1, <2>3 DEF OwedInv, OwedRow, Billable
  <2>5. ASSUME NEW q \in Procs, proc'[q].at = i PROVE OwedAt(q)'
    <3>1. CASE q = p BY <2>1, <2>2, <3>1 DEF OwedAt
    <3>2. CASE q # p BY <2>1, <2>3, <2>5, <3>2 DEF OwedAt, OwedInv
    <3> QED BY <3>1, <3>2
  <2> QED BY <1>0, <2>1, <2>4, <2>5, OwedLocal
<1> QED BY <1>1, <1>2, <1>3, <1>4, <1>5, <1>6, <1>7, <1>8 DEF ReconcilerStep

\* what happens around the service,
LEMMA EnvironmentOwed ==
    ASSUME TypeOK, KnownInv, FamilyInv, OwedInv, gaveUp \subseteq gaveUp', Environment
    PROVE  OwedInv'
<1>0. TypeOK' /\ Evolution BY EnvironmentStep
<1>a. /\ Root \in Attempts /\ \A k \in Attempts : rows[k] \in Row /\ k \in PodIds /\ k # Shared
  BY Constants DEF TypeOK
<1>b. ASSUME rows' = rows, \A j \in Attempts : pods'[j] = pods[j],
             \A q \in Procs : proc'[q] = proc[q] \/ Away(proc'[q])
      PROVE  OwedInv'
  <2>1. Quiet(rows[Root], rows'[Root]) BY <1>a, <1>b, QuietOps
  <2> QED BY <1>0, <1>a, <1>b, <2>1, OwedQuiet
<1>1. ASSUME NEW i \in Attempts, GoesStale(i) PROVE OwedInv'
  <2>1. rows'[i] = [rows[i] EXCEPT !.hb = "stale"] /\ \A j \in Attempts \ {i} : rows'[j] = rows[j]
    BY <1>1 DEF GoesStale, Write, TypeOK
  <2>2. Quiet(rows[i], rows'[i]) BY <1>a, <2>1, QuietOps
  <2> QED BY <1>0, <1>1, <2>1, <2>2, OwedQuiet DEF GoesStale
<1>2. ASSUME NEW i \in Attempts, DeadlinePasses(i) PROVE OwedInv'
  <2>1. rows'[i] = [rows[i] EXCEPT !.age = @ + 1] /\ \A j \in Attempts \ {i} : rows'[j] = rows[j]
    BY <1>2 DEF DeadlinePasses, Write, TypeOK
  <2>2. /\ rows'[i].state = rows[i].state /\ rows'[i].pid = rows[i].pid
        /\ rows'[i].uncertain = rows[i].uncertain /\ rows'[i].source = rows[i].source
    BY <1>a, <2>1 DEF Row
  <2>3. pods' = pods /\ proc' = proc BY <1>2 DEF DeadlinePasses
  <2>5. Covered(i) => Covered(i)' BY <2>2 DEF Covered, Owed, Unfinished
  <2>6. OwedRow(i)' BY <2>2, <2>3, <2>5 DEF OwedInv, OwedRow, Billable
  <2>7. \A q \in Procs : proc'[q].at = i => OwedAt(q)' BY <2>2, <2>3, <2>5 DEF OwedInv, OwedAt
  <2> QED BY <1>0, <2>1, <2>3, <2>6, <2>7, OwedLocal
<1>3. ASSUME NEW i \in Attempts, CreateLands(i) PROVE OwedInv'
  <2>1. /\ pods[i] = "pending" /\ pods'[i] \in {"running", "none"}
        /\ \A j \in Attempts \ {i} : pods'[j] = pods[j]
        /\ rows' = rows /\ proc' = proc
    BY <1>3, <1>a DEF CreateLands, TypeOK
  <2>2. OwedRow(i) BY DEF OwedInv
  <2>3. Covered(i)' BY <2>1, <2>2 DEF OwedRow, Billable, Covered, Owed, Unfinished
  <2>4. OwedRow(i)' BY <2>1, <2>2, <2>3 DEF OwedRow
  <2>5. ASSUME NEW q \in Procs, proc'[q].at = i PROVE OwedAt(q)'
    <3>1. OwedAt(q) BY DEF OwedInv
    <3> QED BY <2>1, <2>3, <2>5, <3>1 DEF OwedAt
  <2> QED BY <1>0, <2>1, <2>4, <2>5, OwedLocal
<1>4. ASSUME NEW k \in PodIds, TrainerEnds(k) PROVE OwedInv' BY <1>4, <1>b DEF TrainerEnds
<1>5. ASSUME NEW p \in Hosts, CreateArrives(p) PROVE OwedInv'
  <2> p \in Procs BY Constants
  <2> PICK i \in Attempts : i = proc[p].at BY Place
  <2>1. Quiet(rows[i], rows'[i]) BY <1>5, <1>a, QuietOps DEF CreateArrives
  <2> QED BY <1>0, <1>5, <2>1, AppliedOwed DEF CreateArrives
<1>6. CASE OthersUse
  <2>1. \A j \in Attempts : pods'[j] = pods[j] BY <1>6, <1>a DEF OthersUse, Stops, TypeOK
  <2> QED BY <1>6, <1>b, <2>1 DEF OthersUse
<1>7. CASE Crash
  <2>1. \A q \in Procs : IF q \in Hosts THEN proc'[q] = Idle ELSE proc'[q] = proc[q]
    BY <1>7 DEF Crash
  <2>2. \A q \in Procs : proc'[q] = proc[q] \/ Away(proc'[q]) BY <2>1 DEF Away, Idle
  <2>3. rows' = rows BY <1>7 DEF Crash
  <2>4. CASE \A j \in Attempts : pods'[j] = pods[j] BY <1>b, <2>2, <2>3, <2>4
  <2>5. ASSUME NEW p \in Hosts, At(p, "create"), Applied(p, TRUE, "pending") PROVE OwedInv'
    <3> p \in Procs BY Constants
    <3> PICK i \in Attempts : i = proc[p].at BY Place
    <3>1. Quiet(rows[i], rows'[i]) BY <1>a, <2>3, QuietOps
    <3>2. proc'[p].pc # "create" BY <2>1 DEF Idle
    <3> QED BY <1>0, <2>2, <2>3, <2>5, <3>1, <3>2, AppliedOwed
  <2>6. ASSUME Resumed PROVE OwedInv'
    <3>1. \A j \in Attempts : pods'[j] = pods[j] BY <1>a, <2>6 DEF Resumed, TypeOK
    <3> QED BY <2>4, <3>1
  <2>7. ASSUME NEW p \in Hosts, At(p, "stop"), Stops(PodOf(proc[p].at)) PROVE OwedInv'
    <3> p \in Procs BY Constants
    <3> PICK i \in Attempts : i = proc[p].at BY Place
    <3>0. KnownAt(p) /\ OwedRow(i) BY DEF KnownInv, OwedInv
    <3>1. pods' = [pods EXCEPT ![PodOf(i)] = "stopped"] BY <2>7 DEF Stops
    <3>2. CASE rows[i].source = "existing"
      <4>1. \A j \in Attempts : pods'[j] = pods[j] BY <1>a, <3>1, <3>2 DEF PodOf, TypeOK
      <4> QED BY <2>4, <4>1
    <3>3. CASE rows[i].source # "existing"
      <4>1. pods'[i] = "stopped" /\ \A j \in Attempts \ {i} : pods'[j] = pods[j]
        BY <1>a, <3>1, <3>3 DEF PodOf, TypeOK
      <4>2. rows[i].source = "created" BY <1>a, <3>3 DEF Row
      <4>3. pods[i] \in {"running", "stopped"} BY <2>7, <3>0, <4>2 DEF KnownAt, Started, At, OwedRow
      <4>5. OwedRow(i)' BY <2>3, <3>0, <4>1, <4>3 DEF OwedRow, Billable, Unfinished
      <4>6. \A q \in Procs : proc'[q].at = i => OwedAt(q)' BY <4>1 DEF OwedAt
      <4> QED BY <1>0, <2>2, <2>3, <4>1, <4>5, <4>6, OwedLocal
    <3> QED BY <3>2, <3>3
  <2> QED BY <1>7, <2>4, <2>5, <2>6, <2>7 DEF Crash
<1> QED BY <1>1, <1>2, <1>3, <1>4, <1>5, <1>6, <1>7 DEF Environment

\* the insertion of a row,
LEMMA ReserveOwed ==
    ASSUME TypeOK, KnownInv, FamilyInv, OwedInv, gaveUp \subseteq gaveUp',
           NEW p \in Hosts, Reserve(p)
    PROVE  OwedInv'
<1> p \in Procs BY Constants
<1> PICK i \in Attempts : i = proc[p].at BY Place
<1>0. TypeOK' BY ReserveStep
<1>1. pods' = pods BY DEF Reserve
<1>2. CASE Inserted(p)
  <2>1. PICK source \in {"created", "existing"} : rows' = [rows EXCEPT ![i] = Reserved(source)]
    BY <1>2 DEF Inserted
  <2>2. rows[i].state = "absent" BY <1>2 DEF Inserted
  <2>3. /\ \A q \in Procs \ {p} : proc'[q] = proc[q]
        /\ proc'[p].pc = "begin" /\ proc'[p].at = i
    BY <1>2 DEF Inserted, TypeOK
  <2>4. rows'[i] = Reserved(source) /\ \A j \in Attempts \ {i} : rows'[j] = rows[j]
    BY <2>1 DEF TypeOK
  <2>5. rows'[i].source = source /\ rows'[i].age = 0 BY <2>4 DEF Reserved
  <2>6. rows'[i].source = "created" => ~rows'[i].pid
    <3>1. Reserved(source).pid = (source = "existing") BY DEF Reserved
    <3>2. "created" # "existing" OBVIOUS
    <3> QED BY <2>4, <2>5, <3>1, <3>2, Zenon
  <2>7. pods[i] = "none" BY <2>2 DEF OwedInv, OwedRow
  <2>8. OwedRow(i)' BY <1>1, <2>5, <2>6, <2>7 DEF OwedRow, Billable
  <2>9. ASSUME NEW q \in Procs, proc'[q].at = i PROVE OwedAt(q)'
    <3>1. CASE q = p BY <2>3, <3>1 DEF OwedAt
    <3>2. CASE q # p
      <4>1. proc'[q] = proc[q] /\ KnownAt(q) BY <2>3, <3>2 DEF KnownInv
      <4>2. proc[q].pc \notin {"create", "found", "observed"} BY <2>2, <2>9, <4>1 DEF KnownAt, Started, Working, Labels
      <4> QED BY <4>1, <4>2 DEF OwedAt
    <3> QED BY <3>1, <3>2
  <2> QED BY <1>0, <1>1, <2>3, <2>4, <2>8, <2>9, OwedLocal
<1>3. CASE rows' = rows /\ Evolution /\ End(p)
  <2>0. "idle" \in Labels \ {"begin", "create", "found", "observed"} BY DEF Labels
  <2>1. \A q \in Procs : proc'[q] = proc[q] \/ Away(proc'[q]) BY <1>3, <2>0, GoesAway
  <2>2. Quiet(rows[i], rows[i]) BY QuietOps DEF TypeOK
  <2> QED BY <1>0, <1>1, <1>3, <2>1, <2>2, OwedQuiet
<1> QED BY <1>2, <1>3, ReserveStep

\* and the flags of the family.
LEMMA FamilyOwed ==
    ASSUME TypeOK, KnownInv, FamilyInv, OwedInv, gaveUp \subseteq gaveUp',
           NEW p \in Procs, ReleaseFamily(p) \/ FamilyReleased(p)
    PROVE  OwedInv'
<1>0. TypeOK' /\ Flagged BY FamilyStep
<1>1. pods' = pods BY DEF ReleaseFamily, FamilyReleased
<1>2. \A l \in {"release", "close"} : l \in Labels \ {"begin", "create", "found", "observed"} BY DEF Labels
<1>3. \A q \in Procs : proc'[q] = proc[q] \/ Away(proc'[q])
  BY <1>2, GoesAway DEF ReleaseFamily, FamilyReleased
<1>4. Quiet(rows[Root], rows'[Root]) /\ \A j \in Attempts \ {Root} : rows'[j] = rows[j]
  BY <1>0 DEF Flagged, Quiet
<1> QED BY <1>0, <1>1, <1>3, <1>4, Constants, OwedQuiet

LEMMA InitOwed == Init => OwedInv
<1> SUFFICES ASSUME Init PROVE OwedInv
  OBVIOUS
<1>1. /\ \A i \in Attempts : rows[i] = NoRow /\ pods[i] = "none"
      /\ \A p \in Procs : proc[p] = Idle
  BY Constants DEF Init
<1>2. NoRow.state = "absent" BY DEF NoRow, Reserved
<1>3. ~NoRow.pid
  <2>1. NoRow.pid = ("created" = "existing") BY DEF NoRow, Reserved
  <2>2. "created" # "existing" OBVIOUS
  <2> QED BY <2>1, <2>2, Zenon
<1>4. Idle.pc = "idle" BY DEF Idle
<1> QED BY <1>1, <1>2, <1>3, <1>4 DEF OwedInv, OwedRow, OwedAt, Billable, Unfinished

\* What was given up stays so.
LEMMA GaveUpKept ==
    ASSUME [Next]_vars
    PROVE  gaveUp \subseteq gaveUp'
<1> USE DEF history
<1>0. ASSUME NEW i, NEW new, EndsRow(i, new) PROVE gaveUp \subseteq gaveUp' BY <1>0 DEF EndsRow
<1>1. ASSUME NEW p \in Hosts, HostStep(p) PROVE gaveUp \subseteq gaveUp'
  BY <1>1 DEF HostStep, StartTraining, StartAgain, Reserve, Begin, ObserveExisting, Attach,
       ObserveExistingFails, Resume, ResumeFails, Create, CreateRejected, CreateAmbiguous,
       CreateCancelled, Ready, NotReady, Submit, PostTrain, PostTrainFails, Recover, Poll, Download,
       Downloaded, CancelJob, Cancelling, Touch, Release
<1>2. ASSUME NEW p \in Procs, ServiceStep(p) PROVE gaveUp \subseteq gaveUp'
  <2>1. CASE ReleaseOne(p) \/ Void(p) \/ ResolveCreation(p)
    BY <1>0, <2>1 DEF ReleaseOne, Void, Voids, ResolveCreation
  <2>2. CASE ~(ReleaseOne(p) \/ Void(p) \/ ResolveCreation(p))
    BY <1>2, <2>2 DEF ServiceStep, ReleaseFamily, FamilyReleased, FindByName, FindByNameFails,
         StopConfirmed, StopFails, Polled
  <2> QED BY <2>1, <2>2
<1>3. ASSUME NEW p \in Reconcilers, ReconcilerStep(p) PROVE gaveUp \subseteq gaveUp'
  <2>1. CASE Reap(p) BY <1>0, <2>1 DEF Reap
  <2>2. CASE ~Reap(p)
    BY <1>3, <2>2 DEF ReconcilerStep, ReconcileFamily, PassEnds, ReconcileStopped, ReapRequested,
         ReconcileRelease, ReconcileJob, ReconcileObserve
  <2> QED BY <2>1, <2>2
<1>4. CASE Environment
  BY <1>4 DEF Environment, GoesStale, DeadlinePasses, CreateLands, TrainerEnds, CreateArrives,
       OthersUse, Crash
<1>5. CASE UNCHANGED vars BY <1>5 DEF vars
<1> QED BY <1>1, <1>2, <1>3, <1>4, <1>5 DEF Next

LEMMA NextOwed ==
    ASSUME TypeOK, KnownInv, FamilyInv, OwedInv, [Next]_vars
    PROVE  OwedInv'
<1>0. gaveUp \subseteq gaveUp' BY GaveUpKept
<1>1. ASSUME NEW p \in Hosts, HostStep(p) PROVE OwedInv'
  BY <1>0, <1>1, ReserveOwed, AcquireOwed, JobOwed DEF HostStep
<1>2. ASSUME NEW p \in Procs, ServiceStep(p) PROVE OwedInv'
  BY <1>0, <1>2, FamilyOwed, ReleaseOwed DEF ServiceStep
<1>3. ASSUME NEW p \in Reconcilers, ReconcilerStep(p) PROVE OwedInv' BY <1>0, <1>3, ReconcileOwed
<1>4. CASE Environment BY <1>0, <1>4, EnvironmentOwed
<1>5. CASE UNCHANGED vars
  BY <1>5 DEF vars, history, OwedInv, OwedRow, OwedAt, Covered, Owed, Billable, Unfinished
<1> QED BY <1>1, <1>2, <1>3, <1>4, <1>5 DEF Next

\* A Pod that was created for an attempt never bills without an unfinished row
\* that can find it, unless its row was ended over the create: not when the
\* answer is lost or late, the caller is cancelled, the manager dies between the
\* POST and its record, or a stop is not confirmed.
THEOREM CreatedStaysOwed == Spec => []CreatedIsOwed
<1>1. Init => TypeOK /\ KnownInv /\ FamilyInv /\ OwedInv BY InitInv, InitOwed
<1>2. TypeOK /\ KnownInv /\ FamilyInv /\ OwedInv /\ [Next]_vars
        => (TypeOK /\ KnownInv /\ FamilyInv /\ OwedInv)'
  BY NextInv, NextOwed
<1>3. OwedInv => CreatedIsOwed BY DEF OwedInv, OwedRow, Covered, CreatedIsOwed
<1> QED BY <1>1, <1>2, <1>3, PTL DEF Spec

-----------------------------------------------------------------------------
(* A Pod that runs for others is stopped on two grounds only. *)

\* Nothing takes a ground back: only Attach and ReleaseOne write the history.
LEMMA GroundsKept ==
    ASSUME [Next]_vars
    PROVE  grounds \subseteq grounds'
<1> USE DEF history
<1>1. ASSUME NEW p \in Hosts, HostStep(p) PROVE grounds \subseteq grounds'
  BY <1>1 DEF HostStep, StartTraining, StartAgain, Reserve, Begin, ObserveExisting, Attach,
       ObserveExistingFails, Resume, ResumeFails, Create, CreateRejected, CreateAmbiguous,
       CreateCancelled, Ready, NotReady, Submit, PostTrain, PostTrainFails, Recover, Poll, Download,
       Downloaded, CancelJob, Cancelling, Touch, Release
<1>2. ASSUME NEW p \in Procs, ServiceStep(p) PROVE grounds \subseteq grounds'
  BY <1>2 DEF ServiceStep, ReleaseFamily, FamilyReleased, ReleaseOne, Void, FindByName,
       FindByNameFails, ResolveCreation, StopConfirmed, StopFails, Polled
<1>3. ASSUME NEW p \in Reconcilers, ReconcilerStep(p) PROVE grounds \subseteq grounds'
  BY <1>3 DEF ReconcilerStep, ReconcileFamily, PassEnds, Reap, ReconcileStopped, ReapRequested,
       ReconcileRelease, ReconcileJob, ReconcileObserve
<1>4. CASE Environment
  BY <1>4 DEF Environment, GoesStale, DeadlinePasses, CreateLands, TrainerEnds, CreateArrives,
       OthersUse, Crash
<1>5. CASE UNCHANGED vars BY <1>5 DEF vars
<1> QED BY <1>1, <1>2, <1>3, <1>4, <1>5 DEF Next

\* So a Pod that may be stopped stays one: a family is never reopened.
LEMMA FreeKept ==
    ASSUME TypeOK, KnownInv, [Next]_vars
    PROVE  Free => Free'
<1>0. grounds \subseteq grounds' BY GroundsKept
<1>a. Evolution => (rows[Root].famReq => rows'[Root].famReq)
  BY Constants DEF Evolution, Evolves
<1>b. rows'[Root].famReq \/ ~rows[Root].famReq => (Free => Free') BY <1>0 DEF Free
<1>1. ASSUME NEW p \in Hosts, HostStep(p) PROVE Free => Free'
  <2>1. CASE Reserve(p)
    <3>1. Inserted(p) => (rows[Root].famReq => rows'[Root].famReq)
      BY Constants DEF Inserted, KnownInv, TypeOK
    <3> QED BY <1>a, <1>b, <2>1, <3>1, ReserveStep
  <2>2. CASE ~Reserve(p)
    <3>1. Evolution BY <1>1, <2>2, AcquireStep, JobStep DEF HostStep
    <3> QED BY <1>a, <1>b, <3>1
  <2> QED BY <2>1, <2>2
<1>2. ASSUME NEW p \in Procs, ServiceStep(p) PROVE Free => Free'
  <2>1. CASE ReleaseFamily(p) \/ FamilyReleased(p) BY <1>b, <2>1, FamilyStep DEF Flagged
  <2>2. CASE ~(ReleaseFamily(p) \/ FamilyReleased(p))
    <3>1. Evolution BY <1>2, <2>2, ReleaseStep DEF ServiceStep
    <3> QED BY <1>a, <1>b, <3>1
  <2> QED BY <2>1, <2>2
<1>3. ASSUME NEW p \in Reconcilers, ReconcilerStep(p) PROVE Free => Free'
  BY <1>3, <1>a, <1>b, ReconcileStep
<1>4. CASE Environment BY <1>4, <1>a, <1>b, EnvironmentStep
<1>5. CASE UNCHANGED vars BY <1>5 DEF vars, history, Free
<1> QED BY <1>1, <1>2, <1>3, <1>4, <1>5 DEF Next

\* What a step has to keep.
LEMMA SharedLocal ==
    ASSUME TypeOK, KnownInv, SharedInv, Free => Free',
           \A i \in Attempts : rows[i].state # "absent" => rows'[i].source = rows[i].source,
           \A q \in Procs : proc'[q] = proc[q] \/ SharedAt(q)',
           Claim(rows'[Root]) => Claim(rows[Root]) \/ Free
    PROVE  SharedInv'
<1>1. ASSUME NEW q \in Procs, proc'[q] = proc[q] PROVE SharedAt(q)'
  <2>1. proc[q].at \in Attempts /\ KnownAt(q) /\ SharedAt(q) BY Place DEF KnownInv, SharedInv
  <2>2. proc[q].pc = "stop" => rows'[proc[q].at].source = rows[proc[q].at].source
    BY <2>1 DEF KnownAt, Working, Labels
  <2> QED BY <1>1, <2>1, <2>2 DEF SharedAt
<1>2. Claim(rows'[Root]) => Free' BY DEF SharedInv
<1> QED BY <1>1, <1>2 DEF SharedInv

\* The labels that say nothing of the existing Pod.
Clear(c) == c.pc \notin {"stop", "resume"}

\* A step that is quiet about one attempt makes no claim.
LEMMA SharedQuiet ==
    ASSUME TypeOK, KnownInv, SharedInv, Free => Free', NEW i \in Attempts,
           \A j \in Attempts \ {i} : rows'[j] = rows[j],
           \/ Quiet(rows[i], rows'[i]) /\ (rows[i].state # "requested" \/ rows'[i].state = "requested")
           \/ rows'[i].source = rows[i].source /\ rows'[i].state = "released"
           \/ rows'[i].source = rows[i].source /\ (rows[i].source = "created" \/ Free),
           \A q \in Procs : proc'[q] = proc[q] \/ Clear(proc'[q])
    PROVE  SharedInv'
<1>1. \A k \in Attempts : rows'[k].source = rows[k].source BY DEF Quiet
<1>2. Claim(rows'[Root]) => Claim(rows[Root]) \/ Free
  <2>1. CASE i # Root BY <2>1, Constants
  <2>2. CASE i = Root BY <2>2 DEF Claim, Quiet
  <2> QED BY <2>1, <2>2
<1>3. ASSUME NEW q \in Procs, Clear(proc'[q]) PROVE SharedAt(q)' BY <1>3 DEF SharedAt, Clear
<1> QED BY <1>1, <1>2, <1>3, SharedLocal

LEMMA GoesClear ==
    ASSUME TypeOK, NEW p \in Procs, NEW label \in Labels \ {"stop", "resume"},
           NEW i, NEW ret, NEW ok \in BOOLEAN, NEW saw,
           \/ End(p) \/ Goto(p, label) \/ Jump(p, label, i, ret) \/ ServiceRelease(p, i, ret)
           \/ Return(p, ok)
           \/ proc' = [proc EXCEPT ![p] = [pc |-> "polled", at |-> i, ret |-> ret, saw |-> saw]]
           \/ proc' = proc
    PROVE  \A q \in Procs : proc'[q] = proc[q] \/ Clear(proc'[q])
<1>1. CASE Return(p, ok)
  <2>1. (\A q \in Procs \ {p} : proc'[q] = proc[q]) /\ proc'[p].pc \in {"close", "admit", "row", "idle"}
    BY <1>1, Returns
  <2> QED BY <2>1 DEF Clear
<1>2. CASE ~Return(p, ok)
  <2>1. \A q \in Procs \ {p} : proc'[q] = proc[q]
    BY <1>2 DEF End, Goto, Jump, ServiceRelease, TypeOK
  <2>2. proc' = proc \/ proc'[p].pc \in {"idle", label, "family", "release", "polled"}
    BY <1>2 DEF End, Goto, Jump, ServiceRelease, TypeOK, Idle, Control
  <2> QED BY <2>1, <2>2 DEF Clear
<1> QED BY <1>1, <1>2

\* Whoever works on a row has moved it past the reservation, or created its
\* Pod, or it is the caller's release that brings it here.
LEMMA Unrequested ==
    ASSUME TypeOK, KnownInv, NEW p \in Procs, NEW i \in Attempts, i = proc[p].at,
           proc[p].pc \in Started \cup {"release", "found"}
    PROVE  /\ rows[i].state # "requested" \/ rows[i].source = "created" \/ rows[Root].famReq
           /\ proc[p].pc \in Started => rows[i].state # "requested"
<1>1. KnownAt(p) BY DEF KnownInv
<1>2. i # Root => rows[i].source = "created" BY DEF KnownInv, TypeOK, Row
<1> QED BY <1>1, <1>2 DEF KnownAt

\* Acquisition, but for the insertion of the row,
LEMMA AcquireShared ==
    ASSUME TypeOK, KnownInv, FamilyInv, SharedInv, Free => Free', NEW p \in Hosts,
           \/ StartTraining(p) \/ StartAgain(p) \/ Begin(p)
           \/ ObserveExisting(p) \/ Attach(p) \/ ObserveExistingFails(p)
           \/ Resume(p) \/ ResumeFails(p)
           \/ Create(p) \/ CreateRejected(p) \/ CreateAmbiguous(p) \/ CreateCancelled(p)
           \/ Ready(p) \/ NotReady(p)
    PROVE  SharedInv'
<1> p \in Procs BY Constants
<1>0. TypeOK' /\ Evolution BY AcquireStep
<1> PICK i \in Attempts : i = proc[p].at BY Place
<1>a. Mine(p) = rows[i] /\ rows[i] \in Row /\ i # Shared /\ i \in PodIds BY Place, Constants DEF Mine
<1>b. KnownAt(p) /\ SharedAt(p) BY DEF KnownInv, SharedInv
<1>c. /\ proc[p].pc \in Acquiring => rows[i].state # "absent"
      /\ proc[p].pc \in {"create", "resume", "ready"} => rows[i].state # "requested"
  BY <1>b, Unrequested DEF KnownAt, Started, Acquiring, Working, Labels
<1>d. \A l \in {"admit", "observe", "attach", "create", "ready", "release"} : l \in Labels \ {"stop", "resume"}
  BY DEF Labels
<1>e. \A k \in Attempts : rows'[k].source = rows[k].source BY <1>0 DEF Evolution, Evolves
<1>1. CASE StartTraining(p)
  <2>1. \A q \in Procs : proc'[q] = proc[q] \/ Clear(proc'[q]) BY <1>1, <1>d, GoesClear DEF StartTraining
  <2>2. Quiet(rows[i], rows'[i]) BY <1>1, <1>a, QuietOps DEF StartTraining
  <2> QED BY <1>1, <2>1, <2>2, SharedQuiet DEF StartTraining
<1>2. CASE StartAgain(p)
  <2>1. PICK k \in Attempts : rows[k].state = "ready" /\ rows' = Write(k, Beat(rows[k]))
    BY <1>2 DEF StartAgain
  <2>2. Quiet(rows[k], rows'[k]) /\ \A j \in Attempts \ {k} : rows'[j] = rows[j] BY <2>1, QuietWrites
  <2> QED BY <1>2, <2>1, <2>2, SharedQuiet DEF StartAgain
<1>3. CASE Begin(p)
  <2>0. rows[i].state # "absent" BY <1>3, <1>c DEF Begin, At, Acquiring
  <2>1. Quiet(rows[i], rows'[i]) /\ \A j \in Attempts \ {i} : rows'[j] = rows[j]
    BY <1>3, <1>a, <2>0, QuietWrites DEF Begin, AsReserved
  <2>2. rows' = rows \/ rows[i].source = "created" BY <1>3, <1>a DEF Begin, Row
  <2>3. \A q \in Procs : proc'[q] = proc[q] \/ Clear(proc'[q]) BY <1>3, <1>d, GoesClear DEF Begin
  <2> QED BY <1>3, <1>e, <2>1, <2>2, <2>3, SharedQuiet DEF Begin
<1>4. CASE ObserveExisting(p)
  <2>1. \A q \in Procs : proc'[q] = proc[q] \/ Clear(proc'[q])
    BY <1>4 DEF ObserveExisting, Clear, TypeOK, Control
  <2>2. Quiet(rows[i], rows'[i]) /\ rows' = rows BY <1>4, <1>a, QuietOps DEF ObserveExisting
  <2> QED BY <2>1, <2>2, SharedQuiet
<1>9. CASE Attach(p)
  <2>0. rows[i].source = "existing" /\ i = Root
    BY <1>9, <1>b DEF Attach, At, KnownAt, KnownInv
  <2>1. CASE rows' = rows /\ End(p)
    <3>1. \A q \in Procs : proc'[q] = proc[q] \/ Clear(proc'[q]) BY <1>d, <2>1, GoesClear
    <3>2. Quiet(rows[i], rows'[i]) BY <1>a, <2>1, QuietOps
    <3> QED BY <2>1, <3>1, <3>2, SharedQuiet
  <2>2. CASE rows' = Write(i, Attached(rows[i])) /\ Jump(p, "ready", proc[p].at, proc[p].ret)
    <3>1. \A q \in Procs : proc'[q] = proc[q] \/ Clear(proc'[q]) BY <1>d, <2>2, GoesClear
    <3>2. \A q \in Procs : proc'[q] = proc[q] \/ SharedAt(q)' BY <3>1 DEF Clear, SharedAt
    <3>3. rows'[i].own = "preexisting_running"
      <4>1. rows'[i] = Attached(rows[i]) BY <2>2, Written
      <4> QED BY <1>a, <4>1 DEF Attached, InState, Beat, Row
    <3>4. ~Claim(rows'[Root]) BY <2>0, <3>3 DEF Claim
    <3> QED BY <1>e, <3>2, <3>4, SharedLocal
  <2>3. CASE grounds' = grounds \cup {"stopped"}
    <3>1. Free' BY <2>3 DEF Free
    <3>2. \A q \in Procs : SharedAt(q)' BY <3>1 DEF SharedAt
    <3> QED BY <3>1, <3>2 DEF SharedInv
  <2> QED BY <1>9, <1>a, <2>1, <2>2, <2>3 DEF Attach
<1>5. CASE ObserveExistingFails(p)
  <2>1. \A q \in Procs : proc'[q] = proc[q] \/ Clear(proc'[q])
    BY <1>5, <1>d, GoesClear DEF ObserveExistingFails
  <2>2. rows' = Transition(i, Unowned(rows[i])) BY <1>5, <1>a DEF ObserveExistingFails
  <2>3. rows'[i].state = "released" BY <1>a, <2>2, Written, ReleasedRows DEF IsTerminal
  <2>4. \A j \in Attempts \ {i} : rows'[j] = rows[j] BY <2>2 DEF Transition, TypeOK
  <2> QED BY <1>5, <1>e, <2>1, <2>3, <2>4, SharedQuiet DEF ObserveExistingFails
<1>6. CASE Resume(p) \/ ResumeFails(p)
  <2>0. Free BY <1>6, <1>b DEF Resume, ResumeFails, At, SharedAt
  <2>1. Free' BY <2>0
  <2>2. \A q \in Procs : SharedAt(q)' BY <2>1 DEF SharedAt
  <2> QED BY <2>1, <2>2 DEF SharedInv
<1>7. CASE Create(p) \/ CreateRejected(p) \/ CreateAmbiguous(p) \/ CreateCancelled(p)
  <2>0. rows[i].source = "created" /\ rows[i].state # "absent"
    BY <1>7, <1>b, <1>c DEF Create, CreateRejected, CreateAmbiguous, CreateCancelled, At, KnownAt, Acquiring
  <2>1. \A q \in Procs : proc'[q] = proc[q] \/ Clear(proc'[q])
    BY <1>7, <1>d, GoesClear DEF Create, CreateRejected, CreateAmbiguous, CreateCancelled
  <2>2. \A j \in Attempts \ {i} : rows'[j] = rows[j]
    BY <1>7 DEF Create, CreateRejected, CreateAmbiguous, CreateCancelled, Transition, TypeOK
  <2> QED BY <1>e, <2>0, <2>1, <2>2, SharedQuiet
<1>8. CASE Ready(p) \/ NotReady(p)
  <2>0. rows[i].state \notin {"absent", "requested"}
    BY <1>8, <1>c DEF Ready, NotReady, At, Acquiring
  <2>1. Quiet(rows[i], rows'[i]) /\ \A j \in Attempts \ {i} : rows'[j] = rows[j]
    BY <1>8, <1>a, <2>0, QuietWrites DEF Ready, NotReady
  <2>2. \A q \in Procs : proc'[q] = proc[q] \/ Clear(proc'[q]) BY <1>8, <1>d, GoesClear DEF Ready, NotReady
  <2> QED BY <1>8, <1>e, <2>0, <2>1, <2>2, SharedQuiet DEF Ready, NotReady
<1> QED BY <1>1, <1>2, <1>3, <1>4, <1>5, <1>6, <1>7, <1>8, <1>9

\* the calls of a host that holds a session,
LEMMA JobShared ==
    ASSUME TypeOK, KnownInv, FamilyInv, SharedInv, Free => Free', NEW p \in Hosts,
           \/ Submit(p) \/ PostTrain(p) \/ PostTrainFails(p) \/ Recover(p)
           \/ Poll(p) \/ Download(p) \/ Downloaded(p)
           \/ CancelJob(p) \/ Cancelling(p) \/ Touch(p) \/ Release(p)
    PROVE  SharedInv'
<1> p \in Procs BY Constants
<1>0. TypeOK' /\ Evolution BY JobStep
<1> PICK i \in Attempts : i = proc[p].at BY Place
<1>a. Mine(p) = rows[i] BY DEF Mine
<1>b. \A l \in {"post", "recover", "polled", "downloaded", "cancelling", "idle"} :
         l \in Labels \ {"stop", "resume"}
  BY DEF Labels
<1>c. proc[p].pc \in {"post", "recover", "downloaded", "cancelling"} =>
         rows[i].state \notin {"absent", "requested"}
  BY DEF KnownInv, KnownAt, Started, Working, Labels
<1>d. session # 0 => session \in Attempts /\ rows[session].state \notin {"absent", "requested"}
  BY DEF KnownInv, TypeOK
<1>f. \A q \in Procs : proc'[q] = proc[q] \/ Clear(proc'[q])
  <2>1. CASE Submit(p) BY <1>b, <2>1, GoesClear DEF Submit
  <2>2. CASE PostTrain(p) BY <1>b, <2>2, GoesClear DEF PostTrain, RecordJob
  <2>3. CASE PostTrainFails(p) BY <1>b, <2>3, GoesClear DEF PostTrainFails
  <2>4. CASE Recover(p) BY <1>b, <2>4, GoesClear DEF Recover, RecordJob
  <2>5. CASE Poll(p) BY <1>b, <2>5, GoesClear DEF Poll
  <2>6. CASE Download(p) BY <1>b, <2>6, GoesClear DEF Download
  <2>7. CASE Downloaded(p) BY <1>b, <2>7, GoesClear DEF Downloaded
  <2>8. CASE CancelJob(p) BY <1>b, <2>8, GoesClear DEF CancelJob
  <2>9. CASE Cancelling(p) BY <1>b, <2>9, GoesClear DEF Cancelling
  <2>10. CASE Touch(p) BY <2>10 DEF Touch
  <2>11. CASE Release(p) BY <1>b, <2>11, GoesClear DEF Release
  <2> QED BY <2>1, <2>2, <2>3, <2>4, <2>5, <2>6, <2>7, <2>8, <2>9, <2>10, <2>11
<1>g. \E k \in Attempts :
         /\ Quiet(rows[k], rows'[k]) /\ \A j \in Attempts \ {k} : rows'[j] = rows[j]
         /\ rows[k].state # "requested" \/ rows'[k].state = "requested"
  <2>0. rows' = rows => <1>g BY QuietOps DEF TypeOK
  <2>1. CASE Submit(p) BY <1>d, <2>1, QuietWrites DEF Submit
  <2>2. ASSUME RecordJob(p), rows[i].state \notin {"absent", "requested"} PROVE <1>g
    BY <1>a, <2>2, QuietWrites DEF RecordJob
  <2>3. CASE PostTrain(p) BY <1>c, <2>0, <2>2, <2>3 DEF PostTrain, At
  <2>4. CASE PostTrainFails(p) BY <1>a, <1>c, <2>4, QuietWrites DEF PostTrainFails, At
  <2>5. CASE Recover(p)
    <3>1. rows[i].state \notin {"absent", "requested"} BY <1>c, <2>5 DEF Recover, At
    <3>2. CASE rows' = Transition(i, Beat(rows[i])) BY <3>1, <3>2, QuietWrites
    <3> QED BY <1>a, <2>2, <2>5, <3>1, <3>2 DEF Recover
  <2>6. CASE Poll(p) BY <1>d, <2>6, QuietWrites DEF Poll
  <2>7. CASE Download(p) BY <1>d, <2>7, QuietWrites DEF Download
  <2>8. CASE Downloaded(p) BY <1>a, <1>c, <2>8, QuietWrites DEF Downloaded, At
  <2>9. CASE CancelJob(p) BY <1>d, <2>9, QuietWrites DEF CancelJob
  <2>10. CASE Cancelling(p) BY <2>0, <2>10 DEF Cancelling
  <2>11. CASE Touch(p) BY <1>d, <2>11, QuietWrites DEF Touch
  <2>12. CASE Release(p) BY <2>0, <2>12 DEF Release
  <2> QED BY <2>1, <2>3, <2>4, <2>5, <2>6, <2>7, <2>8, <2>9, <2>10, <2>11, <2>12
<1> QED BY <1>f, <1>g, SharedQuiet

\* the subroutines of a release,
LEMMA ReleaseShared ==
    ASSUME TypeOK, KnownInv, FamilyInv, SharedInv, Free => Free', NEW p \in Procs,
           \/ ReleaseOne(p) \/ Void(p) \/ FindByName(p) \/ FindByNameFails(p)
           \/ ResolveCreation(p) \/ StopConfirmed(p) \/ StopFails(p) \/ Polled(p)
    PROVE  SharedInv'
<1>0. TypeOK' /\ Evolution BY ReleaseStep
<1> PICK i \in Attempts : i = proc[p].at BY Place
<1>a. Mine(p) = rows[i] /\ rows[i] \in Row /\ i # Shared /\ i \in PodIds BY Place, Constants DEF Mine
<1>b. \A l \in {"release", "void", "found", "polled"} : l \in Labels \ {"stop", "resume"}
  BY DEF Labels
<1>c. KnownAt(p) /\ SharedAt(p) BY DEF KnownInv, SharedInv
<1>d. /\ rows[i].state # "absent"
      /\ proc[p].pc \in {"stop", "polled"} => rows[i].state # "requested"
      /\ proc[p].pc = "release" =>
            rows[i].state # "requested" \/ rows[i].source = "created" \/ rows[Root].famReq
  <2>1. proc[p].pc \in {"release", "void", "found", "stop", "polled"}
    BY DEF ReleaseOne, Void, FindByName, FindByNameFails, ResolveCreation, StopConfirmed, StopFails,
           Polled, At
  <2> QED BY <1>c, <2>1, Unrequested DEF KnownAt, Started, Working, Labels
<1>e. \A k \in Attempts : rows'[k].source = rows[k].source BY <1>0 DEF Evolution, Evolves
<1>h. ASSUME \A q \in Procs : proc'[q] = proc[q] \/ Clear(proc'[q]),
             \A j \in Attempts \ {i} : rows'[j] = rows[j],
             \/ Quiet(rows[i], rows'[i]) /\ (rows[i].state # "requested" \/ rows' = rows)
             \/ rows'[i].state = "released"
             \/ rows[i].source = "created"
      PROVE  SharedInv'
  BY <1>e, <1>h, SharedQuiet
<1>i. ASSUME rows' = Transition(i, Released(rows[i])), Return(p, TRUE) PROVE SharedInv'
  <2>1. \A q \in Procs : proc'[q] = proc[q] \/ Clear(proc'[q]) BY <1>b, <1>i, GoesClear
  <2>2. \A j \in Attempts \ {i} : rows'[j] = rows[j] BY <1>i DEF Transition, TypeOK
  <2>3. rows'[i].state = "released" BY <1>a, <1>i, Written, ReleasedRows DEF IsTerminal
  <2> QED BY <1>h, <2>1, <2>2, <2>3
<1>j. ASSUME rows' = rows, \A q \in Procs : proc'[q] = proc[q] \/ Clear(proc'[q])
      PROVE  SharedInv'
  BY <1>a, <1>h, <1>j, QuietOps
<1>1. CASE ReleaseOne(p)
  <2>1. CASE rows' = rows /\ (Return(p, TRUE) \/ Goto(p, "void"))
    <3>1. \A q \in Procs : proc'[q] = proc[q] \/ Clear(proc'[q]) BY <1>b, <2>1, GoesClear
    <3> QED BY <1>j, <2>1, <3>1
  <2>2. CASE /\ ~IsTerminal(rows[i]) /\ rows[i].own # "preexisting_running"
             /\ rows' = Transition(i, Releasing(rows[i])) /\ Goto(p, "stop")
             /\ grounds' = IF rows[i].source = "existing" /\ rows[i].state = "requested"
                           THEN grounds \cup {"unobserved"} ELSE grounds
    <3>1. /\ \A q \in Procs \ {p} : proc'[q] = proc[q]
          /\ proc'[p].pc = "stop" /\ proc'[p].at = i
      BY <2>2 DEF Goto, TypeOK, Control
    <3>2. Quiet(rows[i], rows'[i]) /\ \A j \in Attempts \ {i} : rows'[j] = rows[j]
      BY <1>d, <2>2, QuietWrites
    <3>3. rows[i].source = "existing" => i = Root BY DEF KnownInv
    <3>4. rows[i].source = "existing" => Free'
      <4>1. CASE rows[i].state = "requested"
        <5>1. rows[i].source = "existing" => rows'[Root].famReq
          BY <1>0, <1>1, <1>d, <4>1, Constants DEF ReleaseOne, At, Evolution, Evolves
        <5> QED BY <2>2, <4>1, <5>1 DEF Free
      <4>2. CASE rows[i].state # "requested"
        BY <1>d, <2>2, <3>3, <4>2 DEF SharedInv, Claim, IsTerminal
      <4> QED BY <4>1, <4>2
    <3>5. CASE rows[i].source = "existing"
      <4>1. \A q \in Procs : SharedAt(q)' BY <3>4, <3>5 DEF SharedAt
      <4> QED BY <3>4, <3>5, <4>1 DEF SharedInv
    <3>6. CASE rows[i].source # "existing"
      <4>1. SharedAt(p)' BY <1>e, <3>1, <3>6 DEF SharedAt
      <4>2. Claim(rows'[Root]) => Claim(rows[Root])
        <5>1. CASE i # Root BY <3>2, <5>1, Constants
        <5>2. CASE i = Root BY <1>e, <3>6, <5>2 DEF Claim
        <5> QED BY <5>1, <5>2
      <4> QED BY <1>e, <3>1, <4>1, <4>2, SharedLocal
    <3> QED BY <3>5, <3>6
  <2> QED BY <1>1, <1>a, <1>i, <2>1, <2>2 DEF ReleaseOne, Voids, EndsRow
<1>7. CASE Void(p) BY <1>7, <1>a, <1>i DEF Void, Voids, EndsRow
<1>2. CASE FindByName(p)
  <2>1. \A q \in Procs : proc'[q] = proc[q] \/ Clear(proc'[q])
    BY <1>2 DEF FindByName, Clear, TypeOK, Control
  <2> QED BY <1>2, <1>j, <2>1 DEF FindByName
<1>3. CASE FindByNameFails(p)
  <2>1. \A q \in Procs : proc'[q] = proc[q] \/ Clear(proc'[q]) BY <1>3, <1>b, GoesClear DEF FindByNameFails
  <2>2. Quiet(rows[i], rows'[i]) /\ \A j \in Attempts \ {i} : rows'[j] = rows[j]
    BY <1>3, <1>a, <1>d, QuietWrites DEF FindByNameFails
  <2>3. rows[i].source = "created" BY <1>3, <1>a DEF FindByNameFails, KnownInv, Row
  <2> QED BY <1>h, <2>1, <2>2, <2>3
<1>4. CASE ResolveCreation(p)
  <2>1. \A q \in Procs : proc'[q] = proc[q] \/ Clear(proc'[q])
    <3>1. Jump(p, "release", proc[p].at, proc[p].ret) \/ Return(p, TRUE) \/ Return(p, FALSE)
      BY <1>4 DEF ResolveCreation, IsTerminal
    <3> QED BY <1>b, <3>1, GoesClear
  <2>2. rows[i].source = "created" BY <1>4, <1>c DEF ResolveCreation, At, KnownAt
  <2>3. \A j \in Attempts \ {i} : rows'[j] = rows[j]
    BY <1>4 DEF ResolveCreation, EndsRow, Transition, TypeOK
  <2> QED BY <1>h, <2>1, <2>2, <2>3
<1>5. CASE StopConfirmed(p) \/ StopFails(p)
  <2>0. rows[i].state # "requested" BY <1>5, <1>d DEF StopConfirmed, StopFails, At
  <2>1. \A q \in Procs : proc'[q] = proc[q] \/ Clear(proc'[q])
    <3>1. Return(p, TRUE) \/ Return(p, FALSE) BY <1>5 DEF StopConfirmed, StopFails, IsTerminal
    <3> QED BY <1>b, <3>1, GoesClear
  <2>2. CASE rows' = Transition(i, ReleasedSurely(rows[i]))
    <3>1. rows'[i].state = "released" BY <1>a, <2>2, Written, ReleasedRows DEF IsTerminal
    <3>2. \A j \in Attempts \ {i} : rows'[j] = rows[j] BY <2>2 DEF Transition, TypeOK
    <3> QED BY <1>h, <2>1, <3>1, <3>2
  <2>3. CASE rows' \in {Transition(i, RetryableFailure(rows[i])), Transition(i, Beat(rows[i]))}
    <3>1. Quiet(rows[i], rows'[i]) /\ \A j \in Attempts \ {i} : rows'[j] = rows[j]
      BY <1>d, <2>3, QuietWrites
    <3> QED BY <1>h, <2>0, <2>1, <3>1
  <2> QED BY <1>5, <1>a, <2>2, <2>3 DEF StopConfirmed, StopFails
<1>6. CASE Polled(p)
  <2>0. rows[i].state # "requested" BY <1>6, <1>d DEF Polled, At
  <2>1. \A q \in Procs : proc'[q] = proc[q] \/ Clear(proc'[q]) BY <1>6, <1>b, GoesClear DEF Polled
  <2>2. Quiet(rows[i], rows'[i]) /\ \A j \in Attempts \ {i} : rows'[j] = rows[j]
    BY <1>6, <1>a, <1>d, QuietWrites DEF Polled
  <2> QED BY <1>h, <2>0, <2>1, <2>2
<1> QED BY <1>1, <1>2, <1>3, <1>4, <1>5, <1>6, <1>7

\* the reconciler,
LEMMA ReconcileShared ==
    ASSUME TypeOK, KnownInv, FamilyInv, SharedInv, Free => Free', NEW p \in Reconcilers, ReconcilerStep(p)
    PROVE  SharedInv'
<1> p \in Procs BY Constants
<1>0. TypeOK' /\ Evolution BY ReconcileStep
<1>a. Root \in Attempts /\ \A k \in Attempts : rows[k] \in Row BY Constants DEF TypeOK
<1>b. \A l \in {"release", "family", "polled", "observed", "reap"} : l \in Labels \ {"stop", "resume"}
  BY DEF Labels
<1>e. \A q \in Procs : proc'[q] = proc[q] \/ Clear(proc'[q])
  BY <1>b, GoesClear DEF ReconcilerStep, ReconcileFamily, PassEnds, Reap, ReconcileStopped,
         ReapRequested, ReconcileRelease, ReconcileJob, ReconcileObserve
<1>f. ASSUME rows' = rows PROVE SharedInv' BY <1>a, <1>e, <1>f, QuietOps, SharedQuiet
<1>1. CASE ReconcileFamily(p) \/ PassEnds(p) BY <1>1, <1>f DEF ReconcileFamily, PassEnds
<1>2. CASE ReconcileStopped(p) \/ Reap(p)
  <2> PICK i \in Attempts : i = proc[p].at BY Place
  <2>0. \E new \in {Released(rows[i]), Unowned(rows[i])} : rows' = Transition(i, new)
    BY <1>2 DEF ReconcileStopped, Reap, EndsRow, Mine
  <2>1. rows'[i].state = "released" BY <1>a, <2>0, Written, ReleasedRows DEF IsTerminal
  <2>2. rows'[i].source = rows[i].source BY <1>0 DEF Evolution, Evolves
  <2>3. \A j \in Attempts \ {i} : rows'[j] = rows[j] BY <2>0 DEF Transition, TypeOK
  <2> QED BY <1>e, <2>1, <2>2, <2>3, SharedQuiet
<1>3. ASSUME NEW i \in Attempts, ReapRequested(p, i) \/ ReconcileRelease(p, i) \/ ReconcileObserve(p, i)
      PROVE  SharedInv'
  BY <1>3, <1>f DEF ReapRequested, ReconcileRelease, ReconcileObserve
<1>5. ASSUME NEW i \in Attempts, ReconcileJob(p, i) PROVE SharedInv'
  <2>1. rows[i].state = "job_submitted" BY <1>5 DEF ReconcileJob
  <2>2. Quiet(rows[i], rows'[i]) /\ \A j \in Attempts \ {i} : rows'[j] = rows[j]
    BY <1>5, QuietWrites DEF ReconcileJob
  <2> QED BY <1>e, <2>1, <2>2, SharedQuiet
<1> QED BY <1>1, <1>2, <1>3, <1>5 DEF ReconcilerStep

\* what happens around the service, which writes no row but for its clocks,
LEMMA EnvironmentShared ==
    ASSUME TypeOK, KnownInv, FamilyInv, SharedInv, Free => Free', Environment
    PROVE  SharedInv'
<1>0. TypeOK' /\ Evolution BY EnvironmentStep
<1>a. Root \in Attempts /\ \A k \in Attempts : rows[k] \in Row BY Constants DEF TypeOK
<1>1. ASSUME NEW i \in Attempts, GoesStale(i) \/ DeadlinePasses(i) PROVE SharedInv'
  <2>1. \A j \in Attempts \ {i} : rows'[j] = rows[j] BY <1>1 DEF GoesStale, DeadlinePasses, Write, TypeOK
  <2>2. /\ rows'[i].state = rows[i].state /\ rows'[i].own = rows[i].own
        /\ rows'[i].source = rows[i].source
    BY <1>1, <1>a DEF GoesStale, DeadlinePasses, Write, TypeOK, Row
  <2>3. proc' = proc BY <1>1 DEF GoesStale, DeadlinePasses
  <2>4. Claim(rows'[Root]) <=> Claim(rows[Root])
    <3>1. CASE i = Root BY <2>2, <3>1 DEF Claim
    <3>2. CASE i # Root BY <1>a, <2>1, <3>2
    <3> QED BY <3>1, <3>2
  <2> QED BY <1>a, <2>1, <2>2, <2>3, <2>4, SharedLocal
<1>2. CASE ~\E i \in Attempts : GoesStale(i) \/ DeadlinePasses(i)
  <2>1. rows' = rows
    BY <1>2 DEF Environment, CreateLands, TrainerEnds, CreateArrives, OthersUse, Crash
  <2>2. \A q \in Procs : proc'[q] = proc[q] \/ Clear(proc'[q])
    <3>1. CASE Crash BY <3>1 DEF Crash, Idle, Clear
    <3>2. CASE ~Crash
      <4>1. proc' = proc
        BY <1>2, <3>2 DEF Environment, CreateLands, TrainerEnds, CreateArrives, OthersUse
      <4> QED BY <4>1
    <3> QED BY <3>1, <3>2
  <2> QED BY <1>a, <2>1, <2>2, QuietOps, SharedQuiet
<1> QED BY <1>1, <1>2

\* the insertion of a row,
LEMMA ReserveShared ==
    ASSUME TypeOK, KnownInv, FamilyInv, SharedInv, Free => Free', NEW p \in Hosts, Reserve(p)
    PROVE  SharedInv'
<1> p \in Procs BY Constants
<1> PICK i \in Attempts : i = proc[p].at BY Place
<1>0. "begin" \in Labels \ {"stop", "resume"} BY DEF Labels
<1>2. \A q \in Procs : proc'[q] = proc[q] \/ Clear(proc'[q]) BY <1>0, GoesClear DEF Reserve
<1>3. CASE Inserted(p)
  <2>1. PICK source \in {"created", "existing"} : rows' = [rows EXCEPT ![i] = Reserved(source)]
    BY <1>3 DEF Inserted
  <2>2. rows[i].state = "absent" BY <1>3 DEF Inserted
  <2>3. rows'[i].state = "requested" /\ \A j \in Attempts \ {i} : rows'[j] = rows[j]
    BY <2>1 DEF TypeOK, Reserved
  <2>5. Claim(rows'[Root]) => Claim(rows[Root])
    <3>1. CASE i = Root BY <2>3, <3>1 DEF Claim
    <3>2. CASE i # Root BY <2>3, <3>2, Constants
    <3> QED BY <3>1, <3>2
  <2>6. \A q \in Procs : proc'[q] = proc[q] \/ SharedAt(q)' BY <1>2 DEF Clear, SharedAt
  <2> QED BY <2>2, <2>3, <2>5, <2>6, SharedLocal
<1>4. CASE rows' = rows
  <2>1. Quiet(rows[i], rows[i]) BY QuietOps DEF TypeOK
  <2> QED BY <1>2, <1>4, <2>1, SharedQuiet
<1> QED BY <1>3, <1>4, ReserveStep

\* and the flags of the family.
LEMMA FamilyShared ==
    ASSUME TypeOK, KnownInv, FamilyInv, SharedInv, Free => Free', NEW p \in Procs, ReleaseFamily(p) \/ FamilyReleased(p)
    PROVE  SharedInv'
<1>0. TypeOK' /\ Flagged BY FamilyStep
<1>2. \A l \in {"release", "close"} : l \in Labels \ {"stop", "resume"} BY DEF Labels
<1>3. \A q \in Procs : proc'[q] = proc[q] \/ Clear(proc'[q])
  BY <1>2, GoesClear DEF ReleaseFamily, FamilyReleased
<1>4. /\ Quiet(rows[Root], rows'[Root]) /\ \A j \in Attempts \ {Root} : rows'[j] = rows[j]
      /\ rows'[Root].state = rows[Root].state
  BY <1>0 DEF Flagged, Quiet
<1> QED BY <1>3, <1>4, Constants, SharedQuiet

LEMMA InitShared == Init => SharedInv
<1> SUFFICES ASSUME Init PROVE SharedInv
  OBVIOUS
<1>1. rows[Root] = NoRow /\ \A p \in Procs : proc[p] = Idle BY Constants DEF Init
<1>2. NoRow.state = "absent" /\ Idle.pc = "idle" BY DEF NoRow, Reserved, Idle
<1> QED BY <1>1, <1>2 DEF SharedInv, SharedAt, Claim

LEMMA NextShared ==
    ASSUME TypeOK, KnownInv, FamilyInv, SharedInv, [Next]_vars
    PROVE  SharedInv'
<1>0. Free => Free' BY FreeKept
<1>1. ASSUME NEW p \in Hosts, HostStep(p) PROVE SharedInv'
  BY <1>0, <1>1, ReserveShared, AcquireShared, JobShared DEF HostStep
<1>2. ASSUME NEW p \in Procs, ServiceStep(p) PROVE SharedInv'
  BY <1>0, <1>2, FamilyShared, ReleaseShared DEF ServiceStep
<1>3. ASSUME NEW p \in Reconcilers, ReconcilerStep(p) PROVE SharedInv' BY <1>0, <1>3, ReconcileShared
<1>4. CASE Environment BY <1>0, <1>4, EnvironmentShared
<1>5. CASE UNCHANGED vars BY <1>5 DEF vars, history, SharedInv, SharedAt, Claim, Free
<1> QED BY <1>1, <1>2, <1>3, <1>4, <1>5 DEF Next

\* Who stops the existing Pod has its grounds.
LEMMA StopperKnows ==
    ASSUME TypeOK, SharedInv, NEW p \in Procs, At(p, "stop"), Stops(PodOf(proc[p].at)),
           pods[Shared] = "running", starter = "others", pods'[Shared] = "stopped"
    PROVE  Free
<1> PICK i \in Attempts : i = proc[p].at BY Place
<1>1. PodOf(i) = Shared BY Constants DEF Stops, TypeOK
<1>2. rows[i].source = "existing" BY <1>1, Constants DEF PodOf
<1> QED BY <1>2 DEF SharedInv, SharedAt, At

LEMMA StopNeedsRelease ==
    ASSUME TypeOK, SharedInv, Next, pods[Shared] = "running", starter = "others",
           pods'[Shared] = "stopped", proc' # proc
    PROVE  Free
<1>a. \A k \in Attempts : k # Shared BY Constants
<1>b. ASSUME NEW p \in Hosts, NEW applied, NEW landing, Applied(p, applied, landing) PROVE FALSE
  <2>1. proc[p].at \in Attempts BY Place, Constants
  <2> QED BY <1>a, <1>b, <2>1, Constants DEF Applied, TypeOK
<1>c. ~Resumed BY Constants DEF Resumed, TypeOK
<1>1. ASSUME NEW p \in Hosts, HostStep(p) PROVE FALSE
  <2>1. CASE \/ Create(p) \/ CreateRejected(p) \/ CreateAmbiguous(p) \/ CreateCancelled(p)
             \/ Resume(p) \/ ResumeFails(p)
    BY <1>b, <1>c, <2>1 DEF Create, CreateRejected, CreateAmbiguous, CreateCancelled, Resume, ResumeFails
  <2>2. CASE ~(\/ Create(p) \/ CreateRejected(p) \/ CreateAmbiguous(p) \/ CreateCancelled(p)
               \/ Resume(p) \/ ResumeFails(p))
    <3>1. pods' = pods
      BY <1>1, <2>2 DEF HostStep, StartTraining, StartAgain, Reserve, Begin, ObserveExisting,
           Attach, ObserveExistingFails, Ready, NotReady, Submit, PostTrain, PostTrainFails, Recover, Poll,
           Download, Downloaded, CancelJob, Cancelling, Touch, Release
    <3> QED BY <3>1
  <2> QED BY <2>1, <2>2
<1>2. ASSUME NEW p \in Procs, ServiceStep(p) PROVE Free
  <2>1. CASE StopConfirmed(p) \/ StopFails(p)
    BY <2>1, StopperKnows DEF StopConfirmed, StopFails
  <2>2. CASE ~(StopConfirmed(p) \/ StopFails(p))
    BY <1>2, <2>2 DEF ServiceStep, ReleaseFamily, FamilyReleased, ReleaseOne, Void, FindByName,
         FindByNameFails, ResolveCreation, Polled
  <2> QED BY <2>1, <2>2
<1>3. ASSUME NEW p \in Reconcilers, ReconcilerStep(p) PROVE FALSE
  BY <1>3 DEF ReconcilerStep, ReconcileFamily, PassEnds, Reap, ReconcileStopped, ReapRequested,
       ReconcileRelease, ReconcileJob, ReconcileObserve
<1>4. ASSUME Environment PROVE Free
  <2>1. Crash
    BY <1>4 DEF Environment, GoesStale, DeadlinePasses, CreateLands, TrainerEnds, CreateArrives, OthersUse
  <2>2. PICK p \in Hosts : At(p, "stop") /\ Stops(PodOf(proc[p].at))
    BY <1>b, <1>c, <2>1 DEF Crash
  <2>3. p \in Procs BY Constants
  <2> QED BY <2>2, <2>3, StopperKnows
<1> QED BY <1>1, <1>2, <1>3, <1>4 DEF Next

\* The service stops a Pod that runs for others only after its lease observed
\* the Pod stopped and went on to resume it, or on a caller's release of a claim
\* that had observed nothing: a Pod observed running survives every failed
\* acquisition, timeout, crash, release and reconcile pass, in whatever order
\* their steps meet.
THEOREM SharedPodKept == Spec => SharedKept
<1>1. Init => TypeOK /\ KnownInv /\ FamilyInv /\ SharedInv BY InitInv, InitShared
<1>2. TypeOK /\ KnownInv /\ FamilyInv /\ SharedInv /\ [Next]_vars
        => (TypeOK /\ KnownInv /\ FamilyInv /\ SharedInv)'
  BY NextInv, NextShared
<1>3. TypeOK /\ SharedInv /\ [Next]_vars =>
        [ StopsForOthers =>
            "stopped" \in grounds \/ ("unobserved" \in grounds /\ rows[Root].famReq) ]_vars
  BY StopNeedsRelease DEF StopsForOthers, Free
<1> QED BY <1>1, <1>2, <1>3, PTL DEF Spec, SharedKept

=============================================================================
