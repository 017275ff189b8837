------------------------------ MODULE TrainingPod ------------------------------
(***************************************************************************)
(* The training lane of the Pod capacity service: one cleanup family, that *)
(* is, one logical request of a trainer Pod (training.py) with its root    *)
(* attempt and the fallback attempts on further hardware profiles, on the  *)
(* rows pod_capacity_service.py and pod_capacity_repository.py keep.       *)
(*                                                                         *)
(* An attempt either creates a Pod or attaches to one that exists, running *)
(* or stopped, and what it owes at the end depends on which.  The hosts    *)
(* are tasks of one manager process; a reconciler is a process of its own. *)
(*                                                                         *)
(* A step reaches from one await to the next.  cleanup_state is left out   *)
(* of the row: a released row is NOT_OWNED when its ownership is           *)
(* preexisting_running and COMPLETE otherwise, and nothing else tests it.  *)
(***************************************************************************)
EXTENDS RunpodCalls, Naturals, FiniteSets

CONSTANTS
    Hosts,        \* tasks of the manager
    Reconcilers,  \* processes that run reconcile() from a timer
    Profiles,     \* the number of training profiles configured
    Sources,      \* of "created" and "existing"
    HostOps,      \* the methods each host calls
    Faults        \* the failures the environment may produce

AllOps == {"start", "submit", "poll", "download", "cancel", "touch", "release"}

AllFaults ==
    {"crash",      \* the manager process dies
     "cancel",     \* the caller is cancelled
     "ambiguous",  \* the answer of a create, a start or a /train is lost
     "provider",   \* a read or a stop fails
     "pending",    \* a stop is accepted and not confirmed
     "others"}     \* the existing Pod is used by others as well

ASSUME ProfileAssumption == Profiles \in Nat \ {0}
ASSUME SourceAssumption == Sources \subseteq {"created", "existing"}
ASSUME OpsAssumption == HostOps \in [Hosts -> SUBSET AllOps]
ASSUME FaultAssumption == Faults \subseteq AllFaults
ASSUME ProcAssumption == Hosts \cap Reconcilers = {}

Procs == Hosts \cup Reconcilers
Root == 1
Attempts == Root..Profiles
Shared == 0                      \* the existing Pod; attempt i creates Pod i
PodIds == {Shared} \cup Attempts

VARIABLES
    rows,      \* table pod_capacity_leases, by attempt
    pods,      \* external: Runpod's Pods
    starter,   \* external: on whose behalf the existing Pod last started
    jobs,      \* external: the trainer's job, by Pod
    session,   \* the manager's session: an attempt, or 0
    proc,      \* where each process is
    gaveUp,    \* history: attempts whose row was ended over a create
    grounds    \* history: why the existing Pod may be stopped by the service

history == <<gaveUp, grounds>>
vars == <<rows, pods, starter, jobs, session, proc, gaveUp, grounds>>

LeaseStates ==
    {"absent", "requested", "starting", "ready", "job_submitted",
     "job_completed", "result_retrieved", "cancel_requested",
     "reconcile_required", "releasing", "released"}

Row ==
    [state     : LeaseStates,
     own       : {"provisional", "owned", "preexisting_running"},
     source    : {"created", "existing"},
     uncertain : BOOLEAN,            \* creation_uncertain
     pid       : BOOLEAN,            \* provider_pod_id IS NOT NULL
     hb        : {"fresh", "stale"}, \* last_heartbeat_at, by orphan timeout
     age       : 0..2,               \* deadlines passed: readiness, then hard
     famReq    : BOOLEAN,            \* family_release_requested
     famDone   : BOOLEAN]            \* family_release_complete

Reserved(source) ==
    [state |-> "requested", own |-> "provisional", source |-> source,
     uncertain |-> FALSE, pid |-> source = "existing", hb |-> "fresh",
     age |-> 0, famReq |-> FALSE, famDone |-> FALSE]

NoRow == [Reserved("created") EXCEPT !.state = "absent"]

Labels ==
    {"idle", "admit", "begin", "observe", "attach", "resume", "create", "ready",
     "post", "recover", "polled", "downloaded", "cancelling", "family", "release",
     "void", "found", "stop", "close", "row", "reap", "observed"}

Control ==
    [pc  : Labels,
     at  : Attempts,
     ret : SUBSET {"acquire", "family", "drop", "pass"},
     saw : {"none", "found", "running", "stopped", "completed", "failed"}]

Idle == [pc |-> "idle", at |-> Root, ret |-> {}, saw |-> "none"]

TypeOK ==
    /\ rows \in [Attempts -> Row]
    /\ pods \in [PodIds -> {"none", "pending", "running", "stopped"}]
    /\ starter \in {"others", "lease"}
    /\ jobs \in [PodIds -> {"none", "running", "completed", "failed"}]
    /\ session \in {0} \cup Attempts
    /\ proc \in [Procs -> Control]
    /\ gaveUp \subseteq Attempts
    /\ grounds \subseteq {"unobserved", "stopped"}

Init ==
    /\ rows = [i \in Attempts |-> NoRow]
    /\ pods \in {[k \in PodIds |-> IF k = Shared THEN s ELSE "none"] :
                    s \in (IF "existing" \in Sources THEN {"running", "stopped"} ELSE {})
                          \cup (IF "created" \in Sources THEN {"none"} ELSE {})}
    /\ starter = "others"
    /\ jobs = [k \in PodIds |-> "none"]
    /\ session = 0
    /\ proc = [p \in Procs |-> Idle]
    /\ gaveUp = {}
    /\ grounds = {}

-----------------------------------------------------------------------------
(* Rows and control. *)

IsTerminal(r) == r.state = "released"
Unfinished(i) == rows[i].state \notin {"absent", "released"}
PodOf(i) == IF rows[i].source = "existing" THEN Shared ELSE i
Stale(r) == r.hb = "stale"

\* _transition_nonterminal and _transition_with_evidence: a conflict is
\* retried on the row as it is now, and a terminal row is never written.
Transition(i, new) == [rows EXCEPT ![i] = IF IsTerminal(rows[i]) THEN @ ELSE new]

\* A compare_and_set whose caller has just looked at the row.
Write(i, new) == [rows EXCEPT ![i] = new]

\* What the service's writes make of a row; most of them are heartbeats.
Beat(r) == [r EXCEPT !.hb = "fresh"]
InState(r, state) == [Beat(r) EXCEPT !.state = state]

CreateStarting(r) == [InState(r, "starting") EXCEPT !.uncertain = TRUE]
CreateAccepted(r) == [Beat(r) EXCEPT !.pid = TRUE, !.own = "owned", !.uncertain = FALSE]
Attached(r) == [InState(r, "starting") EXCEPT !.own = "preexisting_running"]
Owned(r) == [Beat(r) EXCEPT !.own = "owned"]

RetryableFailure(r) == InState(r, "reconcile_required")
StillUncertain(r) == [RetryableFailure(r) EXCEPT !.uncertain = TRUE]

\* Nothing reads the deadlines of a released row.
Released(r) == [InState(r, "released") EXCEPT !.age = 0]
ReleasedSurely(r) == [Released(r) EXCEPT !.uncertain = FALSE]

\* _release_unowned_claim
Unowned(r) == [Released(r) EXCEPT !.own = "preexisting_running"]

At(p, label) == proc[p].pc = label
Mine(p) == rows[proc[p].at]
Op(p, op) == p \in Hosts /\ At(p, "idle") /\ op \in HostOps[p]
Goto(p, label) == proc' = [proc EXCEPT ![p].pc = label]
Jump(p, label, i, ret) ==
    proc' = [proc EXCEPT ![p] = [pc |-> label, at |-> i, ret |-> ret, saw |-> "none"]]
End(p) == proc' = [proc EXCEPT ![p] = Idle]

\* service.release(token): the root token addresses the whole family.
ServiceRelease(p, i, ret) ==
    Jump(p, IF i = Root THEN "family" ELSE "release", i, ret)

\* What the caller of _release_one does with its result.
Return(p, ok) ==
    LET c == proc[p]
        next ==
          CASE ok /\ "family" \in c.ret ->
                 [c EXCEPT !.pc = "close", !.at = Root, !.ret = @ \ {"family"}]
            [] ok /\ "acquire" \in c.ret /\ Mine(p).source = "created"
                  /\ c.at < Profiles ->
                 [Idle EXCEPT !.pc = "admit", !.at = c.at + 1]
            [] "pass" \in c.ret -> [Idle EXCEPT !.pc = "row"]
            [] OTHER -> Idle
    IN  /\ proc' = [proc EXCEPT ![p] = next]
        /\ session' = IF /\ ok /\ "drop" \in c.ret /\ "family" \notin c.ret
                         /\ c.at \in {Root, session}
                      THEN 0 ELSE session

-----------------------------------------------------------------------------
(* Acquisition: start_training_pod, reserve, _acquire. *)

\* get_active_family_attempt finds none: a new acquisition may begin.
StartTraining(p) ==
    /\ Op(p, "start")
    /\ ~rows[Root].famReq
    /\ \A i \in Attempts : ~Unfinished(i)
    /\ Jump(p, "admit", Root, {})
    /\ UNCHANGED <<rows, pods, starter, jobs, session, history>>

\* It finds a ready attempt: the session is rebuilt from the row.
StartAgain(p) ==
    /\ Op(p, "start")
    /\ ~rows[Root].famReq
    /\ \E i \in Attempts :
        /\ rows[i].state = "ready"
        /\ rows' = Write(i, Beat(rows[i]))
        /\ session' = i
    /\ UNCHANGED <<pods, starter, jobs, proc, history>>

\* _training_admission_lock
Admitted(p) ==
    \A q \in Hosts \ {p} :
        /\ proc[q].pc \notin {"begin", "observe", "attach", "resume", "create", "ready"}
        /\ "acquire" \notin proc[q].ret

\* Mutant: reserve() does not look at the root of a fallback attempt.
ReservableAnyway(i, source) == \A j \in Attempts : ~Unfinished(j)

\* The INSERT of reserve(): a fallback needs an open family, and two indexes
\* allow one unfinished attempt of a family and one of a Pod.
Reservable(i, source) ==
    /\ i # Root => rows[Root].state # "absent" /\ ~rows[Root].famReq
    /\ \A j \in Attempts : ~Unfinished(j)

\* The first attempt takes the Pod that is configured or was found stopped, if
\* there is one; a Pod the request does not take is not in the model.
Reserve(p) ==
    /\ At(p, "admit") /\ Admitted(p)
    /\ \E source \in {"created", "existing"} :
        /\ source = "existing" <=> proc[p].at = Root /\ pods[Shared] # "none"
        /\ LET i == proc[p].at
               inserts == session = 0 /\ rows[i].state = "absent" /\ Reservable(i, source)
           IN  /\ rows' = IF inserts THEN Write(i, Reserved(source)) ELSE rows
               /\ IF inserts THEN Jump(p, "begin", i, {"acquire"}) ELSE End(p)
    /\ UNCHANGED <<pods, starter, jobs, session, history>>

\* The first compare-and-set of an acquisition is strict: the row must still
\* be as reserved, or the caller gets a conflict and leaves it alone.
AsReserved(p) == Mine(p).state = "requested" /\ ~Mine(p).famReq

Begin(p) ==
    /\ At(p, "begin")
    /\ IF Mine(p).source = "existing"
       THEN Goto(p, "observe") /\ UNCHANGED rows
       ELSE IF AsReserved(p)
       THEN /\ rows' = Write(proc[p].at, CreateStarting(Mine(p)))
            /\ Goto(p, "create")
       ELSE End(p) /\ UNCHANGED rows
    /\ UNCHANGED <<pods, starter, jobs, session, history>>

\* _acquire_existing: the Pod is observed ...
ObserveExisting(p) ==
    /\ At(p, "observe")
    /\ pods[Shared] \in {"running", "stopped"}
    /\ proc' = [proc EXCEPT ![p].pc = "attach", ![p].saw = pods[Shared]]
    /\ UNCHANGED <<rows, pods, starter, jobs, session, history>>

\* ... and who owns it is decided by the answer, which others may have
\* overtaken when it is written and when provider.start is called.
Attach(p) ==
    LET stopped == proc[p].saw = "stopped" IN
    /\ At(p, "attach")
    /\ IF AsReserved(p)
       THEN /\ rows' = Write(proc[p].at, IF stopped THEN InState(Mine(p), "starting")
                                         ELSE Attached(Mine(p)))
            /\ Jump(p, IF stopped THEN "resume" ELSE "ready", proc[p].at, proc[p].ret)
            /\ grounds' = IF stopped THEN grounds \cup {"stopped"} ELSE grounds
       ELSE End(p) /\ UNCHANGED <<rows, grounds>>
    /\ UNCHANGED <<pods, starter, jobs, session, gaveUp>>

\* The observation fails, or the caller is cancelled during it.
ObserveExistingFails(p) ==
    /\ proc[p].pc \in {"observe", "attach"}
    /\ {"provider", "cancel"} \cap Faults # {}
    /\ rows' = Transition(proc[p].at, Unowned(Mine(p)))
    /\ End(p)
    /\ UNCHANGED <<pods, starter, jobs, session, history>>

Resumed ==
    /\ pods' = [pods EXCEPT ![Shared] = "running"]
    /\ starter' = IF pods[Shared] = "stopped" THEN "lease" ELSE starter

\* provider.start, and the ownership it gives, written without a look at the
\* state of the row.
Resume(p) ==
    /\ At(p, "resume")
    /\ Resumed
    /\ rows' = Write(proc[p].at, Owned(Mine(p)))
    /\ Goto(p, "ready")
    /\ UNCHANGED <<jobs, session, history>>

ResumeFails(p) ==
    /\ At(p, "resume")
    /\ {"ambiguous", "cancel"} \cap Faults # {}
    /\ Resumed \/ UNCHANGED <<pods, starter>>
    /\ \/ "ambiguous" \in Faults /\ rows' = Transition(proc[p].at, RetryableFailure(Mine(p)))
       \/ "cancel" \in Faults /\ UNCHANGED rows
    /\ Jump(p, "release", proc[p].at, {})
    /\ UNCHANGED <<jobs, session, history>>

\* A POST that was applied leaves the Pod as it has become since, and one
\* that was not leaves none.
Applied(p, applied, landing) ==
    /\ pods[proc[p].at] # "none" => applied
    /\ pods' = [pods EXCEPT ![proc[p].at] = IF applied /\ @ = "none" THEN landing ELSE @]

\* _acquire_created: the answer of the POST is recorded.
Create(p) ==
    /\ At(p, "create")
    /\ Applied(p, TRUE, "running")
    /\ rows' = Transition(proc[p].at, CreateAccepted(Mine(p)))
    /\ Goto(p, "ready")
    /\ UNCHANGED <<starter, jobs, session, history>>

\* A typed refusal is taken to mean that no Pod was accepted, and the next
\* profile may be tried.
CreateRejected(p) ==
    /\ At(p, "create")
    /\ \E outcome \in Outcomes(CreatePod) :
        /\ outcome[2] \in {"error", "missing"}
        /\ Applied(p, outcome[1], "running")
    /\ rows' = Transition(proc[p].at, ReleasedSurely(Mine(p)))
    /\ Return(p, TRUE)
    /\ UNCHANGED <<starter, jobs, history>>

\* The answer decides nothing: the Pod exists, is still to come, or never will.
CreateAmbiguous(p) ==
    /\ At(p, "create") /\ "ambiguous" \in Faults
    /\ \E outcome \in Outcomes(CreatePod) :
        /\ outcome[2] = "ambiguous"
        /\ \E landing \in {"pending", "running"} : Applied(p, outcome[1], landing)
    /\ rows' = Transition(proc[p].at, StillUncertain(Mine(p)))
    /\ Goto(p, "release")
    /\ UNCHANGED <<starter, jobs, session, history>>

\* The caller is cancelled: the POST is joined, its answer is not recorded.
CreateCancelled(p) ==
    /\ At(p, "create") /\ "cancel" \in Faults
    /\ Applied(p, TRUE, "running")
    /\ Jump(p, "release", proc[p].at, {})
    /\ UNCHANGED <<rows, starter, jobs, session, history>>

\* _observe_readiness until the Pod has a route; the row may have been taken
\* away meanwhile, and then the caller gets an error.
Ready(p) ==
    /\ At(p, "ready")
    /\ IF Mine(p).state # "starting" THEN End(p) /\ UNCHANGED <<rows, session>>
       ELSE /\ Mine(p).age = 0
            /\ pods[PodOf(proc[p].at)] = "running"
            /\ rows' = Write(proc[p].at, InState(Mine(p), "ready"))
            /\ session' = proc[p].at
            /\ End(p)
    /\ UNCHANGED <<pods, starter, jobs, history>>

\* The deadline has passed, the Pod is not running, it cannot be observed, or
\* the caller is cancelled: the attempt is released.
NotReady(p) ==
    /\ At(p, "ready")
    /\ \/ /\ Mine(p).state = "starting"
          /\ \/ Mine(p).age > 0
             \/ pods[PodOf(proc[p].at)] # "running"
          /\ Goto(p, "release") /\ UNCHANGED rows
       \/ /\ "provider" \in Faults
          /\ rows' = Transition(proc[p].at, RetryableFailure(Mine(p)))
          /\ Goto(p, "release")
       \/ /\ "cancel" \in Faults
          /\ Jump(p, "release", proc[p].at, {}) /\ UNCHANGED rows
    /\ UNCHANGED <<pods, starter, jobs, session, history>>

-----------------------------------------------------------------------------
(* The training job: the calls of a host that holds a session. *)

Trainer(p) == jobs[PodOf(proc[p].at)]
Reachable(i) == pods[PodOf(i)] = "running"

\* submit_training_job: the model readiness wait, which keeps the lease alive.
Submit(p) ==
    /\ Op(p, "submit") /\ session # 0
    /\ \/ /\ ~IsTerminal(rows[session]) /\ Reachable(session)
          /\ Jump(p, "post", session, {})
       \/ ServiceRelease(p, session, {})     \* not ready, or no longer leased
    /\ rows' = Transition(session, Beat(rows[session]))
    /\ UNCHANGED <<pods, starter, jobs, session, history>>

\* record_job: only a ready lease takes a job; otherwise the caller gets an
\* error and nothing is undone.
RecordJob(p) ==
    /\ rows' = IF Mine(p).state \in {"ready", "job_submitted"}
               THEN Write(proc[p].at, InState(Mine(p), "job_submitted"))
               ELSE rows
    /\ End(p)

\* POST /train.
PostTrain(p) ==
    /\ At(p, "post") /\ Reachable(proc[p].at)
    /\ jobs' = [jobs EXCEPT ![PodOf(proc[p].at)] = "running"]
    /\ \/ RecordJob(p)
       \/ "ambiguous" \in Faults /\ Goto(p, "recover") /\ UNCHANGED rows
    /\ UNCHANGED <<pods, starter, session, history>>

\* It is not accepted, or the answer cannot be used.
PostTrainFails(p) ==
    /\ At(p, "post")
    /\ \/ Goto(p, "recover") /\ UNCHANGED rows
       \/ /\ ServiceRelease(p, proc[p].at, {})
          /\ rows' = Transition(proc[p].at, Beat(Mine(p)))
       \/ /\ "cancel" \in Faults
          /\ ServiceRelease(p, proc[p].at, {})
          /\ rows' = Transition(proc[p].at, InState(Mine(p), "cancel_requested"))
    /\ UNCHANGED <<pods, starter, jobs, session, history>>

\* _recover_or_cleanup_submission: GET /current-job.
Recover(p) ==
    /\ At(p, "recover")
    /\ \/ Reachable(proc[p].at) /\ Trainer(p) = "running" /\ RecordJob(p)
       \/ /\ rows' = Transition(proc[p].at, Beat(Mine(p)))
          /\ ServiceRelease(p, proc[p].at, {})
    /\ UNCHANGED <<pods, starter, jobs, session, history>>

\* poll_training_status: GET /status, then record_status.
Poll(p) ==
    /\ Op(p, "poll") /\ session # 0
    /\ ~IsTerminal(rows[session]) /\ Reachable(session)
    /\ rows' = Write(session, Beat(rows[session]))
    /\ proc' = [proc EXCEPT ![p] = [pc |-> "polled", at |-> session, ret |-> {},
                                    saw |-> jobs[PodOf(session)]]]
    /\ UNCHANGED <<pods, starter, jobs, session, history>>

\* Mutant: the trainer's word is written to the row as it is.
WithRawStatus(r, status) == InState(r, status)

WithStatus(r, status) ==
    CASE status = "completed" -> InState(r, "job_completed")
      [] status = "failed"    -> InState(r, "cancel_requested")
      [] OTHER                -> Beat(r)

\* record_status; the reconciler releases the Pod of a failed job at once.
Polled(p) ==
    /\ At(p, "polled")
    /\ rows' = Transition(proc[p].at, WithStatus(Mine(p), proc[p].saw))
    /\ IF p \in Reconcilers /\ rows'[proc[p].at].state = "cancel_requested"
       THEN Jump(p, "release", proc[p].at, {}) ELSE End(p)
    /\ UNCHANGED <<pods, starter, jobs, session, history>>

\* download_lora, then record_result_retrieved.
Download(p) ==
    /\ Op(p, "download") /\ session # 0
    /\ ~IsTerminal(rows[session])
    /\ Reachable(session) /\ jobs[PodOf(session)] = "completed"
    /\ rows' = Write(session, Beat(rows[session]))
    /\ Jump(p, "downloaded", session, {})
    /\ UNCHANGED <<pods, starter, jobs, session, history>>

Downloaded(p) ==
    /\ At(p, "downloaded")
    /\ rows' = IF Mine(p).state \in {"job_submitted", "job_completed"}
               THEN Write(proc[p].at, InState(Mine(p), "result_retrieved"))
               ELSE rows
    /\ End(p)
    /\ UNCHANGED <<pods, starter, jobs, session, history>>

\* cancel_training_job: the request is persisted before the POST.
CancelJob(p) ==
    /\ Op(p, "cancel") /\ session # 0
    /\ rows' = Transition(session, InState(rows[session], "cancel_requested"))
    /\ Jump(p, "cancelling", session, {})
    /\ UNCHANGED <<pods, starter, jobs, session, history>>

Cancelling(p) ==
    /\ At(p, "cancelling")
    /\ \/ /\ Reachable(proc[p].at) /\ Trainer(p) = "running"
          /\ jobs' = [jobs EXCEPT ![PodOf(proc[p].at)] = "failed"]
       \/ UNCHANGED jobs
    /\ ServiceRelease(p, proc[p].at, {})
    /\ UNCHANGED <<rows, pods, starter, session, history>>

\* get_current_job and clear_current_job: a heartbeat, and a call that leaves
\* the lease alone.
Touch(p) ==
    /\ Op(p, "touch") /\ session # 0
    /\ ~IsTerminal(rows[session])
    /\ rows' = Write(session, Beat(rows[session]))
    /\ UNCHANGED <<pods, starter, jobs, session, proc, history>>

-----------------------------------------------------------------------------
(* Release: a family, one attempt, an uncertain create. *)

\* release_training_pod
Release(p) ==
    /\ Op(p, "release")
    /\ \E i \in Attempts : rows[i].state # "absent" /\ ServiceRelease(p, i, {"drop"})
    /\ UNCHANGED <<rows, pods, starter, jobs, session, history>>

FamilyRequested(r) ==
    IF r.famReq THEN r ELSE [Beat(r) EXCEPT !.famReq = TRUE, !.famDone = FALSE]
FamilyComplete(r) == IF r.famDone THEN r ELSE [Beat(r) EXCEPT !.famDone = TRUE]

\* The family is closed first; at most one member can be unfinished.
ReleaseFamily(p) ==
    /\ At(p, "family")
    /\ rows' = Write(Root, FamilyRequested(rows[Root]))
    /\ IF \E i \in Attempts : Unfinished(i)
       THEN \E i \in Attempts :
              /\ Unfinished(i)
              /\ Jump(p, "release", i, proc[p].ret \cup {"family"})
       ELSE Goto(p, "close")
    /\ UNCHANGED <<pods, starter, jobs, session, history>>

FamilyReleased(p) ==
    /\ At(p, "close")
    /\ rows' = Write(Root, FamilyComplete(rows[Root]))
    /\ Return(p, TRUE)
    /\ UNCHANGED <<pods, starter, jobs, history>>

Releasing(r) == IF r.state = "releasing" THEN r ELSE InState(r, "releasing")

\* A write that ends a row whose create may have been made: the row as it is
\* now, not as the decision read it.
Abandons(i) ==
    /\ ~IsTerminal(rows[i]) /\ rows[i].source = "created"
    /\ rows[i].uncertain \/ rows[i].pid

EndsRow(i, new) ==
    /\ rows' = Transition(i, new)
    /\ gaveUp' = IF Abandons(i) THEN gaveUp \cup {i} ELSE gaveUp

Voids(p) == EndsRow(proc[p].at, Released(Mine(p))) /\ Return(p, TRUE)

\* _release_one up to its first await.  What it decides on the row still holds
\* when it writes, with one exception: the hosts share an event loop, but a
\* reconciler may void a claim whose owner begins its create meanwhile.
ReleaseOne(p) ==
    LET r == Mine(p) IN
    /\ At(p, "release")
    /\ \/ /\ IsTerminal(r)
          /\ Return(p, TRUE) /\ UNCHANGED <<rows, history>>
       \/ /\ ~IsTerminal(r) /\ r.own = "preexisting_running"
          /\ rows' = Transition(proc[p].at, Released(r))
          /\ Return(p, TRUE) /\ UNCHANGED history
       \/ /\ ~IsTerminal(r) /\ r.own # "preexisting_running" /\ r.pid
          /\ rows' = Transition(proc[p].at, Releasing(r))
          /\ Goto(p, "stop")
          /\ grounds' = IF r.source = "existing" /\ r.state = "requested"
                        THEN grounds \cup {"unobserved"} ELSE grounds
          /\ UNCHANGED <<session, gaveUp>>
       \/ /\ ~IsTerminal(r) /\ ~r.pid /\ ~r.uncertain
          /\ IF p \in Hosts THEN Voids(p)
             ELSE Goto(p, "void") /\ UNCHANGED <<rows, session, gaveUp>>
          /\ UNCHANGED grounds
    /\ UNCHANGED <<pods, starter, jobs>>

Void(p) ==
    /\ At(p, "void")
    /\ Voids(p)
    /\ UNCHANGED <<pods, starter, jobs, grounds>>

\* find_by_name reads the inventory for a create whose outcome is unknown ...
FindByName(p) ==
    /\ At(p, "release")
    /\ ~IsTerminal(Mine(p)) /\ ~Mine(p).pid /\ Mine(p).uncertain
    /\ proc' = [proc EXCEPT ![p].pc = "found", ![p].saw =
                  IF pods[proc[p].at] \in {"running", "stopped"} THEN "found" ELSE "none"]
    /\ UNCHANGED <<rows, pods, starter, jobs, session, history>>

FindByNameFails(p) ==
    /\ At(p, "release") /\ "provider" \in Faults
    /\ ~IsTerminal(Mine(p)) /\ ~Mine(p).pid /\ Mine(p).uncertain
    /\ rows' = Transition(proc[p].at, StillUncertain(Mine(p)))
    /\ Return(p, FALSE)
    /\ UNCHANGED <<pods, starter, jobs, history>>

\* ... and the row records what it means, by the time of the answer.
Adopted(r) ==
    [r EXCEPT !.pid = TRUE, !.own = "owned", !.uncertain = FALSE, !.state = "reconcile_required"]
AwaitingCreate(r) == [r EXCEPT !.state = "reconcile_required"]

Resolved(r, saw) ==
    CASE saw = "found" -> Adopted(r)
      [] saw # "found" /\ r.age = 0 -> AwaitingCreate(r)
      [] OTHER -> ReleasedSurely(r)

ResolveCreation(p) ==
    LET r == Resolved(Mine(p), proc[p].saw) IN
    /\ At(p, "found")
    /\ IF IsTerminal(r) THEN EndsRow(proc[p].at, r)
       ELSE rows' = Transition(proc[p].at, r) /\ UNCHANGED gaveUp
    /\ IF ~IsTerminal(Mine(p)) /\ r.pid /\ ~IsTerminal(r)
       THEN Jump(p, "release", proc[p].at, proc[p].ret) /\ UNCHANGED session
       ELSE Return(p, IsTerminal(Mine(p)) \/ IsTerminal(r))
    /\ UNCHANGED <<pods, starter, jobs, grounds>>

\* A Pod that stops takes its job with it.
Stops(k) ==
    /\ pods' = [pods EXCEPT ![k] = "stopped"]
    /\ jobs' = [jobs EXCEPT ![k] = "none"]

\* provider.stop, and what its answer says.
StopConfirmed(p) ==
    /\ At(p, "stop")
    /\ Stops(PodOf(proc[p].at))
    /\ rows' = Transition(proc[p].at, ReleasedSurely(Mine(p)))
    /\ Return(p, TRUE)
    /\ UNCHANGED <<starter, history>>

StopFails(p) ==
    /\ At(p, "stop")
    /\ \/ /\ "provider" \in Faults
          /\ Stops(PodOf(proc[p].at)) \/ UNCHANGED <<pods, jobs>>
          /\ rows' = Transition(proc[p].at, RetryableFailure(Mine(p)))
       \/ /\ "pending" \in Faults
          /\ rows' = Transition(proc[p].at, Beat(Mine(p)))
          /\ UNCHANGED <<pods, jobs>>
    /\ Return(p, IsTerminal(Mine(p)))
    /\ UNCHANGED <<starter, history>>

-----------------------------------------------------------------------------
(* The reconciler. *)

\* A pass finishes incomplete family releases before it looks at the rows.
ReconcileFamily(p) ==
    /\ p \in Reconcilers /\ At(p, "idle")
    /\ rows[Root].famReq /\ ~rows[Root].famDone
    /\ Jump(p, "family", Root, {"pass"})
    /\ UNCHANGED <<rows, pods, starter, jobs, session, history>>

Passing(p, i) ==
    /\ p \in Reconcilers
    /\ \/ At(p, "row")
       \/ At(p, "idle") /\ (rows[Root].famReq => rows[Root].famDone)
    /\ Unfinished(i)

\* Mutant: a claim that never got to its observation is released like a lease.
ReapRequestedAlike(p, i) ==
    /\ Passing(p, i) /\ rows[i].state = "requested"
    /\ Stale(rows[i]) \/ rows[i].age > 0
    /\ rows[i].source = "existing"
    /\ Jump(p, "release", i, {})
    /\ UNCHANGED <<rows, pods, starter, jobs, session, history>>

\* A reservation whose owner seems to have died before it touched Runpod ...
ReapRequested(p, i) ==
    /\ Passing(p, i) /\ rows[i].state = "requested"
    /\ ~Stale(rows[i]) => rows[i].age > 0
    /\ Jump(p, "reap", i, {})
    /\ UNCHANGED <<rows, pods, starter, jobs, session, history>>

\* ... is ended, whatever the row has become since it was read.
Reap(p) ==
    /\ At(p, "reap")
    /\ EndsRow(proc[p].at, IF Mine(p).source = "existing" THEN Unowned(Mine(p))
                           ELSE Released(Mine(p)))
    /\ End(p)
    /\ UNCHANGED <<pods, starter, jobs, session, grounds>>

\* When _reconcile_one releases the attempt, or looks for its create.
Doomed(r) ==
    IF ~r.pid /\ r.uncertain THEN Stale(r) \/ r.age = 2
    ELSE \/ r.state \in {"releasing", "cancel_requested", "reconcile_required", "result_retrieved"}
         \/ r.age = 2
         \/ r.state \in {"starting", "ready"} /\ Stale(r)

ReconcileRelease(p, i) ==
    /\ Passing(p, i) /\ rows[i].state # "requested" /\ Doomed(rows[i])
    /\ Jump(p, "release", i, {})
    /\ UNCHANGED <<rows, pods, starter, jobs, session, history>>

\* _reconcile_training_workload_status, when webhooks and polls were lost.
ReconcileJob(p, i) ==
    /\ Passing(p, i) /\ rows[i].state = "job_submitted" /\ ~Doomed(rows[i])
    /\ IF Reachable(i)
       THEN proc' = [proc EXCEPT ![p] = [pc |-> "polled", at |-> i, ret |-> {},
                                         saw |-> jobs[PodOf(i)]]] /\ UNCHANGED rows
       ELSE rows' = Transition(i, Beat(rows[i])) /\ End(p)
    /\ UNCHANGED <<pods, starter, jobs, session, history>>

\* A starting or ready Pod that is observed stopped needs no release: the row
\* is closed on that observation, whatever it has become meanwhile.
ReconcileObserve(p, i) ==
    /\ Passing(p, i) /\ rows[i].state \in {"starting", "ready"}
    /\ rows[i].pid /\ ~Doomed(rows[i])
    /\ pods[PodOf(i)] = "stopped"
    /\ Jump(p, "observed", i, {})
    /\ UNCHANGED <<rows, pods, starter, jobs, session, history>>

ReconcileStopped(p) ==
    /\ At(p, "observed")
    /\ rows' = Transition(proc[p].at, Released(Mine(p)))
    /\ End(p)
    /\ UNCHANGED <<pods, starter, jobs, session, history>>

\* The pass has nothing to do for the rows.
PassEnds(p) ==
    /\ p \in Reconcilers /\ At(p, "row")
    /\ \A i \in Attempts : Unfinished(i) =>
         /\ rows[i].state # "requested" => ~Doomed(rows[i])
         /\ rows[i].state = "requested" => ~Stale(rows[i]) /\ rows[i].age = 0
    /\ End(p)
    /\ UNCHANGED <<rows, pods, starter, jobs, session, history>>

-----------------------------------------------------------------------------
(* The environment. *)

\* The orphan timeout passes without a heartbeat.
GoesStale(i) ==
    /\ Unfinished(i) /\ ~Stale(rows[i])
    /\ rows' = Write(i, [rows[i] EXCEPT !.hb = "stale"])
    /\ UNCHANGED <<pods, starter, jobs, session, proc, history>>

\* The readiness deadline passes, then the hard deadline.
DeadlinePasses(i) ==
    /\ Unfinished(i) /\ rows[i].age < 2
    /\ rows' = Write(i, [rows[i] EXCEPT !.age = @ + 1])
    /\ UNCHANGED <<pods, starter, jobs, session, proc, history>>

\* A create is applied before its answer arrives.
CreateArrives(p) ==
    /\ At(p, "create") /\ pods[proc[p].at] = "none"
    /\ Applied(p, TRUE, "running")
    /\ UNCHANGED <<rows, starter, jobs, session, proc, history>>

\* A create whose answer was lost, or whose caller died, reaches Runpod.
CreateLands(i) ==
    /\ pods[i] = "pending"
    /\ \E s \in {"running", "none"} : pods' = [pods EXCEPT ![i] = s]
    /\ UNCHANGED <<rows, starter, jobs, session, proc, history>>

TrainerEnds(k) ==
    /\ jobs[k] = "running" /\ pods[k] = "running"
    /\ \E s \in {"completed", "failed"} : jobs' = [jobs EXCEPT ![k] = s]
    /\ UNCHANGED <<rows, pods, starter, session, proc, history>>

\* Others stop the existing Pod and start it, at any time.
OthersUse ==
    /\ "others" \in Faults
    /\ \/ pods[Shared] = "running" /\ Stops(Shared) /\ UNCHANGED starter
       \/ /\ pods[Shared] = "stopped"
          /\ pods' = [pods EXCEPT ![Shared] = "running"]
          /\ starter' = "others"
          /\ UNCHANGED jobs
    /\ UNCHANGED <<rows, session, proc, history>>

\* The manager dies with all its tasks; a call under way may still arrive.
Crash ==
    /\ "crash" \in Faults
    /\ \E p \in Hosts : ~At(p, "idle")
    /\ session' = 0
    /\ proc' = [p \in Procs |-> IF p \in Hosts THEN Idle ELSE proc[p]]
    /\ \/ \E p \in Hosts :
            \/ At(p, "create") /\ Applied(p, TRUE, "pending") /\ UNCHANGED <<starter, jobs>>
            \/ At(p, "resume") /\ Resumed /\ UNCHANGED jobs
            \/ At(p, "stop") /\ Stops(PodOf(proc[p].at)) /\ UNCHANGED starter
       \/ UNCHANGED <<pods, starter, jobs>>
    /\ UNCHANGED <<rows, history>>

HostStep(p) ==
    \/ StartTraining(p) \/ StartAgain(p) \/ Reserve(p) \/ Begin(p)
    \/ ObserveExisting(p) \/ Attach(p) \/ ObserveExistingFails(p)
    \/ Resume(p) \/ ResumeFails(p)
    \/ Create(p) \/ CreateRejected(p) \/ CreateAmbiguous(p) \/ CreateCancelled(p)
    \/ Ready(p) \/ NotReady(p)
    \/ Submit(p) \/ PostTrain(p) \/ PostTrainFails(p) \/ Recover(p)
    \/ Poll(p) \/ Download(p) \/ Downloaded(p)
    \/ CancelJob(p) \/ Cancelling(p) \/ Touch(p) \/ Release(p)

\* The subroutines hosts and reconcilers share.
ServiceStep(p) ==
    \/ ReleaseFamily(p) \/ FamilyReleased(p) \/ ReleaseOne(p) \/ Void(p)
    \/ FindByName(p) \/ FindByNameFails(p) \/ ResolveCreation(p)
    \/ StopConfirmed(p) \/ StopFails(p) \/ Polled(p)

ReconcilerStep(p) ==
    \/ ReconcileFamily(p) \/ PassEnds(p) \/ Reap(p) \/ ReconcileStopped(p)
    \/ \E i \in Attempts :
        ReapRequested(p, i) \/ ReconcileRelease(p, i) \/ ReconcileJob(p, i) \/ ReconcileObserve(p, i)

Environment ==
    \/ \E i \in Attempts : GoesStale(i) \/ DeadlinePasses(i) \/ CreateLands(i)
    \/ \E k \in PodIds : TrainerEnds(k)
    \/ \E p \in Hosts : CreateArrives(p)
    \/ OthersUse \/ Crash

Next ==
    \/ \E p \in Hosts : HostStep(p)
    \/ \E p \in Procs : ServiceStep(p)
    \/ \E p \in Reconcilers : ReconcilerStep(p)
    \/ Environment

Spec == Init /\ [][Next]_vars

-----------------------------------------------------------------------------
(* Properties. *)

Billable(k) == pods[k] \in {"pending", "running"}

Owed(i) == Unfinished(i) /\ (rows[i].pid \/ rows[i].uncertain)

\* A Pod that was created for an attempt, its create still under way included,
\* bills only while the row of that attempt is unfinished and can find it,
\* unless the row was ended over the create: by a reaper or a release that had
\* read it before the create began, or by a lookup that found nothing once the
\* readiness deadline had passed.  No refusal, lost answer, cancellation, crash
\* or stop does that.
CreatedIsOwed == \A i \in Attempts \ gaveUp : Billable(i) => Owed(i)

\* The same with no exception.  The code does not keep this: see the README.
CreatedAlwaysOwed == \A i \in Attempts : Billable(i) => Owed(i)

\* The closed-family promise: once the release of a family is recorded as
\* complete, no attempt of it is or ever becomes unfinished, whichever
\* acquisition was between two profiles when the release came.
FamilyClosed ==
    rows[Root].famDone => \A i \in Attempts : ~Unfinished(i)

StopsForOthers ==
    /\ pods[Shared] = "running" /\ starter = "others"
    /\ pods'[Shared] = "stopped" /\ proc' # proc

\* The service stops a Pod that runs for others on two grounds only: its lease
\* had observed the Pod stopped and went on to resume it, or a caller released
\* a claim that had observed nothing.  A Pod observed running is left alone by
\* every failed acquisition, crash, timeout, release and reconcile pass.
SharedKept ==
    [][ StopsForOthers =>
          "stopped" \in grounds \/ ("unobserved" \in grounds /\ rows[Root].famReq) ]_vars

\* The same with no exception.  The code does not keep this: see the README.
SharedAlwaysKept == [][ ~StopsForOthers ]_vars

\* A stopped Pod that the service resumed runs only while its row is
\* unfinished.  The code does not keep this: see the README.
ResumedIsOwed ==
    pods[Shared] = "running" /\ starter = "lease" => Unfinished(Root)
===============================================================================
