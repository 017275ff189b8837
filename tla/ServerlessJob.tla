---------------------------- MODULE ServerlessJob ----------------------------
(***************************************************************************)
(* One finite job on an exclusive Serverless endpoint, and its settlement. *)
(*                                                                         *)
(* Runpod bills endpoints by the hour and knows no price of a job.  The    *)
(* host therefore reserves whole hours of an endpoint for one attempt, and *)
(* RunpodServerlessCapacityProvider turns the bill of those hours into a   *)
(* receipt: final_billing when the job is known, and the ambiguous window  *)
(* when the answer to /run was lost and the job may or may not exist.      *)
(* The same code settles both lanes: a profile quote checked again before  *)
(* submission, and the authorization of an activated endpoint.             *)
(***************************************************************************)
EXTENDS ServerlessBilling, RunpodCalls

CONSTANTS
    Request,    \* the quote request of the job
    Catalogs,   \* the catalogs Runpod may show, one at a time
    Lanes,      \* the lanes to explore, of "profile" and "activated"
    MaxClock,   \* bound: ticks of the clock
    Faults      \* the failures the environment may produce

AllFaults ==
    {"crash",   \* the host dies while it waits for /run
     "calls",   \* the answer of /run, or of a read, is lost
     "pages"}   \* billing pages are late, short, or inconsistent

ASSUME RequestAssumption == ValidSpec(Request.spec) /\ ValidRequest(Request)
ASSUME NumberAssumption ==
    /\ MaxClock \in Nat
    /\ Request.max_queue \in Nat /\ Request.max_start \in Nat /\ Request.max_exec \in Nat
    /\ Request.job_timeout \in Nat /\ Request.job_ttl \in Nat /\ Request.ttl \in Nat
ASSUME LaneAssumption == Lanes \subseteq {"profile", "activated"}
ASSUME FaultAssumption == Faults \subseteq AllFaults

VARIABLES
    clock,
    catalog,    \* external: the live GPU catalog
    lane,
    quote,      \* the accepted quote, once there is one
    authority,  \* the interval in which the job may be submitted
    attempt,    \* the host's durable record of the submission
    job,        \* external: what Runpod does with it
    usage,      \* external: ticks the endpoint's worker was billed for
    pc, loc,    \* the settlement call in progress
    receipt,    \* the billing receipt, once there is one
    disowned    \* history: an accepted job was answered as a definite refusal

vars == <<clock, catalog, lane, quote, authority, attempt, job, usage, pc, loc, receipt, disowned>>

The(s) == CHOOSE x \in s : TRUE
Quote == The(quote)
Attempt == The(attempt)
Receipt == The(receipt)

Time == 0..MaxClock
Never == MaxClock + 1

NoJob == [state |-> "none", at |-> 0, exec |-> 0, ended |-> 0]
NoLocals == [now |-> 0, closed |-> FALSE, from |-> 0, until |-> 0]

Late == Request.max_queue + Request.max_start
Worst == Late + Request.max_exec

TypeOK ==
    /\ clock \in Time
    /\ catalog \in Catalogs
    /\ lane \in Lanes
    /\ Cardinality(quote) <= 1
    /\ authority \subseteq [from : Time, until : Nat]
    /\ attempt \subseteq
          [submitted : Time, outcome : {"sent", "known", "ambiguous"}, completed : Time \cup {Never}]
    /\ job \in [state : {"none", "queued", "starting", "running", "done"},
                at : Time, exec : Time, ended : Time]
    /\ usage \subseteq Time
    /\ pc \in {"idle", "observe", "run", "status", "page"}
    /\ loc \in [now : Time, closed : BOOLEAN, from : Nat, until : Nat]
    /\ Cardinality(receipt) <= 1
    /\ disowned \in BOOLEAN

Init ==
    /\ clock = 0
    /\ catalog \in Catalogs
    /\ lane \in Lanes
    /\ quote = {} /\ authority = {} /\ attempt = {}
    /\ job = NoJob
    /\ usage = {}
    /\ pc = "idle" /\ loc = NoLocals
    /\ receipt = {} /\ disowned = FALSE

At(label) == pc = label
Goto(label, l) == pc' = label /\ loc' = l
End == Goto("idle", NoLocals)

-----------------------------------------------------------------------------
(* Up to the submission. *)

\* quote, and for a planned endpoint quote_planned_endpoint.
QuoteCapacity ==
    /\ At("idle")
    /\ attempt = {} /\ authority = {}
    /\ quote # {} => ~Fresh(Quote, clock, Quote.ceiling)
    /\ Placeable(catalog, Request.spec)
    /\ \E q \in {PlannedQuote(catalog, Request, clock)} :
          /\ ValidQuote(q)
          /\ HourCeiling(q.expires_at + Worst + Request.spec.idle) <= MaxClock   \* bound
          /\ quote' = {q}
    /\ UNCHANGED <<clock, catalog, lane, authority, attempt, job, usage, pc, loc, receipt,
                   disowned>>

\* validate_quote_for_submission, and authorize_planned_submission: freshness
\* is checked against the clock read here.
ValidateQuote ==
    /\ At("idle")
    /\ quote # {} /\ authority = {}
    /\ BindsPlan(Request, Quote)
    /\ Fresh(Quote, clock, Quote.ceiling)
    /\ Goto("observe", [NoLocals EXCEPT !.now = clock])
    /\ UNCHANGED <<clock, catalog, lane, quote, authority, attempt, job, usage, receipt, disowned>>

\* The second observation of the catalog.  A profile quote authorizes from its
\* observation on, an activated submission from its authorization on.
ValidateObserve ==
    /\ At("observe")
    /\ LET same == /\ Placeable(catalog, Request.spec)
                   /\ \E now \in {PlannedQuote(catalog, Request, clock)} :
                         IF lane = "profile" THEN NoProfileDrift(now, Quote, Quote.ceiling)
                         ELSE NoDrift(now, Quote, Quote.ceiling)
       IN authority' = IF same
                       THEN {[from  |-> IF lane = "profile" THEN Quote.observed_at ELSE loc.now,
                              until |-> Quote.expires_at]}
                       ELSE {}
    /\ End
    /\ UNCHANGED <<clock, catalog, lane, quote, attempt, job, usage, receipt, disowned>>

\* The host records the attempt, then sends /run, inside its authority.
Submit ==
    /\ At("idle")
    /\ authority # {} /\ attempt = {}
    /\ job.state = "none"   \* bound: one job
    /\ clock < The(authority).until
    /\ attempt' = {[submitted |-> clock, outcome |-> "sent", completed |-> Never]}
    /\ Goto("run", NoLocals)
    /\ UNCHANGED <<clock, catalog, lane, quote, authority, job, usage, receipt, disowned>>

\* An authority that was not used in time is given up.
Lapse ==
    /\ At("idle")
    /\ authority # {} /\ attempt = {}
    /\ clock >= The(authority).until
    /\ authority' = {}
    /\ UNCHANGED <<clock, catalog, lane, quote, attempt, job, usage, pc, loc, receipt, disowned>>

Accepted == job' = [NoJob EXCEPT !.state = "queued", !.at = clock]

\* external: Runpod took the job, or not, and answers so.
TakesJob(taken, answer) ==
    /\ IF taken THEN MayApply(answer) ELSE MayNotApply(answer)
    /\ answer = "expected" \/ "calls" \in Faults
    /\ IF taken THEN Accepted ELSE UNCHANGED job

\* Mutant: the client's verdict is recorded for the outcome.
VerdictRecorded ==
    /\ At("run")
    /\ \E taken \in BOOLEAN, answer \in Answers :
          /\ TakesJob(taken, answer)
          /\ attempt' = {[Attempt EXCEPT !.outcome = RunJob(answer)]}
    /\ End
    /\ UNCHANGED <<clock, catalog, lane, quote, authority, usage, receipt, disowned>>

\* The answer of /run.  A definite refusal frees the reservation, and a 2xx
\* answer without a usable body is one to the caller although the job was
\* accepted.
RunAnswers ==
    /\ At("run")
    /\ \E taken \in BOOLEAN, answer \in Answers :
          /\ TakesJob(taken, answer)
          /\ attempt' =
                CASE RunJob(answer) = "ok"        -> {[Attempt EXCEPT !.outcome = "known"]}
                  [] RunJob(answer) = "ambiguous" -> {[Attempt EXCEPT !.outcome = "ambiguous"]}
                  [] OTHER                        -> {}
          /\ authority' = IF RunJob(answer) \in {"ok", "ambiguous"} THEN authority ELSE {}
          /\ disowned' = (taken /\ answer = "misshapen")
    /\ End
    /\ UNCHANGED <<clock, catalog, lane, quote, usage, receipt>>

\* The host dies: what it recorded before /run is an ambiguous attempt.
Crash ==
    /\ At("run")
    /\ "crash" \in Faults
    /\ Accepted \/ UNCHANGED job
    /\ attempt' = {[Attempt EXCEPT !.outcome = "ambiguous"]}
    /\ End
    /\ UNCHANGED <<clock, catalog, lane, quote, authority, usage, receipt, disowned>>

-----------------------------------------------------------------------------
(* Settlement. *)

\* Mutant: the worst case leaves out the idle tail.
WorstRun(submitted) == submitted + Worst

\* ServerlessAmbiguousBillingWindow.validate_quote: the worst case, from the
\* attempt over queue, start and execution to the end of the idle tail.
WorstCase(submitted) == submitted + Worst + Request.spec.idle

\* The hours presented cover submission to completion plus the idle tail.
Covers(first, last) ==
    AllocationCovers(first, last, Attempt.submitted, Attempt.completed + Request.spec.idle)

\* Mutant: the accepted interval leaves out the worker's start.
StartNotCounted(first, last) ==
    /\ Attempt.submitted < Attempt.completed
    /\ Attempt.completed - Attempt.submitted <= Request.max_queue + Request.max_exec
    /\ Covers(first, last)

\* ServerlessBillingAttempt.validate_quote; final_activated_billing.
ValidAttempt(first, last) ==
    /\ The(authority).from <= Attempt.submitted
    /\ Attempt.submitted < The(authority).until
    /\ Attempt.submitted < Attempt.completed
    /\ Attempt.completed - Attempt.submitted <= Worst
    /\ Covers(first, last)

Delay == job.exec - job.at
Execution == job.ended - job.exec

\* final_billing: the host presents hours of its reservation, which may be
\* more than the attempt needs; the clock is read before the first await.
FinalBilling ==
    /\ At("idle")
    /\ attempt # {} /\ receipt = {}
    /\ Attempt.outcome = "known" /\ Attempt.completed # Never
    /\ \E first, last \in HoursIn(0, MaxClock) :
          /\ first <= last
          /\ ValidAttempt(first, last)
          /\ clock >= Attempt.completed
          /\ Goto("status", [NoLocals EXCEPT !.closed = clock >= last + HourTicks,
                                             !.from = first, !.until = last + HourTicks])
    /\ UNCHANGED <<clock, catalog, lane, quote, authority, attempt, job, usage, receipt, disowned>>

\* The job must be terminal and inside the accepted maxima, and the last hour
\* closed when the call began.
FinalStatus ==
    /\ At("status")
    /\ \E timed \in BOOLEAN :   \* Runpod reports delayTime and executionTime, or not
          IF /\ job.state = "done"
             /\ timed => Delay <= Late /\ Execution <= Request.max_exec
             /\ loc.closed
          THEN Goto("page", loc)
          ELSE End
    /\ UNCHANGED <<clock, catalog, lane, quote, authority, attempt, job, usage, receipt, disowned>>

\* The window of an ambiguous attempt: whole hours that cover the worst case.
ValidWindow(first, last) ==
    /\ The(authority).from <= Attempt.submitted
    /\ Attempt.submitted < The(authority).until
    /\ AllocationCovers(first, last, Attempt.submitted, WorstCase(Attempt.submitted))

\* final_ambiguous_window_billing: no job is looked up.
FinalAmbiguous ==
    /\ At("idle")
    /\ attempt # {} /\ receipt = {}
    /\ Attempt.outcome = "ambiguous"
    /\ \E first, last \in HoursIn(0, MaxClock) :
          /\ first <= last
          /\ ValidWindow(first, last)
          /\ clock >= last + HourTicks
          /\ Goto("page", [NoLocals EXCEPT !.from = first, !.until = last + HourTicks])
    /\ UNCHANGED <<clock, catalog, lane, quote, authority, attempt, job, usage, receipt, disowned>>

\* external: the bill of an hour, and a record of it.
CostOf(h) == Cardinality({t \in usage : h <= t /\ t < h + HourTicks})
Record(h, until) ==
    [from |-> h, until |-> until, own |-> TRUE, parts |-> CostOf(h), amount |-> CostOf(h)]

\* external: the hours of a page, in order, the last one possibly still open.
HourRecords(hours, open) ==
    LET n == Cardinality(hours)
        nth(i) == CHOOSE h \in hours : Cardinality({g \in hours : g < h}) = i - 1
    IN [i \in 1..n |-> Record(nth(i), nth(i) + IF open /\ i = n THEN 1 ELSE HourTicks)]

Flip(s) == [i \in DOMAIN s |-> s[Len(s) + 1 - i]]
PageOf(s) ==
    [echo |-> TRUE, count |-> Len(s), unique |-> 1, records |-> s, total |-> TotalOf(s)]

\* external: the pages of these closed hours: complete, in either order, or
\* with hours missing or open, or contradicting themselves.
SoundPages(closed) ==
    {PageOf(HourRecords(closed, FALSE)), PageOf(Flip(HourRecords(closed, FALSE)))}
ShortPages(closed) ==
    UNION {{PageOf(HourRecords(some, open)) : some \in SUBSET closed} : open \in BOOLEAN}
WrongPages(closed) ==
    LET page == PageOf(HourRecords(closed, FALSE))
    IN {[page EXCEPT !.total = @ + 1], [page EXCEPT !.count = @ + 1]}

\* external: the hours of the window that are over, and what Runpod may show of
\* them.
ClosedHours(from, until) == {h \in HoursIn(from, until) : h + HourTicks <= clock}
Pages(closed) ==
    SoundPages(closed)
        \cup (IF "pages" \in Faults THEN ShortPages(closed) \cup WrongPages(closed) ELSE {})

\* ServerlessBillingReceipt.__post_init__: the job fits in the attempt and the
\* attempt, with its idle tail, in a window that was closed.
ValidJobReceipt ==
    /\ loc.from <= Attempt.submitted
    /\ Attempt.submitted < Attempt.completed
    /\ Attempt.completed + Request.spec.idle <= loc.until
    /\ loc.closed
    /\ Covers(loc.from, loc.until - HourTicks)
    /\ Delay + Execution <= Attempt.completed - Attempt.submitted

\* ServerlessAmbiguousWindowBillingReceipt.__post_init__: one cost for every
\* hour of the window, and the split of their sum at the accepted ceiling.
ValidAmbiguousReceipt(r) ==
    /\ r.from <= Attempt.submitted
    /\ WorstCase(Attempt.submitted) <= r.until
    /\ ValidWindow(r.from, r.until - HourTicks)
    /\ OneCostPerHour(r.costs, r.from, r.until)
    /\ r.capped <= Quote.ceiling
    /\ r.capped + r.loss = CostTotal(r.costs)

\* A cost above the accepted ceiling of an ambiguous attempt is the operator's
\* loss.
Capped(actual) ==
    IF Attempt.outcome = "known" \/ actual <= Quote.ceiling THEN actual ELSE Quote.ceiling

ReceiptOf(costs) ==
    [from |-> loc.from, until |-> loc.until, costs |-> costs, actual |-> CostTotal(costs),
     capped |-> Capped(CostTotal(costs)), loss |-> CostTotal(costs) - Capped(CostTotal(costs))]

ValidReceipt(r) ==
    IF Attempt.outcome = "known" THEN ValidJobReceipt ELSE ValidAmbiguousReceipt(r)

\* The page makes the receipt, or the call ends with nothing.
ReadPage ==
    /\ At("page")
    /\ \E closed \in {ClosedHours(loc.from, loc.until)} : \E page \in Pages(closed) :
          LET seen == AuthoritativeHourCosts(page, loc.from, loc.until)
          IN receipt' = IF seen.kind # "costs" THEN {}
                        ELSE {r \in {ReceiptOf(seen.costs)} : ValidReceipt(r)}
    /\ End
    /\ UNCHANGED <<clock, catalog, lane, quote, authority, attempt, job, usage, disowned>>

-----------------------------------------------------------------------------
(* The environment. *)

\* external: the worker starts, and the job executes.
JobStarts ==
    /\ job.state = "queued"
    /\ job' = [job EXCEPT !.state = "starting"]
    /\ UNCHANGED <<clock, catalog, lane, quote, authority, attempt, usage, pc, loc, receipt,
                   disowned>>

JobExecutes ==
    /\ job.state = "starting"
    /\ clock < job.at + Request.job_ttl
    /\ job' = [job EXCEPT !.state = "running", !.exec = clock]
    /\ UNCHANGED <<clock, catalog, lane, quote, authority, attempt, usage, pc, loc, receipt,
                   disowned>>

\* external: a job that executed, or one whose ttl passed before it did.
JobEnds ==
    /\ \/ job.state = "running" /\ clock > job.exec
       \/ job.state \in {"queued", "starting"} /\ clock >= job.at + Request.job_ttl
    /\ job' = [job EXCEPT !.state = "done", !.ended = clock,
                          !.exec = IF job.state = "running" THEN @ ELSE clock]
    /\ UNCHANGED <<clock, catalog, lane, quote, authority, attempt, usage, pc, loc, receipt,
                   disowned>>

\* external: the host names a time of completion, which the provider takes as
\* it is: the end of the job, or when the host came to see it.
HostLearnsEnd ==
    /\ job.state = "done" /\ attempt # {}
    /\ Attempt.outcome = "known" /\ Attempt.completed = Never
    /\ \E seen \in job.ended..clock : attempt' = {[Attempt EXCEPT !.completed = seen]}
    /\ UNCHANGED <<clock, catalog, lane, quote, authority, job, usage, pc, loc, receipt, disowned>>

WorkerOn ==
    \/ job.state \in {"starting", "running"}
    \/ job.state = "done" /\ clock < job.ended + Request.spec.idle

\* external: Runpod enforces the policy sent with the job: its ttl, and the
\* timeout of its execution.  Nothing bounds how long it queues but the ttl.
InPolicy ==
    /\ job.state \in {"queued", "starting", "running"} => clock < job.at + Request.job_ttl
    /\ job.state = "running" => clock < job.exec + Request.job_timeout

\* /run is accepted or lost within the tick it was sent in: its timeouts are
\* short against the accepted maxima.
Tick ==
    /\ quote # {}
    /\ clock < MaxClock
    /\ ~At("run") /\ InPolicy
    /\ clock' = clock + 1
    /\ usage' = IF WorkerOn THEN usage \cup {clock} ELSE usage
    /\ UNCHANGED <<catalog, lane, quote, authority, attempt, job, pc, loc, receipt, disowned>>

CatalogChanges ==
    /\ attempt = {}
    /\ catalog' \in Catalogs \ {catalog}
    /\ UNCHANGED <<clock, lane, quote, authority, attempt, job, usage, pc, loc, receipt, disowned>>

-----------------------------------------------------------------------------

Next ==
    \/ QuoteCapacity \/ ValidateQuote \/ ValidateObserve
    \/ Submit \/ Lapse \/ RunAnswers \/ Crash
    \/ FinalBilling \/ FinalStatus \/ FinalAmbiguous \/ ReadPage
    \/ JobStarts \/ JobExecutes \/ JobEnds \/ HostLearnsEnd
    \/ Tick \/ CatalogChanges

\* The host keeps asking for the receipt, Runpod runs the job and reports
\* complete pages again and again, and time passes.
Fairness ==
    /\ WF_vars(RunAnswers) /\ WF_vars(FinalStatus)
    /\ SF_vars(FinalBilling /\ loc'.closed) /\ SF_vars(FinalAmbiguous)
    /\ SF_vars(ReadPage /\ receipt' # {})
    /\ WF_vars(JobStarts) /\ WF_vars(JobExecutes) /\ WF_vars(JobEnds)
    /\ WF_vars(HostLearnsEnd)
    /\ WF_vars(Tick)

Spec == Init /\ [][Next]_vars /\ Fairness

-----------------------------------------------------------------------------
\* The job is, or was, on its way after the worst case of its attempt: the
\* policy sent with it may allow more than the accepted maxima.
Outruns ==
    job.state # "none" /\ (IF job.state = "done" THEN job.ended ELSE clock) > job.at + Worst

\* A receipt is the whole bill of its hours and stays it, and no tick the
\* endpoint was or will be billed for lies outside of them, whatever Runpod's
\* pages left out and however late the job started, ended, or turned out to
\* exist.  The window of an ambiguous attempt holds no more than its worst case.
SettledExactly ==
    \A r \in receipt :
        /\ r.actual = Cardinality({t \in usage : r.from <= t /\ t < r.until})
        /\ Attempt.outcome = "known" \/ ~Outruns => \A t \in usage : r.from <= t /\ t < r.until

\* A job that Runpod took is owed by the host's record of its attempt, whatever
\* became of the call that submitted it and of the host.  The exception is the
\* accepted call whose 2xx answer had no usable body, which the client raises as
\* a definite refusal.
JobIsOwed == job.state # "none" => attempt # {} \/ disowned

\* What final_billing refuses whenever it is asked: the host's interval, or the
\* job's own times, exceed the accepted maxima.
Overdue ==
    /\ attempt # {} /\ Attempt.outcome = "known" /\ Attempt.completed # Never
    /\ \/ Attempt.completed - Attempt.submitted > Worst
       \/ Delay > Late \/ Execution > Request.max_exec

\* Every attempt is settled in the end: known or ambiguous, the job accepted,
\* lost or never sent, on time or past its maxima.  Nothing but an overrun, or
\* its end named too late, makes final_billing refuse the receipt for ever.
EventuallySettled == attempt # {} ~> (receipt # {} \/ attempt = {} \/ Overdue)

(* The same without the exceptions.  These do not hold. *)

AlwaysOwed == job.state # "none" => attempt # {}
WholeBillSettled == \A r \in receipt : r.actual = Cardinality(usage)
AlwaysSettled == attempt # {} ~> (receipt # {} \/ attempt = {})
=============================================================================
