------------------------- MODULE ServerlessJobProofs -------------------------
(***************************************************************************)
(* Proofs about ServerlessJob, for every request, every set of catalogs,   *)
(* every length of the hour and of the clock, and every set of faults.     *)
(*                                                                         *)
(* A receipt is exact for two reasons: the page it was made from is the    *)
(* complete account of its hours (ServerlessBillingProofs), and those      *)
(* hours hold every tick the worker was or will be billed for.  The        *)
(* invariant is about the second: where the job can be at what time.       *)
(***************************************************************************)
EXTENDS ServerlessJob, ServerlessBillingProofs

AtMostOne(S) == \A x, y \in S : x = y

Idle == Request.spec.idle

Typed ==
    /\ clock \in Time /\ catalog \in Catalogs /\ lane \in Lanes
    /\ AtMostOne(quote) /\ \A q \in quote : q.observed_at \in Time /\ q.expires_at \in Nat
    /\ AtMostOne(authority) /\ authority \subseteq [from : Time, until : Nat]
    /\ AtMostOne(attempt)
    /\ attempt \subseteq
          [submitted : Time, outcome : {"sent", "known", "ambiguous"}, completed : Time \cup {Never}]
    /\ job \in [state : {"none", "queued", "starting", "running", "done"},
                at : Time, exec : Time, ended : Time]
    /\ usage \subseteq Time
    /\ pc \in {"idle", "observe", "run", "status", "page"}
    /\ loc \in [now : Time, closed : BOOLEAN, from : Nat, until : Nat]
    /\ AtMostOne(receipt)
    /\ disowned \in BOOLEAN
    /\ pc = "observe" => quote # {}

\* When the job can be in which state, and which ticks were billed for it.
JobRuns ==
    /\ job.state = "none" => job = NoJob /\ usage = {}
    /\ job.state # "none" => job.at <= clock
    /\ job.state = "running" => job.at <= job.exec /\ job.exec <= clock
    /\ job.state = "done" => job.at <= job.ended /\ job.ended <= clock
    /\ \A t \in usage : job.at <= t /\ t < clock
    /\ job.state = "done" => \A t \in usage : t < job.ended + Idle

\* What the host's record says of the job.
Recorded ==
    /\ attempt = {} => (job.state = "none" \/ disowned) /\ receipt = {}
    /\ \A a \in attempt :
          /\ job.state # "none" => a.submitted = job.at
          /\ a.outcome = "known" => job.state # "none"
          /\ a.completed # Never =>
                /\ job.state = "done" /\ a.outcome = "known"
                /\ job.ended <= a.completed /\ a.completed <= clock
    /\ pc = "run" => /\ attempt = {Attempt} /\ Attempt.submitted = clock /\ Attempt.completed = Never
                     /\ job.state = "none"
    /\ pc \in {"run", "status", "page"} => receipt = {}

\* What a settlement call has established of its window.
Window ==
    /\ pc \in {"status", "page"} =>
          /\ attempt = {Attempt}
          /\ loc.from <= Attempt.submitted
          /\ \/ /\ Attempt.outcome = "known" /\ Attempt.completed # Never
                /\ Attempt.completed + Idle <= loc.until
             \/ /\ Attempt.outcome = "ambiguous" /\ pc = "page"
                /\ WorstCase(Attempt.submitted) <= loc.until
    /\ pc = "status" /\ loc.closed => loc.until <= clock
    /\ pc = "page" => loc.until <= clock

\* The job is known, or has not outrun the worst case its window is for.
Accountable == Attempt.outcome = "known" \/ ~Outruns

\* The worker is off for good.
Over == job.state = "none" \/ (job.state = "done" /\ job.ended + Idle <= clock)

\* What of the bill is in the hours of a receipt, and what can still come.
Billed(r) == {t \in usage : r.from <= t /\ t < r.until}
Exact ==
    \A r \in receipt :
        /\ r.from \in Nat /\ r.until \in Nat /\ r.until <= clock
        /\ r.actual = Cardinality(Billed(r))
        /\ Accountable => Over /\ \A t \in usage : r.from <= t /\ t < r.until

Inv == Typed /\ JobRuns /\ Recorded /\ Window /\ Exact

-----------------------------------------------------------------------------
(* Sets of at most one, numbers and states. *)

LEMMA TheOne ==
    /\ \A x : The({x}) = x
    /\ \A S, x : AtMostOne(S) /\ x \in S => S = {x} /\ The(S) = x
    /\ \A S : AtMostOne(S) /\ S # {} => S = {The(S)} /\ The(S) \in S
    /\ \A x : AtMostOne({x})
    /\ AtMostOne({})
<1>1. \A x : The({x}) = x BY DEF The
<1>2. \A S, x : AtMostOne(S) /\ x \in S => S = {x} BY DEF AtMostOne
<1>3. \A S : AtMostOne(S) /\ S # {} => S = {The(S)} /\ The(S) \in S BY <1>1, <1>2
<1> QED BY <1>1, <1>2, <1>3 DEF AtMostOne

LEMMA OneIsFew == ASSUME NEW S, AtMostOne(S) PROVE Cardinality(S) <= 1
<1>1. CASE S = {} BY <1>1, FS_EmptySet
<1>2. CASE S # {}
  <2>1. PICK x : S = {x} BY <1>2, TheOne
  <2>2. Cardinality({x}) = 1 BY FS_Singleton
  <2> QED BY <2>1, <2>2
<1> QED BY <1>1, <1>2

\* _validate_capacity_request and the specification bound these.
LEMMA Numbers ==
    /\ Idle \in Nat /\ Idle >= 1 /\ Idle <= HourTicks /\ HourTicks \in Nat /\ HourTicks # 0
    /\ Late \in Nat /\ Worst \in Nat /\ Worst = Late + Request.max_exec
    /\ Request.max_queue \in Nat /\ Request.max_start \in Nat
    /\ Request.max_exec \in Nat /\ Request.max_exec > 0
    /\ Request.job_timeout \in Nat /\ Request.job_timeout >= Request.max_exec
    /\ Request.job_ttl \in Nat /\ Request.job_ttl >= Worst
    /\ Request.ttl \in Nat
    /\ MaxClock \in Nat
<1>1. Idle \in 1..HourTicks BY RequestAssumption DEF ValidSpec, Idle
<1>2. /\ Request.max_exec > 0 /\ Request.max_exec <= Request.job_timeout
      /\ Request.max_queue + Request.max_start + Request.max_exec <= Request.job_ttl
  BY RequestAssumption DEF ValidRequest
<1> QED BY <1>1, <1>2, HourAssumption, NumberAssumption DEF Late, Worst

LEMMA AttemptFacts ==
    ASSUME Typed, attempt # {}
    PROVE  /\ attempt = {Attempt} /\ Attempt \in attempt
           /\ Attempt \in [submitted : Time, outcome : {"sent", "known", "ambiguous"},
                           completed : Time \cup {Never}]
<1>1. attempt = {Attempt} /\ Attempt \in attempt BY TheOne DEF Typed, Attempt
<1> QED BY <1>1 DEF Typed

-----------------------------------------------------------------------------
(* Steps that leave the job, the record, the bill and the clock alone. *)

Quiet == UNCHANGED <<clock, job, usage, attempt, receipt, disowned>>

LEMMA QuietStep ==
    ASSUME Inv, Quiet, Typed', pc' \in {"idle", "observe"} \/ UNCHANGED <<pc, loc>>
    PROVE  Inv'
<1>1. JobRuns' BY DEF Inv, Quiet, JobRuns, NoJob
<1>2. Recorded' BY DEF Inv, Quiet, Recorded, Attempt
<1>3. Window' BY DEF Inv, Quiet, Window, Attempt
<1>4. Exact' BY DEF Inv, Quiet, Exact, Accountable, Outruns, Over, Billed, Attempt
<1> QED BY <1>1, <1>2, <1>3, <1>4 DEF Inv

\* A quote is dated by the clock.
LEMMA QuoteDated ==
    ASSUME NEW offers, NEW now, Placeable(offers, Request.spec)
    PROVE  /\ PlannedQuote(offers, Request, now).observed_at = now
           /\ PlannedQuote(offers, Request, now).expires_at = now + Request.ttl
<1> DEFINE Quoted(o, price) ==
          [request      |-> Request,
           gpu          |-> o.id,
           pool         |-> o.pool,
           vram         |-> o.memory,
           center       |-> SelectDataCenter(FirstOfPool(offers, o.pool), Request.spec),
           availability |-> o.availability,
           rate         |-> price,
           estimate     |-> EstimatedCost(Request, price),
           ceiling      |-> CostCeiling(Request, price),
           observed_at  |-> now,
           expires_at   |-> now + Request.ttl]
           Q == {Quoted(o, o.price["SERVERLESS"]) : o \in Best(offers, Requirements(Request.spec))}
<1>1. Q # {} BY DEF Placeable
<1>2. PlannedQuote(offers, Request, now) = CHOOSE q \in Q : TRUE BY DEF PlannedQuote
<1>3. (CHOOSE q \in Q : TRUE) \in Q BY <1>1
<1>4. \A q \in Q : q.observed_at = now /\ q.expires_at = now + Request.ttl OBVIOUS
<1> HIDE DEF Q
<1> QED BY <1>2, <1>3, <1>4

LEMMA QuoteStep == ASSUME Inv, QuoteCapacity PROVE Inv'
<1> DEFINE q == PlannedQuote(catalog, Request, clock)
<1>1. q.observed_at = clock /\ q.expires_at = clock + Request.ttl
  BY QuoteDated DEF QuoteCapacity
<1>2. quote' = {q} BY DEF QuoteCapacity
<1> HIDE DEF q
<1>3. clock \in Time /\ clock \in Nat /\ clock + Request.ttl \in Nat BY Numbers DEF Inv, Typed, Time
<1>4. AtMostOne(quote') /\ \A x \in quote' : x.observed_at \in Time /\ x.expires_at \in Nat
  BY <1>1, <1>2, <1>3, TheOne
<1>5. Typed' BY <1>2, <1>4 DEF Inv, Typed, QuoteCapacity
<1> QED BY <1>5, QuietStep DEF Quiet, QuoteCapacity

LEMMA ValidateStep == ASSUME Inv, ValidateQuote \/ ValidateObserve PROVE Inv'
<1>1. CASE ValidateQuote
  <2>1. loc' \in [now : Time, closed : BOOLEAN, from : Nat, until : Nat] /\ pc' = "observe"
    BY <1>1 DEF ValidateQuote, Goto, NoLocals, Inv, Typed
  <2>2. Typed' BY <1>1, <2>1 DEF Inv, Typed, ValidateQuote
  <2> QED BY <1>1, <2>1, <2>2, QuietStep DEF Quiet, ValidateQuote
<1>2. CASE ValidateObserve
  <2>1. loc' \in [now : Time, closed : BOOLEAN, from : Nat, until : Nat] /\ pc' = "idle"
    BY <1>2, Numbers DEF ValidateObserve, End, Goto, NoLocals, Time
  <2>2. AtMostOne(authority') /\ authority' \subseteq [from : Time, until : Nat]
    <3>1. Quote \in quote BY <1>2, TheOne DEF ValidateObserve, At, Inv, Typed, Quote
    <3>2. Quote.observed_at \in Time /\ Quote.expires_at \in Nat /\ loc.now \in Time
      BY <3>1 DEF Inv, Typed
    <3> DEFINE grant == [from |-> IF lane = "profile" THEN Quote.observed_at ELSE loc.now,
                         until |-> Quote.expires_at]
    <3>3. authority' = {grant} \/ authority' = {} BY <1>2 DEF ValidateObserve
    <3>4. grant \in [from : Time, until : Nat] BY <3>2
    <3> HIDE DEF grant
    <3> QED BY <3>3, <3>4, TheOne
  <2>3. Typed' BY <1>2, <2>1, <2>2 DEF Inv, Typed, ValidateObserve
  <2> QED BY <1>2, <2>1, <2>3, QuietStep DEF Quiet, ValidateObserve
<1> QED BY <1>1, <1>2

LEMMA LapseStep == ASSUME Inv, Lapse \/ CatalogChanges PROVE Inv'
<1>1. Typed' BY TheOne DEF Inv, Typed, Lapse, CatalogChanges
<1> QED BY <1>1, QuietStep DEF Quiet, Lapse, CatalogChanges

-----------------------------------------------------------------------------
(* The submission. *)

LEMMA Idles ==
    NoLocals \in [now : Time, closed : BOOLEAN, from : Nat, until : Nat]
BY Numbers DEF NoLocals, Time

LEMMA SubmitStep == ASSUME Inv, Submit PROVE Inv'
<1> DEFINE a == [submitted |-> clock, outcome |-> "sent", completed |-> Never]
<1>1. attempt' = {a} /\ Attempt' = a BY TheOne DEF Submit, Attempt
<1>2. a \in [submitted : Time, outcome : {"sent", "known", "ambiguous"},
             completed : Time \cup {Never}]
  BY DEF Inv, Typed
<1>3. a.submitted = clock /\ a.outcome = "sent" /\ a.completed = Never OBVIOUS
<1> HIDE DEF a
<1>4. pc' = "run" /\ loc' = NoLocals BY DEF Submit, Goto
<1>5. job.state = "none" /\ receipt = {} BY DEF Inv, Recorded, Submit
<1>6. Typed'
  <2>1. AtMostOne(attempt') BY <1>1, TheOne
  <2>2. attempt' \subseteq [submitted : Time, outcome : {"sent", "known", "ambiguous"},
                            completed : Time \cup {Never}]
    BY <1>1, <1>2
  <2> QED BY <1>4, <2>1, <2>2, Idles DEF Inv, Typed, Submit, Time, Never
<1>7. JobRuns' BY DEF Inv, JobRuns, Submit, NoJob
<1>8. Recorded' BY <1>1, <1>3, <1>4, <1>5 DEF Recorded, Submit
<1>9. Window' BY <1>4 DEF Window
<1>10. Exact' BY <1>5 DEF Exact, Submit
<1> QED BY <1>6, <1>7, <1>8, <1>9, <1>10 DEF Inv

\* Runpod accepted the job, or not, and the host records a verdict that does
\* not deny an accepted job.
LEMMA Recording ==
    ASSUME Inv, At("run"), NEW verdict \in {"known", "ambiguous"},
           attempt' = {[Attempt EXCEPT !.outcome = verdict]},
           Accepted \/ (job' = job /\ verdict = "ambiguous"), End,
           UNCHANGED <<clock, catalog, lane, quote, usage, receipt>>, disowned' \in BOOLEAN,
           AtMostOne(authority'), authority' \subseteq [from : Time, until : Nat]
    PROVE  Inv'
<1> DEFINE a == [Attempt EXCEPT !.outcome = verdict]
<1>1. /\ attempt # {} /\ Attempt.submitted = clock /\ Attempt.completed = Never
      /\ job.state = "none" /\ job = NoJob /\ usage = {} /\ receipt = {}
  BY DEF Inv, Recorded, JobRuns, At
<1>2. Attempt \in [submitted : Time, outcome : {"sent", "known", "ambiguous"},
                   completed : Time \cup {Never}]
  BY <1>1, AttemptFacts DEF Inv
<1>3. /\ a \in [submitted : Time, outcome : {"sent", "known", "ambiguous"},
                completed : Time \cup {Never}]
      /\ a.submitted = clock /\ a.outcome = verdict /\ a.completed = Never
  BY <1>1, <1>2
<1> HIDE DEF a
<1>4. attempt' = {a} BY DEF a
<1>5. pc' = "idle" /\ loc' = NoLocals BY DEF End, Goto
<1>6. clock \in Time /\ clock \in Nat /\ 0 \in Time BY Numbers DEF Inv, Typed, Time
<1>7. \/ job' = NoJob /\ verdict = "ambiguous"
      \/ job' = [state |-> "queued", at |-> clock, exec |-> 0, ended |-> 0]
  BY <1>1 DEF Accepted, NoJob
<1>8. job' \in [state : {"none", "queued", "starting", "running", "done"},
                at : Time, exec : Time, ended : Time]
  BY <1>6, <1>7 DEF NoJob
<1>9. Typed'
  <2>1. AtMostOne(attempt') BY <1>4, TheOne
  <2>2. attempt' \subseteq [submitted : Time, outcome : {"sent", "known", "ambiguous"},
                            completed : Time \cup {Never}]
    BY <1>3, <1>4
  <2> QED BY <1>5, <1>8, <2>1, <2>2, Idles DEF Inv, Typed, Time, Never
<1>10. JobRuns' BY <1>1, <1>6, <1>7, Numbers DEF JobRuns, NoJob
<1>11. Recorded' BY <1>1, <1>3, <1>4, <1>5, <1>7 DEF Recorded, NoJob
<1>12. Window' BY <1>5 DEF Window
<1>13. Exact' BY <1>1 DEF Exact
<1> QED BY <1>9, <1>10, <1>11, <1>12, <1>13 DEF Inv

\* The host frees its reservation; a job that Runpod took is disowned.
LEMMA Freeing ==
    ASSUME Inv, At("run"), attempt' = {}, disowned' \in BOOLEAN,
           (Accepted /\ disowned') \/ job' = job, End,
           UNCHANGED <<clock, catalog, lane, quote, usage, receipt>>,
           AtMostOne(authority'), authority' \subseteq [from : Time, until : Nat]
    PROVE  Inv'
<1>1. job.state = "none" /\ job = NoJob /\ usage = {} /\ receipt = {}
  BY DEF Inv, Recorded, JobRuns, At
<1>2. pc' = "idle" /\ loc' = NoLocals BY DEF End, Goto
<1>3. clock \in Time /\ clock \in Nat /\ 0 \in Time BY Numbers DEF Inv, Typed, Time
<1>4. \/ job' = NoJob
      \/ disowned' /\ job' = [state |-> "queued", at |-> clock, exec |-> 0, ended |-> 0]
  BY <1>1 DEF Accepted, NoJob
<1>5. job' \in [state : {"none", "queued", "starting", "running", "done"},
                at : Time, exec : Time, ended : Time]
  BY <1>3, <1>4 DEF NoJob
<1>6. Typed' BY <1>2, <1>5, Idles, TheOne DEF Inv, Typed, Time, Never
<1>7. JobRuns' BY <1>1, <1>3, <1>4 DEF JobRuns, NoJob
<1>8. Recorded' BY <1>1, <1>2, <1>4 DEF Recorded, NoJob
<1>9. Window' BY <1>2 DEF Window
<1>10. Exact' BY <1>1 DEF Exact
<1> QED BY <1>6, <1>7, <1>8, <1>9, <1>10 DEF Inv

\* _request: an applied /run has another verdict than these two only if its
\* body was unusable, and a success follows no other.
LEMMA RunVerdicts ==
    ASSUME NEW taken \in BOOLEAN, NEW answer \in Answers, TakesJob(taken, answer)
    PROVE  /\ RunJob(answer) = "ok" => taken
           /\ taken /\ RunJob(answer) \notin {"ok", "ambiguous"} => answer = "misshapen"
           /\ IF taken THEN Accepted ELSE job' = job
BY DEF TakesJob, Answers, MayApply, MayNotApply, RunJob, Mutation

LEMMA RunStep == ASSUME Inv, RunAnswers \/ Crash PROVE Inv'
<1>1. CASE Crash
  <2>1. Accepted \/ job' = job BY <1>1 DEF Crash
  <2>2. AtMostOne(authority') /\ authority' \subseteq [from : Time, until : Nat]
    BY <1>1 DEF Crash, Inv, Typed
  <2>3. disowned' \in BOOLEAN BY <1>1 DEF Crash, Inv, Typed
  <2> QED BY <1>1, <2>1, <2>2, <2>3, Recording DEF Crash
<1>2. CASE RunAnswers
  <2>1. PICK taken \in BOOLEAN, answer \in Answers :
          /\ TakesJob(taken, answer)
          /\ attempt' =
                CASE RunJob(answer) = "ok"        -> {[Attempt EXCEPT !.outcome = "known"]}
                  [] RunJob(answer) = "ambiguous" -> {[Attempt EXCEPT !.outcome = "ambiguous"]}
                  [] OTHER                        -> {}
          /\ authority' = IF RunJob(answer) \in {"ok", "ambiguous"} THEN authority ELSE {}
          /\ disowned' = (taken /\ answer = "misshapen")
    BY <1>2 DEF RunAnswers
  <2>2. /\ At("run") /\ End
        /\ UNCHANGED <<clock, catalog, lane, quote, usage, receipt>>
    BY <1>2 DEF RunAnswers
  <2>3. AtMostOne(authority') /\ authority' \subseteq [from : Time, until : Nat]
    BY <2>1, TheOne DEF Inv, Typed
  <2>4. disowned' \in BOOLEAN BY <2>1
  <2>5. /\ RunJob(answer) = "ok" => taken
        /\ taken /\ RunJob(answer) \notin {"ok", "ambiguous"} => answer = "misshapen"
        /\ IF taken THEN Accepted ELSE job' = job
    BY <2>1, RunVerdicts
  <2>6. CASE RunJob(answer) = "ok"
    <3>1. attempt' = {[Attempt EXCEPT !.outcome = "known"]} BY <2>1, <2>6
    <3> QED BY <2>2, <2>3, <2>4, <2>5, <2>6, <3>1, Recording
  <2>7. CASE RunJob(answer) = "ambiguous"
    <3>1. attempt' = {[Attempt EXCEPT !.outcome = "ambiguous"]} BY <2>1, <2>7
    <3> QED BY <2>2, <2>3, <2>4, <2>5, <3>1, Recording
  <2>8. CASE RunJob(answer) \notin {"ok", "ambiguous"} BY <2>1, <2>2, <2>3, <2>4, <2>5, <2>8, Freeing
  <2> QED BY <2>6, <2>7, <2>8
<1> QED BY <1>1, <1>2

-----------------------------------------------------------------------------
(* The job. *)

\* The job moves on; the host keeps its record and its window.
LEMMA JobMoves ==
    ASSUME Inv, job.state \in {"queued", "starting", "running"},
           UNCHANGED <<clock, catalog, lane, quote, authority, attempt, usage, pc, loc, receipt,
                       disowned>>,
           job' \in [state : {"starting", "running", "done"}, at : Time, exec : Time, ended : Time],
           job'.at = job.at, job'.state = "done" => job'.ended = clock, JobRuns'
    PROVE  Inv'
<1>1. Typed' BY DEF Inv, Typed
<1>2. Recorded' BY DEF Inv, Recorded, Typed, Attempt
<1>3. Window' BY DEF Inv, Window, Attempt
<1>4. Exact'
  <2>1. SUFFICES ASSUME NEW r \in receipt PROVE ~Accountable' /\ Billed(r)' = Billed(r)
    BY DEF Inv, Exact
  <2>2. ~Over BY DEF Over
  <2>3. Attempt.outcome # "known" /\ Outruns BY <2>1, <2>2 DEF Inv, Exact, Accountable
  <2>4. Outruns' BY <2>3 DEF Outruns
  <2> QED BY <2>3, <2>4 DEF Accountable, Attempt, Billed
<1> QED BY <1>1, <1>2, <1>3, <1>4 DEF Inv

LEMMA JobStep == ASSUME Inv, JobStarts \/ JobExecutes \/ JobEnds PROVE Inv'
<1>0. /\ clock \in Nat /\ clock \in Time
      /\ job \in [state : {"none", "queued", "starting", "running", "done"},
                  at : Time, exec : Time, ended : Time]
      /\ job.at \in Nat /\ job.exec \in Nat /\ job.ended \in Nat
      /\ \A t \in usage : t \in Nat
  BY Numbers DEF Inv, Typed, Time
<1>1. CASE JobStarts
  <2>1. /\ job' \in [state : {"starting", "running", "done"}, at : Time, exec : Time, ended : Time]
        /\ job'.at = job.at /\ job.state \in {"queued", "starting", "running"}
        /\ job'.state = "done" => job'.ended = clock
    BY <1>0, <1>1 DEF JobStarts
  <2>2. JobRuns' BY <1>0, <1>1, Numbers DEF JobStarts, Inv, JobRuns
  <2> QED BY <1>1, <2>1, <2>2, JobMoves DEF JobStarts
<1>2. CASE JobExecutes
  <2>1. /\ job' \in [state : {"starting", "running", "done"}, at : Time, exec : Time, ended : Time]
        /\ job'.at = job.at /\ job.state \in {"queued", "starting", "running"}
        /\ job'.state = "done" => job'.ended = clock
    BY <1>0, <1>2 DEF JobExecutes
  <2>2. JobRuns' BY <1>0, <1>2, Numbers DEF JobExecutes, Inv, JobRuns
  <2> QED BY <1>2, <2>1, <2>2, JobMoves DEF JobExecutes
<1>3. CASE JobEnds
  <2>1. /\ job' \in [state : {"starting", "running", "done"}, at : Time, exec : Time, ended : Time]
        /\ job'.at = job.at /\ job.state \in {"queued", "starting", "running"}
        /\ job'.state = "done" => job'.ended = clock
    BY <1>0, <1>3 DEF JobEnds
  <2>2. JobRuns' BY <1>0, <1>3, Numbers DEF JobEnds, Inv, JobRuns
  <2> QED BY <1>3, <2>1, <2>2, JobMoves DEF JobEnds
<1> QED BY <1>1, <1>2, <1>3

LEMMA LearnsStep == ASSUME Inv, HostLearnsEnd PROVE Inv'
<1>0. PICK seen \in job.ended..clock : attempt' = {[Attempt EXCEPT !.completed = seen]}
  BY DEF HostLearnsEnd
<1> DEFINE a == [Attempt EXCEPT !.completed = seen]
<1>1. /\ attempt = {Attempt} /\ Attempt \in attempt
      /\ Attempt \in [submitted : Time, outcome : {"sent", "known", "ambiguous"},
                      completed : Time \cup {Never}]
      /\ Attempt.outcome = "known" /\ Attempt.completed = Never
  BY AttemptFacts DEF Inv, HostLearnsEnd
<1>2. attempt' = {a} BY <1>0
<1>3. job.state = "done" /\ seen \in Time /\ job.ended <= seen /\ seen <= clock
  <2>1. job.ended \in Time /\ clock \in Time BY DEF Inv, Typed
  <2> QED BY <2>1, Numbers DEF HostLearnsEnd, Time
<1>4. /\ a \in [submitted : Time, outcome : {"sent", "known", "ambiguous"},
                completed : Time \cup {Never}]
      /\ a.submitted = Attempt.submitted /\ a.outcome = "known" /\ a.completed = seen
  BY <1>1, <1>3
<1> HIDE DEF a
<1>5. Attempt' = a BY <1>2, TheOne DEF Attempt
<1>6. Typed'
  <2>1. AtMostOne(attempt') BY <1>2, TheOne
  <2>2. attempt' \subseteq [submitted : Time, outcome : {"sent", "known", "ambiguous"},
                            completed : Time \cup {Never}]
    BY <1>2, <1>4
  <2> QED BY <2>1, <2>2 DEF Inv, Typed, HostLearnsEnd, Time, Never
<1>7. JobRuns' BY DEF Inv, JobRuns, HostLearnsEnd, NoJob
<1>8. pc \notin {"run", "status", "page"}
  <2>1. pc # "run" BY <1>3 DEF Inv, Recorded
  <2>2. pc \notin {"status", "page"} BY <1>1 DEF Inv, Window
  <2> QED BY <2>1, <2>2
<1>9. Recorded'
  <2>1. Attempt.submitted = job.at BY <1>1, <1>3 DEF Inv, Recorded
  <2> QED BY <1>2, <1>3, <1>4, <1>8, <2>1 DEF Recorded, HostLearnsEnd
<1>10. Window' BY <1>8 DEF Window, HostLearnsEnd
<1>11. Exact'
  <2>1. Accountable' => Accountable BY <1>1 DEF Accountable
  <2> QED BY <2>1 DEF Inv, Exact, Over, Billed, HostLearnsEnd
<1> QED BY <1>6, <1>7, <1>9, <1>10, <1>11 DEF Inv

LEMMA TickStep == ASSUME Inv, Tick PROVE Inv'
<1>0. /\ clock \in Nat /\ clock \in Time /\ clock' = clock + 1 /\ clock' \in Time
      /\ job \in [state : {"none", "queued", "starting", "running", "done"},
                  at : Time, exec : Time, ended : Time]
      /\ job.at \in Nat /\ job.exec \in Nat /\ job.ended \in Nat
      /\ \A t \in usage : t \in Nat
  BY Numbers DEF Inv, Typed, Time, Tick
<1>1. usage' = usage \/ (WorkerOn /\ usage' = usage \cup {clock}) BY DEF Tick
<1>2. Typed' BY <1>0, <1>1 DEF Inv, Typed, Tick, Time, Never
<1>3. JobRuns'
  <2>1. \A t \in usage' : t \in Nat /\ job.at <= t /\ t < clock + 1
    <3>1. WorkerOn => job.state # "none" BY DEF WorkerOn
    <3>2. WorkerOn => job.at <= clock BY <3>1 DEF Inv, JobRuns
    <3>3. \A t \in usage : job.at <= t /\ t < clock BY DEF Inv, JobRuns
    <3> QED BY <1>0, <1>1, <3>2, <3>3
  <2>2. job.state = "done" => \A t \in usage' : t < job.ended + Idle
    <3>1. job.state = "done" => \A t \in usage : t < job.ended + Idle BY DEF Inv, JobRuns
    <3>2. job.state = "done" /\ WorkerOn => clock < job.ended + Idle BY DEF WorkerOn, Idle
    <3> QED BY <1>1, <3>1, <3>2
  <2>3. job.state = "none" => job = NoJob /\ usage' = {} BY <1>1 DEF Inv, JobRuns, WorkerOn
  <2> QED BY <1>0, <2>1, <2>2, <2>3 DEF Inv, JobRuns, Tick
<1>4. Recorded'
  <2>1. \A a \in attempt : a.completed # Never => a.completed <= clock'
    <3>1. \A a \in attempt : a.completed # Never => a.completed \in Nat /\ a.completed <= clock
      BY Numbers DEF Inv, Typed, Recorded, Time
    <3> QED BY <1>0, <3>1
  <2> QED BY <2>1 DEF Inv, Recorded, Tick, At, Attempt
<1>5. Window'
  <2>1. \A n \in Nat : n <= clock => n <= clock' BY <1>0
  <2>2. loc.until \in Nat BY DEF Inv, Typed
  <2> QED BY <2>1, <2>2 DEF Inv, Window, Tick, Attempt
<1>6. Exact'
  <2>0. receipt' = receipt /\ job' = job /\ Attempt' = Attempt BY DEF Tick, Attempt
  <2>1. SUFFICES ASSUME NEW r \in receipt
                 PROVE  /\ r.until <= clock' /\ Billed(r)' = Billed(r)
                        /\ Accountable' => Accountable /\ Over' /\ usage' = usage
    BY <2>0 DEF Inv, Exact
  <2>2. r.until \in Nat /\ r.until <= clock BY DEF Inv, Exact
  <2>3. Billed(r)' = Billed(r) BY <1>0, <1>1, <2>2 DEF Billed
  <2>4. ASSUME Accountable' PROVE Accountable /\ Over' /\ usage' = usage
    <3>1. Outruns => Outruns' BY <1>0, <2>0, Numbers DEF Outruns
    <3>2. Accountable BY <2>0, <2>4, <3>1 DEF Accountable
    <3>3. Over BY <3>2 DEF Inv, Exact
    <3>4. ~WorkerOn BY <1>0, <3>3, Numbers DEF Over, WorkerOn, Idle
    <3> QED BY <1>0, <1>1, <2>0, <3>2, <3>3, <3>4, Numbers DEF Over
  <2> QED BY <1>0, <2>2, <2>3, <2>4
<1> QED BY <1>2, <1>3, <1>4, <1>5, <1>6 DEF Inv

-----------------------------------------------------------------------------
(* Settlement. *)

\* _ordered_hours_cover: whole hours that cover an interval contain it.
LEMMA CoversInterval ==
    ASSUME NEW first \in Nat, NEW last \in Nat, NEW a \in Nat, NEW b \in Nat,
           AllocationCovers(first, last, a, b)
    PROVE  first <= a /\ b <= last + HourTicks
<1>1. HourFloor(a) \in Nat /\ HourFloor(a) <= a /\ HourCeiling(b) \in Nat /\ b <= HourCeiling(b)
  BY Hours
<1>2. first <= HourFloor(a) /\ last >= HourCeiling(b) - HourTicks
  BY DEF AllocationCovers, FirstHour, LastHour
<1> QED BY <1>1, <1>2, Numbers

LEMMA HoursAreNaturals ==
    ASSUME NEW from \in Nat, NEW until \in Nat
    PROVE  HoursIn(from, until) \subseteq Nat /\ IsFiniteSet(HoursIn(from, until))
<1>1. HoursIn(from, until) \in SUBSET (from..until) BY DEF HoursIn
<1>2. IsFiniteSet(from..until) BY FS_Interval
<1>3. (from..until) \subseteq Nat OBVIOUS
<1> QED BY <1>1, <1>2, <1>3, FS_Subset

LEMMA WindowGiven ==
    ASSUME NEW from \in Nat, NEW until \in Nat, NEW closed \in BOOLEAN
    PROVE  \A l \in {[NoLocals EXCEPT !.closed = closed, !.from = from, !.until = until]} :
              /\ l.from = from /\ l.until = until /\ l.closed = closed
              /\ l \in [now : Time, closed : BOOLEAN, from : Nat, until : Nat]
<1> DEFINE l == [NoLocals EXCEPT !.closed = closed, !.from = from, !.until = until]
<1>1. l \in [now : Time, closed : BOOLEAN, from : Nat, until : Nat] BY Idles
<1>2. l.from = from /\ l.until = until BY Idles
<1>3. l.closed = closed BY Idles
<1> QED BY <1>1, <1>2, <1>3

\* A settlement call begins or goes on with the window it was given.
LEMMA Settling ==
    ASSUME Inv, Quiet, UNCHANGED <<catalog, lane, quote, authority>>, receipt = {},
           pc' \in {"status", "page"},
           loc' \in [now : Time, closed : BOOLEAN, from : Nat, until : Nat], Window'
    PROVE  Inv'
<1>1. Typed' BY DEF Inv, Typed, Quiet, Time, Never
<1>2. JobRuns' BY DEF Inv, Quiet, JobRuns, NoJob
<1>3. Recorded' BY DEF Inv, Quiet, Recorded, Attempt
<1>4. Exact' BY DEF Quiet, Exact
<1> QED BY <1>1, <1>2, <1>3, <1>4 DEF Inv

LEMMA FinalBillingStep == ASSUME Inv, FinalBilling PROVE Inv'
<1>1. PICK first \in HoursIn(0, MaxClock), last \in HoursIn(0, MaxClock) :
         /\ ValidAttempt(first, last)
         /\ pc' = "status"
         /\ loc' = [NoLocals EXCEPT !.closed = clock >= last + HourTicks,
                                    !.from = first, !.until = last + HourTicks]
  BY DEF FinalBilling, Goto
<1>2. first \in Nat /\ last \in Nat BY Numbers, HoursAreNaturals
<1>3. /\ attempt = {Attempt} /\ Attempt.outcome = "known" /\ Attempt.completed # Never
      /\ Attempt.submitted \in Time /\ Attempt.completed \in Time
  BY AttemptFacts DEF FinalBilling, Inv
<1>4. Attempt.submitted \in Nat /\ Attempt.completed + Idle \in Nat BY <1>3, Numbers DEF Time
<1>5. AllocationCovers(first, last, Attempt.submitted, Attempt.completed + Idle)
  BY <1>1 DEF ValidAttempt, Covers, Idle
<1>6. first <= Attempt.submitted /\ Attempt.completed + Idle <= last + HourTicks
  BY <1>2, <1>4, <1>5, CoversInterval
<1>7. /\ loc'.from = first /\ loc'.until = last + HourTicks
      /\ loc'.closed = (clock >= last + HourTicks)
      /\ loc' \in [now : Time, closed : BOOLEAN, from : Nat, until : Nat]
  <2>1. last + HourTicks \in Nat BY <1>2, Numbers
  <2>2. (clock >= last + HourTicks) \in BOOLEAN OBVIOUS
  <2> QED BY <1>1, <1>2, <2>1, <2>2, WindowGiven
<1>8. clock \in Nat /\ last + HourTicks \in Nat BY <1>2, Numbers DEF Inv, Typed, Time
<1>9. Window' BY <1>1, <1>3, <1>6, <1>7, <1>8 DEF Window, FinalBilling, Attempt
<1> QED BY <1>1, <1>7, <1>9, Settling DEF FinalBilling, Quiet

LEMMA FinalStatusStep == ASSUME Inv, FinalStatus PROVE Inv'
<1>1. CASE loc.closed /\ pc' = "page" /\ loc' = loc
  <2>1. receipt = {} BY DEF FinalStatus, At, Inv, Recorded
  <2>2. loc' \in [now : Time, closed : BOOLEAN, from : Nat, until : Nat] BY <1>1 DEF Inv, Typed
  <2>3. Window' BY <1>1 DEF FinalStatus, At, Inv, Window, Attempt
  <2> QED BY <1>1, <2>1, <2>2, <2>3, Settling DEF FinalStatus, Quiet
<1>2. CASE End
  <2>1. pc' = "idle" /\ loc' = NoLocals BY <1>2 DEF End, Goto
  <2>2. Typed' BY <2>1, Idles DEF FinalStatus, Inv, Typed, Time, Never
  <2> QED BY <2>1, <2>2, QuietStep DEF FinalStatus, Quiet
<1> QED BY <1>1, <1>2 DEF FinalStatus, Goto

LEMMA FinalAmbiguousStep == ASSUME Inv, FinalAmbiguous PROVE Inv'
<1>1. PICK first \in HoursIn(0, MaxClock), last \in HoursIn(0, MaxClock) :
         /\ ValidWindow(first, last) /\ clock >= last + HourTicks
         /\ pc' = "page"
         /\ loc' = [NoLocals EXCEPT !.from = first, !.until = last + HourTicks]
  BY DEF FinalAmbiguous, Goto
<1>2. first \in Nat /\ last \in Nat BY Numbers, HoursAreNaturals
<1>3. /\ attempt = {Attempt} /\ Attempt.outcome = "ambiguous" /\ Attempt.submitted \in Time
  BY AttemptFacts DEF FinalAmbiguous, Inv
<1>4. Attempt.submitted \in Nat /\ WorstCase(Attempt.submitted) \in Nat
  BY <1>3, Numbers DEF Time, WorstCase, Idle
<1>5. AllocationCovers(first, last, Attempt.submitted, WorstCase(Attempt.submitted))
  BY <1>1 DEF ValidWindow
<1>6. first <= Attempt.submitted /\ WorstCase(Attempt.submitted) <= last + HourTicks
  BY <1>2, <1>4, <1>5, CoversInterval
<1>7. /\ loc'.from = first /\ loc'.until = last + HourTicks
      /\ loc' \in [now : Time, closed : BOOLEAN, from : Nat, until : Nat]
  <2>1. last + HourTicks \in Nat BY <1>2, Numbers
  <2> QED BY <1>1, <1>2, <2>1, Idles
<1>8. clock \in Nat /\ last + HourTicks \in Nat BY <1>2, Numbers DEF Inv, Typed, Time
<1>9. Window' BY <1>1, <1>3, <1>6, <1>7, <1>8 DEF Window, FinalAmbiguous, Attempt, WorstCase
<1> QED BY <1>1, <1>7, <1>9, Settling DEF FinalAmbiguous, Quiet

\* When a settlement call reads its page, everything an accountable job was or
\* will be billed for is in the hours of the window.
LEMMA WindowClosed ==
    ASSUME Inv, pc = "page", Accountable
    PROVE  Over /\ \A t \in usage : loc.from <= t /\ t < loc.until
<1>0. /\ clock \in Nat /\ job.at \in Nat /\ job.exec \in Nat /\ job.ended \in Nat
      /\ \A t \in usage : t \in Nat
      /\ loc.from \in Nat /\ loc.until \in Nat
  BY Numbers DEF Inv, Typed, Time
<1>1. loc.from <= Attempt.submitted /\ loc.until <= clock /\ attempt = {Attempt}
  BY DEF Inv, Window
<1>2. job.state # "none" => Attempt.submitted = job.at BY <1>1 DEF Inv, Recorded
<1>3. \A t \in usage : job.at <= t /\ t < clock BY DEF Inv, JobRuns
<1>4. ASSUME job.state = "done", job.ended + Idle <= loc.until
      PROVE  Over /\ \A t \in usage : loc.from <= t /\ t < loc.until
  <2>1. \A t \in usage : t < job.ended + Idle BY <1>4 DEF Inv, JobRuns
  <2>2. Over BY <1>0, <1>1, <1>4, Numbers DEF Over
  <2>3. \A t \in usage : loc.from <= t /\ t < loc.until
    BY <1>0, <1>1, <1>2, <1>3, <1>4, <2>1, Numbers
  <2> QED BY <2>2, <2>3
<1>5. CASE Attempt.outcome = "known"
  <2>1. /\ Attempt.completed # Never /\ Attempt.completed + Idle <= loc.until
    BY <1>5 DEF Inv, Window
  <2>2. job.state = "done" /\ job.ended <= Attempt.completed
    BY <1>1, <2>1 DEF Inv, Recorded
  <2>3. Attempt.completed \in Nat BY <1>1, <2>1, AttemptFacts, Numbers DEF Inv, Time
  <2>4. job.ended + Idle <= loc.until BY <1>0, <2>1, <2>2, <2>3, Numbers
  <2> QED BY <1>4, <2>2, <2>4
<1>6. CASE Attempt.outcome # "known"
  <2>1. ~Outruns BY <1>6 DEF Accountable
  <2>2. job.state # "none" => (job.at + Worst) + Idle <= loc.until
    BY <1>2, <1>6 DEF Inv, Window, WorstCase, Idle
  <2>3. CASE job.state = "none"
    <3>1. usage = {} BY <2>3 DEF Inv, JobRuns
    <3> QED BY <2>3, <3>1 DEF Over
  <2>4. CASE job.state = "done"
    <3>1. job.ended <= job.at + Worst BY <1>0, <2>1, <2>4, Numbers DEF Outruns
    <3>2. job.ended + Idle <= loc.until BY <1>0, <2>2, <2>4, <3>1, Numbers
    <3> QED BY <1>4, <2>4, <3>2
  <2>5. CASE job.state \notin {"none", "done"}
    <3>1. clock <= job.at + Worst BY <1>0, <2>1, <2>5, Numbers DEF Outruns
    <3> QED BY <1>0, <1>1, <2>2, <2>5, <3>1, Numbers
  <2> QED BY <2>3, <2>4, <2>5
<1> QED BY <1>5, <1>6

-----------------------------------------------------------------------------
(* The page. *)

\* The records of a page Runpod shows: each of an hour, and its bill.
Metered(records, n) ==
    /\ Len(records) = n /\ DOMAIN records = 1..n
    /\ \A i \in 1..n : /\ records[i].from \in Nat
                       /\ records[i].amount = CostOf(records[i].from)

LEMMA HourRecordsMetered ==
    ASSUME NEW hours \in SUBSET Nat, IsFiniteSet(hours), NEW open
    PROVE  \E n \in Nat : Metered(HourRecords(hours, open), n)
<1> DEFINE n == Cardinality(hours)
           nth(i) == CHOOSE h \in hours : Cardinality({g \in hours : g < h}) = i - 1
           R == {p \in hours \X hours : p[1] <= p[2]}
<1>1. n \in Nat BY FS_CardinalityType
<1>2. \A g, h \in hours : <<g, h>> \in R <=> g <= h OBVIOUS
<1>3. Orders(R, hours)
  <2>1. \A h \in hours : h \in Nat OBVIOUS
  <2> HIDE DEF R
  <2> QED BY <1>2, <2>1 DEF Orders
<1>4. \A i \in 1..n : \E h \in hours : Rank(h, R, hours) = i BY <1>3, Ranked
<1>5. ASSUME NEW h \in hours PROVE Rank(h, R, hours) = Cardinality({g \in hours : g < h}) + 1
  <2> DEFINE Below == {g \in hours : g < h}
  <2>1. \A g \in hours : g \in Nat OBVIOUS
  <2>2. {g \in hours : <<g, h>> \in R} = Below \cup {h}
    <3>1. \A g \in hours : <<g, h>> \in R <=> g < h \/ g = h BY <1>2, <2>1
    <3> HIDE DEF R
    <3> QED BY <3>1
  <2>3. h \notin Below BY <2>1
  <2>4. Below \in SUBSET hours OBVIOUS
  <2>5. IsFiniteSet(Below) BY <2>4, FS_Subset
  <2> HIDE DEF Below, R
  <2>6. Cardinality(Below \cup {h}) = Cardinality(Below) + 1 BY <2>3, <2>5, FS_AddElement
  <2> QED BY <2>2, <2>6 DEF Rank, Below
<1>6. ASSUME NEW i \in 1..n PROVE nth(i) \in hours
  <2>1. PICK h \in hours : Rank(h, R, hours) = i BY <1>4
  <2>2. Cardinality({g \in hours : g < h}) \in Nat
    <3>1. {g \in hours : g < h} \in SUBSET hours OBVIOUS
    <3> QED BY <3>1, FS_Subset, FS_CardinalityType
  <2>3. Cardinality({g \in hours : g < h}) = i - 1
    <3>1. Cardinality({g \in hours : g < h}) + 1 = i BY <1>5, <2>1
    <3> QED BY <2>2, <3>1
  <2> QED BY <2>3
<1> DEFINE end(i) == nth(i) + IF open /\ i = n THEN 1 ELSE HourTicks
           records == [i \in 1..n |-> Record(nth(i), end(i))]
<1>7. HourRecords(hours, open) = records BY DEF HourRecords
<1> HIDE DEF nth, n, R, end
<1>8. Len(records) = n /\ DOMAIN records = 1..n BY <1>1
<1>9. ASSUME NEW i \in 1..n
      PROVE  records[i].from \in Nat /\ records[i].amount = CostOf(records[i].from)
  <2>1. records[i].from = nth(i) /\ records[i].amount = CostOf(nth(i)) BY DEF Record
  <2>2. nth(i) \in Nat BY <1>6
  <2> HIDE DEF records
  <2> QED BY <2>1, <2>2
<1> HIDE DEF records
<1>10. Metered(records, n) BY <1>8, <1>9 DEF Metered
<1> QED BY <1>1, <1>7, <1>10

LEMMA FlipMetered ==
    ASSUME NEW records, NEW n \in Nat, Metered(records, n)
    PROVE  Metered(Flip(records), n)
<1>1. Flip(records) = [i \in 1..n |-> records[n + 1 - i]] BY DEF Flip, Metered
<1>2. Len(Flip(records)) = n /\ DOMAIN Flip(records) = 1..n BY <1>1
<1>3. ASSUME NEW i \in 1..n
      PROVE  /\ Flip(records)[i].from \in Nat
             /\ Flip(records)[i].amount = CostOf(Flip(records)[i].from)
  <2>1. n + 1 - i \in 1..n /\ Flip(records)[i] = records[n + 1 - i] BY <1>1
  <2> QED BY <2>1 DEF Metered
<1> QED BY <1>2, <1>3 DEF Metered

LEMMA PagesMetered ==
    ASSUME NEW closed \in SUBSET Nat, IsFiniteSet(closed), NEW page \in Pages(closed)
    PROVE  \E n \in Nat : Metered(page.records, n)
<1> DEFINE whole == HourRecords(closed, FALSE)
<1>2. page \in SoundPages(closed) \/ page \in ShortPages(closed) \/ page \in WrongPages(closed)
  BY DEF Pages
<1>3. ASSUME NEW some \in SUBSET closed, NEW open
      PROVE  \E n \in Nat : Metered(HourRecords(some, open), n)
  <2>1. some \in SUBSET Nat /\ IsFiniteSet(some) BY FS_Subset
  <2> QED BY <2>1, HourRecordsMetered
<1>4. \A s : PageOf(s).records = s BY DEF PageOf
<1>5. PICK n \in Nat : Metered(whole, n) BY <1>3
<1>6. CASE page \in SoundPages(closed)
  <2>1. page.records = whole \/ page.records = Flip(whole) BY <1>4, <1>6 DEF SoundPages
  <2> HIDE DEF whole
  <2> QED BY <1>5, <2>1, FlipMetered
<1>7. CASE page \in ShortPages(closed)
  <2>1. PICK open \in BOOLEAN : page \in {PageOf(HourRecords(some, open)) : some \in SUBSET closed}
    BY <1>7 DEF ShortPages
  <2>2. PICK some \in SUBSET closed : page = PageOf(HourRecords(some, open)) BY <2>1
  <2>3. page.records = HourRecords(some, open) BY <1>4, <2>2
  <2> QED BY <1>3, <2>3
<1>8. CASE page \in WrongPages(closed)
  <2>1. page.records = whole BY <1>8 DEF WrongPages, PageOf
  <2> QED BY <1>5, <2>1
<1> QED BY <1>2, <1>6, <1>7, <1>8

\* A receipt made from an accepted page is the whole bill of its window.
LEMMA ReceiptMeters ==
    ASSUME Inv, NEW from \in Nat, NEW until \in Nat, from < until,
           NEW page \in Pages(ClosedHours(from, until)),
           NEW seen, seen = AuthoritativeHourCosts(page, from, until), seen.kind = "costs"
    PROVE  CostTotal(seen.costs) = Cardinality({t \in usage : from <= t /\ t < until})
<1>0. ClosedHours(from, until) \in SUBSET Nat /\ IsFiniteSet(ClosedHours(from, until))
  <2>1. ClosedHours(from, until) \in SUBSET HoursIn(from, until) BY DEF ClosedHours
  <2> QED BY <2>1, HoursAreNaturals, FS_Subset
<1>1. PICK n \in Nat : Metered(page.records, n) BY <1>0, PagesMetered
<1>2. /\ Len(page.records) = n /\ DOMAIN page.records = 1..n
      /\ \A i \in 1..n : page.records[i].from \in Nat
      /\ \A i \in 1..n : page.records[i].amount = CostOf(page.records[i].from)
  BY <1>1 DEF Metered
<1>3. OneCostPerHour(seen.costs, from, until) /\ Drawn(seen.costs, page.records, n)
  BY <1>2, AcceptedPageIsComplete
<1>5. usage \in SUBSET Nat /\ IsFiniteSet(usage)
  <2>1. usage \in SUBSET Time BY DEF Inv, Typed
  <2>2. IsFiniteSet(Time) BY Numbers, FS_Interval DEF Time
  <2>3. Time \subseteq Nat BY Numbers DEF Time
  <2> QED BY <2>1, <2>2, <2>3, FS_Subset
<1>6. ASSUME NEW i \in 1..n
      PROVE  /\ seen.costs[i].hour \in Nat
             /\ seen.costs[i].amount = InHour(usage, seen.costs[i].hour)
  <2>1. PICK j \in 1..n : /\ seen.costs[i].hour = page.records[j].from
                          /\ seen.costs[i].amount = page.records[j].amount
    BY <1>3 DEF Drawn
  <2>2. seen.costs[i].hour \in Nat /\ seen.costs[i].amount = CostOf(seen.costs[i].hour)
    BY <1>2, <2>1
  <2> QED BY <2>2 DEF CostOf, InHour
<1>7. Len(seen.costs) = n BY <1>3 DEF Drawn
<1>8. Counts(seen.costs, usage) BY <1>6, <1>7 DEF Counts
<1> QED BY <1>3, <1>5, <1>7, <1>8, TotalIsMetered

LEMMA ReadPageStep == ASSUME Inv, ReadPage PROVE Inv'
<1>1. PICK page \in Pages(ClosedHours(loc.from, loc.until)) :
         LET seen == AuthoritativeHourCosts(page, loc.from, loc.until)
         IN receipt' = IF seen.kind # "costs" THEN {}
                       ELSE {r \in {ReceiptOf(seen.costs)} : ValidReceipt(r)}
  BY DEF ReadPage
<1> DEFINE seen == AuthoritativeHourCosts(page, loc.from, loc.until)
<1>2. receipt' = {} \/ (seen.kind = "costs" /\ receipt' = {ReceiptOf(seen.costs)})
  BY <1>1
<1>3. /\ pc = "page" /\ pc' = "idle" /\ loc' = NoLocals
      /\ UNCHANGED <<clock, catalog, lane, quote, authority, attempt, job, usage, disowned>>
  BY DEF ReadPage, At, End, Goto
<1> HIDE DEF seen
<1>4. AtMostOne(receipt') BY <1>2, TheOne
<1>5. Typed' BY <1>3, <1>4, Idles DEF Inv, Typed, Time, Never
<1>6. JobRuns' BY <1>3 DEF Inv, JobRuns, NoJob
<1>7. Recorded'
  <2>1. attempt # {} BY <1>3 DEF Inv, Window
  <2> QED BY <1>3, <2>1 DEF Inv, Recorded
<1>8. Window' BY <1>3 DEF Window
<1>9. Exact'
  <2>1. SUFFICES ASSUME seen.kind = "costs", receipt' = {ReceiptOf(seen.costs)} PROVE Exact'
    BY <1>2 DEF Exact
  <2> DEFINE r == ReceiptOf(seen.costs)
  <2>2. r.from = loc.from /\ r.until = loc.until /\ r.actual = CostTotal(seen.costs)
    BY DEF ReceiptOf
  <2> HIDE DEF r
  <2>3. loc.from \in Nat /\ loc.until \in Nat /\ loc.from < loc.until
    <3>1. loc.from \in Nat /\ loc.until \in Nat BY DEF Inv, Typed
    <3>2. attempt = {Attempt} /\ loc.from <= Attempt.submitted BY <1>3 DEF Inv, Window
    <3>3. Attempt.submitted \in Nat /\ (Attempt.completed # Never => Attempt.completed \in Nat)
      BY <3>2, AttemptFacts, Numbers DEF Inv, Time
    <3>4. Attempt.completed # Never =>
             /\ job.state = "done" /\ job.ended <= Attempt.completed
             /\ Attempt.submitted = job.at
      BY <3>2 DEF Inv, Recorded
    <3>5. job.state = "done" => job.at <= job.ended BY DEF Inv, JobRuns
    <3>6. job.at \in Nat /\ job.ended \in Nat BY Numbers DEF Inv, Typed, Time
    <3>7. CASE Attempt.completed # Never /\ Attempt.completed + Idle <= loc.until
      BY <3>1, <3>2, <3>3, <3>4, <3>5, <3>6, <3>7, Numbers
    <3>8. CASE WorstCase(Attempt.submitted) <= loc.until
      BY <3>1, <3>2, <3>3, <3>8, Numbers DEF WorstCase, Idle
    <3> QED BY <1>3, <3>1, <3>7, <3>8 DEF Inv, Window
  <2>4. loc.until <= clock BY <1>3 DEF Inv, Window
  <2>5. r.actual = Cardinality(Billed(r))
    BY <2>1, <2>2, <2>3, ReceiptMeters DEF seen, Billed
  <2>6. Accountable => Over /\ \A t \in usage : r.from <= t /\ t < r.until
    BY <1>3, <2>2, WindowClosed
  <2>7. Accountable' <=> Accountable BY <1>3 DEF Accountable, Outruns, Attempt
  <2>8. Over' <=> Over BY <1>3 DEF Over
  <2>9. \A x : Billed(x)' = Billed(x) BY <1>3 DEF Billed
  <2>10. receipt' = {r} BY <2>1 DEF r
  <2>11. \A x \in receipt' : x = r BY <2>10
  <2>12. SUFFICES ASSUME NEW x \in receipt'
                  PROVE  /\ x.from \in Nat /\ x.until \in Nat /\ x.until <= clock
                         /\ x.actual = Cardinality(Billed(x))
                         /\ Accountable => Over /\ \A t \in usage : x.from <= t /\ t < x.until
    BY <1>3, <2>7, <2>8, <2>9 DEF Exact
  <2> QED BY <2>2, <2>3, <2>4, <2>5, <2>6, <2>11
<1> QED BY <1>5, <1>6, <1>7, <1>8, <1>9 DEF Inv

-----------------------------------------------------------------------------

LEMMA InitInv == ASSUME Init PROVE Inv
<1>1. Typed
  <2>1. AtMostOne({}) /\ 0 \in Time BY Numbers, TheOne DEF Time
  <2> QED BY <2>1, Idles DEF Init, Typed, NoJob
<1> QED BY <1>1 DEF Init, Inv, JobRuns, Recorded, Window, Exact, NoJob

LEMMA NextInv == ASSUME Inv, [Next]_vars PROVE Inv'
<1>1. CASE UNCHANGED vars
  <2>1. Typed' BY <1>1 DEF vars, Inv, Typed, Time, Never
  <2> QED BY <1>1, <2>1, QuietStep DEF vars, Quiet
<1>2. CASE Next
  BY <1>2, QuoteStep, ValidateStep, LapseStep, SubmitStep, RunStep, FinalBillingStep,
     FinalStatusStep, FinalAmbiguousStep, ReadPageStep, JobStep, LearnsStep, TickStep
  DEF Next
<1> QED BY <1>1, <1>2

LEMMA InvHolds == Spec => []Inv
<1>1. Init => Inv BY InitInv
<1>2. Inv /\ [Next]_vars => Inv' BY NextInv
<1> QED BY <1>1, <1>2, PTL DEF Spec

\* Every reachable state is well typed: a quote, an authority, an attempt and
\* a receipt at most, and times that the clock has shown.
THEOREM TypeCorrect == Spec => []TypeOK
<1>1. Inv => TypeOK
  <2> SUFFICES ASSUME Inv PROVE TypeOK OBVIOUS
  <2>1. Cardinality(quote) <= 1 /\ Cardinality(receipt) <= 1 BY OneIsFew DEF Inv, Typed
  <2> QED BY <2>1 DEF Inv, Typed, TypeOK
<1> QED BY <1>1, InvHolds, PTL

\* Every receipt is exactly the bill of its hours and stays it, whatever the
\* pages left out and in whichever order they came; and nothing is billed
\* outside of them if the job is known, or did not outrun the worst case from
\* which final_ambiguous_window_billing derives its window.  The policy sent
\* with the job may allow an overrun, and nothing is assumed of it here.
THEOREM SettledInFull == Spec => []SettledExactly
<1>1. Inv => SettledExactly BY DEF Inv, Exact, Accountable, Billed, SettledExactly
<1> QED BY <1>1, InvHolds, PTL

\* A job that Runpod took is owed by the record of its attempt, in every
\* interleaving with lost answers and crashes; the one exception, an accepted
\* /run whose 2xx body was unusable, is in the statement.
THEOREM TakenJobsAreOwed == Spec => []JobIsOwed
<1>1. Inv => JobIsOwed BY DEF Inv, Recorded, JobIsOwed
<1> QED BY <1>1, InvHolds, PTL
=============================================================================
