----------------------- MODULE InferenceProviderProofs -----------------------
(***************************************************************************)
(* Proofs about InferenceProvider, for every request, catalog and pair of  *)
(* configurations, and every number of hosts and reconcilers.              *)
(*                                                                         *)
(* RunpodInferenceLeaseProvider adds calls around OllamaLeaseService and   *)
(* never a write of its own: each of its steps is a step of OllamaLease or *)
(* none, so what OllamaLeaseProofs shows carries over.  On top of that,    *)
(* the request stored in the row carries what the quote allows to whoever  *)
(* provisions it.                                                          *)
(***************************************************************************)
EXTENDS InferenceProvider, OllamaLeaseProofs

-----------------------------------------------------------------------------
(* The provider's steps are the service's. *)

LEMMA ServiceAcquiresIsUse ==
    ASSUME NEW p, ServiceAcquires(p)
    PROVE  UseStep(p)
BY DEF ServiceAcquires, UseStep

LEMMA AcquireWithMaps ==
    ASSUME NEW p, NEW q, NEW x, AcquireWith(p, q, x)
    PROVE  UseStep(p) \/ UNCHANGED vars
BY ServiceAcquiresIsUse DEF AcquireWith

LEMMA HostCallsMap ==
    ASSUME NEW p \in Procs, HostCalls(p)
    PROVE  UseStep(p) \/ UNCHANGED vars
<1>1. CASE Quote(p) BY <1>1 DEF Quote
<1>2. CASE AcquireOnQuote(p) BY <1>2 DEF AcquireOnQuote
<1>3. CASE AcquirePlanned(p)
  <2>1. \E x : AcquireWith(p, held[p], x) BY <1>3 DEF AcquirePlanned
  <2> QED BY <2>1, AcquireWithMaps
<1>4. CASE AcquireRefused(p) BY <1>4 DEF AcquireRefused
<1>5. CASE AcquireAgainOnQuote(p)
  <2>1. \E q : AcquireWith(p, q, Nothing) BY <1>5 DEF AcquireAgainOnQuote
  <2> QED BY <2>1, AcquireWithMaps
<1>6. CASE Status(p) BY <1>6 DEF Status, UseStep
<1>7. CASE ReadEnded(p) BY <1>7 DEF ReadEnded
<1>8. CASE TouchLease(p) BY <1>8 DEF TouchLease, UseStep
<1>9. CASE ReleaseLease(p) BY <1>9 DEF ReleaseLease, UseStep
<1> QED BY <1>1, <1>2, <1>3, <1>4, <1>5, <1>6, <1>7, <1>8, <1>9 DEF HostCalls

LEMMA StepMaps == ASSUME [ProviderNext]_all PROVE [Next]_vars
<1>1. CASE Provider BY <1>1 DEF Provider, Next, Environment
<1>2. CASE TimePasses BY <1>2 DEF TimePasses, Next, Environment
<1>3. CASE Reconfigure BY <1>3 DEF Reconfigure
<1>4. ASSUME NEW p \in Procs, HostCalls(p) PROVE [Next]_vars
  BY <1>4, HostCallsMap DEF Next, ProcessStep
<1>5. ASSUME NEW p \in Procs, ReconcilerStarts(p) PROVE [Next]_vars
  BY <1>5 DEF ReconcilerStarts, Next, ProcessStep, UseStep
<1>6. ASSUME NEW p \in Procs, ServiceRuns(p) PROVE [Next]_vars
  BY <1>6 DEF ServiceRuns, ProvisionPlanned, ServiceStep, Next, ProcessStep, CreateStep
<1>7. ASSUME NEW p \in Procs, ServiceFails(p) PROVE [Next]_vars
  BY <1>7 DEF ServiceFails, Next, ProcessStep, CreateStep
<1>8. CASE UNCHANGED all BY <1>8 DEF all
<1> QED BY <1>1, <1>2, <1>3, <1>4, <1>5, <1>6, <1>7, <1>8 DEF ProviderNext

\* Whatever the callers of RunpodInferenceLeaseProvider do with their quotes,
\* the lease service below it behaves as OllamaLease says.
THEOREM ProviderImplementsService == ProviderSpec => Spec
<1>1. ProviderInit => Init BY DEF ProviderInit
<1>2. [ProviderNext]_all => [Next]_vars BY StepMaps
<1> QED BY <1>1, <1>2, PTL DEF ProviderSpec, Spec

\* No quote, retry, reconfiguration or crash of the provider leaves a resource
\* behind that no unfinished row can find.
THEOREM ProviderNeverOrphans == ProviderSpec => []NoOrphan
BY ProviderImplementsService, ResourceNeverOrphaned, PTL

\* The invariant of the service holds below the provider.
THEOREM ProviderCustody == ProviderSpec => []CustodyInv
BY ProviderImplementsService, Custody, PTL

-----------------------------------------------------------------------------
(* What the caller is told. *)

\* A lease that has ended says why.
EndHasReason == IsTerminal(row) => row.reason # "none"

SdkAnswers == {"none", "PENDING", "READY", "FAILED", "RELEASING", "EXPIRED", "RELEASED"}

\* The last answer is not ahead of the row, and an end is the row's end.
ToldInv ==
    /\ told \in SdkAnswers
    /\ Rank(told) <= Rank(SdkState(row))
    /\ Rank(told) = 3 => told = SdkState(row)

LEMMA Ranks ==
    /\ Rank("none") = 0 /\ Rank("PENDING") = 0 /\ Rank("READY") = 1 /\ Rank("FAILED") = 1
    /\ Rank("RELEASING") = 2 /\ Rank("EXPIRED") = 3 /\ Rank("RELEASED") = 3
    /\ \A a \in SdkAnswers : Rank(a) \in 0..3
<1>1. /\ Rank("none") = 0 /\ Rank("PENDING") = 0 /\ Rank("READY") = 1 /\ Rank("FAILED") = 1
      /\ Rank("RELEASING") = 2 /\ Rank("EXPIRED") = 3 /\ Rank("RELEASED") = 3
  BY DEF Rank
<1> QED BY <1>1 DEF SdkAnswers

\* The place of a state in the order of answers.
LEMMA SdkRank ==
    ASSUME NEW r
    PROVE  /\ SdkState(r) \in SdkAnswers
           /\ r.state = "ready" => SdkState(r) = "READY"
           /\ r.state = "failed" => SdkState(r) = "FAILED"
           /\ r.state = "releasing" => SdkState(r) = "RELEASING"
           /\ r.state = "terminated" => SdkState(r) \in {"EXPIRED", "RELEASED"}
           /\ r.state \notin {"ready", "failed", "releasing", "terminated"} => SdkState(r) = "PENDING"
BY DEF SdkState, SdkAnswers

LEMMA EndKept ==
    ASSUME Inv, EndHasReason, [Next]_vars
    PROVE  EndHasReason' /\ (IsTerminal(row) => IsTerminal(row') /\ row'.reason = row.reason)
<1>1. row \in Lease /\ \A p \in Procs : loc[p].reason \in {"released", "expired"}
  BY DEF Inv, TypeOK, Locals
<1>2. /\ \A r \in {Provisioning(row), Failed(row), ReconcileRequired(row), WaitingForModel(row), Ready(row)} :
             ~IsTerminal(r)
      /\ \A r \in {Touched(row), StopRetryable(row), Recovered(row), [row EXCEPT !.idle = TRUE]} :
             r.state = row.state /\ r.reason = row.reason
      /\ ~IsTerminal(Requested)
  BY <1>1 DEF Lease, Provisioning, Failed, ReconcileRequired, WaitingForModel, Ready, Touched,
     StopRetryable, Recovered, Requested, NoLease, IsTerminal
<1>3. ASSUME NEW why \in {"released", "expired"}
      PROVE  /\ ~IsTerminal(Releasing(row, why))
             /\ Terminated(row, why).reason = ReasonFirst(row, why)
             /\ Terminated(row, why).state = "terminated"
             /\ ReasonFirst(row, why) # "none"
             /\ row.reason # "none" => ReasonFirst(row, why) = row.reason
  BY <1>1 DEF Lease, Releasing, Terminated, ReasonFirst, IsTerminal
<1>4. EndHasReason'
  <2>1. CASE \E p \in Procs : row' \in {Releasing(row, loc[p].reason), Terminated(row, loc[p].reason)}
    BY <1>1, <1>3, <2>1 DEF EndHasReason
  <2> QED BY <1>2, <2>1, RowWritten DEF EndHasReason, IsTerminal
<1>5. ASSUME IsTerminal(row) PROVE IsTerminal(row') /\ row'.reason = row.reason
  <2>1. row'.state = "terminated" BY <1>5, StepTransitions DEF Transitions, Transition, IsTerminal
  <2>2. row.reason # "none" BY <1>5 DEF EndHasReason
  <2>3. CASE \E p \in Procs : row' \in {Releasing(row, loc[p].reason), Terminated(row, loc[p].reason)}
    BY <1>1, <1>3, <2>1, <2>2, <2>3 DEF IsTerminal
  <2> QED BY <1>2, <1>5, <2>1, <2>3, RowWritten DEF IsTerminal
<1> QED BY <1>4, <1>5

\* The state the row stands for never moves back.
LEMMA SdkGrows ==
    ASSUME Inv, EndHasReason, [Next]_vars
    PROVE  /\ Rank(SdkState(row)) <= Rank(SdkState(row'))
           /\ Rank(SdkState(row)) = 3 => SdkState(row') = SdkState(row)
<1>1. row.state \in LeaseStates BY DEF Inv, TypeOK, Lease
<1>2. SdkState(row) \in SdkAnswers /\ SdkState(row') \in SdkAnswers BY SdkRank
<1>3. CASE row.state = "terminated"
  <2>1. SdkState(row') = SdkState(row) BY <1>3, EndKept DEF IsTerminal, SdkState
  <2> QED BY <1>2, <2>1, Ranks
<1>4. CASE row.state # "terminated"
  <2>1. Rank(SdkState(row)) # 3 BY <1>4, SdkRank, Ranks
  <2>2. CASE row'.state = row.state
    <3>1. SdkState(row') = SdkState(row) BY <1>4, <2>2 DEF SdkState
    <3> QED BY <1>2, <2>1, <3>1, Ranks
  <2>3. CASE row'.state # row.state
    <3>1. Rank(SdkState(row)) \in 0..3 /\ Rank(SdkState(row')) \in 0..3 BY <1>2, Ranks
    <3>2. \/ row.state \notin {"ready", "failed", "releasing", "terminated"}
          \/ row.state \in {"ready", "failed"} /\ row'.state \in {"releasing", "terminated"}
          \/ row.state = "releasing" /\ row'.state = "terminated"
      BY <2>3, StepTransitions DEF Transitions, Transition
    <3> QED BY <2>1, <3>1, <3>2, SdkRank, Ranks
  <2> QED BY <2>2, <2>3
<1> QED BY <1>3, <1>4

\* An answer is the state of the row, before or after the step.
LEMMA AnswerIsRow ==
    ASSUME [ProviderNext]_all
    PROVE  told' \in {told, SdkState(row), SdkState(row')}
<1>1. CASE Provider \/ TimePasses \/ Reconfigure \/ UNCHANGED all
  BY <1>1 DEF Provider, TimePasses, Reconfigure, all, provider
<1>2. ASSUME NEW p \in Procs, HostCalls(p) PROVE told' \in {told, SdkState(row), SdkState(row')}
  <2>1. ASSUME NEW q, NEW x, AcquireWith(p, q, x) PROVE told' \in {told, SdkState(row)}
    BY <2>1 DEF AcquireWith
  <2> QED BY <1>2, <2>1 DEF HostCalls, Quote, AcquireOnQuote, AcquirePlanned, AcquireRefused,
        AcquireAgainOnQuote, Status, ReadEnded, TouchLease, ReleaseLease, provider
<1>3. ASSUME NEW p \in Procs, ReconcilerStarts(p) \/ ServiceRuns(p) \/ ServiceFails(p)
      PROVE told' \in {told, SdkState(row), SdkState(row')}
  BY <1>3 DEF ReconcilerStarts, ServiceRuns, ProvisionPlanned, ServiceStep, ServiceFails, Tell,
     TellPersisted, provider
<1> QED BY <1>1, <1>2, <1>3 DEF ProviderNext

LEMMA ToldStep ==
    ASSUME Inv, EndHasReason, ToldInv, [ProviderNext]_all
    PROVE  ToldInv' /\ Rank(told) <= Rank(told') /\ (Rank(told) = 3 => told' = told)
<1>1. [Next]_vars BY StepMaps
<1>2. /\ Rank(SdkState(row)) <= Rank(SdkState(row'))
      /\ Rank(SdkState(row)) = 3 => SdkState(row') = SdkState(row)
  BY <1>1, SdkGrows
<1>3. SdkState(row) \in SdkAnswers /\ SdkState(row') \in SdkAnswers BY SdkRank
<1>4. /\ Rank(told) \in 0..3 /\ Rank(SdkState(row)) \in 0..3 /\ Rank(SdkState(row')) \in 0..3
  BY <1>3, Ranks DEF ToldInv
<1>5. CASE told' = told BY <1>2, <1>4, <1>5 DEF ToldInv
<1>6. CASE told' = SdkState(row) BY <1>2, <1>3, <1>4, <1>6 DEF ToldInv
<1>7. CASE told' = SdkState(row') BY <1>2, <1>3, <1>4, <1>7 DEF ToldInv
<1> QED BY <1>5, <1>6, <1>7, AnswerIsRow

\* status, touch, release and acquire never tell the caller that a lease came
\* back: not when the reconciler wrote the row in between, nor when an error
\* made them read it again; and the end they tell is the one that is kept.
THEOREM AnswersInOrder == ProviderSpec => ToldInOrder
<1> DEFINE Ordered == Rank(told') >= Rank(told) /\ (Rank(told) = 3 => told' = told)
<1>1. ProviderInit => Inv /\ EndHasReason /\ ToldInv
  <2>1. ASSUME ProviderInit PROVE Init /\ told = "none" BY <2>1 DEF ProviderInit
  <2>2. ASSUME ProviderInit PROVE row.state = "absent" BY <2>1, <2>2 DEF Init, NoLease
  <2>3. ASSUME ProviderInit PROVE EndHasReason /\ ToldInv
    BY <2>1, <2>2, <2>3, SdkRank, Ranks DEF EndHasReason, IsTerminal, ToldInv, SdkAnswers
  <2> QED BY <2>1, <2>3, InvInit
<1>2. ASSUME Inv, EndHasReason, ToldInv, [ProviderNext]_all
      PROVE  (Inv /\ EndHasReason /\ ToldInv)' /\ Ordered
  <2>1. Inv' /\ EndHasReason' BY <1>2, StepMaps, InvNext, EndKept
  <2>2. ToldInv' /\ Rank(told) <= Rank(told') /\ (Rank(told) = 3 => told' = told) BY <1>2, ToldStep
  <2> QED BY <2>1, <2>2
<1> QED BY <1>1, <1>2, PTL DEF ProviderSpec, ToldInOrder

-----------------------------------------------------------------------------
(* Arithmetic of prices. *)

LEMMA Monotone ==
    ASSUME NEW a \in Nat, NEW b \in Nat, NEW k \in Nat, a <= b
    PROVE  a * k <= b * k /\ k * a <= k * b
OBVIOUS

\* The per-GPU budget times the GPUs is within the whole-lease cap.
LEMMA PerGpuFits ==
    ASSUME NEW hourly \in Nat, NEW count \in Nat \ {0}
    PROVE  hourly \div count \in Nat /\ (hourly \div count) * count <= hourly
OBVIOUS

LEMMA AtMostBoth ==
    ASSUME NEW a \in Nat, NEW b \in Nat
    PROVE  AtMost(a, b) \in Nat /\ AtMost(a, b) <= a
BY DEF AtMost

-----------------------------------------------------------------------------
(* Plans. *)

\* A request whose numbers are numbers, for GPUs of a list.
Sound(r) ==
    /\ r.mode \in Modes
    /\ r.gpu_count \in Nat \ {0} /\ r.max_rate \in Nat
    /\ r.session \in Nat /\ r.active \in Nat /\ r.init \in Nat /\ r.tail \in Nat \ {0}

\* The ceiling covers the accrual of so many ticks before the readiness
\* deadline and of the session.
Covered(x, ticks) ==
    /\ x.rate \in Nat /\ x.workers \in Nat /\ x.count \in Nat /\ x.overhead.maximum \in Nat
    /\ x.ceiling \in Nat
    /\ Exposure(x, ticks + LeaseRequest.session) <= x.ceiling

\* What a plan made for request r may buy.
Within(x, r) ==
    /\ x.mode = r.mode
    /\ r.ids # {} => x.gpu \in r.ids
    /\ x.count = r.gpu_count /\ x.rate <= r.max_rate
    /\ x.ceiling <= r.max_cost

Typed ==
    /\ policy \in {Deployed, Redeployed}
    /\ lead \in Nat
    /\ \A q \in quotes : q.mode \in Modes /\ q.hourly \in Nat

LEMMA CoveredLater ==
    ASSUME NEW x, NEW t \in Nat, NEW u \in Nat, u <= t, Covered(x, t)
    PROVE  Covered(x, u)
<1> DEFINE s == LeaseRequest.session
<1>1. s \in Nat BY RequestAssumption
<1> HIDE DEF s
<1>2. x.rate * (u + s) <= x.rate * (t + s) BY <1>1, Monotone DEF Covered
<1>3. x.rate * (u + s) \in Nat /\ x.rate * (t + s) \in Nat BY <1>1 DEF Covered
<1>4. x.rate * (u + s) * x.workers <= x.rate * (t + s) * x.workers BY <1>2, <1>3, Monotone DEF Covered
<1>5. x.rate * (u + s) * x.workers \in Nat /\ x.rate * (t + s) * x.workers \in Nat BY <1>3 DEF Covered
<1>6. x.rate * (u + s) * x.workers * x.count <= x.rate * (t + s) * x.workers * x.count
  BY <1>4, <1>5, Monotone DEF Covered
<1>7. x.rate * (u + s) * x.workers * x.count \in Nat /\ x.rate * (t + s) * x.workers * x.count \in Nat
  BY <1>5 DEF Covered
<1> QED BY <1>6, <1>7 DEF Covered, Exposure, s

\* The GPU that is selected is compatible with the request.
LEMMA SelectedCompatible ==
    ASSUME NEW offers, NEW need, Best(offers, need) # {}
    PROVE  SelectGpu(offers, need) \in offers /\ IsCompatible(SelectGpu(offers, need), need)
<1>1. SelectGpu(offers, need) \in Best(offers, need) BY DEF SelectGpu
<1>2. SelectGpu(offers, need) \in Candidates(offers, need) BY <1>1 DEF Best
<1> QED BY <1>2 DEF Candidates

\* maximum_billable is never below the time to the hard deadline of all workers.
LEMMA BillableCovers ==
    ASSUME NEW r, Sound(r), NEW remaining \in Nat, NEW workers \in Nat
    PROVE  /\ MaximumBillable(r, r.mode, remaining, workers) \in Nat
           /\ remaining * (IF r.mode = Serverless THEN workers ELSE 1)
                <= MaximumBillable(r, r.mode, remaining, workers)
<1> DEFINE longest == remaining * (IF r.mode = Serverless THEN workers ELSE 1)
<1>1. longest \in Nat OBVIOUS
<1>2. ColdStarts(r) \in Nat
  <2>1. r.session \div r.tail \in Nat BY PerGpuFits DEF Sound
  <2> QED BY <2>1 DEF ColdStarts
<1>3. Billable(r, r.mode) \in Nat
  <2>1. ColdStarts(r) * (r.init + r.tail) \in Nat BY <1>2 DEF Sound
  <2> QED BY <2>1 DEF Sound, Billable
<1> HIDE DEF longest
<1>4. MaximumBillable(r, r.mode, remaining, workers) =
        IF r.mode = Serverless /\ Billable(r, r.mode) > longest THEN Billable(r, r.mode) ELSE longest
  BY DEF MaximumBillable, longest
<1>5. /\ MaximumBillable(r, r.mode, remaining, workers) \in Nat
      /\ longest <= MaximumBillable(r, r.mode, remaining, workers)
  BY <1>1, <1>3, <1>4
<1> QED BY <1>5 DEF longest

\* What provider.plan and validate_plan let through for a request is within
\* the request, and its ceiling covers the accrual.
LEMMA PlansWithin ==
    ASSUME Typed, NEW r, Sound(r), NEW offers \in Catalogs, NEW x \in PlansFrom(r, offers)
    PROVE  Within(x, r) /\ Covered(x, lead)
<1> DEFINE need == Requirements(r, r.mode)
           o == SelectGpu(offers, need)
           rate == o.price[ProductOf(r.mode)]
           most == MaximumBillable(r, r.mode, Remaining, policy.workers)
           workers == IF r.mode = Serverless THEN policy.workers ELSE 1
           reserve == policy.overhead[r.mode].maximum
<1>1. /\ Plannable(r, r.mode, offers, Remaining) /\ ValidPlan(r, x)
      /\ x = PlanOf(r, r.mode, offers, Remaining, policy.workers, policy.overhead[r.mode])
  BY DEF PlansFrom
<1>2. o \in offers /\ IsCompatible(o, need) BY <1>1, SelectedCompatible DEF Plannable
<1>3. need.ids = r.ids /\ need.product = ProductOf(r.mode) BY DEF Requirements
<1>4. rate \in Nat
  <2>1. need.product \in DOMAIN o.price BY <1>2 DEF IsCompatible
  <2> QED BY <1>2, <1>3, <2>1, CatalogAssumption
<1>5. r.ids # {} => o.id \in r.ids BY <1>2, <1>3 DEF IsCompatible, Among
<1>6. /\ policy.workers \in Nat /\ reserve \in Nat BY PolicyAssumption DEF Typed, Sound
<1>7. Remaining \in Nat /\ LeaseRequest.session \in Nat /\ Remaining = lead + LeaseRequest.session
  BY RequestAssumption DEF Typed, Remaining
<1>8. most \in Nat /\ Remaining * workers <= most BY <1>6, <1>7, BillableCovers
<1>9. workers \in Nat /\ r.gpu_count \in Nat BY <1>6 DEF Sound
<1>10. /\ x.mode = r.mode /\ x.gpu = o.id /\ x.rate = rate /\ x.count = r.gpu_count
       /\ x.workers = workers /\ x.overhead.maximum = reserve
       /\ x.ceiling = rate * most * r.gpu_count + reserve
  BY <1>1 DEF PlanOf, RatedCost
<1> HIDE DEF rate, most, workers, reserve, o, need
<1>11. rate * Remaining * workers * r.gpu_count <= rate * most * r.gpu_count
  <2>1. Remaining * workers \in Nat BY <1>7, <1>9
  <2>2. rate * (Remaining * workers) <= rate * most BY <1>4, <1>8, <2>1, Monotone
  <2>3. rate * (Remaining * workers) = rate * Remaining * workers BY <1>4, <1>7, <1>9
  <2>4. rate * Remaining * workers \in Nat /\ rate * most \in Nat BY <1>4, <1>7, <1>8, <1>9
  <2> QED BY <1>9, <2>2, <2>3, <2>4, Monotone
<1>12. rate * Remaining * workers * r.gpu_count \in Nat /\ rate * most * r.gpu_count \in Nat
  <2>1. rate * Remaining \in Nat /\ rate * most \in Nat BY <1>4, <1>7, <1>8
  <2>2. rate * Remaining * workers \in Nat BY <1>9, <2>1
  <2> QED BY <1>9, <2>1, <2>2
<1>13. Exposure(x, lead + LeaseRequest.session) = rate * Remaining * workers * r.gpu_count + reserve
  BY <1>7, <1>10 DEF Exposure
<1>14. Exposure(x, lead + LeaseRequest.session) <= x.ceiling /\ x.ceiling \in Nat
  BY <1>6, <1>10, <1>11, <1>12, <1>13
<1>15. Covered(x, lead) BY <1>4, <1>6, <1>9, <1>10, <1>14 DEF Covered
<1>16. x.rate <= r.max_rate /\ x.ceiling <= r.max_cost BY <1>1 DEF ValidPlan
<1> QED BY <1>5, <1>10, <1>15, <1>16 DEF Within

-----------------------------------------------------------------------------
(* The request of the row, and who holds which plan. *)

\* Request r asks for no more than quote q offers.
Matches(r, q) ==
    /\ r.mode = q.mode /\ r.ids = {q.gpu}
    /\ q.hourly \in Nat /\ r.max_rate * r.gpu_count <= q.hourly
    /\ r.max_cost = LeaseRequest.max_total

\* A host holds a quote, then the plan its acquire validated.
HeldOK(p) ==
    held[p] # Nothing =>
        \/ pc[p] = "idle" /\ held[p] \in quotes
        \/ pc[p] = "plan" /\ Exists /\ Within(held[p], bound) /\ Covered(held[p], lead)

QuoteInv ==
    /\ Typed
    /\ Exists => Sound(bound) /\ Matches(bound, accepted)
    /\ held = [p \in Hosts |-> held[p]]
    /\ \A p \in Hosts : HeldOK(p)
    /\ row.planned => Within(plan, bound) /\ started \in Nat /\ Covered(plan, started)

\* _internal_request and _bind_request_to_quoted_placement.
LEMMA InternalSound ==
    ASSUME Typed, NEW mode \in Modes, NEW hourly \in Nat
    PROVE  /\ Sound(InternalRequest(mode, hourly))
           /\ InternalRequest(mode, hourly).max_rate * policy.gpu_count <= hourly
<1>1. /\ policy.gpu_count \in Nat \ {0} /\ policy.max_rate \in Nat
      /\ policy.ready[mode] \in Nat /\ policy.ready[Serverless] \in Nat
  BY PolicyAssumption DEF Typed, Modes
<1>2. LeaseRequest.session \in Nat /\ LeaseRequest.idle \in Nat \ {0} BY RequestAssumption
<1> DEFINE r == InternalRequest(mode, hourly)
<1>3. /\ r.mode = mode /\ r.gpu_count = policy.gpu_count
      /\ r.max_rate = AtMost(PerGpuRate(hourly), policy.max_rate)
      /\ r.session = LeaseRequest.session + (IF mode = Pod THEN policy.ready[mode] ELSE 0)
      /\ r.active = LeaseRequest.session /\ r.init = policy.ready[Serverless]
      /\ r.tail = LeaseRequest.idle
  BY DEF InternalRequest
<1>4. PerGpuRate(hourly) \in Nat /\ PerGpuRate(hourly) * policy.gpu_count <= hourly
  BY <1>1, PerGpuFits DEF PerGpuRate
<1>5. r.max_rate \in Nat /\ r.max_rate <= PerGpuRate(hourly) BY <1>1, <1>3, <1>4, AtMostBoth
<1> HIDE DEF r
<1>6. r.max_rate * policy.gpu_count <= hourly
  <2>1. r.max_rate * policy.gpu_count <= PerGpuRate(hourly) * policy.gpu_count
    BY <1>1, <1>4, <1>5, Monotone
  <2>2. r.max_rate * policy.gpu_count \in Nat /\ PerGpuRate(hourly) * policy.gpu_count \in Nat
    BY <1>1, <1>4, <1>5
  <2> QED BY <1>4, <2>1, <2>2
<1>7. Sound(r) BY <1>1, <1>2, <1>3, <1>5 DEF Sound
<1> QED BY <1>6, <1>7 DEF r

LEMMA QuotedSound ==
    ASSUME Typed, NEW q \in quotes
    PROVE  Sound(QuotedRequest(q)) /\ Matches(QuotedRequest(q), q)
<1> DEFINE r == InternalRequest(q.mode, q.hourly)
           b == QuotedRequest(q)
<1>1. q.mode \in Modes /\ q.hourly \in Nat BY DEF Typed
<1>2. Sound(r) /\ r.max_rate * policy.gpu_count <= q.hourly BY <1>1, InternalSound
<1>3. /\ r.mode = q.mode /\ r.gpu_count = policy.gpu_count /\ r.max_cost = LeaseRequest.max_total
  BY DEF InternalRequest
<1>4. /\ b.mode = r.mode /\ b.gpu_count = r.gpu_count /\ b.max_rate = r.max_rate
      /\ b.session = r.session /\ b.active = r.active /\ b.init = r.init /\ b.tail = r.tail
      /\ b.max_cost = r.max_cost /\ b.ids = {q.gpu}
  BY DEF QuotedRequest, BindToQuote, InternalRequest
<1> HIDE DEF r, b
<1>5. Sound(b) BY <1>2, <1>4 DEF Sound
<1>6. Matches(b, q) BY <1>1, <1>2, <1>3, <1>4 DEF Matches
<1> QED BY <1>5, <1>6 DEF b

-----------------------------------------------------------------------------
(* What a step of the service leaves alone. *)

LEMMA RowPersists ==
    ASSUME Inv, [Next]_vars
    PROVE  Exists => Exists'
BY StepTransitions DEF Transitions, Transition, Exists

\* The service moves one process at a time.
LEMMA OneMoves ==
    ASSUME NEW p \in Procs, ProcessStep(p) \/ Crash(p)
    PROVE  \E label : pc' = [pc EXCEPT ![p] = label]
<1> USE DEF Jump, Begin, End, BeginRelease, Conflict
<1>1. CASE UseStep(p)
  BY <1>1 DEF UseStep, Acquire, AcquireNew, AcquireAgain, UseReady, AcquireExpired, Release, Reconcile
<1>2. ASSUME NEW r, Continue(p, r) PROVE \E label : pc' = [pc EXCEPT ![p] = label]
  BY <1>2 DEF Continue
<1>3. CASE CreateStep(p)
  BY <1>2, <1>3 DEF CreateStep, StartCreate, PlanFails, CreateReturns, CreateFails, FindFound,
     FindAbsent, FindError
<1>4. CASE ObserveStep(p)
  BY <1>4 DEF ObserveStep, CheckNotReady, CheckError, CheckReady, RouteOk, RouteUnavailable, Touch,
     LookAgain
<1>5. CASE ReleaseStep(p)
  BY <1>5 DEF ReleaseStep, ReleaseMark, ReleaseResource, ReleaseFound, ReleaseNotFound,
     DeleteResource, DeleteFails, ConfirmTerminated, TeardownFails
<1>6. CASE RaiseError(p) \/ Crash(p) BY <1>6 DEF RaiseError, Crash
<1> QED BY <1>1, <1>3, <1>4, <1>5, <1>6 DEF ProcessStep

LEMMA OthersStay ==
    ASSUME Inv, NEW p \in Procs, ProcessStep(p) \/ Crash(p), NEW q \in Procs, q # p
    PROVE  pc'[q] = pc[q]
<1>1. PICK label : pc' = [pc EXCEPT ![p] = label] BY OneMoves
<1> QED BY <1>1 DEF Inv, TypeOK

\* Only the write before the create request makes a row planned.
LEMMA PlannedBefore ==
    ASSUME Inv,
           \/ Environment
           \/ \E p \in Procs : \/ UseStep(p) \/ ObserveStep(p) \/ ReleaseStep(p)
                               \/ CreateStep(p) /\ ~StartCreate(p)
                               \/ RaiseError(p) \/ Crash(p)
           \/ UNCHANGED vars
    PROVE  row'.planned => row.planned
<1>1. row \in Lease BY DEF Inv, TypeOK
<1>2. /\ \A r \in {Failed(row), ReconcileRequired(row), WaitingForModel(row), Ready(row), Touched(row),
                   StopRetryable(row), Recovered(row), [row EXCEPT !.idle = TRUE]} :
             r.planned => row.planned
      /\ \A why : (Releasing(row, why).planned => row.planned) /\ (Terminated(row, why).planned => row.planned)
      /\ ~Requested.planned
  BY <1>1 DEF Lease, Failed, ReconcileRequired, WaitingForModel, Ready, Touched, StopRetryable, Recovered,
     Releasing, Terminated, Requested, NoLease
<1> USE DEF Read, Keep, Forget, Commit, Conflict
<1>3. CASE Environment
  BY <1>2, <1>3 DEF Environment, ProviderAccepts, ProviderRefuses, ResourceLost, Tick, IdleElapses, Inside
<1>4. ASSUME NEW p \in Procs, UseStep(p) PROVE row' \in {row, Requested}
  BY <1>4 DEF UseStep, Acquire, AcquireNew, AcquireAgain, UseReady, AcquireExpired, Release, Reconcile
<1>5. ASSUME NEW p \in Procs, CreateStep(p), ~StartCreate(p)
      PROVE  row' \in {row, Failed(row), ReconcileRequired(row), WaitingForModel(row)}
  BY <1>5 DEF CreateStep, PlanFails, CreateReturns, CreateFails, FindFound, FindAbsent, FindError
<1>6. ASSUME NEW p \in Procs, ObserveStep(p)
      PROVE  row' \in {row, Ready(row), Touched(row)}
  BY <1>6 DEF ObserveStep, CheckNotReady, CheckError, CheckReady, RouteOk, RouteUnavailable, Touch
<1>7. ASSUME NEW p \in Procs, ReleaseStep(p)
      PROVE  row' \in {row, StopRetryable(row), Recovered(row), Releasing(row, loc[p].reason),
                       Terminated(row, loc[p].reason)}
  BY <1>7 DEF ReleaseStep, ReleaseMark, ReleaseResource, ReleaseFound, ReleaseNotFound,
     DeleteResource, DeleteFails, ConfirmTerminated
<1>8. ASSUME NEW p \in Procs, RaiseError(p) \/ Crash(p) PROVE row' = row BY <1>8 DEF RaiseError, Crash
<1>9. CASE UNCHANGED vars BY <1>9 DEF vars
<1> HIDE DEF Read, Keep, Forget, Commit, Conflict
<1> QED BY <1>2, <1>3, <1>4, <1>5, <1>6, <1>7, <1>8, <1>9

-----------------------------------------------------------------------------
(* The steps of the provider. *)

LEMMA PlannedExists == ASSUME Inv, row.planned PROVE Exists
BY DEF Inv, CustodyInv, ResourceBound, Exists, NoLease

LEMMA HeldKept ==
    ASSUME QuoteInv, NEW q \in Hosts, pc'[q] = pc[q], held'[q] = held[q], quotes \subseteq quotes',
           Exists => Exists' /\ bound' = bound, lead' \in Nat, lead' <= lead
    PROVE  HeldOK(q)'
<1>1. HeldOK(q) /\ lead \in Nat BY DEF QuoteInv, Typed
<1>2. CASE held[q] = Nothing BY <1>2 DEF HeldOK
<1>3. CASE pc[q] = "idle" /\ held[q] \in quotes BY <1>3 DEF HeldOK
<1>4. CASE pc[q] = "plan" /\ Exists /\ Within(held[q], bound) /\ Covered(held[q], lead)
  <2>1. Covered(held'[q], lead') BY <1>1, <1>4, CoveredLater
  <2>2. Within(held'[q], bound') BY <1>4
  <2>3. Covered(held[q], lead)' BY <2>1 DEF Covered, Exposure
  <2>4. Within(held[q], bound)' BY <2>2 DEF Within
  <2> QED BY <1>4, <2>3, <2>4 DEF HeldOK
<1> QED BY <1>1, <1>2, <1>3, <1>4 DEF HeldOK

\* A step of p that neither inserts nor provisions the row.
LEMMA QuoteInvKept ==
    ASSUME Inv, QuoteInv, [Next]_vars, NEW p,
           Typed', lead' <= lead, quotes \subseteq quotes',
           UNCHANGED <<bound, accepted, plan, started>>, Exists' => Exists,
           row'.planned => row.planned,
           held' = [q \in Hosts |-> held'[q]],
           \A q \in Hosts : q # p => pc'[q] = pc[q] /\ held'[q] = held[q],
           p \in Hosts => HeldOK(p)'
    PROVE  QuoteInv'
<1>1. Exists => Exists' BY RowPersists
<1>2. lead' \in Nat BY DEF Typed
<1>3. \A q \in Hosts : HeldOK(q)' BY <1>1, <1>2, HeldKept
<1>4. Exists' => Sound(bound)' /\ Matches(bound, accepted)' BY DEF QuoteInv, Sound, Matches
<1>5. row'.planned => Within(plan, bound)' /\ started' \in Nat /\ Covered(plan, started)'
  BY DEF QuoteInv, Within, Covered, Exposure
<1> QED BY <1>3, <1>4, <1>5 DEF QuoteInv

\* Neither the row nor the caller's things move.
LEMMA Holding ==
    ASSUME QuoteInv, NEW p \in Hosts, NEW x, Hold(p, x)
    PROVE  /\ held' = [q \in Hosts |-> held'[q]] /\ held'[p] = x
           /\ \A q \in Hosts : q # p => held'[q] = held[q]
BY DEF QuoteInv, Hold

LEMMA TypedKept ==
    ASSUME QuoteInv, UNCHANGED <<policy, lead, quotes>>
    PROVE  Typed' /\ lead' <= lead /\ quotes \subseteq quotes'
BY DEF QuoteInv, Typed

LEMMA OutsideQuote ==
    ASSUME Inv, QuoteInv, Provider \/ TimePasses \/ Reconfigure \/ UNCHANGED all
    PROVE  QuoteInv'
<1>1. [Next]_vars /\ (row'.planned => row.planned)
  <2>1. CASE Provider BY <2>1, PlannedBefore DEF Provider, Next, Environment
  <2>2. CASE ~Provider
    BY <2>2, PlannedBefore DEF TimePasses, Reconfigure, all, vars, Next, Environment
  <2> QED BY <2>1, <2>2
<1>2. UNCHANGED <<pc, held, bound, accepted, plan, started, quotes>>
  BY DEF Provider, TimePasses, Reconfigure, all, vars, provider, ProviderAccepts, ProviderRefuses, ResourceLost,
     IdleElapses, Tick, Inside
<1>3. row'.state = row.state
  <2>1. row' = row \/ row' = [row EXCEPT !.idle = TRUE]
    BY DEF Provider, TimePasses, Reconfigure, all, vars, ProviderAccepts, ProviderRefuses, ResourceLost,
       IdleElapses, Tick, Inside
  <2> QED BY <2>1 DEF Inv, TypeOK, Lease
<1>4. policy' \in {policy, Redeployed} /\ lead' \in {lead, 0} \cup (IF lead > 1 THEN {lead - 1} ELSE {})
  BY DEF Provider, TimePasses, Reconfigure, all, provider
<1>5. Typed' /\ lead' <= lead BY <1>2, <1>4 DEF QuoteInv, Typed
<1>6. held' = [q \in Hosts |-> held'[q]] BY <1>2 DEF QuoteInv
<1>7. \A q \in Hosts : HeldOK(q)'
  <2>1. Exists => Exists' BY <1>3 DEF Exists
  <2>2. lead' \in Nat BY <1>5 DEF Typed
  <2> QED BY <1>2, <1>5, <2>1, <2>2, HeldKept
<1> QED BY <1>1, <1>2, <1>3, <1>5, <1>6, <1>7, QuoteInvKept DEF Exists

\* The quotes the caller may hold are of a mode, with a price.
LEMMA QuoteStep == ASSUME Inv, QuoteInv, NEW p \in Procs, Quote(p) PROVE QuoteInv'
<1>1. UNCHANGED vars /\ UNCHANGED <<lead, policy, held, bound, plan, started, accepted>> BY DEF Quote
<1>a. PICK seen \in [Modes -> Catalogs] : \E x \in UNION {Candidate(mode, seen[mode]) : mode \in Modes} :
          quotes' = quotes \cup {QuoteOf(x)}
  BY DEF Quote
<1>b. PICK x \in UNION {Candidate(mode, seen[mode]) : mode \in Modes} : quotes' = quotes \cup {QuoteOf(x)}
  BY <1>a
<1>c. PICK mode \in Modes : x \in Candidate(mode, seen[mode]) BY <1>b
<1> DEFINE offers == seen[mode]
<1>2. /\ x \in PlansFrom(InternalRequest(mode, LeaseRequest.max_hourly), offers)
      /\ quotes' = quotes \cup {QuoteOf(x)} /\ offers \in Catalogs
  BY <1>b, <1>c DEF Candidate
<1>3. LeaseRequest.max_hourly \in Nat BY RequestAssumption
<1>4. Within(x, InternalRequest(mode, LeaseRequest.max_hourly)) /\ Covered(x, lead)
  BY <1>2, <1>3, InternalSound, PlansWithin DEF QuoteInv
<1>5. x.mode = mode /\ x.rate * x.count \in Nat BY <1>4 DEF Within, Covered, InternalRequest
<1>6. QuoteOf(x).mode = x.mode /\ QuoteOf(x).hourly = x.rate * x.count BY DEF QuoteOf
<1>7. Typed' /\ quotes \subseteq quotes'
  BY <1>1, <1>2, <1>5, <1>6 DEF QuoteInv, Typed
<1>8. pc' = pc /\ row' = row /\ [Next]_vars BY <1>1 DEF vars
<1>9. lead' <= lead /\ lead' \in Nat BY <1>1 DEF QuoteInv, Typed
<1>10. \A q \in Hosts : HeldOK(q)' BY <1>1, <1>7, <1>8, <1>9, HeldKept DEF Exists
<1>11. held' = [q \in Hosts |-> held'[q]] BY <1>1 DEF QuoteInv
<1> QED BY <1>1, <1>7, <1>8, <1>9, <1>10, <1>11, QuoteInvKept DEF Exists

\* Calls that leave the service alone and let go of what they hold, or hold a
\* quote of the caller.
LEMMA CallerStep ==
    ASSUME Inv, QuoteInv, NEW p \in Hosts, UNCHANGED vars, NEW x, Hold(p, x) \/ (UNCHANGED held /\ x = held[p]),
           UNCHANGED <<lead, policy, quotes, bound, plan, started, accepted>>,
           x = Nothing \/ (pc[p] = "idle" /\ x \in quotes)
    PROVE  QuoteInv'
<1>1. Typed' /\ lead' <= lead /\ quotes \subseteq quotes' BY TypedKept
<1>2. pc' = pc /\ row' = row /\ [Next]_vars BY DEF vars
<1>3. /\ held' = [q \in Hosts |-> held'[q]] /\ held'[p] = x
      /\ \A q \in Hosts : q # p => held'[q] = held[q]
  BY Holding DEF QuoteInv
<1>4. HeldOK(p)' BY <1>2, <1>3 DEF HeldOK
<1> QED BY <1>1, <1>2, <1>3, <1>4, QuoteInvKept DEF Exists

\* A step of the service that provisions nothing, for a host that holds nothing
\* after it.
LEMMA ServiceQuietStep ==
    ASSUME Inv, QuoteInv, NEW p \in Procs, ProcessStep(p) \/ Crash(p), Exists' => Exists, row'.planned => row.planned,
           UNCHANGED <<lead, policy, quotes, bound, plan, started, accepted>>,
           held' = [q \in Hosts |-> held'[q]],
           \A q \in Hosts : q # p => held'[q] = held[q],
           p \in Hosts => held'[p] = Nothing
    PROVE  QuoteInv'
<1>1. Typed' /\ lead' <= lead /\ quotes \subseteq quotes' BY TypedKept
<1>2. [Next]_vars BY DEF Next
<1>3. \A q \in Hosts : q # p => pc'[q] = pc[q] BY OthersStay DEF Procs
<1>4. p \in Hosts => HeldOK(p)' BY DEF HeldOK
<1> QED BY <1>1, <1>2, <1>3, <1>4, QuoteInvKept

\* A process that runs works on a row that exists.
LEMMA NoInsert ==
    ASSUME Inv, NEW p \in Procs,
           CreateStep(p) \/ ObserveStep(p) \/ ReleaseStep(p) \/ RaiseError(p) \/ Crash(p)
    PROVE  Exists' => Exists
<1>1. row \in Lease BY DEF Inv, TypeOK
<1>2. [Next]_vars BY DEF Next, ProcessStep
<1>3. row'.state = "requested" => row.state = "requested"
  <2>1. \A r \in {Failed(row), ReconcileRequired(row), WaitingForModel(row), Ready(row), Touched(row),
                  StopRetryable(row), Recovered(row), Provisioning(row),
                  Releasing(row, loc[p].reason), Terminated(row, loc[p].reason)} :
            r.state = "requested" => row.state = "requested"
    BY <1>1 DEF Lease, Failed, ReconcileRequired, WaitingForModel, Ready, Touched, StopRetryable, Recovered,
       Provisioning, Releasing, Terminated
  <2> USE DEF Read, Keep, Forget, Commit, Conflict
  <2>2. CASE CreateStep(p)
    <3>1. row' \in {row, Provisioning(row), Failed(row), ReconcileRequired(row), WaitingForModel(row)}
      BY <2>2 DEF CreateStep, StartCreate, PlanFails, CreateReturns, CreateFails, FindFound, FindAbsent, FindError
    <3> QED BY <2>1, <3>1
  <2>3. CASE ObserveStep(p)
    <3>1. row' \in {row, Ready(row), Touched(row)}
      BY <2>3 DEF ObserveStep, CheckNotReady, CheckError, CheckReady, RouteOk, RouteUnavailable, Touch
    <3> QED BY <2>1, <3>1
  <2>4. CASE ReleaseStep(p)
    <3>1. row' \in {row, StopRetryable(row), Recovered(row), Releasing(row, loc[p].reason),
                    Terminated(row, loc[p].reason)}
      BY <2>4 DEF ReleaseStep, ReleaseMark, ReleaseResource, ReleaseFound, ReleaseNotFound,
         DeleteResource, DeleteFails, ConfirmTerminated
    <3> QED BY <2>1, <3>1
  <2>5. CASE RaiseError(p) \/ Crash(p) BY <2>5 DEF RaiseError, Crash
  <2> QED BY <2>2, <2>3, <2>4, <2>5
<1> QED BY <1>2, <1>3, StepTransitions DEF Transitions, Transition, Exists

\* service.acquire on a quote of the caller, with a plan for the request of
\* that quote or with none: a new row takes the request over.
LEMMA AcquireStep ==
    ASSUME Inv, QuoteInv, NEW p \in Hosts, NEW q \in quotes, NEW x, AcquireWith(p, q, x),
           x = Nothing \/ (Within(x, QuotedRequest(q)) /\ Covered(x, lead)),
           UNCHANGED <<lead, policy, quotes, plan, started>>
    PROVE  QuoteInv'
<1>0. p \in Procs BY DEF Procs
<1>1. Typed' /\ lead' <= lead /\ quotes \subseteq quotes' /\ lead' \in Nat BY TypedKept DEF QuoteInv, Typed
<1>2. CASE ~Exists
  <2>1. ServiceAcquires(p) /\ bound' = QuotedRequest(q) /\ accepted' = q /\ Hold(p, x)
    BY <1>2 DEF AcquireWith
  <2>2. row' = Requested /\ pc' = [pc EXCEPT ![p] = "plan"]
    BY <1>2, <2>1 DEF ServiceAcquires, Acquire, AcquireNew, AcquireAgain, UseReady, AcquireExpired, Exists,
       Begin
  <2>3. Exists' /\ ~row'.planned BY <2>2 DEF Requested, NoLease, Exists
  <2>4. pc'[p] = "plan" /\ \A r \in Hosts : r # p => pc'[r] = pc[r]
    BY <1>0, <2>2 DEF Inv, TypeOK, Procs
  <2>5. /\ held' = [r \in Hosts |-> held'[r]] /\ held'[p] = x
        /\ \A r \in Hosts : r # p => held'[r] = held[r]
    BY <2>1, Holding
  <2>6. Sound(bound') /\ Matches(bound', accepted') BY <2>1, QuotedSound DEF QuoteInv
  <2>7. HeldOK(p)'
    <3>1. CASE x = Nothing BY <2>5, <3>1 DEF HeldOK
    <3>2. CASE Within(x, QuotedRequest(q)) /\ Covered(x, lead)
      <4>1. Within(held'[p], bound') /\ Covered(held'[p], lead') BY <2>1, <2>5, <3>2
      <4>2. Within(held[p], bound)' BY <4>1 DEF Within
      <4>3. Covered(held[p], lead)' BY <4>1 DEF Covered, Exposure
      <4> QED BY <2>3, <2>4, <4>2, <4>3 DEF HeldOK
    <3> QED BY <3>1, <3>2
  <2>8. \A r \in Hosts : HeldOK(r)' BY <1>1, <1>2, <2>4, <2>5, <2>7, HeldKept
  <2>9. Sound(bound)' /\ Matches(bound, accepted)' BY <2>6 DEF Sound, Matches
  <2> QED BY <1>1, <2>3, <2>5, <2>8, <2>9 DEF QuoteInv
<1>3. CASE Exists /\ ServiceAcquires(p) /\ bound = QuotedRequest(q) /\ UNCHANGED <<bound, accepted>>
           /\ Hold(p, IF pc'[p] = "plan" THEN x ELSE Nothing)
  <2>1. UseStep(p) BY <1>3, ServiceAcquiresIsUse
  <2>2. ProcessStep(p) /\ [Next]_vars BY <1>0, <2>1 DEF ProcessStep, Next
  <2>3. row'.planned => row.planned BY <1>0, <2>1, PlannedBefore
  <2>4. \A r \in Hosts : r # p => pc'[r] = pc[r] BY <1>0, <2>2, OthersStay DEF Procs
  <2>5. /\ held' = [r \in Hosts |-> held'[r]]
        /\ held'[p] = IF pc'[p] = "plan" THEN x ELSE Nothing
        /\ \A r \in Hosts : r # p => held'[r] = held[r]
    BY <1>3, Holding
  <2>6. Exists' BY <1>3, <2>2, RowPersists
  <2>7. HeldOK(p)'
    <3>1. CASE x = Nothing \/ pc'[p] # "plan" BY <2>5, <3>1 DEF HeldOK
    <3>2. CASE pc'[p] = "plan" /\ Within(x, QuotedRequest(q)) /\ Covered(x, lead)
      <4>1. Within(held'[p], bound') /\ Covered(held'[p], lead') BY <1>3, <2>5, <3>2
      <4>2. Within(held[p], bound)' BY <4>1 DEF Within
      <4>3. Covered(held[p], lead)' BY <4>1 DEF Covered, Exposure
      <4> QED BY <2>6, <3>2, <4>2, <4>3 DEF HeldOK
    <3> QED BY <3>1, <3>2
  <2> QED BY <1>1, <1>3, <2>2, <2>3, <2>4, <2>5, <2>7, QuoteInvKept
<1>4. CASE UNCHANGED vars /\ UNCHANGED <<bound, accepted>> /\ Hold(p, Nothing)
  BY <1>4, CallerStep
<1> QED BY <1>2, <1>3, <1>4 DEF AcquireWith

\* What a host holds is either a quote of the caller or, once it is about to
\* create, a plan: at every other label it holds nothing.
LEMMA HoldsNothing ==
    ASSUME QuoteInv, NEW p \in Hosts, pc[p] \notin {"idle", "plan"}
    PROVE  held[p] = Nothing
BY DEF QuoteInv, HeldOK

LEMMA HostCallsQuote == ASSUME Inv, QuoteInv, NEW p \in Procs, HostCalls(p) PROVE QuoteInv'
<1> USE DEF At
<1>1. CASE Quote(p) BY <1>1, QuoteStep
<1>2. CASE AcquireOnQuote(p)
  <2>1. PICK q \in quotes : Hold(p, q) BY <1>2 DEF AcquireOnQuote
  <2>2. p \in Hosts /\ pc[p] = "idle" /\ UNCHANGED vars
        /\ UNCHANGED <<lead, policy, quotes, bound, plan, started, accepted>>
    BY <1>2 DEF AcquireOnQuote, Free
  <2> QED BY <2>1, <2>2, CallerStep
<1>3. CASE AcquirePlanned(p)
  <2> DEFINE q == held[p]
  <2>1. p \in Hosts /\ pc[p] = "idle" /\ q # Nothing /\ UNCHANGED <<lead, policy, quotes, plan, started>>
    BY <1>3 DEF AcquirePlanned
  <2>2. q \in quotes BY <2>1 DEF QuoteInv, HeldOK
  <2>3. PICK x \in Plans(QuotedRequest(q)) : AcquireWith(p, q, x) BY <1>3 DEF AcquirePlanned
  <2>4. PICK offers \in Catalogs : x \in PlansFrom(QuotedRequest(q), offers) BY <2>3 DEF Plans
  <2>5. Sound(QuotedRequest(q)) BY <2>2, QuotedSound DEF QuoteInv
  <2>6. Within(x, QuotedRequest(q)) /\ Covered(x, lead) BY <2>4, <2>5, PlansWithin DEF QuoteInv
  <2> HIDE DEF q
  <2> QED BY <2>1, <2>2, <2>3, <2>6, AcquireStep
<1>4. CASE AcquireRefused(p)
  <2>1. p \in Hosts /\ Hold(p, Nothing) /\ UNCHANGED vars
        /\ UNCHANGED <<lead, policy, quotes, bound, plan, started, accepted>>
    BY <1>4 DEF AcquireRefused
  <2> QED BY <2>1, CallerStep
<1>5. CASE AcquireAgainOnQuote(p)
  <2>1. PICK q \in quotes : AcquireWith(p, q, Nothing) BY <1>5 DEF AcquireAgainOnQuote
  <2>2. p \in Hosts /\ UNCHANGED <<lead, policy, quotes, plan, started>> BY <1>5 DEF AcquireAgainOnQuote, Free
  <2> QED BY <2>1, <2>2, AcquireStep
<1>6. CASE ReadEnded(p)
  <2>1. p \in Hosts /\ held[p] = Nothing /\ UNCHANGED held /\ UNCHANGED vars
        /\ UNCHANGED <<lead, policy, quotes, bound, plan, started, accepted>>
    BY <1>6 DEF ReadEnded, Free
  <2> QED BY <2>1, CallerStep
<1>7. CASE Status(p) \/ TouchLease(p) \/ ReleaseLease(p)
  <2>1. /\ p \in Hosts /\ held[p] = Nothing /\ UseStep(p) /\ Exists
        /\ UNCHANGED <<lead, policy, quotes, held, bound, plan, started, accepted>>
    BY <1>7 DEF Status, TouchLease, ReleaseLease, Free, Reconcile, UseReady, Release, Exists, UseStep, provider
  <2>2. ProcessStep(p) /\ (row'.planned => row.planned) BY <2>1, PlannedBefore DEF ProcessStep
  <2>3. held' = [q \in Hosts |-> held'[q]] BY <2>1 DEF QuoteInv
  <2> QED BY <2>1, <2>2, <2>3, ServiceQuietStep
<1> QED BY <1>1, <1>2, <1>3, <1>4, <1>5, <1>6, <1>7 DEF HostCalls

\* PROVISIONING is written with the plan the acquirer validated, or with one
\* made for the request of the row.
LEMMA ProvisionQuote == ASSUME Inv, QuoteInv, NEW p \in Procs, ProvisionPlanned(p) PROVE QuoteInv'
<1> USE DEF At
<1>1. /\ StartCreate(p) /\ pc[p] = "plan" /\ UNCHANGED <<lead, policy, quotes, bound, accepted>>
      /\ ProcessStep(p) /\ [Next]_vars
  BY DEF ProvisionPlanned, StartCreate, ProcessStep, CreateStep, Next
<1>2. /\ held' = [q \in Hosts |-> held'[q]]
      /\ \A q \in Hosts : q # p => held'[q] = held[q]
      /\ p \in Hosts => held'[p] = Nothing
  <2>1. CASE p \in Hosts BY <2>1, Holding DEF ProvisionPlanned
  <2>2. CASE p \notin Hosts BY <2>2 DEF ProvisionPlanned, QuoteInv
  <2> QED BY <2>1, <2>2
<1>3. CASE p \in fresh
  <2>1. row.state = "requested" BY <1>1, <1>3 DEF Inv, CustodyInv, SnapshotCurrent
  <2>2. pc' = [pc EXCEPT ![p] = "create"] BY <1>1, <1>3 DEF StartCreate, Conflict, Unchanged, Jump
  <2>3. pc'[p] = "create" /\ \A q \in Hosts : q # p => pc'[q] = pc[q] BY <2>2 DEF Inv, TypeOK, Procs
  <2>4. plan' \in PlansHere(p) /\ started' = lead BY <2>3 DEF ProvisionPlanned
  <2>5. Exists /\ Exists' BY <1>1, <2>1, RowPersists DEF Exists
  <2>6. Sound(bound) /\ Matches(bound, accepted) BY <2>5 DEF QuoteInv
  <2>7. Within(plan', bound) /\ Covered(plan', lead)
    <3>1. CASE p \in Hosts /\ held[p] # Nothing
      BY <1>1, <2>4, <3>1 DEF PlansHere, QuoteInv, HeldOK
    <3>2. CASE ~(p \in Hosts /\ held[p] # Nothing)
      <4>1. plan' \in Plans(bound) BY <2>4, <3>2 DEF PlansHere
      <4>2. PICK offers \in Catalogs : plan' \in PlansFrom(bound, offers) BY <4>1 DEF Plans
      <4> QED BY <2>6, <4>2, PlansWithin DEF QuoteInv
    <3> QED BY <3>1, <3>2
  <2>8. Typed' /\ lead' <= lead /\ quotes \subseteq quotes' /\ lead' \in Nat /\ lead \in Nat
    BY <1>1, TypedKept DEF QuoteInv, Typed
  <2>9. p \in Hosts => HeldOK(p)' BY <1>2 DEF HeldOK
  <2>10. \A q \in Hosts : HeldOK(q)' BY <1>1, <1>2, <2>3, <2>5, <2>8, <2>9, HeldKept
  <2>11. Within(plan, bound)' BY <1>1, <2>7 DEF Within
  <2>12. Covered(plan', started') BY <2>4, <2>7
  <2>13. Covered(plan, started)' /\ started' \in Nat BY <2>4, <2>8, <2>12 DEF Covered, Exposure
  <2>14. Sound(bound)' /\ Matches(bound, accepted)' BY <1>1, <2>6 DEF Sound, Matches
  <2> QED BY <1>2, <2>8, <2>10, <2>11, <2>13, <2>14 DEF QuoteInv
<1>4. CASE p \notin fresh
  <2>1. row' = row /\ pc' = [pc EXCEPT ![p] = "raise"]
    BY <1>1, <1>4 DEF StartCreate, Conflict, Unchanged, Forget, Jump
  <2>2. pc'[p] # "create" BY <2>1 DEF Inv, TypeOK
  <2>3. UNCHANGED <<plan, started>> BY <2>2 DEF ProvisionPlanned
  <2> QED BY <1>1, <1>2, <2>1, <2>3, ServiceQuietStep DEF Exists
<1> QED BY <1>3, <1>4

LEMMA ServiceQuote ==
    ASSUME Inv, QuoteInv, NEW p \in Procs, ServiceStep(p) \/ ServiceFails(p) \/ ReconcilerStarts(p)
    PROVE  QuoteInv'
<1> USE DEF At
<1>1. CASE ServiceStep(p)
  <2>1. /\ (CreateStep(p) /\ pc[p] # "plan") \/ ObserveStep(p) \/ ReleaseStep(p)
        /\ UNCHANGED <<lead, policy, quotes, held, bound, plan, started, accepted>>
    BY <1>1 DEF ServiceStep
  <2>2. pc[p] \notin {"idle", "plan"} /\ (CreateStep(p) => ~StartCreate(p))
    BY <2>1 DEF CreateStep, StartCreate, PlanFails, CreateReturns, CreateFails, FindFound, FindAbsent, FindError,
       ObserveStep, CheckNotReady, CheckError, CheckReady, RouteOk, RouteUnavailable, Touch,
       ReleaseStep, ReleaseMark, ReleaseResource, ReleaseFound, ReleaseNotFound, DeleteResource, DeleteFails,
       ConfirmTerminated
  <2>3. p \in Hosts => held'[p] = Nothing BY <2>1, <2>2, HoldsNothing
  <2>4. held' = [q \in Hosts |-> held'[q]] BY <2>1 DEF QuoteInv
  <2>5. ProcessStep(p) /\ (Exists' => Exists) BY <2>1, NoInsert DEF ProcessStep
  <2>6. row'.planned => row.planned BY <2>1, <2>2, PlannedBefore
  <2> QED BY <2>1, <2>3, <2>4, <2>5, <2>6, ServiceQuietStep
<1>2. CASE ServiceFails(p)
  <2>1. /\ PlanFails(p) \/ RaiseError(p) \/ Crash(p)
        /\ UNCHANGED <<lead, policy, quotes, bound, plan, started, accepted>>
    BY <1>2 DEF ServiceFails
  <2>2. /\ held' = [q \in Hosts |-> held'[q]]
        /\ \A q \in Hosts : q # p => held'[q] = held[q]
        /\ p \in Hosts => held'[p] = Nothing
    <3>1. CASE p \in Hosts BY <1>2, <3>1, Holding DEF ServiceFails
    <3>2. CASE p \notin Hosts BY <1>2, <3>2 DEF ServiceFails, QuoteInv
    <3> QED BY <3>1, <3>2
  <2>3. /\ CreateStep(p) \/ RaiseError(p) \/ Crash(p)
        /\ ProcessStep(p) \/ Crash(p)
    BY <2>1 DEF CreateStep, ProcessStep
  <2>4. Exists' => Exists BY <2>3, NoInsert
  <2>5. row'.planned => row.planned
    <3>1. CASE PlanFails(p)
      <4>1. row' \in {row, Failed(row)} BY <3>1 DEF PlanFails, Forget
      <4> QED BY <4>1 DEF Failed, Inv, TypeOK, Lease
    <3>2. CASE RaiseError(p) \/ Crash(p) BY <3>2, PlannedBefore
    <3> QED BY <2>1, <3>1, <3>2
  <2> QED BY <2>1, <2>2, <2>3, <2>4, <2>5, ServiceQuietStep
<1>3. CASE ReconcilerStarts(p)
  <2>1. /\ p \notin Hosts /\ Reconcile(p) /\ Exists
        /\ UNCHANGED <<lead, policy, quotes, held, bound, plan, started, accepted>>
    BY <1>3, ProcessAssumption DEF ReconcilerStarts, Reconcile, provider
  <2>2. UseStep(p) /\ ProcessStep(p) BY <2>1 DEF UseStep, ProcessStep
  <2>3. row'.planned => row.planned BY <2>2, PlannedBefore
  <2>4. held' = [q \in Hosts |-> held'[q]] BY <2>1 DEF QuoteInv
  <2> QED BY <2>1, <2>2, <2>3, <2>4, ServiceQuietStep
<1> QED BY <1>1, <1>2, <1>3

LEMMA QuoteInvInit == ProviderInit => QuoteInv
<1> SUFFICES ASSUME ProviderInit PROVE QuoteInv OBVIOUS
<1>1. /\ row = NoLease /\ lead = LeaseRequest.ready /\ policy = Deployed /\ quotes = {}
      /\ held = [p \in Hosts |-> Nothing]
  BY DEF ProviderInit, Init
<1>2. ~Exists /\ ~row.planned BY <1>1 DEF Exists, NoLease
<1>3. Typed BY <1>1, RequestAssumption DEF Typed
<1> QED BY <1>1, <1>2, <1>3 DEF QuoteInv, HeldOK

LEMMA QuoteInvNext == ASSUME Inv, QuoteInv, [ProviderNext]_all PROVE QuoteInv'
<1>1. CASE Provider \/ TimePasses \/ Reconfigure \/ UNCHANGED all BY <1>1, OutsideQuote
<1>2. ASSUME NEW p \in Procs, HostCalls(p) \/ ReconcilerStarts(p) \/ ServiceRuns(p) \/ ServiceFails(p)
      PROVE  QuoteInv'
  BY <1>2, HostCallsQuote, ProvisionQuote, ServiceQuote DEF ServiceRuns
<1> QED BY <1>1, <1>2 DEF ProviderNext

\* The request stored in the row asks for no more than the accepted quote, and
\* every plan that is held or was provisioned is within that request.
THEOREM QuoteInvAlways == ProviderSpec => [](Inv /\ QuoteInv)
<1>1. ProviderInit => Inv /\ QuoteInv BY InvInit, QuoteInvInit DEF ProviderInit
<1>2. (Inv /\ QuoteInv) /\ [ProviderNext]_all => (Inv /\ QuoteInv)' BY StepMaps, InvNext, QuoteInvNext
<1> QED BY <1>1, <1>2, PTL DEF ProviderSpec

\* Whoever provisions a lease, and after whatever crash, change of catalog or
\* reconfiguration: it buys the quoted GPU in the quoted mode, at no more than
\* the quoted hourly price and within max_total_cost_usd.
THEOREM BoughtAsQuoted == ProviderSpec => []WithinQuote
<1>1. ASSUME Inv, QuoteInv PROVE WithinQuote
  <2> SUFFICES ASSUME row.planned
               PROVE  /\ plan.mode = accepted.mode /\ plan.gpu = accepted.gpu
                      /\ plan.rate * plan.count <= accepted.hourly
                      /\ plan.ceiling <= LeaseRequest.max_total
    BY DEF WithinQuote
  <2>1. Sound(bound) /\ Matches(bound, accepted) BY <1>1, PlannedExists DEF QuoteInv
  <2>2. Within(plan, bound) /\ Covered(plan, started) BY <1>1 DEF QuoteInv
  <2>3. plan.mode = accepted.mode /\ plan.gpu = accepted.gpu /\ plan.ceiling <= LeaseRequest.max_total
    BY <2>1, <2>2 DEF Matches, Within
  <2>4. plan.rate * plan.count <= bound.max_rate * bound.gpu_count
    BY <2>1, <2>2, Monotone DEF Within, Covered, Sound
  <2>5. plan.rate * plan.count \in Nat /\ bound.max_rate * bound.gpu_count \in Nat
    BY <2>1, <2>2 DEF Covered, Sound
  <2>6. plan.rate * plan.count <= accepted.hourly BY <2>1, <2>4, <2>5 DEF Matches
  <2> QED BY <2>3, <2>6
<1> QED BY <1>1, QuoteInvAlways, PTL

\* The ceiling that validate_plan compared with max_total_cost_usd is never
\* outspent: accrued_cost at the hard deadline is within it.
THEOREM AccrualWithinCeiling == ProviderSpec => []CeilingCoversAccrual
<1>1. ASSUME QuoteInv PROVE CeilingCoversAccrual
  BY <1>1 DEF QuoteInv, CeilingCoversAccrual, Covered
<1> QED BY <1>1, QuoteInvAlways, PTL
=============================================================================
