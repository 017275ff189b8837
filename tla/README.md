# TLA+ models of kestrel-cloud-runpod

The package rents GPU and CPU capacity from Runpod on behalf of Kestrel hosts. Every
rented thing costs money until it is deleted, hosts and the timer-driven reconcilers are
separate operating-system processes, the only state they share is an SQLite row or a
document the host stores, and Runpod's create call can succeed without anybody learning of
it. The correctness of the package is therefore mostly two questions. Does the durable
record really have custody of the one billable resource acquired in its name, under every
interleaving, crash and lost answer? And is what is finally charged what was accepted and
what Runpod billed? This directory models the four lanes that answer them (catalog Pods,
training Pods, private inference, Serverless endpoints), checks them with TLC, and proves
their safety properties with TLAPS, for any number of processes, profiles, endpoints, pages
and ticks.

Paths below are relative to `src/kestrel_cloud_runpod/`.

## 1. Inventory

| Component | State it keeps | Operations | Interacts with |
|---|---|---|---|
| Pod capacity service (`pod_capacity_service.py`) | none; all in the row | catalog: acquire, provision, poll, heartbeat, submit, observe, retrieve, record evidence, acknowledge, recover, confirm (`release_catalog_result`), request/perform cancel, release, reconcile. Training: acquire existing/created, record job/status/result, family release | repository, provider, worker transport, capability store |
| Pod capacity repository (`pod_capacity_repository.py`) | table `pod_capacity_leases`, `revision` column | reserve (insert or conflict, open families only), get, compare_and_set, two reconciliation queries | service |
| Pod capacity provider (`pod_capacity_provider.py`) | none | create, find_by_name, find_exact, observe, start, stop, terminate, final_billing | HTTP clients |
| Training lane (`training*.py`) | the manager's session; families of attempts in the same table | start with fallback profiles, submit and recover a job, poll, download, cancel, release | Pod capacity service, the trainer in the Pod |
| Catalog worker transport (`pod_transport.py`) | none | submit, status, result, acknowledge, recover, cancel | the worker in the Pod |
| Effect custody (`effect_custody.py`) | the running effect | await_owned_effect: a started effect is joined before a cancellation is delivered | all services |
| Ollama lease service and repository (`ollama_service.py`, `ollama_repository.py`) | table of leases, `revision` | provision, acquire, get, touch, release, reconcile | Ollama provider |
| Ollama provider and contracts (`ollama_provider.py`, `ollama_contracts.py`) | none | plan, provision, find_resource, observe, teardown; plan selection and costs | HTTP clients, placement |
| Inference provider (`inference_provider.py`) | the runtime it was configured with | quote, acquire, status, touch, release | Ollama service |
| Serverless capacity (`serverless_capacity_*.py`, `billing.py`) | none; documents the host stores | quote, activate, adopt, authorize, clean up, validate a quote, final, ambiguous and retired billing | HTTP clients, the host's ledger |
| Placement (`placement.py`) | none | GPU compatibility and selection | the plans and quotes above |
| HTTP clients (`clients.py`) | none | requests, retries, classification of failures | Runpod |
| Signed invocations, sessions and manager, CPU catalog, TLS | little or none | encoding, configuration, read-only observation | |
| Ollama runtime (`runtime/ollama-runtime/main.go`) | ready flag, idle timer | start-up, proxying, idle stop | the container |

What is hard here:

* **Interleaving.** Hosts and reconcilers act on the same row. Two writing disciplines are
  mixed in the Pod service: strict compare-and-set (a conflict is an error) and transitions
  retried on conflict until the row is terminal, which write a decision made on an older
  row over whatever the row has become.
* **Ambiguity.** A create, a start, a `/run` or a delete whose answer is lost may have
  happened, or may still happen after a lookup found nothing.
* **Partial failure.** Teardown is: mark, delete, confirm, settle the bill, revoke the
  capability, release. Any of them may fail or be cut short, and all are resumed by
  another process.
* **Ordering.** Worker answers are awaited, so they are recorded out of order; lifecycle
  timestamps must not run backwards, and a violation is a `ValueError` no service method
  catches.
* **Stale decisions.** Quotes, catalogs, configurations and observations are read, awaited
  over, and used.
* **Billing.** Runpod reports hours in pages that may be incomplete and never says that an
  hour is final.
* **Liveness.** Hosts may all be dead; a timer is all that is left to delete the Pod.

The hazards are listed one by one, at their lines, in `PROJECT.json`. The properties that
make each part correct:

* repository and acquisition: one create request per attempt;
* teardown: nothing billable is left behind, the row ends only when nothing billable
  exists, the Pod is deleted only after a persisted stop, a stop is never undone;
* settlement: a zero receipt is honest, the capability outlives the Pod, RELEASED is
  settled, every attempt is eventually settled;
* workload: the recorded phase never regresses, result and acknowledgement are exact and
  written once, the worker hears of no acknowledgement that is not persisted;
* training: a created Pod is owed by an unfinished row, a closed family stays closed, a Pod
  that runs for others is not stopped;
* private inference: no orphan, READY is backed by a resource, the first termination
  reason stays, the resource is eventually deleted; what is provisioned is what was quoted,
  the accepted ceiling covers what accrues;
* Serverless: a cleanup receipt is never false, no foreign endpoint is deleted, nothing is
  bought twice, what was bought is eventually gone, receipts are exactly what was billed.

## 2. Modules

| Module | Models |
|---|---|
| `LeaseAuthority` | the abstract promise: one request, for an open claim; deletion only of a closed claim; an end only when nothing billable exists or can come |
| `PodCapacityLease` | the catalog Pod row and every change written to it, as functions from row to row |
| `PodCapacity` | the processes of the catalog lane, Runpod, the worker, the capability and the clock |
| `PodCapacityProofs` | theorems about `PodCapacity`: types, the create, the stop, the handoff |
| `PodCustodyProofs` | on top of it: custody of the Pod, the zero receipt, the refinement of `LeaseAuthority` |
| `RunpodCalls` | what an HTTP mutation tells its caller, against what Runpod may have done |
| `TrainingPod` | the training lane: a family of attempts, an existing Pod used by others too, the trainer, the manager's session |
| `TrainingPodProofs` | theorems about `TrainingPod` |
| `OllamaLease` | the private-inference lane: row, processes, resource and clock |
| `OllamaLeaseProofs` | theorems about `OllamaLease` |
| `Placement` | `select_gpu` on small catalogs |
| `OllamaPlan` | requests, plans, their costs and their bounds |
| `InferenceProvider` | the inference provider, composed with `OllamaLease` (EXTENDS) and `OllamaPlan` |
| `InferenceProviderProofs` | theorems about `InferenceProvider`, among them that it refines `OllamaLease` |
| `ServerlessQuote` | specifications, requests, quotes, drift, configuration binding, on `Placement` |
| `ServerlessBilling` | hours, pages and when a page is the complete account of a window |
| `ServerlessBillingProofs` | what an accepted page is, and sums over it, by induction |
| `ServerlessEndpoint` | a planned endpoint from quote to retired bill, with the host's ledger |
| `ServerlessEndpointProofs` | theorems about `ServerlessEndpoint` |
| `ServerlessJob` | one job from quote over `/run` to its receipt |
| `ServerlessJobProofs` | theorems about `ServerlessJob` |
| `MC*` | instances for TLC |

### How the models correspond to the code

A process stands at a label (`pc`): `"idle"`, or the await or the transaction it performs
next. One action is one database transaction, or one external call with the local code up
to the next suspension point, so that any other process can act between any two awaits of
the code. Where the code reads the row and writes it with no await between, another
*process* could still write in between; a strict compare-and-set then raises a conflict and
the caller sees an error, a retried transition reads again. The models take the first as one
step (the conflict is an error before anything happened) and the second as a step on the
current row; where the row was read before an await, the strict write tests that the
snapshot still carries the stored revision.

**`PodCapacity`, `OllamaLease`.**

* `row` is the table row. Timestamps are reduced to what the code tests: deadlines are
  ticks of `clock`, first-observation timestamps are Booleans, the heartbeat is fresh or
  stale.
* `fresh` is the set of processes whose snapshot carries the stored `revision`; every
  write empties it. This is the revision column without a counter, so nothing is bounded.
* `pod`, `worker`, `cap` (and `res` in `OllamaLease`) are external: Runpod, the catalog
  worker and the capability store as the code uses them.
* `creates` and `acked` are history variables, and so is `misreaped`: a reservation was reaped
  (`_reconcile_one`, `:1459`) after its create had been sent. The code permits this step and
  the custody of the Pod is lost by it, so the custody properties say "unless `misreaped`";
  nothing is assumed of time.
* A `RunPodManagerError` jumps to `"raise"`, where a reconciler records it in the row; a
  `ValueError` jumps to `"abort"`, which ends the call or the whole pass.
* A lifecycle timestamp that would run backwards is such a `ValueError`: `AcceptedTooLate`,
  `AdoptedTooLate`, `SubmittedTooLate` and `ObserveStoppedTooLate` are the cases the
  processes can produce.
* The attempt modelled is the root of its own cleanup family and uses artifact handoff
  protocol 1. Cancellation of a caller is an action of its own because
  `await_owned_effect` joins the running effect first; a crash abandons it at any label.
* In `OllamaLease` every write is one strict compare-and-set, and the cost cap is one more
  way for `clock` to reach 2.

**`TrainingPod`.** `rows` holds one row per attempt of a family: the root and the fallback
attempts. Attempt `i` either creates Pod `i` or attaches to Pod 0, which exists before the
lease and which others start and stop too; `starter` remembers on whose behalf Pod 0 last
started. The hosts are tasks of one manager, so a crash takes them together with `session`
and the admission lock; the reconciler is a process of its own. Steps reach from await to
await; the create is applied by Runpod (`CreateArrives`) before, with or after its answer.
A reaper's or a release's read of a row and its write, and the observation of Pod 0 and the
record of its ownership, are separate steps, and others start and stop Pod 0 at any time. Two
history variables name what the code gives up: `gaveUp` holds the attempts whose row was ended
over a create (by a reaper or a release that had read it before the create began, or by a lookup
that found nothing after the readiness deadline), `grounds` why Pod 0 may be stopped (a lease
observed it stopped and goes on to resume it; a caller released a claim that had observed
nothing).

**`InferenceProvider`** adds to `OllamaLease` what the lease is *for*: the quotes the caller
holds, the internal request and the plan stored with the row, and the last state told to the
caller. Each planning call sees any catalog of `Catalogs`; `Reconfigure` restarts the
processes with another configuration between the quote and its use. Costs are small
integers; `lead` splits the time before the readiness deadline that `OllamaLease` needs as
one value only.

**`ServerlessEndpoint`** has no processes in the package: the provider is stateless and its host
hands it documents and stores what it returns. `ledger` holds these documents; an operation works on
the copies it was given (`loc.act`, `loc.prior`) while the ledger may change. Documents are restored
through their seals, so an altered one is refused. The inventory may lag behind. Exact-id reads show
what exists or fail: the docstring of `_verify_cleanup_absence` (`:757`) speaks of Runpod's lack of
a read-consistency promise, and concludes absence from one read by id together with the inventory;
with a lagging read by id as well no receipt could be honest, so `AbsenceHonest` rests on this
assumption. A cleanup may persist its intent, fail to, or run without a store for it
(`persist_intent=None`). `born` and `died` date each endpoint, and a retired bill must reach from
the one to the other. `wire` holds requests whose sender gave up and which are applied later.
Failures, strangers' acts and catalog changes are counted in `upsets`.

**`ServerlessJob`** meters: `usage` is the set of ticks in which the job's worker ran,
`Pages` are the billing pages Runpod may show of it, in either order, with missing or open
hours or contradicting themselves. The job policy is wider than the accepted maxima, so a
job may outrun them, and the host may name its end late (`HostLearnsEnd`): the provider takes the
time it is given. An accepted `/run` answered 2xx with a body that does not parse is a plain
`RunPodManagerError` (`clients.py:727`), hence a refusal: the attempt is freed, which the history
variable `disowned` records. Assumptions: `/run` is accepted or lost within the tick it was sent
in; Runpod keeps a job inside the policy sent with it; a closed hour's record is final and exists
even when it is zero.

**`RunpodCalls`** gives for each mutation the set of pairs (applied, verdict) its client can
produce, with one answer for each way `RunpodTransport` distinguishes. The lanes draw their
call outcomes from it, so the classification in `clients.py` is checked through them.

## 3. Runs

`tlc -config <run>.cfg <module>`; the module of each run is in `PROJECT.json`. State counts
are distinct states.

| Run | Instance | Shows |
|---|---|---|
| `PodCapacityRace` | 2 hosts, 1 reconciler; acquire, release; cancelled callers, lost create answers (1.2 M) | `SingleCreate`, `NoStrandedPod`, `ZeroReceiptHonest`, `RevokedAfterTeardown`, `StopIsForever`, `TeardownIsPersisted` |
| `PodCapacityFaults` | 1 host, 1 reconciler; acquire, poll, release, submit; all infrastructure faults together (1.3 M) | `TypeOK`, `RevokedAfterTeardown`, and that the lane implements `LeaseAuthority` |
| `PodCapacityHandoff` | 2 hosts; the workload methods; 2 results, 2 acknowledgements; replaced runner, lost answers, failed workload (1.3 M) | `IntentBeforeDelivery`, `HandoffSound`, `StopIsForever`, `HandoffWriteOnce`, `PhaseNeverRegresses` |
| `PodCapacityTeardown` | 1 host, 1 reconciler; crash, cancel, lost answers, exiting Pod (77 k) | `PodEventuallyGone` under the reconciler's fairness |
| `PodCapacitySettlement` | 1 host, 1 reconciler, one failing capability store, fair | **violates** `EventuallySettled` |
| `OllamaLeaseLifecycle` | 1 host, 1 reconciler; every method, every fault (94 k) | `TypeOK`, `NoOrphan`, `ReadyIsBacked`, `CustodyInv`, `ReasonWriteOnce`, `LeaseAuthority` implemented, `ResourceEventuallyGone` |
| `InferenceProviderQuotes` | 1 host, 1 reconciler; 2 catalogs, 2 configurations, 1 quote; crash and restart, failed plans and calls, lost answers (2.6 M) | `WithinQuote`, `CeilingCoversAccrual`, `ToldInOrder`; `NoOrphan` under failing provider calls and a dying reconciler |
| `ServerlessEndpointSafety` | 2 endpoint ids, hours of 2 ticks, clock to 4, 2 upsets of any kind (2.1 M) | `TypeOK`, `AbsenceHonest`, `DeletesAreOwned`, `LifecycleBilled` |
| `ServerlessEndpointRecovery` | the same with a current inventory, clock to 3; crashes and failing calls, fair (124 k) | `OnePurchase`, `EventuallyGone` |
| `ServerlessJobSettlement` | hours of 3 ticks, clock to 8; both ways to submit, crash, lost and misread `/run`, a policy wider than the maxima, bad pages (48 k) | `TypeOK`, `SettledExactly`, `JobIsOwed`, `EventuallySettled` |
| `TrainingPodFamily` | 2 profiles, existing and created Pods; one training host, one that releases, 1 reconciler; every fault (1.3 M) | `TypeOK`, `CreatedIsOwed`, `FamilyClosed`, `SharedKept` |
| `TrainingPodResume` | the same without any fault | **violates** `ResumedIsOwed` |

**Bounds.** One attempt, family, lease, endpoint plan or job at a time: different ones share nothing
but their tables. Two hosts and a reconciler are enough for the races of the Pod lanes, which are
between an owner, a second caller and a pass; the lease of `OllamaLease` is checked with one host,
because its safety properties are proved for any number. Two results and two acknowledgements let
the handoff confuse one with another. In `PodCapacity`, `OllamaLease` and `TrainingPod` nothing else
is cut: clocks have the values the code distinguishes, and `creates` stays at most 1 by
`SingleCreate`. Two profiles give one fallback. `TrainingPodFamily` has a view (`MCView`) that
merges states which differ only in columns no step reads before they are written again: the Pod of a
finished row, and a heartbeat no timeout waits for; without it the instance has 3.3 million states.
`MaxQuotes = 1` in `InferenceProvider`: one quote per lease. A second quote presented for the same
lease is not covered; with it the run has more than ten million states. `MaxClock` gives the
endpoint two billing hours and the job room for its policy, which outlasts the worst case, and the
close of its last hour; `MaxUpsets = 2` combines every two failures; `BatchHours = 1` makes a window
take more than one page. The catalog lane's faults are split between runs because together with two
hosts they exceed what TLC can finish; the union of the passing runs fires every action.
`PodCapacityRace` has no crash: for safety, a process that died cannot be told from one that is not
scheduled any more; crashes with a restart are in `PodCapacityFaults`.

**Deadlock** is not checked: the system may stop, with every process idle and the lease
released, the endpoint gone or the job settled.

**Fairness.** `TeardownSpec` assumes that time passes, that Runpod answers or drops a create,
and that each reconciler, which a systemd timer or cron starts again and whose calls have
timeouts, keeps taking steps. Nothing is assumed of hosts. The run has no permanently
failing Runpod call: with one, no Pod would ever be deleted. `FairSpec` of `OllamaLease`
adds strong fairness of the reconciler's writes, the one after a lookup included, and of its
DELETE: its writes are never retried, so a host that touches the lease between each read and
each write would starve it; the window is one provider call at most, and the timer tries
again and again. In that run provider calls may fail and the reconciler may die in the middle
of a pass; strong fairness says that a call which can be made again and again succeeds some
time. `FairSpec` of `ServerlessEndpoint` assumes that running operations go on
and that the host comes back to adoption and cleanup, which only its documents can ask for;
the provider has no reconciler of its own, and nothing is assumed of billing, which comes after
the end. `ServerlessJob` assumes that `/run` answers, that Runpod runs the job, that the host names
an end of it, however late, and asks for its receipt again and again, and that a complete page which
can be read again and again is read some time.
`SettlementSpec`, for the counterexample of `EventuallySettled`, assumes even more than
`TeardownSpec`: bills are closed, the capability store answers infinitely often, and all
processes run.

### Disagreements between the code and what it says of itself

The two violating runs are described with their quotations under `findings` in
`PROJECT.json`:

1. *No settlement* (`pod_capacity_service.py:1378`). One failed revocation leads to a second
   teardown, which resets billing to PENDING, and each new receipt is dated differently from
   the recorded one and refused, for ever.
2. *Resumed and released* (`:366`). A stopped Pod is started while a release or a pass, which
   sees it stopped, records RELEASED. The start lands, the ownership is written on the
   RELEASED row, and no pass ever looks at the running Pod again.

**Known counterexamples.** These formulas are defined in the modules and do not hold either;
no run is kept for them, and the instance in parentheses shows each within seconds or minutes.
For each property that carries an exception, the formula without it is among them.

* `PodNeverStranded` (`PodCapacity`; one host that acquires, one reconciler, no fault). The reaper
  of dead reservations (`:1459`) decides on a REQUESTED row and writes with
  `_transition_with_evidence` and no `expected_states`. If the owner has persisted STARTING in
  between, RELEASING and a zero receipt overwrite it and the lease ends with a create in
  flight. `created_at` is the caller's, so a reservation can be born stale. The shortest trace:
  `Acquire`, `LoadCapability`, `Reserve`, `ReconcileOne`, `StartCreate`, `Reap`, `Revoke`,
  `FinalRelease`. The checked properties except this step (`misreaped`).
* `CreatedAlwaysOwed` (`TrainingPod`; the instance of `TrainingPodFamily`). An uncertain create with
  no visible Pod is RELEASED at the readiness deadline (`:1617`), and the Pod appears later:
  `StartTraining`, `Reserve`, `Begin`, `CreateAmbiguous`, `FindByName`, `DeadlinePasses`,
  `ResolveCreation`. The stale reaper of the catalog lane (`:1417`, `:1459`) does the same here.
  `CreatedIsOwed` excepts the attempts in `gaveUp`.
* `SharedAlwaysKept` (`TrainingPod`; the same instance). A lease observes Pod 0 stopped, others
  start it before the ownership is written or after, and the lease, which holds a Pod it believes to
  have resumed, stops it for them (`:312` to `:366`). And a caller that releases a claim which has
  observed nothing stops the Pod although it ran before (`StartTraining`, `Reserve`, `Release`,
  `ReleaseFamily`, `ReleaseOne`, `StopConfirmed`), where
  `docs/architecture/RUNPOD_V2_EXECUTION_PLATFORM.md:259` says of a Pod that was already running
  that "the invocation does not gain authority to stop shared pre-existing capacity". `SharedKept`
  excepts these two grounds.
* `AlwaysOwed` (`ServerlessJob`; the instance of its run). `/run` is accepted and answered 2xx with
  an empty or misshapen body. `clients.py:727` raises a plain `RunPodManagerError`, the attempt is
  freed as refused, and the job runs and is billed. `JobIsOwed` excepts it (`disowned`).
* `WholeBillSettled` (`ServerlessJob`; the same instance). A request is valid when the policy sent
  with the job allows *at least* the accepted maxima (`serverless_capacity_contracts.py:639`,
  `:648`), but the window of an ambiguous attempt ends after the maxima. A job accepted without an
  answer that runs on until its policy stops it is billed after the window, and the receipt leaves
  those hours out. `SettledExactly` excepts an ambiguous attempt whose job outran its worst case.
* `AlwaysSettled` (`ServerlessJob`; the same instance). A known job that outran the accepted maxima,
  or whose end the host names too late, is refused whenever a receipt is asked for
  (`serverless_capacity_contracts.py:1902`). `EventuallySettled` excepts it (`Overdue`).
* `OnePurchase` with the fault `lag` or `late` (`ServerlessEndpoint`). Between the inventory that
  shows no endpoint of the name and the create nothing is locked
  (`serverless_capacity_provider.py:212`): a lagging inventory, or a create applied after its sender
  gave up, yields two endpoints of one name.
* `ReleasedIsSettled` (one host that acquires and releases, one reconciler, no fault). After the
  awaited revocation only `is_terminal` is tested (`:1916`). A second teardown meanwhile sets
  billing back to PENDING, and RELEASED is recorded unsettled; `README.md:427` excludes it.
* `PassNeverAborts` (one host that acquires, one reconciler, no fault). Adoption and a late
  create answer exclude each other in the lifecycle evidence (`:1582`), and the `ValueError`
  leaves `reconcile()`. The same happens where `stop_confirmed_at` is a clock value read before
  an await (`:1551`).
* `ResultKept` (two hosts that acquire, poll, submit and observe; fault `provider`). A
  readiness observation that fails late (`:617`) tears the Pod down without testing the state
  again, with a finished and unconfirmed result in it.
* `WholeLifecycleBilled` (`ServerlessEndpoint`; fault `crash`, clock to 4). An adopted endpoint
  is dated at its adoption (`serverless_capacity_provider.py:443`, where a comment says so), so
  the hours before it are in no retired bill.
* A replayed submit whose first answer was lost can fail, because `workload_submitted_at` would
  follow `workload_running_at` (`:2054`); the lease is not harmed and no property is about it.

Also visible in the models, without a property of their own: a missing endpoint without a stored
intent never gets a cleanup receipt (`serverless_capacity_provider.py:643`); the observation of zero
workers can be stale when the DELETE is sent (`:696`).

## 4. Proofs

`tlapm <module>.tla` for each of the eight `*Proofs` modules. Every theorem holds for all values
of the constants that satisfy the named assumptions of the modules: any sets of hosts and
reconcilers (disjoint), any subsets of the methods and faults, any number of results, profiles,
endpoint ids, catalogs and configurations, any bound of the clock. Each inductive invariant was
first checked with TLC on the instance of the run its properties belong to.

**`PodCapacityProofs`**

* `TypeCorrect`: every reachable state is well typed; one lemma per row operator, one per
  group of actions.
* `CreateOnce`: `SingleCreate` is not inductive, since a second request is prevented by what the
  sender of the first has done to the revision. `CreateInv` says that whoever still holds the
  stored revision at the label before the POST sees a REQUESTED row and no request sent.
  `TeardownInv` says that at the label before the DELETE a stop is persisted.
* `StopIsPermanent`, `TeardownAfterStop`: the action properties, from the same invariant. The
  argument is by a *frame*: `Frame` states what a step may do to the state of the row, to the
  snapshots and to the count of requests. All actions but `Reserve` and `StartCreate` satisfy
  it, proved once per group; then each property follows from `Frame` alone.
* `IntentFirst`, `HandoffProved`, `HandoffRecordedOnce`, `PhaseMonotone`: what is told to the
  worker and what is recorded of its answers sits in local variables across awaits.
  `HandoffInv` relates those variables to the row: while a delivery is under way they carry the
  acknowledgement the row binds, after an answer they carry something a worker may answer.
  Steps that touch neither the workload columns nor those variables are covered by one lemma.

**`PodCustodyProofs`**

* `NoPodStranded`, `ZeroReceiptsHonest`, `RevokedLast`, and `PodImplementsAuthority`:
  `Spec => Implements`. Each says what holds until a reservation is reaped whose create had been
  sent (`misreaped`), and nothing is assumed of time: no other decision taken on an old row, however
  stale and in whatever order, costs custody. `Implements` is a refinement up to the first such
  reap: each step is a step of `LeaseAuthority` or a stutter, or it leaves `misreaped` true.

The retried transitions of this lane write decisions made on older rows, so an invariant of the
kind "the row still is what I read" is false. What makes the decisions safe are facts that are
never lost again once true: `Closed` (nobody can send a create request any more), `Over` (closed,
stopped, nothing billable) and `NeverHad` (closed, no Pod ever). `PodInv` attaches them to marks
in the row, to the labels of processes and to deadlines (`Marks`, `Places`, `Punctual`). `Careful`
then says what any step may do to row and Pod, and the refinement maps a step of that kind to a
step of `LeaseAuthority` or to none. The one label whose decision no such fact supports is the
reaper of dead reservations: its write sets `misreaped` exactly if a create was sent, and the
invariant is `misreaped \/ PodInv`. Without the exception the properties are false (section 3).

**`OllamaLeaseProofs`**

* `TypeCorrect`, `Custody`, `ResourceNeverOrphaned`, `ReadyBacked`, `ReasonIsFinal`.
* `ImplementsAuthority`: `Spec => Authority!Spec`.

`NoOrphan` is not inductive: whether a process may end the lease depends on where it stands and on
whether its snapshot is current. `CustodyInv` is the conjunction of `ResourceBound` (the state of
the row bounds what can exist at Runpod), `SnapshotCurrent` (a process with the stored revision is
where its label says) and `DeletionOwned` (a begun deletion belongs to a lease that will not be used
again). TLC checks it in `OllamaLeaseLifecycle`; in the composed system it follows from the
refinement (`ProviderCustody`). The refinement uses it to show that every compare-and-set maps to
one `LeaseAuthority` step or to none.

**`InferenceProviderProofs`**

* `ProviderImplementsService`: every step of the provider is a step of `OllamaLease` or leaves its
  variables alone. With it `ProviderNeverOrphans` and `ProviderCustody` follow from the theorems
  about the lease.
* `AnswersInOrder`: the last answer given to the caller is never ahead of the row, and an end the
  caller was told of is the one the row keeps (`ToldInv`, with `EndHasReason` of the lease).
* `BoughtAsQuoted`, `AccrualWithinCeiling`: the request stored with the row carries the quote it
  was acquired under, and every plan a process holds or a resource was provisioned with is within
  that quote and covered by its ceiling (`QuoteInv`). Assumed of the constants: the durations and
  caps of the request are positive naturals; the counts and readiness times of the policy are
  positive naturals, its rate cap and overheads naturals; prices are naturals.

**`TrainingPodProofs`**

* `TypeCorrect`, `FamilyStaysClosed`, `CreatedStaysOwed`, `SharedPodKept`.

A family has several rows and every process works on one of them at a time, so the invariants say
for each label which rows are known to be finished, which attempt the process owns and how a row may
evolve meanwhile. `FamilyClosed` needs that at most one attempt of a family is unfinished and that a
process on its way to close the family has seen all others finished after the root was asked to stop
(`FamilyInv`). `CreatedStaysOwed` covers every attempt but those in `gaveUp`: its invariant says
which rows owe their Pod, and for each label between the intent and the recorded id what the Pod can
be. `SharedPodKept` needs that a process which stops Pod 0 either knows it from an observation
(`"stopped"`) or works on a claim that observed nothing, and that the reaper of such a claim, unlike
a caller's release, does not stop it.

**`ServerlessEndpointProofs`**

* `TypeCorrect`, `CleanupMeansAbsence`, `OnlyOwnDeleted`, `LifeIsBilled`, `BoughtOnce`.

The provider is stateless, so its invariant is about documents: whatever was altered, a document
that passes its seal says something true of an endpoint (whose it is, since when it exists, that
it is gone), and each label of a cleanup or a billing call has established that much. `BoughtOnce`
is about a current inventory and no delayed create (faults without `lag` and `late`): with
either of them TLC finds a second purchase. Assumed of the constants: bounds are naturals and
strangers' configurations are not the plan's.

**`ServerlessBillingProofs`, `ServerlessJobProofs`**

* `AcceptedPageIsComplete`: of any page, in any order, `_authoritative_hour_costs` accepts exactly
  one record of it for every hour of the window.
* `TypeCorrect`, `SettledInFull`, `TakenJobsAreOwed`.

That a receipt is exact has two halves. The invariant (`JobRuns`, `Recorded`, `Window`) bounds
where the job can be at what time, so that when a page is read every tick the worker was or will be
billed for lies in the hours of the window and the worker is off for good; for an ambiguous
attempt this is so if its job did not outrun the worst case. The sum of the hours is
proved by induction over the page: `TotalIsMetered` for the running totals and `Ranked` for sorting
(in a linear order there is an element of every rank). Induction is used in the form of `Least`,
every non-empty set of naturals has a least element, which follows from `WFMin` and
`NatLessThanWellFounded` of the library and has no operator parameter. Nothing is
assumed of the job policy. That a receipt stays the bill of its hours needs only that they are over
when it is written.

**Only model-checked**: liveness (`PodEventuallyGone`, `ResourceEventuallyGone`, `EventuallyGone`,
`EventuallySettled`: the prover does not reason about fairness and `ENABLED`), and the two
violated properties. Every invariant and every action property of a passing run is stated by a
theorem.

## 5. Not modelled

* Historical catalog leases without a handoff protocol and schema migration.
* The catalog Pod quote and the arithmetic of Pod bills.
* Encodings: `to_dict`, `from_dict` and digests of the Serverless documents are reduced to
  what they bind; signed invocations are encodings and signatures altogether.
* The Go runtime in the container: a separate program whose readiness gate and idle stop the
  package sees as the readiness of a lease.
* Interactive sessions, configuration and the manager, except the training session.
* CPU catalog observations, TLS pinning, the Ollama client: stateless or pure I/O.

## 6. Plan

Done: the four lanes and the proofs of section 4. Next, in this order:

1. Proofs: the properties of section 3 that are known to fail, restricted to where they hold (for
   example `ReleasedIsSettled` with one process that tears down); what `select_gpu` and the
   quote arithmetic return, as lemmas about `Placement`, `OllamaPlan` and `ServerlessQuote`.
2. The catalog Pod quote and its drift, on `Placement`.
3. `OllamaRuntime`: readiness gate, idle stop and requests in progress.

New runs replace or merge with existing ones where a question is subsumed.
