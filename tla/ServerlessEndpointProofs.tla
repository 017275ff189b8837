----------------------- MODULE ServerlessEndpointProofs -----------------------
(***************************************************************************)
(* Proofs about ServerlessEndpoint, for every request, every set of        *)
(* endpoint ids and catalogs, every bound and every set of faults.         *)
(*                                                                         *)
(* The provider keeps nothing, so what an operation may rely on is what    *)
(* its documents say of the endpoint.  The invariants say which of it is   *)
(* true: whose endpoint a sealed receipt names, since when it exists, and  *)
(* what each label of a cleanup or a billing call has established.         *)
(***************************************************************************)
EXTENDS ServerlessEndpoint, ServerlessBillingProofs

\* The labels of an activation, and those that work on a stored receipt.
Buying == {"act_observe", "act_list", "act_create", "act_relist", "act_read", "adopt_read"}
Cleaning ==
    {"replay", "auth_observe", "auth_read", "clean_get", "clean_workers", "clean_intent",
     "clean_delete", "verify_get", "verify_list"}
Holding == Cleaning \cup {"bill"}

AtMostOne(S) == \A x, y \in S : x = y

\* An endpoint belongs to somebody from its creation on, died in the past, and
\* DELETEs were sent for the plan's own.
World ==
    /\ clock \in Time
    /\ catalog \in Catalogs
    /\ endpoints \in [Ids -> Endpoint]
    /\ wire \subseteq {"create"} \cup Ids
    /\ deletes \subseteq Ids
    /\ upsets \in 0..MaxUpsets
    /\ \A e \in Ids : endpoints[e].state = "none" <=> endpoints[e].owner = "nobody"
    /\ \A e \in Ids : endpoints[e].died <= clock
    /\ \A e \in deletes : endpoints[e].owner = "plan"

\* What a receipt with this content says of an endpoint: the plan created it,
\* and not before the recorded start unless it was only found.
Vouched(e, started, reconciled) ==
    /\ e \in Ids /\ started \in Time /\ reconciled \in BOOLEAN
    /\ endpoints[e].owner = "plan"
    /\ reconciled \/ started <= endpoints[e].born

\* Whatever was altered since, the seal is that of a true receipt.
Sealed(a) ==
    /\ a = [id |-> a.id, conf |-> a.conf, started |-> a.started, reconciled |-> a.reconciled,
            seal |-> a.seal]
    /\ a.id \in Ids
    /\ \E e \in Ids : /\ a.seal = <<e, a.conf, a.started, a.reconciled>>
                      /\ Vouched(e, a.started, a.reconciled)

Absent(c) ==
    /\ c.id \in Ids /\ c.absent \in Time
    /\ endpoints[c.id].state = "gone" /\ endpoints[c.id].died <= c.absent

\* The ledger has its fields, each holds at most one document, and the
\* documents are true.
Docs ==
    /\ ledger = [quote |-> ledger.quote, attempted |-> ledger.attempted,
                 activation |-> ledger.activation, submission |-> ledger.submission,
                 intent |-> ledger.intent, cleanup |-> ledger.cleanup, retired |-> ledger.retired]
    /\ AtMostOne(ledger.quote) /\ AtMostOne(ledger.activation) /\ AtMostOne(ledger.submission)
    /\ AtMostOne(ledger.intent) /\ AtMostOne(ledger.cleanup) /\ AtMostOne(ledger.retired)
    /\ \A a \in ledger.activation : Sealed(a)
    /\ \A c \in ledger.cleanup : Absent(c)
    /\ \A r \in ledger.retired : r.id \in Ids /\ (r.reconciled \/ Billed(r))

Locals ==
    /\ pc \in Labels
    /\ loc = [act |-> loc.act, id |-> loc.id, started |-> loc.started, ambiguous |-> loc.ambiguous,
              prior |-> loc.prior, basis |-> loc.basis, cursor |-> loc.cursor, costs |-> loc.costs]
    /\ loc.id \in Ids \cup {NoId} /\ loc.started \in Time /\ loc.ambiguous \in BOOLEAN
    /\ loc.basis \in {"none", "acknowledged", "ambiguous", "interrupted", "replay"}

\* What the label of the running operation has established.
Place ==
    /\ pc \in Buying \cup Cleaning => BindsPlan(Request, Quote)
    /\ pc \in {"act_create", "act_relist", "act_read"} => loc.started <= clock
    /\ pc \in {"act_read", "adopt_read"} => loc.id \in Ids /\ endpoints[loc.id].state # "none"
    /\ pc = "act_read" => loc.ambiguous \/ loc.started <= endpoints[loc.id].born
    /\ pc \in Holding => /\ loc.act = {Act} /\ loc.id = Act.id
                         /\ Vouched(Act.id, Act.started, Act.reconciled)
    /\ pc \in {"verify_list", "bill"} => endpoints[loc.id].state = "gone"
    /\ pc = "bill" =>
          /\ ledger.cleanup = {The(ledger.cleanup)} /\ The(ledger.cleanup).id = loc.id
          /\ loc.cursor \in Nat /\ loc.cursor < HourCeiling(The(ledger.cleanup).absent)
          /\ Costed(loc.costs, HourFloor(Act.started), loc.cursor)

Inv == World /\ Docs /\ Locals /\ Place

\* While the inventory shows what exists and no given-up request is applied,
\* whoever sends a create owns nothing yet.
Bought == {e \in Ids : Exists(e) /\ endpoints[e].owner = "plan"}

PurchaseInv ==
    /\ "create" \notin wire
    /\ \A e \in Ids : endpoints[e].state # "hidden"
    /\ pc = "act_create" => Bought = {}
    /\ AtMostOne(Bought)

-----------------------------------------------------------------------------
(* Sets of at most one, and batches of hours. *)

LEMMA TheOne ==
    /\ \A x : The({x}) = x
    /\ \A S, x : AtMostOne(S) /\ x \in S => S = {x} /\ The(S) = x
    /\ \A S : AtMostOne(S) /\ S # {} => S = {The(S)}
    /\ \A x : AtMostOne({x})
    /\ AtMostOne({})
<1>1. \A x : The({x}) = x BY DEF The
<1>2. \A S, x : AtMostOne(S) /\ x \in S => S = {x} BY DEF AtMostOne
<1> QED BY <1>1, <1>2 DEF AtMostOne

LEMMA OneIsFew == ASSUME NEW S, AtMostOne(S) PROVE Cardinality(S) <= 1
<1>1. CASE S = {} BY <1>1, FS_EmptySet
<1>2. CASE S # {}
  <2>1. PICK x : S = {x} BY <1>2, TheOne
  <2>2. Cardinality({x}) = 1 BY FS_Singleton
  <2> QED BY <2>1, <2>2
<1> QED BY <1>1, <1>2

\* The next page ends after the cursor and not after the window.
LEMMA Batches ==
    ASSUME NEW cursor \in Nat, NEW until \in Nat, cursor < until
    PROVE  BatchUntil(cursor, until) \in Nat /\ cursor < BatchUntil(cursor, until)
           /\ BatchUntil(cursor, until) <= until
<1>1. BatchHours * HourTicks \in Nat /\ BatchHours * HourTicks > 0 BY BatchAssumption, HourAssumption
<1> QED BY <1>1 DEF BatchUntil

-----------------------------------------------------------------------------
(* What a step leaves alone. *)

\* An endpoint keeps its owner, its birth and its death, and none comes back.
Lives(x, y) ==
    /\ y.state = "none" <=> y.owner = "nobody"
    /\ x.state # "none" => y.state # "none" /\ y.owner = x.owner /\ y.born = x.born
    /\ x.state = "gone" => y.state = "gone" /\ y.died = x.died
    /\ y.died <= clock

Grows ==
    /\ endpoints' \in [Ids -> Endpoint]
    /\ \A e \in Ids : Lives(endpoints[e], endpoints'[e])

LEMMA GrowsBy ==
    ASSUME World
    PROVE  /\ UNCHANGED endpoints => Grows
           /\ \A e \in Ids :
                /\ Created(e) =>
                     Grows /\ endpoints'[e].owner = "plan" /\ endpoints'[e].born = clock
                /\ Removed(e) /\ Exists(e) => Grows
                /\ Reveal(e) \/ WorkerStarts(e) \/ WorkerStops(e) \/ ForeignCreates(e) => Grows
<1>1. UNCHANGED endpoints => Grows BY DEF World, Grows, Lives
<1>2. ASSUME NEW e \in Ids, NEW new \in Endpoint, endpoints' = [endpoints EXCEPT ![e] = new],
             Lives(endpoints[e], new)
      PROVE  Grows /\ endpoints'[e] = new
  BY <1>2 DEF World, Grows, Lives
<1>3. /\ clock \in Time /\ 0 \in Time /\ 0 <= clock /\ clock <= clock
      /\ \A e \in Ids : endpoints[e] \in Endpoint
  BY BoundAssumption DEF World, Time
<1>4. ASSUME NEW e \in Ids, Created(e)
      PROVE  Grows /\ endpoints'[e].owner = "plan" /\ endpoints'[e].born = clock
  <2>1. PICK s \in {"live", "hidden"} :
            endpoints' = [endpoints EXCEPT ![e] = NewEndpoint(s, "plan")]
    BY <1>4 DEF Created
  <2>2. NewEndpoint(s, "plan") \in Endpoint BY <1>3 DEF Endpoint, NewEndpoint
  <2>3. Lives(endpoints[e], NewEndpoint(s, "plan")) BY <1>3, <1>4 DEF Lives, Created, NewEndpoint
  <2>4. Grows /\ endpoints'[e] = NewEndpoint(s, "plan") BY <1>2, <2>1, <2>2, <2>3
  <2> QED BY <2>4 DEF NewEndpoint
<1>5. ASSUME NEW e \in Ids, Removed(e), Exists(e) PROVE Grows
  <2>1. [endpoints[e] EXCEPT !.state = "gone", !.busy = FALSE, !.died = clock] \in Endpoint
    BY <1>3 DEF Endpoint
  <2>2. Lives(endpoints[e], [endpoints[e] EXCEPT !.state = "gone", !.busy = FALSE, !.died = clock])
    BY <1>3, <1>5 DEF Lives, Endpoint, World, Exists, Time
  <2> QED BY <1>2, <1>5, <2>1, <2>2 DEF Removed
<1>6. ASSUME NEW e \in Ids, Reveal(e) PROVE Grows
  <2>1. endpoints' = [endpoints EXCEPT ![e] = [endpoints[e] EXCEPT !.state = "live"]]
    BY <1>6 DEF Reveal
  <2>2. [endpoints[e] EXCEPT !.state = "live"] \in Endpoint BY <1>3 DEF Endpoint
  <2>3. Lives(endpoints[e], [endpoints[e] EXCEPT !.state = "live"])
    BY <1>3, <1>6 DEF Lives, Endpoint, World, Reveal
  <2> QED BY <1>2, <2>1, <2>2, <2>3
<1>7. ASSUME NEW e \in Ids, WorkerStarts(e) \/ WorkerStops(e) PROVE Grows
  <2>1. PICK b \in BOOLEAN : endpoints' = [endpoints EXCEPT ![e] = [endpoints[e] EXCEPT !.busy = b]]
    BY <1>7 DEF WorkerStarts, WorkerStops
  <2>2. [endpoints[e] EXCEPT !.busy = b] \in Endpoint BY <1>3 DEF Endpoint
  <2>3. Lives(endpoints[e], [endpoints[e] EXCEPT !.busy = b]) BY <1>3 DEF Lives, Endpoint, World
  <2> QED BY <1>2, <2>1, <2>2, <2>3
<1>8. ASSUME NEW e \in Ids, ForeignCreates(e) PROVE Grows
  <2>1. endpoints' = [endpoints EXCEPT ![e] = NewEndpoint("live", "foreign")]
    BY <1>8 DEF ForeignCreates
  <2>2. NewEndpoint("live", "foreign") \in Endpoint BY <1>3 DEF Endpoint, NewEndpoint
  <2>3. Lives(endpoints[e], NewEndpoint("live", "foreign"))
    BY <1>3, <1>8 DEF Lives, ForeignCreates, NewEndpoint
  <2> QED BY <1>2, <2>1, <2>2, <2>3
<1> QED BY <1>1, <1>4, <1>5, <1>6, <1>7, <1>8

\* What was true of an endpoint stays true.
LEMMA StaysTrue ==
    ASSUME World, Grows
    PROVE  /\ \A e, started, reconciled :
                Vouched(e, started, reconciled) => Vouched(e, started, reconciled)'
           /\ \A a : Sealed(a) => Sealed(a)'
           /\ \A c : Absent(c) => Absent(c)'
           /\ \A r : r.id \in Ids /\ endpoints[r.id].state = "gone" /\ Billed(r) => Billed(r)'
           /\ \A e \in Ids : endpoints[e].owner = "plan" => endpoints'[e].owner = "plan"
<1>1. \A e \in Ids : endpoints[e].owner = "plan" => endpoints[e].state # "none" BY DEF World
<1>2. ASSUME NEW e, NEW started, NEW reconciled, Vouched(e, started, reconciled)
      PROVE  Vouched(e, started, reconciled)'
  BY <1>1, <1>2 DEF Vouched, Grows, Lives
<1>3. ASSUME NEW a, Sealed(a) PROVE Sealed(a)' BY <1>2, <1>3 DEF Sealed
<1>4. ASSUME NEW c, Absent(c) PROVE Absent(c)' BY <1>4 DEF Absent, Grows, Lives
<1>5. ASSUME NEW r, r.id \in Ids, endpoints[r.id].state = "gone", Billed(r) PROVE Billed(r)'
  BY <1>5 DEF Billed, Grows, Lives
<1> QED BY <1>1, <1>2, <1>3, <1>4, <1>5 DEF Grows, Lives

LEMMA DocsKept ==
    ASSUME World, Docs, Grows, ledger' = ledger
    PROVE  Docs'
<1>1. \A a \in ledger.activation : Sealed(a)' BY StaysTrue DEF Docs
<1>2. \A c \in ledger.cleanup : Absent(c)' BY StaysTrue DEF Docs
<1>3. \A r \in ledger.retired : r.id \in Ids /\ (r.reconciled \/ Billed(r)') BY StaysTrue DEF Docs, Billed
<1> QED BY <1>1, <1>2, <1>3 DEF Docs

\* The operation stays where it is.
LEMMA PlaceKept ==
    ASSUME World, Locals, Place, Grows, pc' = pc, loc' = loc, clock <= clock', clock' \in Time,
           ledger'.quote = ledger.quote, ledger'.intent = ledger.intent,
           ledger'.cleanup = ledger.cleanup
    PROVE  Locals' /\ Place'
<1>1. Locals' BY DEF Locals
<1>2. Quote' = Quote /\ Act' = Act BY DEF Quote, Act
<1>3. pc \in Holding => Vouched(Act.id, Act.started, Act.reconciled)' BY <1>2, StaysTrue DEF Place
<1>4. pc \in {"act_create", "act_relist", "act_read"} => loc.started <= clock'
  BY DEF Place, Locals, World, Time
<1>5. pc \in {"act_read", "adopt_read"} =>
        endpoints'[loc.id].state # "none" /\ endpoints'[loc.id].born = endpoints[loc.id].born
  BY DEF Place, Grows, Lives
<1>6. pc \in {"verify_list", "bill"} => endpoints'[loc.id].state = "gone"
  BY DEF Place, Grows, Lives, Vouched, Holding, Cleaning
<1> QED BY <1>1, <1>2, <1>3, <1>4, <1>5, <1>6 DEF Place

\* The operation returns.
LEMMA PlaceEnds == ASSUME End PROVE Locals' /\ Place'
<1>1. pc' = "idle" /\ loc' = NoLocals BY DEF End, Goto
<1>2. Locals' BY <1>1, BoundAssumption DEF Locals, NoLocals, Labels, Time
<1> QED BY <1>1, <1>2 DEF Place, Buying, Cleaning, Holding

LEMMA WorldKept ==
    ASSUME World, Grows, clock' \in Time, catalog' \in Catalogs, wire' \subseteq {"create"} \cup Ids,
           clock' = clock \/ clock <= clock', upsets' \in 0..MaxUpsets, deletes' \subseteq Ids,
           \A e \in deletes' : e \in deletes \/ endpoints'[e].owner = "plan"
    PROVE  World'
<1>1. \A e \in deletes : e \in Ids /\ endpoints[e].owner = "plan" BY DEF World
<1>2. \A e \in deletes' : endpoints'[e].owner = "plan" BY <1>1, StaysTrue
<1>3. \A e \in Ids : endpoints'[e].state = "none" <=> endpoints'[e].owner = "nobody" BY DEF Grows, Lives
<1>4. \A e \in Ids : endpoints'[e].died <= clock'
  <2>1. \A e \in Ids : endpoints'[e].died \in Time /\ endpoints'[e].died <= clock
    BY DEF Grows, Lives, Endpoint
  <2> QED BY <2>1 DEF World, Time
<1> QED BY <1>2, <1>3, <1>4 DEF World, Grows

LEMMA UpsetsBounded ==
    ASSUME World
    PROVE  /\ Upset \/ Calm => upsets' \in 0..MaxUpsets
           /\ \A f : Fault(f) => upsets' \in 0..MaxUpsets
           /\ \A outcome : Calls(outcome) => upsets' \in 0..MaxUpsets
           /\ \A e, verdict : Reads(e, verdict) => upsets' \in 0..MaxUpsets
<1>1. Upset \/ Calm => upsets' \in 0..MaxUpsets BY BoundAssumption DEF World, Upset, Calm
<1> QED BY <1>1 DEF Fault, Calls, Reads

\* A new document is true when it is stored.
LEMMA DocsStored ==
    ASSUME World, Docs, Grows,
           ledger' = [quote |-> ledger'.quote, attempted |-> ledger'.attempted,
                      activation |-> ledger'.activation, submission |-> ledger'.submission,
                      intent |-> ledger'.intent, cleanup |-> ledger'.cleanup,
                      retired |-> ledger'.retired],
           AtMostOne(ledger'.quote), AtMostOne(ledger'.activation), AtMostOne(ledger'.submission),
           AtMostOne(ledger'.intent), AtMostOne(ledger'.cleanup), AtMostOne(ledger'.retired),
           \A a \in ledger'.activation : a \in ledger.activation \/ Sealed(a)',
           \A c \in ledger'.cleanup : c \in ledger.cleanup \/ Absent(c)',
           \A r \in ledger'.retired :
               r \in ledger.retired \/ (r.id \in Ids /\ (r.reconciled \/ Billed(r)'))
    PROVE  Docs'
<1>1. \A a \in ledger'.activation : Sealed(a)' BY StaysTrue DEF Docs
<1>2. \A c \in ledger'.cleanup : Absent(c)' BY StaysTrue DEF Docs
<1>3. \A r \in ledger.retired : r.id \in Ids /\ (r.reconciled \/ Billed(r)') BY StaysTrue DEF Docs, Billed
<1>4. \A r \in ledger'.retired : r.id \in Ids /\ (r.reconciled \/ Billed(r)') BY <1>3
<1> QED BY <1>1, <1>2, <1>4 DEF Docs

\* An operation on a stored receipt goes on.
LEMMA HoldingGoes ==
    ASSUME World, Locals', Place, Grows, pc \in Cleaning, pc' \in Cleaning,
           loc'.act = loc.act, loc'.id = loc.id, ledger'.quote = ledger.quote,
           pc' = "verify_list" => endpoints'[loc.id].state = "gone"
    PROVE  Place'
<1>1. Quote' = Quote /\ Act' = Act BY DEF Quote, Act
<1>2. Vouched(Act.id, Act.started, Act.reconciled)' BY <1>1, StaysTrue DEF Place, Holding
<1>3. pc' \notin {"act_create", "act_relist", "act_read", "adopt_read", "bill"} BY DEF Cleaning
<1> QED BY <1>1, <1>2, <1>3 DEF Place, Holding

\* from_dict refuses a receipt that was altered.
LEMMA RestoredIsTrue ==
    ASSUME Docs, HasActivation
    PROVE  /\ ledger.activation = {Activation}
           /\ Vouched(Activation.id, Activation.started, Activation.reconciled)
<1>1. ledger.activation = {Activation} BY TheOne DEF Docs, HasActivation, Activation
<1>2. Sealed(Activation) BY <1>1 DEF Docs
<1>3. PICK e \in Ids : /\ Activation.seal = <<e, Activation.conf, Activation.started, Activation.reconciled>>
                       /\ Vouched(e, Activation.started, Activation.reconciled)
  BY <1>2 DEF Sealed
<1>4. e = Activation.id BY <1>3 DEF HasActivation, Restores, Seal
<1> QED BY <1>1, <1>3, <1>4

\* A call that is given the stored receipt starts from a true one.
LEMMA GivenStarts ==
    ASSUME World, Docs, HasActivation, NEW label \in Cleaning, BindsPlan(Request, Quote),
           label # "verify_list",
           NEW basis \in {"none", "replay"}, Goto(label, Given(basis)),
           UNCHANGED <<endpoints, ledger>>
    PROVE  Locals' /\ Place'
<1>1. /\ pc' = label /\ loc'.act = ledger.activation /\ loc'.id = Activation.id
      /\ loc' = [act |-> ledger.activation, id |-> Activation.id, started |-> 0,
                 ambiguous |-> FALSE, prior |-> ledger.intent, basis |-> basis, cursor |-> 0,
                 costs |-> <<>>]
  BY DEF Goto, Given, NoLocals
<1>2. Activation.id \in Ids BY RestoredIsTrue DEF Vouched
<1>3. Locals' BY <1>1, <1>2, BoundAssumption DEF Locals, Cleaning, Labels, Time
<1>4. Act' = Activation /\ loc'.act = {Act'} BY <1>1, RestoredIsTrue, TheOne DEF Act
<1>5. Vouched(Act.id, Act.started, Act.reconciled)' BY <1>4, RestoredIsTrue DEF Vouched
<1>6. Quote' = Quote BY DEF Quote
<1>7. pc' \notin {"act_create", "act_relist", "act_read", "adopt_read", "bill", "verify_list"}
  BY <1>1 DEF Cleaning
<1> QED BY <1>1, <1>3, <1>4, <1>5, <1>6, <1>7 DEF Place

\* The readback of a stranger's endpoint does not bind.
LEMMA OnlyOwnBinds ==
    ASSUME World, BindsPlan(Request, Quote), NEW e \in Ids, endpoints[e].state # "none", Binds(e)
    PROVE  endpoints[e].owner = "plan"
<1>1. endpoints[e].owner \in {"plan", "foreign"} BY DEF World, Endpoint
<1>2. CASE endpoints[e].owner = "foreign"
  BY <1>2, ForeignAssumption DEF Binds, ConfOf, ConfigBinds, BindsPlan
<1> QED BY <1>1, <1>2

LEMMA ReceiptSealed ==
    ASSUME World, NEW e, NEW started, NEW reconciled, Vouched(e, started, reconciled)
    PROVE  Sealed(Receipt(e, started, reconciled))
<1> DEFINE r == Receipt(e, started, reconciled)
           conf == ConfOf(e)
<1> HIDE DEF conf
<1>1. r = [id |-> e, conf |-> conf, started |-> started, reconciled |-> reconciled,
           seal |-> <<e, conf, started, reconciled>>]
  BY DEF Receipt, Seal, conf
<1> HIDE DEF r
<1>2. /\ r.id = e /\ r.conf = conf /\ r.started = started /\ r.reconciled = reconciled
      /\ r.seal = <<e, conf, started, reconciled>>
  BY <1>1
<1>3. e \in Ids BY DEF Vouched
<1> QED BY <1>1, <1>2, <1>3 DEF Sealed, r

LEMMA ActivationStored ==
    ASSUME World, Docs, NEW a, Sealed(a), StoreActivation(a), UNCHANGED endpoints
    PROVE  Docs'
<1>1. Grows BY GrowsBy
<1>2. CASE ledger' = ledger BY <1>1, <1>2, DocsKept
<1>3. CASE ledger' = [ledger EXCEPT !.activation = {a}]
  <2>1. ledger' = [quote |-> ledger.quote, attempted |-> ledger.attempted,
                   activation |-> {a}, submission |-> ledger.submission,
                   intent |-> ledger.intent, cleanup |-> ledger.cleanup, retired |-> ledger.retired]
    BY <1>3 DEF Docs
  <2>2. Sealed(a)' BY <1>1, StaysTrue
  <2> QED BY <1>1, <2>1, <2>2, DocsStored, TheOne DEF Docs
<1> QED BY <1>2, <1>3 DEF StoreActivation

-----------------------------------------------------------------------------
(* The steps of the operations. *)

\* A step of an operation that changes no document and no endpoint.
LEMMA QuietStep ==
    ASSUME Inv, UNCHANGED <<clock, catalog, endpoints, ledger, wire, deletes>>,
           upsets' \in 0..MaxUpsets
    PROVE  World' /\ Docs' /\ Grows
<1>1. Grows BY GrowsBy DEF Inv
<1> QED BY <1>1, WorldKept, DocsKept DEF Inv, World

\* A step that ends its operation with the ledger unchanged.
LEMMA QuietEnd ==
    ASSUME Inv, UNCHANGED <<clock, catalog, endpoints, ledger, wire, deletes>>,
           upsets' \in 0..MaxUpsets, End
    PROVE  Inv'
BY QuietStep, PlaceEnds DEF Inv

LEMMA QuoteStep == ASSUME Inv, QuotePlannedEndpoint PROVE Inv'
<1>1. PICK q : ledger' = [ledger EXCEPT !.quote = {q}] BY DEF QuotePlannedEndpoint
<1>2. ledger' = [quote |-> {q}, attempted |-> ledger.attempted,
                 activation |-> ledger.activation, submission |-> ledger.submission,
                 intent |-> ledger.intent, cleanup |-> ledger.cleanup, retired |-> ledger.retired]
  BY <1>1 DEF Inv, Docs
<1>3. /\ pc = "idle" /\ pc' = pc /\ loc' = loc
      /\ UNCHANGED <<clock, catalog, endpoints, wire, deletes, upsets>>
  BY DEF QuotePlannedEndpoint, At
<1>4. Grows BY <1>3, GrowsBy DEF Inv
<1>5. World' BY <1>3, <1>4, WorldKept DEF Inv, World
<1>6. Docs' BY <1>2, <1>4, DocsStored, TheOne DEF Inv, Docs
<1>7. Locals' /\ Place' BY <1>3 DEF Inv, Locals, Place, Buying, Cleaning, Holding
<1> QED BY <1>5, <1>6, <1>7 DEF Inv

LEMMA ActivateStep ==
    ASSUME Inv, ActivateReplay \/ ReplayRead \/ Activate \/ ActivateObserve \/ ActivateList \/ ActivateRelist
    PROVE  Inv'
<1>1. CASE ActivateReplay
  <2>1. UNCHANGED <<clock, catalog, endpoints, ledger, wire, deletes, upsets>> /\ upsets' \in 0..MaxUpsets
    BY <1>1 DEF ActivateReplay, Inv, World
  <2>3. Locals' /\ Place' BY <1>1, GivenStarts DEF ActivateReplay, Inv, Cleaning
  <2> QED BY <2>1, <2>3, QuietStep DEF Inv
<1>2. CASE ReplayRead BY <1>2, QuietEnd DEF ReplayRead, Inv, World
<1>3. CASE Activate
  <2>1. ledger' = [quote |-> ledger.quote, attempted |-> TRUE,
                   activation |-> ledger.activation, submission |-> ledger.submission,
                   intent |-> ledger.intent, cleanup |-> ledger.cleanup, retired |-> ledger.retired]
    BY <1>3 DEF Activate, Inv, Docs
  <2>2. UNCHANGED <<clock, catalog, endpoints, wire, deletes, upsets>> BY <1>3 DEF Activate
  <2>3. Grows BY <2>2, GrowsBy DEF Inv
  <2>4. World' BY <2>2, <2>3, WorldKept DEF Inv, World
  <2>5. Docs' BY <2>1, <2>3, DocsStored, TheOne DEF Inv, Docs
  <2>6. pc' = "act_observe" /\ loc' = NoLocals /\ BindsPlan(Request, Quote) BY <1>3 DEF Activate, Goto
  <2>7. Locals' BY <2>6, BoundAssumption DEF Locals, NoLocals, Labels, Time
  <2>8. Quote' = Quote BY <2>1 DEF Quote
  <2>9. Place' BY <2>6, <2>8 DEF Place, Holding, Cleaning
  <2> QED BY <2>4, <2>5, <2>7, <2>9 DEF Inv
<1>4. CASE ActivateObserve
  <2>1. UNCHANGED <<clock, catalog, endpoints, ledger, wire, deletes, upsets>> /\ upsets' \in 0..MaxUpsets
    BY <1>4 DEF ActivateObserve, Inv, World
  <2>2. CASE End BY <2>1, <2>2, QuietEnd
  <2>3. CASE Jump("act_list")
    <3>1. Locals' BY <2>3 DEF Jump, Inv, Locals, Labels
    <3>2. BindsPlan(Request, Quote) BY <1>4 DEF ActivateObserve, At, Inv, Place, Buying
    <3>3. Quote' = Quote BY <2>1 DEF Quote
    <3>4. Place' BY <2>3, <3>2, <3>3 DEF Place, Jump, Holding, Cleaning
    <3> QED BY <2>1, <3>1, <3>4, QuietStep DEF Inv
  <2> QED BY <1>4, <2>2, <2>3 DEF ActivateObserve
<1>5. CASE ActivateList
  <2>1. UNCHANGED <<clock, catalog, endpoints, ledger, wire, deletes, upsets>> /\ upsets' \in 0..MaxUpsets
    BY <1>5 DEF ActivateList, Inv, World
  <2>2. CASE End BY <2>1, <2>2, QuietEnd
  <2>3. CASE Goto("act_create", [NoLocals EXCEPT !.started = clock])
    <3>1. loc' = [act |-> {}, id |-> NoId, started |-> clock, ambiguous |-> FALSE, prior |-> {},
                  basis |-> "none", cursor |-> 0, costs |-> <<>>] /\ pc' = "act_create"
      BY <2>3 DEF Goto, NoLocals
    <3>2. clock \in Time BY DEF Inv, World
    <3>3. Locals' BY <3>1, <3>2 DEF Locals, Labels
    <3>4. BindsPlan(Request, Quote) BY <1>5 DEF ActivateList, At, Inv, Place, Buying
    <3>5. Quote' = Quote BY <2>1 DEF Quote
    <3>6. loc'.started <= clock' BY <2>1, <3>1, <3>2, BoundAssumption DEF Time
    <3>7. Place' BY <3>1, <3>4, <3>5, <3>6 DEF Place, Holding, Cleaning
    <3> QED BY <2>1, <3>3, <3>7, QuietStep DEF Inv
  <2> QED BY <1>5, <2>2, <2>3 DEF ActivateList
<1>6. CASE ActivateRelist
  <2>1. UNCHANGED <<clock, catalog, endpoints, ledger, wire, deletes, upsets>> /\ upsets' \in 0..MaxUpsets
    BY <1>6 DEF ActivateRelist, Inv, World
  <2>2. CASE End BY <2>1, <2>2, QuietEnd
  <2>3. CASE Cardinality(Listed) = 1 /\ Goto("act_read", [loc EXCEPT !.id = The(Listed), !.ambiguous = TRUE])
    <3>1. The(Listed) \in Ids /\ endpoints[The(Listed)].state = "live"
      <4>1. Listed # {} BY <2>3, FS_EmptySet
      <4>2. The(Listed) \in Listed BY <4>1 DEF The
      <4> QED BY <4>2 DEF Listed
    <3>2. loc' = [act |-> loc.act, id |-> The(Listed), started |-> loc.started, ambiguous |-> TRUE,
                  prior |-> loc.prior, basis |-> loc.basis, cursor |-> loc.cursor, costs |-> loc.costs]
          /\ pc' = "act_read"
      BY <2>3 DEF Goto, Inv, Locals
    <3>3. Locals' BY <3>1, <3>2 DEF Inv, Locals, Labels
    <3>4. BindsPlan(Request, Quote) /\ loc.started <= clock
      BY <1>6 DEF ActivateRelist, At, Inv, Place, Buying
    <3>5. Quote' = Quote BY <2>1 DEF Quote
    <3>6. loc'.id = The(Listed) /\ loc'.ambiguous /\ loc'.started = loc.started BY <3>2
    <3>7. Place' BY <2>1, <3>1, <3>2, <3>4, <3>5, <3>6 DEF Place, Holding, Cleaning
    <3> QED BY <2>1, <3>3, <3>7, QuietStep DEF Inv
  <2> QED BY <1>6, <2>2, <2>3 DEF ActivateRelist
<1> QED BY <1>1, <1>2, <1>3, <1>4, <1>5, <1>6

LEMMA AdoptStep == ASSUME Inv, Adopt PROVE Inv'
<1>1. UNCHANGED <<clock, catalog, endpoints, ledger, wire, deletes, upsets>> /\ upsets' \in 0..MaxUpsets
  BY DEF Adopt, Inv, World
<1>2. The(Listed) \in Ids /\ endpoints[The(Listed)].state = "live"
  <2>1. Listed # {} BY FS_EmptySet DEF Adopt
  <2>2. The(Listed) \in Listed BY <2>1 DEF The
  <2> QED BY <2>2 DEF Listed
<1>3. loc' = [act |-> {}, id |-> The(Listed), started |-> 0, ambiguous |-> FALSE, prior |-> {},
              basis |-> "none", cursor |-> 0, costs |-> <<>>] /\ pc' = "adopt_read"
  BY DEF Adopt, Goto, NoLocals
<1>4. Locals' BY <1>2, <1>3, BoundAssumption DEF Locals, Labels, Time
<1>5. Quote' = Quote /\ BindsPlan(Request, Quote) BY <1>1 DEF Quote, Adopt
<1>6. Place' BY <1>1, <1>2, <1>3, <1>5 DEF Place, Holding, Cleaning
<1> QED BY <1>1, <1>4, <1>6, QuietStep DEF Inv

\* The two readbacks that make a receipt.
LEMMA ReadStep == ASSUME Inv, ActivateRead \/ AdoptRead PROVE Inv'
<1>1. PICK verdict : Reads(loc.id, verdict) /\
          \/ UNCHANGED ledger
          \/ /\ Binds(loc.id)
             /\ \/ pc = "act_read" /\ StoreActivation(Receipt(loc.id, loc.started, loc.ambiguous))
                \/ pc = "adopt_read" /\ StoreActivation(Receipt(loc.id, clock, TRUE))
  BY DEF ActivateRead, AdoptRead, At
<1>2. End /\ UNCHANGED <<clock, catalog, endpoints, wire, deletes>> BY DEF ActivateRead, AdoptRead
<1>3. upsets' \in 0..MaxUpsets BY <1>1, UpsetsBounded DEF Inv
<1>4. CASE UNCHANGED ledger BY <1>2, <1>3, <1>4, QuietEnd
<1>5. ASSUME Binds(loc.id), NEW started, NEW reconciled,
             StoreActivation(Receipt(loc.id, started, reconciled)),
             \/ pc = "act_read" /\ started = loc.started /\ reconciled = loc.ambiguous
             \/ pc = "adopt_read" /\ started = clock /\ reconciled = TRUE
      PROVE  Inv'
  <2>1. loc.id \in Ids /\ endpoints[loc.id].state # "none" /\ BindsPlan(Request, Quote)
    BY <1>5 DEF Inv, Place, Buying
  <2>2. endpoints[loc.id].owner = "plan" BY <1>5, <2>1, OnlyOwnBinds DEF Inv
  <2>3. Vouched(loc.id, started, reconciled)
    BY <1>5, <2>1, <2>2 DEF Vouched, Inv, Place, Locals, World
  <2>4. Docs' BY <1>2, <1>5, <2>3, ReceiptSealed, ActivationStored DEF Inv
  <2>5. Grows BY <1>2, GrowsBy DEF Inv
  <2>6. World' BY <1>2, <1>3, <2>5, WorldKept DEF Inv, World
  <2> QED BY <1>2, <2>4, <2>6, PlaceEnds DEF Inv
<1> QED BY <1>1, <1>4, <1>5

LEMMA CreateStep == ASSUME Inv, ActivateCreate PROVE Inv'
<1>1. PICK outcome :
          /\ Calls(outcome)
          /\ \/ \E e \in Ids :
                   /\ Created(e)
                   /\ UNCHANGED wire
                   /\ Goto("act_read", [loc EXCEPT !.id = e]) \/ Jump("act_relist") \/ End
             \/ UNCHANGED endpoints /\ ((Jump("act_relist") /\ Late("create")) \/ (End /\ UNCHANGED wire))
  BY DEF ActivateCreate
<1>2. pc = "act_create" /\ UNCHANGED <<clock, catalog, ledger, deletes>> BY DEF ActivateCreate, At
<1>3. upsets' \in 0..MaxUpsets BY <1>1, UpsetsBounded DEF Inv
<1>4. BindsPlan(Request, Quote) /\ loc.started <= clock /\ Quote' = Quote
  BY <1>2 DEF Inv, Place, Buying, Quote
<1>5. ASSUME Grows, wire' \subseteq {"create"} \cup Ids PROVE World' /\ Docs'
  <2>1. World' BY <1>2, <1>3, <1>5, WorldKept DEF Inv, World
  <2>2. Docs' BY <1>2, <1>5, DocsKept DEF Inv
  <2> QED BY <2>1, <2>2
<1>6. wire \subseteq {"create"} \cup Ids /\ (Late("create") => wire' \subseteq {"create"} \cup Ids)
  BY DEF Inv, World, Late
<1>7. ASSUME Jump("act_relist") PROVE Locals' /\ Place'
  <2>1. pc' = "act_relist" /\ loc' = loc BY <1>7 DEF Jump
  <2>2. Locals' BY <2>1 DEF Inv, Locals, Labels
  <2> QED BY <1>2, <1>4, <2>1, <2>2 DEF Place, Holding, Cleaning
<1>8. ASSUME NEW e \in Ids, Created(e), Goto("act_read", [loc EXCEPT !.id = e]) PROVE Locals' /\ Place'
  <2>1. loc' = [act |-> loc.act, id |-> e, started |-> loc.started, ambiguous |-> loc.ambiguous,
                prior |-> loc.prior, basis |-> loc.basis, cursor |-> loc.cursor, costs |-> loc.costs]
        /\ pc' = "act_read"
    BY <1>8 DEF Goto, Inv, Locals
  <2>2. Locals' BY <2>1 DEF Inv, Locals, Labels
  <2>3. Grows /\ endpoints'[e].owner = "plan" /\ endpoints'[e].born = clock BY <1>8, GrowsBy DEF Inv
  <2>4. endpoints'[e].state # "none" BY <2>3 DEF Grows, Lives
  <2>5. loc'.id = e /\ loc'.started = loc.started BY <2>1
  <2> QED BY <1>2, <1>4, <2>1, <2>2, <2>3, <2>4, <2>5 DEF Place, Holding, Cleaning
<1>9. CASE \E e \in Ids : /\ Created(e) /\ UNCHANGED wire
                          /\ Goto("act_read", [loc EXCEPT !.id = e]) \/ Jump("act_relist") \/ End
  <2>1. PICK e \in Ids : /\ Created(e) /\ UNCHANGED wire
                         /\ Goto("act_read", [loc EXCEPT !.id = e]) \/ Jump("act_relist") \/ End
    BY <1>9
  <2>2. World' /\ Docs' BY <1>5, <1>6, <2>1, GrowsBy DEF Inv
  <2>3. Locals' /\ Place' BY <1>7, <1>8, <2>1, PlaceEnds
  <2> QED BY <2>2, <2>3 DEF Inv
<1>10. CASE UNCHANGED endpoints /\ ((Jump("act_relist") /\ Late("create")) \/ (End /\ UNCHANGED wire))
  <2>1. World' /\ Docs' BY <1>5, <1>6, <1>10, GrowsBy DEF Inv
  <2>2. Locals' /\ Place' BY <1>7, <1>10, PlaceEnds
  <2> QED BY <2>1, <2>2 DEF Inv
<1> QED BY <1>1, <1>9, <1>10

LEMMA AuthorizeStep == ASSUME Inv, AuthorizeNext PROVE Inv'
<1>1. CASE Authorize
  <2>1. UNCHANGED <<clock, catalog, endpoints, ledger, wire, deletes, upsets>> /\ upsets' \in 0..MaxUpsets
    BY <1>1 DEF Authorize, Inv, World
  <2>2. Locals' /\ Place' BY <1>1, GivenStarts DEF Authorize, Inv, Cleaning
  <2> QED BY <2>1, <2>2, QuietStep DEF Inv
<1>2. CASE AuthorizeObserve
  <2>1. UNCHANGED <<clock, catalog, endpoints, ledger, wire, deletes, upsets>> /\ upsets' \in 0..MaxUpsets
    BY <1>2 DEF AuthorizeObserve, Inv, World
  <2>2. CASE End BY <2>1, <2>2, QuietEnd
  <2>3. CASE Jump("auth_read")
    <3>1. pc = "auth_observe" /\ pc' = "auth_read" /\ loc' = loc BY <1>2, <2>3 DEF AuthorizeObserve, At, Jump
    <3>2. Locals' BY <3>1 DEF Inv, Locals, Labels
    <3>3. Place' BY <2>1, <3>1, <3>2, QuietStep, HoldingGoes DEF Inv, Cleaning
    <3> QED BY <2>1, <3>2, <3>3, QuietStep DEF Inv
  <2> QED BY <1>2, <2>2, <2>3 DEF AuthorizeObserve
<1>3. CASE AuthorizeRead
  <2>1. PICK verdict : /\ Reads(loc.id, verdict)
                       /\ \/ UNCHANGED ledger
                          \/ \E doc : ledger' = [ledger EXCEPT !.submission = {doc}]
    BY <1>3 DEF AuthorizeRead
  <2>2. End /\ UNCHANGED <<clock, catalog, endpoints, wire, deletes>> BY <1>3 DEF AuthorizeRead
  <2>3. upsets' \in 0..MaxUpsets BY <2>1, UpsetsBounded DEF Inv
  <2>4. CASE UNCHANGED ledger BY <2>2, <2>3, <2>4, QuietEnd
  <2>5. ASSUME NEW doc, ledger' = [ledger EXCEPT !.submission = {doc}] PROVE Inv'
    <3>1. ledger' = [quote |-> ledger.quote, attempted |-> ledger.attempted,
                     activation |-> ledger.activation, submission |-> {doc},
                     intent |-> ledger.intent, cleanup |-> ledger.cleanup, retired |-> ledger.retired]
      BY <2>5 DEF Inv, Docs
    <3>2. Grows BY <2>2, GrowsBy DEF Inv
    <3>3. World' BY <2>2, <2>3, <3>2, WorldKept DEF Inv, World
    <3>4. Docs' BY <3>1, <3>2, DocsStored, TheOne DEF Inv, Docs
    <3> QED BY <2>2, <3>3, <3>4, PlaceEnds DEF Inv
  <2> QED BY <2>1, <2>4, <2>5
<1> QED BY <1>1, <1>2, <1>3 DEF AuthorizeNext

\* The steps of a cleanup up to the intent, and the first look at the absence.
LEMMA CleanupReadStep ==
    ASSUME Inv, Cleanup \/ CleanupGet \/ CleanupWorkers \/ VerifyGet
    PROVE  Inv'
<1>1. UNCHANGED <<clock, catalog, endpoints, ledger, wire, deletes>>
  BY DEF Cleanup, CleanupGet, CleanupWorkers, VerifyGet
<1>2. upsets' \in 0..MaxUpsets
  <2>1. UNCHANGED upsets \/ \E verdict : Reads(loc.id, verdict)
    BY DEF Cleanup, CleanupGet, CleanupWorkers, VerifyGet
  <2> QED BY <2>1, UpsetsBounded DEF Inv, World
<1>3. World' /\ Docs' /\ Grows BY <1>1, <1>2, QuietStep
<1>4. CASE End BY <1>1, <1>2, <1>4, QuietEnd
<1>5. CASE Cleanup
  <2>1. Locals' /\ Place' BY <1>5, GivenStarts DEF Cleanup, Inv, Cleaning
  <2> QED BY <1>3, <2>1 DEF Inv
<1>6. ASSUME NEW basis \in {"none", "acknowledged", "ambiguous", "interrupted", "replay"},
             pc \in Cleaning, pc' \in Cleaning,
             loc' = [loc EXCEPT !.basis = basis] \/ loc' = loc,
             pc' = "verify_list" => endpoints[loc.id].state = "gone"
      PROVE  Inv'
  <2>1. /\ loc' = [act |-> loc'.act, id |-> loc'.id, started |-> loc'.started,
                   ambiguous |-> loc'.ambiguous, prior |-> loc'.prior, basis |-> loc'.basis,
                   cursor |-> loc'.cursor, costs |-> loc'.costs]
        /\ loc'.act = loc.act /\ loc'.id = loc.id /\ loc'.started = loc.started
        /\ loc'.basis \in {"none", "acknowledged", "ambiguous", "interrupted", "replay"}
    BY <1>6 DEF Inv, Locals
  <2>2. loc'.ambiguous \in BOOLEAN BY <1>6 DEF Inv, Locals
  <2>3. pc' \in Labels BY <1>6 DEF Cleaning, Labels
  <2>4. Locals' BY <2>1, <2>2, <2>3 DEF Inv, Locals
  <2>5. Place' BY <1>1, <1>3, <1>6, <2>1, <2>4, HoldingGoes DEF Inv
  <2> QED BY <1>3, <2>4, <2>5 DEF Inv
<1>7. CASE CleanupGet
  <2>1. \/ End
        \/ Goto("verify_get", [loc EXCEPT !.basis = "interrupted"])
        \/ Jump("clean_workers")
    BY <1>7 DEF CleanupGet
  <2>2. pc = "clean_get" BY <1>7 DEF CleanupGet, At
  <2> QED BY <1>4, <1>6, <2>1, <2>2 DEF Goto, Jump, Cleaning
<1>8. CASE CleanupWorkers
  <2>1. End \/ Jump("clean_intent") BY <1>8 DEF CleanupWorkers
  <2>2. pc = "clean_workers" BY <1>8 DEF CleanupWorkers, At
  <2> QED BY <1>4, <1>6, <2>1, <2>2 DEF Jump, Cleaning
<1>9. CASE VerifyGet
  <2>1. End \/ (Reads(loc.id, "missing") /\ Jump("verify_list")) BY <1>9 DEF VerifyGet
  <2>2. pc = "verify_get" BY <1>9 DEF VerifyGet, At
  <2>3. loc.id \in Ids /\ endpoints[loc.id].owner = "plan"
    BY <2>2 DEF Inv, Place, Holding, Cleaning, Vouched
  <2>4. Reads(loc.id, "missing") => endpoints[loc.id].state = "gone"
    <3>1. endpoints[loc.id].state \in {"hidden", "live", "gone"} BY <2>3 DEF Inv, World, Endpoint
    <3> QED BY <2>3, <3>1 DEF Reads, Exists
  <2> QED BY <1>4, <1>6, <2>1, <2>2, <2>4 DEF Jump, Cleaning
<1> QED BY <1>5, <1>7, <1>8, <1>9

\* The DELETE leaves for the endpoint of a true receipt.
LEMMA IntentStep == ASSUME Inv, CleanupIntent PROVE Inv'
<1>1. pc = "clean_intent" /\ UNCHANGED <<clock, catalog, endpoints, wire, upsets>>
  BY DEF CleanupIntent, At
<1>2. Grows BY <1>1, GrowsBy DEF Inv
<1>3. CASE End /\ UNCHANGED <<ledger, deletes>> BY <1>1, <1>3, QuietEnd DEF Inv, World
<1>4. CASE /\ ledger' = [ledger EXCEPT !.intent = {[id |-> loc.id]}] \/ ledger' = ledger
           /\ Send
  <2>1. loc.id \in Ids /\ endpoints[loc.id].owner = "plan"
    BY <1>1 DEF Inv, Place, Holding, Cleaning, Vouched
  <2>2. deletes' = deletes \cup {loc.id} BY <1>4 DEF Send
  <2>3. World' BY <1>1, <1>2, <2>1, <2>2, WorldKept DEF Inv, World
  <2>4. PICK intent : /\ intent = {[id |-> loc.id]} \/ intent = ledger.intent
                      /\ ledger' = [ledger EXCEPT !.intent = intent]
    <3>1. [ledger EXCEPT !.intent = ledger.intent] = ledger BY DEF Inv, Docs
    <3> QED BY <1>4, <3>1
  <2>5. ledger' = [quote |-> ledger.quote, attempted |-> ledger.attempted,
                   activation |-> ledger.activation, submission |-> ledger.submission,
                   intent |-> intent, cleanup |-> ledger.cleanup, retired |-> ledger.retired]
    BY <2>4 DEF Inv, Docs
  <2>6. AtMostOne(intent) BY <2>4 DEF AtMostOne, Inv, Docs
  <2>7. AtMostOne(ledger'.intent) /\ ledger'.intent = intent BY <2>5, <2>6
  <2>8. Docs' BY <1>2, <2>5, <2>7, DocsStored DEF Inv, Docs
  <2>9. pc' = "clean_delete" /\ loc' = loc BY <1>4 DEF Send, Jump
  <2>10. Locals' BY <2>9 DEF Inv, Locals, Labels
  <2>11. Place' BY <1>1, <1>2, <2>5, <2>9, <2>10, HoldingGoes DEF Inv, Cleaning
  <2> QED BY <2>3, <2>8, <2>10, <2>11 DEF Inv
<1> QED BY <1>3, <1>4 DEF CleanupIntent

LEMMA DeleteStep == ASSUME Inv, CleanupDelete PROVE Inv'
<1>1. pc = "clean_delete" /\ UNCHANGED <<clock, catalog, ledger, deletes>> BY DEF CleanupDelete, At
<1>2. loc.id \in Ids BY <1>1 DEF Inv, Place, Holding, Cleaning, Vouched
<1>3. /\ Calm \/ \E outcome : Calls(outcome)
      /\ \/ UNCHANGED endpoints /\ (UNCHANGED wire \/ Late(loc.id))
         \/ Exists(loc.id) /\ Removed(loc.id) /\ UNCHANGED wire
      /\ \/ End
         \/ Goto("verify_get", [loc EXCEPT !.basis = "acknowledged"])
         \/ Goto("verify_get", [loc EXCEPT !.basis = "ambiguous"])
  <2>1. CASE Calm /\ UNCHANGED <<endpoints, wire>> /\ End BY <2>1
  <2>2. CASE \E outcome \in Outcomes(DeleteEndpoint) :
             /\ Exists(loc.id)
             /\ Calls(outcome)
             /\ IF outcome[1] THEN Removed(loc.id) /\ UNCHANGED wire
                ELSE UNCHANGED endpoints /\ IF outcome[2] = "ambiguous" THEN Late(loc.id)
                                           ELSE UNCHANGED wire
             /\ CASE outcome[2] = "ok" ->
                       Goto("verify_get", [loc EXCEPT !.basis = "acknowledged"])
                  [] outcome[2] = "ambiguous" ->
                       Goto("verify_get", [loc EXCEPT !.basis = "ambiguous"])
                  [] OTHER -> End
    BY <2>2
  <2> QED BY <2>1, <2>2 DEF CleanupDelete
<1>4. upsets' \in 0..MaxUpsets BY <1>3, UpsetsBounded DEF Inv
<1>5. Grows BY <1>2, <1>3, GrowsBy DEF Inv, Exists
<1>6. wire' \subseteq {"create"} \cup Ids BY <1>2, <1>3 DEF Late, Inv, World
<1>7. World' BY <1>1, <1>4, <1>5, <1>6, WorldKept DEF Inv, World
<1>8. Docs' BY <1>1, <1>5, DocsKept DEF Inv
<1>9. CASE End BY <1>7, <1>8, <1>9, PlaceEnds DEF Inv
<1>10. ASSUME NEW basis \in {"acknowledged", "ambiguous"}, Goto("verify_get", [loc EXCEPT !.basis = basis])
       PROVE  Inv'
  <2>1. /\ pc' = "verify_get"
        /\ loc' = [act |-> loc.act, id |-> loc.id, started |-> loc.started,
                   ambiguous |-> loc.ambiguous, prior |-> loc.prior, basis |-> basis,
                   cursor |-> loc.cursor, costs |-> loc.costs]
    BY <1>10 DEF Goto, Inv, Locals
  <2>2. Locals' BY <2>1 DEF Inv, Locals, Labels
  <2>3. Place' BY <1>1, <1>5, <2>1, <2>2, HoldingGoes DEF Inv, Cleaning
  <2> QED BY <1>7, <1>8, <2>2, <2>3 DEF Inv
<1> QED BY <1>3, <1>9, <1>10

LEMMA VerifyListStep == ASSUME Inv, VerifyList PROVE Inv'
<1>1. /\ pc = "verify_list" /\ End
      /\ UNCHANGED <<clock, catalog, endpoints, wire, deletes, upsets>>
  BY DEF VerifyList, At
<1>2. CASE UNCHANGED ledger BY <1>1, <1>2, QuietEnd DEF Inv, World
<1>3. CASE ledger' = [ledger EXCEPT !.cleanup =
                {[id |-> loc.id, basis |-> loc.basis, absent |-> clock]}]
  <2>0. PICK c : c = [id |-> loc.id, basis |-> loc.basis, absent |-> clock] OBVIOUS
  <2>1. /\ loc.id \in Ids /\ endpoints[loc.id].state = "gone" /\ clock \in Time
        /\ endpoints[loc.id].died <= clock
    BY <1>1 DEF Inv, Place, Holding, Cleaning, Vouched, World
  <2>2. Absent(c)' BY <1>1, <2>0, <2>1 DEF Absent
  <2>3. ledger' = [quote |-> ledger.quote, attempted |-> ledger.attempted,
                   activation |-> ledger.activation, submission |-> ledger.submission,
                   intent |-> ledger.intent, cleanup |-> {c}, retired |-> ledger.retired]
    BY <1>3, <2>0 DEF Inv, Docs
  <2>4. Grows BY <1>1, GrowsBy DEF Inv
  <2>5. World' BY <1>1, <2>4, WorldKept DEF Inv, World
  <2>6. Docs' BY <2>2, <2>3, <2>4, DocsStored, TheOne DEF Inv, Docs
  <2> QED BY <1>1, <2>5, <2>6, PlaceEnds DEF Inv
<1> QED BY <1>2, <1>3 DEF VerifyList

-----------------------------------------------------------------------------
(* The billing of a retired endpoint. *)

LEMMA RetiredStep == ASSUME Inv, RetiredBilling PROVE Inv'
<1> DEFINE c == The(ledger.cleanup)
<1>1. UNCHANGED <<clock, catalog, endpoints, ledger, wire, deletes, upsets>> /\ upsets' \in 0..MaxUpsets
  BY DEF RetiredBilling, Inv, World
<1>2. /\ HasActivation /\ ledger.cleanup # {} /\ c.id = Activation.id /\ c.absent > Activation.started
      /\ Goto("bill", [Given("none") EXCEPT !.cursor = HourFloor(Activation.started)])
  BY DEF RetiredBilling, Window
<1>3. ledger.cleanup = {c} BY <1>2, TheOne DEF Inv, Docs
<1> HIDE DEF c
<1>4. c.absent \in Time /\ endpoints[Activation.id].state = "gone" BY <1>2, <1>3 DEF Inv, Docs, Absent
<1>5. /\ ledger.activation = {Activation} /\ Activation.id \in Ids /\ Activation.started \in Time
      /\ Vouched(Activation.id, Activation.started, Activation.reconciled)
  BY <1>2, RestoredIsTrue DEF Inv, Vouched
<1>6. /\ HourFloor(Activation.started) \in Nat
      /\ HourFloor(Activation.started) < HourCeiling(c.absent)
  <2>1. Activation.started \in Nat /\ c.absent \in Nat BY <1>4, <1>5 DEF Time
  <2>2. /\ HourFloor(Activation.started) \in Nat /\ HourFloor(Activation.started) <= Activation.started
        /\ HourCeiling(c.absent) \in Nat /\ c.absent <= HourCeiling(c.absent)
    BY <2>1, Hours
  <2> QED BY <1>2, <2>1, <2>2
<1>7. /\ pc' = "bill"
      /\ loc' = [act |-> ledger.activation, id |-> Activation.id, started |-> 0, ambiguous |-> FALSE,
                 prior |-> ledger.intent, basis |-> "none",
                 cursor |-> HourFloor(Activation.started), costs |-> <<>>]
  BY <1>2 DEF Goto, Given, NoLocals
<1>8. Locals' BY <1>5, <1>7, BoundAssumption DEF Locals, Labels, Time
<1>9. Act' = Activation /\ loc'.act = {Act'} BY <1>5, <1>7, TheOne DEF Act
<1>10. Vouched(Act.id, Act.started, Act.reconciled)' BY <1>1, <1>5, <1>9 DEF Vouched
<1>11. \A from : Costed(<<>>, from, from) BY DEF Costed
<1>12. The(ledger.cleanup)' = c /\ ledger'.cleanup = {c} BY <1>1, <1>3, TheOne
<1>13. Place' BY <1>1, <1>2, <1>4, <1>6, <1>7, <1>9, <1>10, <1>11, <1>12 DEF Place, Buying, Cleaning
<1> QED BY <1>1, <1>8, <1>13, QuietStep DEF Inv

\* A page is a tuple of at most two records.
LEMMA PageIsSequence ==
    ASSUME NEW from, NEW until, NEW page \in Pages(from, until)
    PROVE  Len(page.records) \in Nat /\ DOMAIN page.records = 1..Len(page.records)
<1>1. PICK s : /\ page.records = s
               /\ \/ s = <<>>
                  \/ \E r : s = <<r>>
                  \/ \E r, q : s = <<r, q>>
  BY DEF Pages
<1> QED BY <1>1

LEMMA BillStep == ASSUME Inv, BillPage PROVE Inv'
<1> DEFINE c == The(ledger.cleanup)
           until == HourCeiling(c.absent)
           batch == BatchUntil(loc.cursor, until)
           from == HourFloor(Act.started)
<1>1. pc = "bill" /\ UNCHANGED <<clock, catalog, endpoints, wire, deletes, upsets>> BY DEF BillPage, At
<1>2. Window(Act, c)[2] = until BY DEF Window
<1>3. PICK seen \in Accounts(loc.cursor, batch) :
          \/ End /\ UNCHANGED ledger
          \/ /\ seen.kind = "costs" /\ batch < until
             /\ Goto("bill", [loc EXCEPT !.cursor = batch, !.costs = loc.costs \o seen.costs])
             /\ UNCHANGED ledger
          \/ /\ seen.kind = "costs" /\ ~(batch < until)
             /\ ledger' = [ledger EXCEPT !.retired =
                    {[id |-> loc.id, from |-> from, until |-> until,
                      costs |-> loc.costs \o seen.costs, reconciled |-> Act.reconciled]}]
             /\ End
  BY <1>2 DEF BillPage
<1> DEFINE costs == loc.costs \o seen.costs
<1>4. /\ loc.act = {Act} /\ loc.id = Act.id /\ Vouched(Act.id, Act.started, Act.reconciled)
      /\ endpoints[loc.id].state = "gone" /\ ledger.cleanup = {c} /\ c.id = loc.id
      /\ loc.cursor \in Nat /\ loc.cursor < until /\ Costed(loc.costs, from, loc.cursor)
  BY <1>1 DEF Inv, Place, Holding
<1>5. until \in Nat
  <2>1. c.absent \in Nat BY <1>4 DEF Inv, Docs, Absent, Time
  <2> QED BY <2>1, Hours
<1>6. batch \in Nat /\ loc.cursor < batch /\ batch <= until BY <1>4, <1>5, Batches
<1>7. Grows /\ World'
  <2>1. Grows BY <1>1, GrowsBy DEF Inv
  <2> QED BY <1>1, <2>1, WorldKept DEF Inv, World
<1>8. ASSUME seen.kind = "costs" PROVE Costed(costs, from, batch) /\ OneCostPerHour(costs, from, batch)
  <2>1. PICK page \in Pages(loc.cursor, batch) : seen = AuthoritativeHourCosts(page, loc.cursor, batch)
    BY DEF Accounts
  <2>2. Len(page.records) \in Nat /\ DOMAIN page.records = 1..Len(page.records) BY PageIsSequence
  <2> HIDE DEF batch, from, until, c
  <2>3. Costed(seen.costs, loc.cursor, batch) /\ OneCostPerHour(seen.costs, loc.cursor, batch)
    BY <1>4, <1>6, <1>8, <2>1, <2>2, PageCovers
  <2> QED BY <1>4, <2>3, PagesJoin
<1> HIDE DEF costs, batch, until, from, c
<1>9. CASE End /\ UNCHANGED ledger BY <1>1, <1>9, QuietEnd DEF Inv, World
<1>10. CASE /\ seen.kind = "costs" /\ batch < until /\ UNCHANGED ledger
            /\ Goto("bill", [loc EXCEPT !.cursor = batch, !.costs = costs])
  <2>1. /\ pc' = "bill"
        /\ loc' = [act |-> loc.act, id |-> loc.id, started |-> loc.started,
                   ambiguous |-> loc.ambiguous, prior |-> loc.prior, basis |-> loc.basis,
                   cursor |-> batch, costs |-> costs]
    BY <1>10 DEF Goto, Inv, Locals
  <2>2. Locals' BY <2>1 DEF Inv, Locals, Labels
  <2>3. Act' = Act /\ loc'.act = {Act'} /\ loc'.id = Act'.id BY <1>4, <2>1 DEF Act
  <2>4. Vouched(Act.id, Act.started, Act.reconciled)' BY <1>1, <1>4, <2>3 DEF Vouched
  <2>5. The(ledger.cleanup)' = c /\ ledger'.cleanup = {c} BY <1>4, <1>10 DEF c
  <2>6. batch < HourCeiling(The(ledger.cleanup)'.absent) BY <1>10, <2>5 DEF until
  <2>7. Costed(costs, HourFloor(Act'.started), batch) BY <1>8, <1>10, <2>3 DEF from
  <2>8. Place' BY <1>1, <1>4, <1>6, <2>1, <2>3, <2>4, <2>5, <2>6, <2>7 DEF Place, Buying, Cleaning
  <2>9. Docs' BY <1>7, <1>10, DocsKept DEF Inv
  <2> QED BY <1>7, <2>2, <2>8, <2>9 DEF Inv
<1>11. CASE /\ seen.kind = "costs" /\ ~(batch < until) /\ End
            /\ ledger' = [ledger EXCEPT !.retired =
                   {[id |-> loc.id, from |-> from, until |-> until, costs |-> costs,
                     reconciled |-> Act.reconciled]}]
  <2>0. PICK r : r = [id |-> loc.id, from |-> from, until |-> until, costs |-> costs,
                      reconciled |-> Act.reconciled]
    OBVIOUS
  <2>1. batch = until BY <1>5, <1>6, <1>11
  <2>2. OneCostPerHour(costs, from, until) BY <1>8, <1>11, <2>1
  <2>3. Act.reconciled \/ from <= endpoints[loc.id].born
    <3>1. Act.started \in Nat /\ endpoints[loc.id].born \in Nat
      BY <1>4 DEF Vouched, Time, Inv, World, Endpoint
    <3>2. from \in Nat /\ from <= Act.started BY <3>1, Hours DEF from
    <3> QED BY <1>4, <3>1, <3>2 DEF Vouched
  <2>4. endpoints[loc.id].died <= until
    <3>1. c.absent \in Nat /\ endpoints[loc.id].died \in Nat /\ endpoints[loc.id].died <= c.absent
      BY <1>4 DEF Inv, Docs, Absent, World, Endpoint, Vouched, Time
    <3>2. c.absent <= until /\ until \in Nat BY <3>1, Hours DEF until
    <3> QED BY <3>1, <3>2
  <2>5. r.id \in Ids /\ (r.reconciled \/ Billed(r)')
    <3>1. r.id = loc.id /\ r.from = from /\ r.until = until /\ r.costs = costs
          /\ (r.reconciled <=> Act.reconciled)
      BY <2>0
    <3> QED BY <1>1, <1>4, <2>2, <2>3, <2>4, <3>1 DEF Billed, Vouched
  <2>6. ledger' = [quote |-> ledger.quote, attempted |-> ledger.attempted,
                   activation |-> ledger.activation, submission |-> ledger.submission,
                   intent |-> ledger.intent, cleanup |-> ledger.cleanup, retired |-> {r}]
    BY <1>11, <2>0 DEF Inv, Docs
  <2>7. Docs' BY <1>7, <2>5, <2>6, DocsStored, TheOne DEF Inv, Docs
  <2> QED BY <1>7, <1>11, <2>7, PlaceEnds DEF Inv
<1> QED BY <1>3, <1>9, <1>10, <1>11 DEF costs

-----------------------------------------------------------------------------
(* The environment. *)

\* A step that moves an endpoint or the clock and leaves the operation alone.
LEMMA OutsideStep ==
    ASSUME Inv, Grows, UNCHANGED <<ledger, pc, loc, deletes>>, clock <= clock', clock' \in Time,
           catalog' \in Catalogs, wire' \subseteq {"create"} \cup Ids, upsets' \in 0..MaxUpsets
    PROVE  Inv'
<1>1. World' BY WorldKept DEF Inv, World
<1>2. Docs' BY DocsKept DEF Inv
<1>3. Locals' /\ Place' BY PlaceKept DEF Inv
<1> QED BY <1>1, <1>2, <1>3 DEF Inv

LEMMA TimeStands == ASSUME Inv, clock' = clock PROVE clock <= clock' /\ clock' \in Time
BY BoundAssumption DEF Inv, World, Time

LEMMA EndpointStep ==
    ASSUME Inv, NEW e \in Ids,
           Reveal(e) \/ WorkerStarts(e) \/ WorkerStops(e) \/ ForeignCreates(e) \/ RemovedByHand(e)
           \/ DeleteLands(e)
    PROVE  Inv'
<1>1. Grows
  <2>1. CASE RemovedByHand(e) BY <2>1, GrowsBy DEF RemovedByHand, Inv, Exists
  <2>2. CASE DeleteLands(e) BY <2>2, GrowsBy DEF DeleteLands, Inv, Exists
  <2> QED BY <2>1, <2>2, GrowsBy DEF Inv
<1>2. UNCHANGED <<clock, catalog, ledger, pc, loc, deletes>>
  BY DEF Reveal, WorkerStarts, WorkerStops, ForeignCreates, RemovedByHand, DeleteLands
<1>3. wire' = wire \/ wire' = wire \ {e}
  BY DEF Reveal, WorkerStarts, WorkerStops, ForeignCreates, RemovedByHand, DeleteLands
<1>4. upsets' \in 0..MaxUpsets
  <2>1. Calm \/ \E f : Fault(f)
    BY DEF Reveal, WorkerStarts, WorkerStops, ForeignCreates, RemovedByHand, DeleteLands, Calm
  <2> QED BY <2>1, UpsetsBounded DEF Inv
<1> QED BY <1>1, <1>2, <1>3, <1>4, TimeStands, OutsideStep DEF Inv, World

LEMMA AlteredStep == ASSUME Inv, NEW e \in Ids, Altered(e) PROVE Inv'
<1>1. UNCHANGED <<clock, catalog, endpoints, pc, loc, wire, deletes>> BY DEF Altered
<1>2. Grows BY <1>1, GrowsBy DEF Inv
<1>3. upsets' \in 0..MaxUpsets BY UpsetsBounded DEF Altered, Inv
<1>4. ledger.activation = {Activation} BY TheOne DEF Inv, Docs, Altered, Activation
<1>5. PICK a : a = [Activation EXCEPT !.id = e] OBVIOUS
<1>6. Sealed(Activation) BY <1>4 DEF Inv, Docs
<1>7. Sealed(a)
  <2>1. a = [id |-> e, conf |-> Activation.conf, started |-> Activation.started,
             reconciled |-> Activation.reconciled, seal |-> Activation.seal]
    BY <1>5, <1>6 DEF Sealed
  <2>2. /\ a.id = e /\ a.conf = Activation.conf /\ a.started = Activation.started
        /\ a.reconciled = Activation.reconciled /\ a.seal = Activation.seal
    BY <2>1
  <2> QED BY <1>6, <2>1, <2>2 DEF Sealed
<1>8. ledger' = [quote |-> ledger.quote, attempted |-> ledger.attempted,
                 activation |-> {a}, submission |-> ledger.submission,
                 intent |-> ledger.intent, cleanup |-> ledger.cleanup, retired |-> ledger.retired]
  BY <1>5 DEF Altered, Inv, Docs
<1>9. Sealed(a)' BY <1>2, <1>7, StaysTrue DEF Inv
<1>10. World' BY <1>1, <1>2, <1>3, WorldKept DEF Inv, World
<1>11. Docs' BY <1>2, <1>8, <1>9, DocsStored, TheOne DEF Inv, Docs
<1>12. Locals' /\ Place' BY <1>1, <1>2, <1>8, TimeStands, PlaceKept DEF Inv
<1> QED BY <1>10, <1>11, <1>12 DEF Inv

LEMMA CrashStep == ASSUME Inv, Crash PROVE Inv'
<1>1. End /\ UNCHANGED <<clock, catalog, ledger, deletes>> /\ upsets' \in 0..MaxUpsets
  BY UpsetsBounded DEF Crash, Inv
<1>2. pc = "clean_delete" => loc.id \in Ids BY DEF Inv, Place, Holding, Cleaning, Vouched
<1>3. Grows BY <1>2, GrowsBy DEF Crash, Inv, At, Exists
<1>4. wire' \subseteq {"create"} \cup Ids BY <1>2 DEF Crash, Inv, World, At, Late
<1>5. World' BY <1>1, <1>3, <1>4, WorldKept DEF Inv, World
<1>6. Docs' BY <1>1, <1>3, DocsKept DEF Inv
<1> QED BY <1>1, <1>5, <1>6, PlaceEnds DEF Inv

LEMMA EnvironmentStep == ASSUME Inv, Environment PROVE Inv'
<1>1. CASE Tick
  <2>1. clock <= clock' /\ clock' \in Time BY <1>1, BoundAssumption DEF Tick, Inv, World, Time
  <2>2. Grows BY <1>1, GrowsBy DEF Tick, Inv
  <2> QED BY <1>1, <2>1, <2>2, OutsideStep DEF Tick, Inv, World
<1>2. CASE CatalogChanges
  <2>1. Grows BY <1>2, GrowsBy DEF CatalogChanges, Inv
  <2>2. upsets' \in 0..MaxUpsets BY <1>2, UpsetsBounded DEF CatalogChanges, Inv
  <2> QED BY <1>2, <2>1, <2>2, TimeStands, OutsideStep DEF CatalogChanges, Inv, World
<1>3. CASE CreateLands
  <2>1. Grows BY <1>3, GrowsBy DEF CreateLands, Inv
  <2> QED BY <1>3, <2>1, TimeStands, OutsideStep DEF CreateLands, Inv, World
<1> QED BY <1>1, <1>2, <1>3, CrashStep, EndpointStep, AlteredStep DEF Environment

-----------------------------------------------------------------------------
(* The invariant. *)

LEMMA InitInv == Init => Inv
<1> SUFFICES ASSUME Init PROVE Inv OBVIOUS
<1>1. endpoints = [e \in Ids |-> NoEndpoint] BY DEF Init
<1>2. /\ NoEndpoint \in Endpoint /\ NoEndpoint.state = "none" /\ NoEndpoint.owner = "nobody"
      /\ NoEndpoint.died = 0
  BY BoundAssumption DEF NoEndpoint, Endpoint, Time
<1>3. World BY <1>1, <1>2, BoundAssumption DEF Init, World, Time
<1>4. ledger = [quote |-> {}, attempted |-> FALSE, activation |-> {}, submission |-> {},
                intent |-> {}, cleanup |-> {}, retired |-> {}]
  BY DEF Init, NoLedger
<1>5. Docs BY <1>4, TheOne DEF Docs
<1>6. pc = "idle" /\ loc = NoLocals BY DEF Init
<1>7. Locals BY <1>6, BoundAssumption DEF Locals, NoLocals, Labels, Time
<1>8. Place BY <1>6 DEF Place, Buying, Cleaning, Holding
<1> QED BY <1>3, <1>5, <1>7, <1>8 DEF Inv

LEMMA NextInv == ASSUME Inv, [Next]_vars PROVE Inv'
<1>1. CASE ActivateNext BY <1>1, QuoteStep, ActivateStep, CreateStep, ReadStep DEF ActivateNext
<1>2. CASE AdoptNext BY <1>2, AdoptStep, ReadStep DEF AdoptNext
<1>3. CASE AuthorizeNext BY <1>3, AuthorizeStep
<1>4. CASE CleanupNext
  BY <1>4, CleanupReadStep, IntentStep, DeleteStep, VerifyListStep DEF CleanupNext
<1>5. CASE BillingNext BY <1>5, RetiredStep, BillStep DEF BillingNext
<1>6. CASE Environment BY <1>6, EnvironmentStep
<1>7. CASE UNCHANGED vars
  <2>1. Grows BY <1>7, GrowsBy DEF vars, Inv
  <2> QED BY <1>7, <2>1, TimeStands, OutsideStep DEF vars, Inv, World
<1> QED BY <1>1, <1>2, <1>3, <1>4, <1>5, <1>6, <1>7 DEF Next

LEMMA InvHolds == Spec => []Inv
BY InitInv, NextInv, PTL DEF Spec

\* The ledger never holds two documents of a kind, and a DELETE, a readback or
\* a request on the wire is always for an endpoint id, whatever the failures.
THEOREM TypeCorrect == Spec => []TypeOK
<1>1. ASSUME Inv PROVE TypeOK
  <2>1. \A d \in {"quote", "activation", "submission", "intent", "cleanup", "retired"} :
            Cardinality(ledger[d]) <= 1
    <3>1. \A d \in {"quote", "activation", "submission", "intent", "cleanup", "retired"} :
              AtMostOne(ledger[d])
      BY <1>1 DEF Inv, Docs
    <3> QED BY <3>1, OneIsFew
  <2> QED BY <1>1, <2>1 DEF TypeOK, Inv, World, Locals
<1> QED BY <1>1, InvHolds, PTL

\* cleanup_planned_endpoint: the endpoint of a stored cleanup receipt is gone,
\* whichever of the DELETE's outcomes, retries and lagging inventories led
\* _verify_cleanup_absence to it.
THEOREM CleanupMeansAbsence == Spec => []AbsenceHonest
<1>1. ASSUME Inv PROVE AbsenceHonest BY <1>1 DEF AbsenceHonest, Inv, Docs, Absent
<1> QED BY <1>1, InvHolds, PTL

\* cleanup_planned_endpoint sends DELETE only for endpoints of the plan, with
\* strangers' endpoints of the same name and altered receipts around.
THEOREM OnlyOwnDeleted == Spec => []DeletesAreOwned
<1>1. ASSUME Inv PROVE DeletesAreOwned BY <1>1 DEF DeletesAreOwned, Inv, World
<1> QED BY <1>1, InvHolds, PTL

\* retired_endpoint_billing: a receipt has one of Runpod's records for every
\* hour from the endpoint's creation to its removal, unless the endpoint was
\* only found again.
THEOREM LifeIsBilled == Spec => []LifecycleBilled
<1>1. ASSUME Inv PROVE LifecycleBilled BY <1>1 DEF LifecycleBilled, Inv, Docs
<1> QED BY <1>1, InvHolds, PTL

-----------------------------------------------------------------------------
(* One purchase. *)

\* No step but a create makes an endpoint of the plan.
LEMMA FewerBought ==
    ASSUME Inv, PurchaseInv, NEW e \in Ids,
           \/ UNCHANGED endpoints
           \/ Removed(e)
           \/ Reveal(e) \/ WorkerStarts(e) \/ WorkerStops(e) \/ ForeignCreates(e)
    PROVE  Bought' \subseteq Bought /\ \A x \in Ids : endpoints'[x].state # "hidden"
<1>1. endpoints \in [Ids -> Endpoint] /\ clock \in Time BY DEF Inv, World
<1>2. ASSUME NEW new \in Endpoint, endpoints' = [endpoints EXCEPT ![e] = new],
             new.state # "hidden", new.state = "live" => endpoints[e].state = "live" \/ new.owner # "plan",
             new.owner = "plan" => endpoints[e].owner = "plan"
      PROVE  Bought' \subseteq Bought /\ \A x \in Ids : endpoints'[x].state # "hidden"
  BY <1>1, <1>2 DEF Bought, Exists, PurchaseInv
<1>3. CASE UNCHANGED endpoints BY <1>3 DEF Bought, Exists, PurchaseInv
<1>4. CASE Removed(e)
  <2>1. PICK new : new = [endpoints[e] EXCEPT !.state = "gone", !.busy = FALSE, !.died = clock] OBVIOUS
  <2>2. new \in Endpoint /\ new.state = "gone" /\ new.owner = endpoints[e].owner
    BY <1>1, <2>1 DEF Endpoint
  <2> QED BY <1>2, <1>4, <2>1, <2>2 DEF Removed
<1>5. CASE Reveal(e) BY <1>5 DEF Reveal, PurchaseInv
<1>6. CASE WorkerStarts(e) \/ WorkerStops(e)
  <2>1. PICK b \in BOOLEAN : endpoints' = [endpoints EXCEPT ![e] = [endpoints[e] EXCEPT !.busy = b]]
    BY <1>6 DEF WorkerStarts, WorkerStops
  <2>2. [endpoints[e] EXCEPT !.busy = b] \in Endpoint BY <1>1 DEF Endpoint
  <2>3. /\ [endpoints[e] EXCEPT !.busy = b].state = endpoints[e].state
        /\ [endpoints[e] EXCEPT !.busy = b].owner = endpoints[e].owner
    BY <1>1 DEF Endpoint
  <2> QED BY <1>2, <2>1, <2>2, <2>3 DEF PurchaseInv
<1>7. CASE ForeignCreates(e)
  <2>1. NewEndpoint("live", "foreign") \in Endpoint
    BY BoundAssumption DEF Endpoint, NewEndpoint, Inv, World, Time
  <2>2. NewEndpoint("live", "foreign").state = "live" /\ NewEndpoint("live", "foreign").owner = "foreign"
    BY DEF NewEndpoint
  <2> QED BY <1>2, <1>7, <2>1, <2>2 DEF ForeignCreates
<1> QED BY <1>3, <1>4, <1>5, <1>6, <1>7

\* Whoever creates owned nothing.
LEMMA FirstBought ==
    ASSUME Inv, PurchaseInv, "lag" \notin Faults, pc = "act_create", NEW e \in Ids, Created(e)
    PROVE  AtMostOne(Bought') /\ \A x \in Ids : endpoints'[x].state # "hidden"
<1>1. endpoints' = [endpoints EXCEPT ![e] = NewEndpoint("live", "plan")] BY DEF Created
<1>2. endpoints \in [Ids -> Endpoint] /\ Bought = {} BY DEF Inv, World, PurchaseInv
<1>3. NewEndpoint("live", "plan").state = "live" BY DEF NewEndpoint
<1>4. \A x \in Ids : x # e => endpoints'[x] = endpoints[x] BY <1>1, <1>2
<1>5. Bought' \subseteq {e} BY <1>2, <1>4 DEF Bought, Exists
<1>6. endpoints'[e].state = "live" BY <1>1, <1>2, <1>3
<1> QED BY <1>4, <1>5, <1>6 DEF AtMostOne, PurchaseInv

LEMMA PurchaseStep ==
    ASSUME Inv, PurchaseInv, [Next]_vars, "lag" \notin Faults, "late" \notin Faults
    PROVE  PurchaseInv'
<1>1. ASSUME Bought' \subseteq Bought, \A x \in Ids : endpoints'[x].state # "hidden",
             wire' \subseteq wire, pc' = "act_create" => pc = "act_create" \/ Bought = {}
      PROVE  PurchaseInv'
  BY <1>1 DEF PurchaseInv, AtMostOne
<1>2. ASSUME UNCHANGED <<endpoints, wire>>, pc' = "act_create" => pc = "act_create" \/ Bought = {}
      PROVE  PurchaseInv'
  BY <1>1, <1>2 DEF PurchaseInv, Bought, Exists
<1>3. ASSUME pc = "act_create", pc' # "act_create", wire' = wire, NEW e \in Ids, Created(e)
      PROVE  PurchaseInv'
  BY <1>3, FirstBought DEF PurchaseInv
<1>4. \A request : Late(request) => wire' = wire BY DEF Late
<1>5. End => pc' = "idle" BY DEF End, Goto
<1>6. CASE ActivateList
  <2>1. Listed = {} => Bought = {} BY DEF Listed, Bought, Exists, PurchaseInv
  <2> QED BY <1>2, <1>5, <1>6, <2>1 DEF ActivateList
<1>7. CASE ActivateCreate
  <2>1. \/ \E e \in Ids : Created(e) /\ UNCHANGED wire
                          /\ (Goto("act_read", [loc EXCEPT !.id = e]) \/ Jump("act_relist") \/ End)
        \/ UNCHANGED <<endpoints, wire>>
    BY <1>4, <1>7 DEF ActivateCreate
  <2>2. pc = "act_create" BY <1>7 DEF ActivateCreate, At
  <2> QED BY <1>2, <1>3, <1>5, <2>1, <2>2 DEF Goto, Jump
<1>8. CASE CleanupDelete
  <2>1. pc = "clean_delete" BY <1>8 DEF CleanupDelete, At
  <2>2. loc.id \in Ids BY <2>1 DEF Inv, Place, Holding, Cleaning, Vouched
  <2>3. (UNCHANGED endpoints \/ Removed(loc.id)) /\ wire' = wire /\ pc' \in {"idle", "verify_get"}
    <3>1. CASE UNCHANGED <<endpoints, wire>> /\ End BY <1>5, <3>1
    <3>2. CASE \E outcome \in Outcomes(DeleteEndpoint) :
             /\ Exists(loc.id)
             /\ Calls(outcome)
             /\ IF outcome[1] THEN Removed(loc.id) /\ UNCHANGED wire
                ELSE UNCHANGED endpoints /\ IF outcome[2] = "ambiguous" THEN Late(loc.id)
                                           ELSE UNCHANGED wire
             /\ CASE outcome[2] = "ok" ->
                       Goto("verify_get", [loc EXCEPT !.basis = "acknowledged"])
                  [] outcome[2] = "ambiguous" ->
                       Goto("verify_get", [loc EXCEPT !.basis = "ambiguous"])
                  [] OTHER -> End
      BY <1>4, <1>5, <3>2 DEF Goto
    <3> QED BY <1>8, <3>1, <3>2 DEF CleanupDelete
  <2> QED BY <1>1, <2>2, <2>3, FewerBought
<1>9. CASE Crash
  <2>1. pc' = "idle" BY <1>5, <1>9 DEF Crash
  <2>2. CASE \E e \in Ids : pc = "act_create" /\ UNCHANGED wire /\ Created(e) BY <1>3, <2>1, <2>2
  <2>3. CASE UNCHANGED <<endpoints, wire>> BY <1>2, <2>1, <2>3
  <2>4. CASE pc = "clean_delete" /\ Removed(loc.id) /\ UNCHANGED wire
    <3>1. loc.id \in Ids BY <2>4 DEF Inv, Place, Holding, Cleaning, Vouched
    <3> QED BY <1>1, <2>1, <2>4, <3>1, FewerBought
  <2> QED BY <1>4, <1>9, <2>2, <2>3, <2>4 DEF Crash, At
<1>10. CASE CreateLands BY <1>10 DEF CreateLands, PurchaseInv
<1>11. ASSUME NEW e \in Ids,
              \/ Reveal(e) \/ WorkerStarts(e) \/ WorkerStops(e)
              \/ ForeignCreates(e) \/ RemovedByHand(e) \/ Altered(e) \/ DeleteLands(e)
       PROVE  PurchaseInv'
  <2>1. pc' = pc /\ wire' \subseteq wire
    BY <1>11 DEF Reveal, WorkerStarts, WorkerStops, ForeignCreates, RemovedByHand, Altered, DeleteLands
  <2>2. \/ UNCHANGED endpoints \/ Removed(e)
        \/ Reveal(e) \/ WorkerStarts(e) \/ WorkerStops(e) \/ ForeignCreates(e)
    BY <1>11 DEF RemovedByHand, Altered, DeleteLands
  <2> QED BY <1>1, <2>1, <2>2, FewerBought
<1>12. CASE Tick \/ CatalogChanges \/ UNCHANGED vars BY <1>2, <1>12 DEF Tick, CatalogChanges, vars
<1>13. CASE \/ QuotePlannedEndpoint \/ ActivateReplay \/ ReplayRead \/ Activate \/ ActivateObserve
            \/ ActivateRelist \/ ActivateRead
  BY <1>2, <1>5, <1>13 DEF QuotePlannedEndpoint, ActivateReplay, ReplayRead, Activate, ActivateObserve,
     ActivateRelist, ActivateRead, Goto, Jump, At
<1>14. CASE AdoptNext \/ AuthorizeNext \/ BillingNext
  <2>1. CASE AdoptNext BY <1>2, <1>5, <2>1 DEF AdoptNext, Adopt, AdoptRead, Goto
  <2>2. CASE AuthorizeNext
    BY <1>2, <1>5, <2>2 DEF AuthorizeNext, Authorize, AuthorizeObserve, AuthorizeRead, Goto, Jump
  <2>3. CASE RetiredBilling BY <1>2, <2>3 DEF RetiredBilling, Goto
  <2>4. CASE BillPage
    <3>1. pc' # "act_create" BY <1>5, <2>4 DEF BillPage, Goto
    <3> QED BY <1>2, <2>4, <3>1 DEF BillPage
  <2> QED BY <1>14, <2>1, <2>2, <2>3, <2>4 DEF BillingNext
<1>15. CASE \/ Cleanup \/ CleanupGet \/ CleanupWorkers \/ CleanupIntent
            \/ VerifyGet \/ VerifyList
  <2>1. CASE Cleanup \/ CleanupWorkers \/ CleanupIntent
    BY <1>2, <1>5, <2>1 DEF Cleanup, CleanupWorkers, CleanupIntent, Send, Goto, Jump
  <2>2. CASE CleanupGet BY <1>2, <1>5, <2>2 DEF CleanupGet, Goto, Jump
  <2>3. CASE VerifyGet \/ VerifyList BY <1>2, <1>5, <2>3 DEF VerifyGet, VerifyList, Jump
  <2> QED BY <1>15, <2>1, <2>2, <2>3
<1> QED
  BY <1>6, <1>7, <1>8, <1>9, <1>10, <1>11, <1>12, <1>13, <1>14, <1>15
  DEF Next, ActivateNext, CleanupNext, Environment

\* While the inventory shows what exists and no given-up request is applied
\* late, activate_planned_endpoint never buys a second endpoint for the plan:
\* not after a lost answer, a crash, an expired quote or a hand-made removal.
THEOREM BoughtOnce ==
    ASSUME "lag" \notin Faults, "late" \notin Faults
    PROVE  Spec => []OnePurchase
<1>1. Init => PurchaseInv
  <2>1. ASSUME Init PROVE endpoints = [e \in Ids |-> NoEndpoint] /\ pc = "idle" /\ wire = {}
    BY <2>1 DEF Init
  <2>2. NoEndpoint.state = "none" BY DEF NoEndpoint
  <2> QED BY <2>1, <2>2 DEF PurchaseInv, Bought, Exists, AtMostOne
<1>2. ASSUME Inv, PurchaseInv, [Next]_vars PROVE PurchaseInv' BY <1>2, PurchaseStep
<1>3. ASSUME PurchaseInv PROVE OnePurchase
  <2>1. {e \in Ids : Exists(e) /\ endpoints[e].owner = "plan"} = Bought BY DEF Bought
  <2> QED BY <1>3, <2>1, OneIsFew DEF OnePurchase, PurchaseInv
<1> QED BY <1>1, <1>2, <1>3, InvHolds, PTL DEF Spec
=============================================================================
