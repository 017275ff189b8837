----------------------- MODULE ServerlessBillingProofs -----------------------
(***************************************************************************)
(* What _authoritative_hour_costs guarantees of a page it accepts, for     *)
(* pages of any length and hours of any length: the costs are records of   *)
(* the page, one for every hour of the window, in order.                   *)
(*                                                                         *)
(* Sums and sorting are proved by induction in the form the provers can    *)
(* use: every non-empty set of naturals has a least element.               *)
(***************************************************************************)
EXTENDS ServerlessBilling, FiniteSetTheorems, WellFoundedInduction, TLAPS

LEMMA Least ==
    ASSUME NEW T \in SUBSET Nat, T # {}
    PROVE  \E m \in T : \A k \in T : m <= k
<1> DEFINE Less == {ss \in Nat \X Nat : ss[1] < ss[2]}
<1>1. IsWellFoundedOn(Less, Nat) BY NatLessThanWellFounded DEF OpToRel
<1>2. PICK m \in T : \A k \in T : ~(<<k, m>> \in Less) BY <1>1, WFMin
<1>3. ASSUME NEW k \in T PROVE m <= k
  <2>1. k \in Nat /\ m \in Nat OBVIOUS
  <2>2. ~(k < m) BY <1>2, <2>1
  <2> QED BY <2>1, <2>2
<1> QED BY <1>2, <1>3

LEMMA UpTo ==
    ASSUME NEW n \in Nat, NEW S, 0 \in S, \A i \in 1..n : i - 1 \in S => i \in S
    PROVE  \A i \in 0..n : i \in S
<1>1. SUFFICES ASSUME (0..n) \ S # {} PROVE FALSE OBVIOUS
<1>2. (0..n) \ S \in SUBSET Nat OBVIOUS
<1>3. PICK m \in (0..n) \ S : \A k \in (0..n) \ S : m <= k BY <1>1, <1>2, Least
<1>4. m \in 1..n /\ m - 1 \in 0..n /\ ~(m <= m - 1) BY <1>3
<1>5. m - 1 \in S BY <1>3, <1>4
<1> QED BY <1>3, <1>4, <1>5

-----------------------------------------------------------------------------
(* Hours. *)

\* A sequence of costs that covers the whole hours from a start to the cursor.
Costed(costs, from, cursor) ==
    /\ Len(costs) \in Nat /\ costs = [i \in 1..Len(costs) |-> costs[i]]
    /\ (costs = <<>> /\ cursor = from) \/ OneCostPerHour(costs, from, cursor)

\* billing_hour_bounds rounds down, and up.
LEMMA Hours ==
    ASSUME NEW t \in Nat
    PROVE  /\ HourFloor(t) \in Nat /\ HourFloor(t) <= t
           /\ HourCeiling(t) \in Nat /\ t <= HourCeiling(t)
<1>1. \A u \in Nat : HourFloor(u) \in Nat /\ HourFloor(u) <= u /\ u < HourFloor(u) + HourTicks
  BY HourAssumption DEF HourFloor
<1>2. t + HourTicks - 1 \in Nat BY HourAssumption
<1> QED BY <1>1, <1>2, HourAssumption DEF HourCeiling

-----------------------------------------------------------------------------
(* Ranks: what sorting returns. *)

Orders(R, S) ==
    /\ \A x \in S : <<x, x>> \in R
    /\ \A x, y \in S : <<x, y>> \in R \/ <<y, x>> \in R
    /\ \A x, y \in S : <<x, y>> \in R /\ <<y, x>> \in R => x = y
    /\ \A x, y, z \in S : <<x, y>> \in R /\ <<y, z>> \in R => <<x, z>> \in R

Rank(x, R, S) == Cardinality({y \in S : <<y, x>> \in R})

\* A linear order gives every element of a finite set a rank of its own, so
\* there is an element of every rank.
LEMMA Ranked ==
    ASSUME NEW S, IsFiniteSet(S), NEW R, Orders(R, S)
    PROVE  \A i \in 1..Cardinality(S) : \E x \in S : Rank(x, R, S) = i
<1> USE DEF Orders
<1> DEFINE Below(x) == {y \in S : <<y, x>> \in R}
           n == Cardinality(S)
           rank == [x \in S |-> Cardinality(Below(x))]
<1>1. n \in Nat BY FS_CardinalityType
<1>2. ASSUME NEW x \in S
      PROVE  /\ Below(x) \in SUBSET S /\ x \in Below(x) /\ IsFiniteSet(Below(x))
             /\ Cardinality(Below(x)) \in 1..n
  <2>1. Below(x) \in SUBSET S /\ x \in Below(x) OBVIOUS
  <2>2. IsFiniteSet(Below(x)) /\ Cardinality(Below(x)) <= n BY <2>1, FS_Subset
  <2>3. Cardinality(Below(x)) \in Nat BY <2>2, FS_CardinalityType
  <2>4. Cardinality(Below(x)) # 0 BY <2>1, <2>2, FS_EmptySet
  <2> HIDE DEF Below, n
  <2> QED BY <1>1, <2>1, <2>2, <2>3, <2>4
<1>3. ASSUME NEW x \in S, NEW y \in S, x # y PROVE rank[x] # rank[y]
  <2>1. ASSUME NEW a \in S, NEW b \in S, a # b, <<a, b>> \in R
        PROVE  Cardinality(Below(a)) # Cardinality(Below(b))
    <3>1. Below(a) \in SUBSET Below(b) BY <2>1
    <3>2. b \in Below(b) /\ b \notin Below(a) BY <2>1
    <3>3. IsFiniteSet(Below(b)) BY <1>2
    <3> QED BY <3>1, <3>2, <3>3, FS_Subset
  <2>2. <<x, y>> \in R \/ <<y, x>> \in R OBVIOUS
  <2>3. Cardinality(Below(x)) # Cardinality(Below(y)) BY <1>3, <2>1, <2>2
  <2> HIDE DEF Below
  <2> QED BY <2>3
<1>4. rank \in [S -> 1..n] BY <1>2
<1>5. rank \in Injection(S, 1..n)
  <2> HIDE DEF rank, n
  <2> QED BY <1>3, <1>4 DEF Injection, IsInjective
<1>6. IsFiniteSet(1..n) /\ Cardinality(1..n) = n
  <2> HIDE DEF n
  <2>1. IsFiniteSet(1..n) /\ Cardinality(1..n) = IF 1 > n THEN 0 ELSE n - 1 + 1 BY <1>1, FS_Interval
  <2> QED BY <1>1, <2>1
<1>7. rank \in Surjection(S, 1..n) BY <1>5, <1>6, FS_Injection
<1>8. \A i \in 1..n : \E x \in S : rank[x] = i
  <2> HIDE DEF rank, n
  <2> QED BY <1>7 DEF Surjection
<1> QED BY <1>8 DEF Rank

\* parsed.sort returns records of the page, each position filled.
LEMMA SortedAreRecords ==
    ASSUME NEW records, NEW n \in Nat, DOMAIN records = 1..n,
           \A i \in 1..n : records[i].from \in Nat
    PROVE  \A i \in 1..n : \E j \in 1..n : SortedByStart(records)[i] = records[j]
<1> DEFINE Leq(x, y) == \/ records[x].from < records[y].from
                        \/ records[x].from = records[y].from /\ x <= y
           R == {p \in (1..n) \X (1..n) : Leq(p[1], p[2])}
<1>1. \A x, y \in 1..n : <<x, y>> \in R <=> Leq(x, y) OBVIOUS
<1> HIDE DEF R
<1>2. IsFiniteSet(1..n) /\ Cardinality(1..n) = n
  <2>1. IsFiniteSet(1..n) /\ Cardinality(1..n) = IF 1 > n THEN 0 ELSE n - 1 + 1 BY FS_Interval
  <2> QED BY <2>1
<1>3. \A i \in 1..n : \E x \in 1..n : Rank(x, R, 1..n) = i
  <2>1. ASSUME NEW x \in 1..n, NEW y \in 1..n, NEW z \in 1..n
        PROVE  /\ Leq(x, x)
               /\ Leq(x, y) \/ Leq(y, x)
               /\ Leq(x, y) /\ Leq(y, x) => x = y
               /\ Leq(x, y) /\ Leq(y, z) => Leq(x, z)
    <3>1. x \in Nat /\ y \in Nat /\ z \in Nat OBVIOUS
    <3>2. records[x].from \in Nat /\ records[y].from \in Nat /\ records[z].from \in Nat OBVIOUS
    <3> QED BY <3>1, <3>2
  <2> HIDE DEF Leq
  <2>2. Orders(R, 1..n) BY <1>1, <2>1 DEF Orders
  <2>3. \A i \in 1..Cardinality(1..n) : \E x \in 1..n : Rank(x, R, 1..n) = i
    BY <1>2, <2>2, Ranked
  <2> QED BY <1>2, <2>3
<1>4. ASSUME NEW x \in 1..n PROVE Position(records, x) = Rank(x, R, 1..n)
  <2>1. {k \in 1..n : Leq(k, x)} = {y \in 1..n : <<y, x>> \in R} BY <1>1
  <2> QED BY <2>1 DEF Position, Rank
<1>5. ASSUME NEW i \in 1..n PROVE \E j \in 1..n : SortedByStart(records)[i] = records[j]
  <2>1. \E j \in 1..n : Position(records, j) = i BY <1>3, <1>4
  <2> DEFINE j == CHOOSE k \in 1..n : Position(records, k) = i
  <2>2. j \in 1..n BY <2>1
  <2>3. SortedByStart(records)[i] = records[j] BY DEF SortedByStart
  <2> HIDE DEF j
  <2> QED BY <2>2, <2>3
<1> QED BY <1>5

-----------------------------------------------------------------------------
(* Totals. *)

\* The running totals determine the total.
LEMMA TotalIs ==
    ASSUME NEW records, NEW n \in Nat, Len(records) = n, NEW g,
           g = [i \in 0..n |-> IF i = 0 THEN 0 ELSE g[i - 1] + records[i].amount]
    PROVE  TotalOf(records) = g[n]
<1> DEFINE Runs(s) == s = [i \in 0..n |-> IF i = 0 THEN 0 ELSE s[i - 1] + records[i].amount]
           sum == CHOOSE s : Runs(s)
<1>1. TotalOf(records) = sum[n] BY DEF TotalOf
<1>2. Runs(sum) OBVIOUS
<1> HIDE DEF sum
<1>3. \A i \in 0..n : i \in {k \in 0..n : sum[k] = g[k]}
  <2>1. 0 \in {k \in 0..n : sum[k] = g[k]} BY <1>2
  <2>2. ASSUME NEW i \in 1..n, i - 1 \in {k \in 0..n : sum[k] = g[k]}
        PROVE  i \in {k \in 0..n : sum[k] = g[k]}
    <3>1. i \in 0..n /\ i # 0 OBVIOUS
    <3>2. sum[i] = sum[i - 1] + records[i].amount BY <1>2, <3>1
    <3>3. g[i] = g[i - 1] + records[i].amount BY <3>1
    <3> QED BY <2>2, <3>1, <3>2, <3>3
  <2> QED BY <2>1, <2>2, UpTo
<1> QED BY <1>1, <1>3

\* What U has in an hour, and costs that are just that.
InHour(U, h) == Cardinality({t \in U : h <= t /\ t < h + HourTicks})

Counts(costs, U) ==
    \A i \in 1..Len(costs) : costs[i].hour \in Nat /\ costs[i].amount = InHour(U, costs[i].hour)

\* What is metered hour by hour is metered over the window: if every cost is
\* what U has in its hour, the total is what U has in all of them.
LEMMA TotalIsMetered ==
    ASSUME NEW costs, NEW from \in Nat, NEW until, Len(costs) \in Nat,
           OneCostPerHour(costs, from, until),
           NEW U \in SUBSET Nat, IsFiniteSet(U), Counts(costs, U)
    PROVE  CostTotal(costs) = Cardinality({t \in U : from <= t /\ t < until})
<1> DEFINE n == Len(costs)
           Upto(k) == {t \in U : from <= t /\ t < k}
           end(i) == IF i = 0 THEN from ELSE costs[i].hour + HourTicks
           g == [i \in 0..n |-> Cardinality(Upto(end(i)))]
<1>0. n \in Nat /\ n # 0 /\ HourTicks \in Nat \ {0}
  <2>1. n # 0
    <3>1. costs # <<>> /\ costs[n].hour + HourTicks = until BY DEF OneCostPerHour
    <3>2. SUFFICES ASSUME n = 0 PROVE FALSE OBVIOUS
    <3> QED BY <3>1, <3>2
  <2> QED BY <2>1, HourAssumption
<1>1. \A i \in 1..n : costs[i].hour = end(i - 1)
  <2>1. costs[1].hour = from BY DEF OneCostPerHour
  <2>2. \A i \in 1..n - 1 : costs[i + 1].hour = costs[i].hour + HourTicks BY DEF OneCostPerHour
  <2>3. ASSUME NEW i \in 1..n, i # 1 PROVE costs[i].hour = costs[i - 1].hour + HourTicks
    <3>1. i - 1 \in 1..n - 1 /\ (i - 1) + 1 = i BY <1>0, <2>3
    <3> QED BY <2>2, <3>1
  <2> HIDE DEF n
  <2> QED BY <1>0, <2>1, <2>3
<1>2. end(n) = until BY <1>0 DEF OneCostPerHour
<1> HIDE DEF n
<1>3. \A i \in 0..n : i \in {k \in 0..n : end(k) \in Nat /\ from <= end(k)}
  <2>1. 0 \in {k \in 0..n : end(k) \in Nat /\ from <= end(k)} BY <1>0
  <2>2. ASSUME NEW i \in 1..n, i - 1 \in {k \in 0..n : end(k) \in Nat /\ from <= end(k)}
        PROVE  i \in {k \in 0..n : end(k) \in Nat /\ from <= end(k)}
    <3>1. end(i) = end(i - 1) + HourTicks BY <1>0, <1>1
    <3>2. end(i - 1) \in Nat /\ from <= end(i - 1) BY <2>2
    <3> HIDE DEF end
    <3> QED BY <1>0, <3>1, <3>2
  <2> HIDE DEF end
  <2> QED BY <1>0, <2>1, <2>2, UpTo
<1>4. ASSUME NEW i \in 1..n
      PROVE  Cardinality(Upto(end(i))) = Cardinality(Upto(end(i - 1))) + costs[i].amount
  <2> DEFINE a == end(i - 1)
             In == {t \in U : a <= t /\ t < a + HourTicks}
  <2>1. /\ end(i) = a + HourTicks /\ a \in Nat /\ from <= a
        /\ costs[i].amount = Cardinality(In)
    <3>1. i - 1 \in 0..n /\ i # 0 BY <1>0
    <3>2. costs[i].hour = a BY <1>1
    <3>3. end(i) = a + HourTicks BY <3>1, <3>2
    <3>4. a \in Nat /\ from <= a BY <1>3, <3>1
    <3>5. costs[i].amount =
             Cardinality({t \in U : costs[i].hour <= t /\ t < costs[i].hour + HourTicks})
      BY DEF n, Counts, InHour
    <3> HIDE DEF a, end
    <3> QED BY <3>2, <3>3, <3>4, <3>5
  <2> HIDE DEF a, end
  <2> DEFINE A == Upto(a)
             B == Upto(a + HourTicks)
  <2>2. B = A \cup In /\ A \cap In = {}
    <3>1. \A t \in U : t \in Nat OBVIOUS
    <3>2. \A t \in U : (from <= t /\ t < a + HourTicks)
                          <=> (from <= t /\ t < a) \/ (a <= t /\ t < a + HourTicks)
      BY <1>0, <2>1, <3>1
    <3>3. \A t \in U : ~(t < a /\ a <= t) BY <2>1, <3>1
    <3> QED BY <3>2, <3>3
  <2>3. IsFiniteSet(A) /\ IsFiniteSet(In)
    <3>1. A \in SUBSET U /\ In \in SUBSET U OBVIOUS
    <3> QED BY <3>1, FS_Subset
  <2> HIDE DEF A, B, In
  <2>4. Cardinality(A \cup In) = Cardinality(A) + Cardinality(In) - Cardinality(A \cap In)
    BY <2>3, FS_Union
  <2>5. Cardinality(A) \in Nat /\ Cardinality(In) \in Nat BY <2>3, FS_CardinalityType
  <2>6. Cardinality(A \cap In) = 0 BY <2>2, FS_EmptySet
  <2>7. Cardinality(B) = Cardinality(A) + Cardinality(In) BY <2>2, <2>4, <2>5, <2>6
  <2> QED BY <2>1, <2>7 DEF a, A, B
<1>5. Cardinality(Upto(end(0))) = 0
  <2>1. \A t \in U : t \in Nat /\ ~(from <= t /\ t < from) OBVIOUS
  <2>2. Upto(end(0)) = {} BY <2>1
  <2> HIDE DEF Upto, end
  <2> QED BY <2>2, FS_EmptySet
<1>6. g = [i \in 0..n |-> IF i = 0 THEN 0 ELSE g[i - 1] + costs[i].amount]
  <2> HIDE DEF Upto, end
  <2>1. ASSUME NEW i \in 0..n
        PROVE  Cardinality(Upto(end(i))) = IF i = 0 THEN 0 ELSE g[i - 1] + costs[i].amount
    <3>1. CASE i = 0 BY <1>5, <3>1
    <3>2. CASE i # 0
      <4>1. i \in 1..n /\ i - 1 \in 0..n BY <1>0, <3>2
      <4>2. g[i - 1] = Cardinality(Upto(end(i - 1))) BY <4>1
      <4> HIDE DEF g
      <4> QED BY <1>4, <3>2, <4>1, <4>2
    <3> QED BY <3>1, <3>2
  <2> QED BY <2>1
<1> HIDE DEF Upto, end
<1>7. g[n] = Cardinality(Upto(until))
  <2>1. n \in 0..n BY <1>0
  <2> QED BY <1>2, <2>1
<1> HIDE DEF g
<1>8. TotalOf(costs) = g[n] BY <1>0, <1>6, TotalIs DEF n
<1> QED BY <1>7, <1>8 DEF CostTotal, Upto

-----------------------------------------------------------------------------
(* _authoritative_hour_costs. *)

\* An accepted page is one cost for every hour of its window, in order.
LEMMA PageCovers ==
    ASSUME NEW page, NEW from \in Nat, NEW until \in Nat, from < until,
           Len(page.records) \in Nat, DOMAIN page.records = 1..Len(page.records),
           NEW seen, seen = AuthoritativeHourCosts(page, from, until), seen.kind = "costs"
    PROVE  Costed(seen.costs, from, until) /\ OneCostPerHour(seen.costs, from, until)
<1> DEFINE n == Len(page.records)
           sorted == SortedByStart(page.records)
<1>0. n \in Nat OBVIOUS
<1>1. sorted = [i \in 1..n |-> sorted[i]] /\ DOMAIN sorted = 1..n BY DEF SortedByStart
<1> HIDE DEF n, sorted
<1>2. Len(sorted) = n BY <1>0, <1>1
<1>3. Walk(sorted, from, until) = "costs" /\ seen.costs = HourCosts(sorted)
  BY DEF AuthoritativeHourCosts, Error, Pending, sorted
<1>4. /\ \A i \in 1..n : WalkRecord(sorted[i], Cursor(sorted, i, from), until) = "costs"
      /\ Cursor(sorted, n + 1, from) = until
  BY <1>1, <1>2, <1>3 DEF Walk
<1>5. ASSUME NEW i \in 1..n
      PROVE sorted[i].from = Cursor(sorted, i, from) /\ sorted[i].until = sorted[i].from + HourTicks
  BY <1>4 DEF WalkRecord
<1>6. n # 0 BY <1>0, <1>4 DEF Cursor
<1>7. /\ sorted[1].from = from /\ sorted[n].until = until
      /\ \A i \in 1..n - 1 : sorted[i + 1].from = sorted[i].from + HourTicks
  <2>1. sorted[1].from = from BY <1>0, <1>5, <1>6 DEF Cursor
  <2>2. sorted[n].until = until BY <1>0, <1>4, <1>6 DEF Cursor
  <2>3. ASSUME NEW i \in 1..n - 1 PROVE sorted[i + 1].from = sorted[i].from + HourTicks
    <3>1. i \in 1..n /\ i + 1 \in 1..n /\ i + 1 # 1 /\ (i + 1) - 1 = i BY <1>0
    <3>2. sorted[i + 1].from = sorted[i].until BY <1>5, <3>1 DEF Cursor
    <3> QED BY <1>5, <3>1, <3>2
  <2> QED BY <2>1, <2>2, <2>3
<1>8. seen.costs = [i \in 1..n |-> [hour |-> sorted[i].from, amount |-> sorted[i].amount]]
  BY <1>2, <1>3 DEF HourCosts
<1>9. /\ Len(seen.costs) = n /\ \A i \in 1..n : seen.costs[i].hour = sorted[i].from
      /\ seen.costs = [i \in 1..n |-> seen.costs[i]] /\ seen.costs # <<>>
  <2>1. Len(seen.costs) = n BY <1>0, <1>8
  <2>2. \A i \in 1..n : seen.costs[i].hour = sorted[i].from BY <1>8
  <2>3. seen.costs = [i \in 1..n |-> seen.costs[i]] BY <1>8
  <2>4. seen.costs # <<>> BY <1>0, <1>6, <2>1
  <2> QED BY <2>1, <2>2, <2>3, <2>4
<1>10. seen.costs[n].hour + HourTicks = until BY <1>0, <1>5, <1>6, <1>7, <1>9
<1>11. OneCostPerHour(seen.costs, from, until)
  <2>1. 1 \in 1..n BY <1>0, <1>6
  <2>2. ASSUME NEW i \in 1..n - 1 PROVE seen.costs[i + 1].hour = seen.costs[i].hour + HourTicks
    <3>1. i \in 1..n /\ i + 1 \in 1..n BY <1>0
    <3> QED BY <1>7, <1>9, <3>1
  <2> QED BY <1>7, <1>9, <1>10, <2>1, <2>2 DEF OneCostPerHour
<1> QED BY <1>0, <1>9, <1>11 DEF Costed

\* Pages are read one after the other.
LEMMA PagesJoin ==
    ASSUME NEW a, NEW b, NEW from, NEW cursor, NEW until,
           Costed(a, from, cursor), Costed(b, cursor, until), OneCostPerHour(b, cursor, until)
    PROVE  Costed(a \o b, from, until) /\ OneCostPerHour(a \o b, from, until)
<1> DEFINE m == Len(a)
           n == Len(b)
           S == {a[i] : i \in 1..m} \cup {b[i] : i \in 1..n}
<1>0. m \in Nat /\ n \in Nat BY DEF Costed
<1>1. a \in Seq(S) /\ b \in Seq(S)
  <2>1. a = [i \in 1..m |-> a[i]] /\ b = [i \in 1..n |-> b[i]] BY DEF Costed
  <2>2. (\A i \in 1..m : a[i] \in S) /\ \A i \in 1..n : b[i] \in S OBVIOUS
  <2> HIDE DEF m, n, S
  <2>3. [i \in 1..m |-> a[i]] \in Seq(S) BY <1>0, <2>2
  <2>4. [i \in 1..n |-> b[i]] \in Seq(S) BY <1>0, <2>2
  <2> QED BY <2>1, <2>3, <2>4
<1> HIDE DEF S
<1>2. /\ a \o b \in Seq(S) /\ Len(a \o b) = m + n
      /\ \A i \in 1..m : (a \o b)[i] = a[i]
      /\ \A i \in 1..n : (a \o b)[m + i] = b[i]
  BY <1>1
<1>3. a \o b = [i \in 1..Len(a \o b) |-> (a \o b)[i]]
  <2>1. \A w \in Seq(S) : w = [i \in 1..Len(w) |-> w[i]] OBVIOUS
  <2> QED BY <1>2, <2>1
<1>4. /\ n # 0 /\ b[1].hour = cursor /\ b[n].hour + HourTicks = until
      /\ \A i \in 1..n - 1 : b[i + 1].hour = b[i].hour + HourTicks
  BY <1>1 DEF OneCostPerHour
<1> HIDE DEF m, n
<1>5. CASE a = <<>> /\ cursor = from
  <2>1. a \o b = b BY <1>1, <1>5
  <2> QED BY <1>5, <2>1
<1>6. CASE OneCostPerHour(a, from, cursor)
  <2>1. /\ m # 0 /\ a[1].hour = from /\ a[m].hour + HourTicks = cursor
        /\ \A i \in 1..m - 1 : a[i + 1].hour = a[i].hour + HourTicks
    BY <1>1, <1>6 DEF OneCostPerHour, m
  <2>2. (a \o b)[1].hour = from
    <3>1. 1 \in 1..m BY <1>0, <2>1
    <3> QED BY <1>2, <2>1, <3>1
  <2>3. (a \o b)[m + n].hour + HourTicks = until
    <3>1. n \in 1..n BY <1>0, <1>4
    <3> QED BY <1>2, <1>4, <3>1
  <2>4. ASSUME NEW i \in 1..(m + n) - 1 PROVE (a \o b)[i + 1].hour = (a \o b)[i].hour + HourTicks
    <3>1. CASE i < m
      <4>1. i \in 1..m - 1 /\ i \in 1..m /\ i + 1 \in 1..m BY <1>0, <3>1
      <4> QED BY <1>2, <2>1, <4>1
    <3>2. CASE i = m
      <4>1. m \in 1..m /\ 1 \in 1..n BY <1>0, <1>4, <2>1
      <4> QED BY <1>2, <1>4, <2>1, <3>2, <4>1
    <3>3. CASE i > m
      <4>1. PICK j \in 1..n - 1 : i = m + j
        <5>1. i - m \in 1..n - 1 /\ i = m + (i - m) BY <1>0, <3>3
        <5> QED BY <5>1
      <4>2. j \in 1..n /\ j + 1 \in 1..n /\ (m + j) + 1 = m + (j + 1) BY <1>0
      <4>3. (a \o b)[m + j] = b[j] /\ (a \o b)[m + (j + 1)] = b[j + 1] BY <1>2, <4>2
      <4> QED BY <1>4, <4>1, <4>2, <4>3
    <3>4. i < m \/ i = m \/ i > m BY <1>0
    <3> QED BY <3>1, <3>2, <3>3, <3>4
  <2>5. a \o b # <<>> BY <1>0, <1>2, <1>4
  <2>6. OneCostPerHour(a \o b, from, until) BY <1>2, <2>2, <2>3, <2>4, <2>5 DEF OneCostPerHour
  <2> QED BY <1>0, <1>2, <1>3, <2>6 DEF Costed
<1> QED BY <1>5, <1>6 DEF Costed

Drawn(costs, records, n) ==
    /\ Len(costs) = n
    /\ \A i \in 1..n : \E j \in 1..n : /\ costs[i].hour = records[j].from
                                       /\ costs[i].amount = records[j].amount

\* The costs of an accepted page are records of the page.
LEMMA CostsAreRecords ==
    ASSUME NEW page, NEW from, NEW until, NEW n \in Nat, Len(page.records) = n,
           DOMAIN page.records = 1..n, \A i \in 1..n : page.records[i].from \in Nat,
           NEW seen, seen = AuthoritativeHourCosts(page, from, until), seen.kind = "costs"
    PROVE  Drawn(seen.costs, page.records, n)
<1> DEFINE sorted == SortedByStart(page.records)
<1>1. seen.costs = HourCosts(sorted)
  BY DEF AuthoritativeHourCosts, Error, Pending, sorted
<1>2. sorted = [i \in 1..n |-> sorted[i]] BY DEF SortedByStart
<1>3. \A i \in 1..n : \E j \in 1..n : sorted[i] = page.records[j] BY SortedAreRecords
<1> HIDE DEF sorted
<1>4. Len(sorted) = n BY <1>2
<1>5. seen.costs = [i \in 1..n |-> [hour |-> sorted[i].from, amount |-> sorted[i].amount]]
  BY <1>1, <1>4 DEF HourCosts
<1>6. Len(seen.costs) = n BY <1>5
<1>7. \A i \in 1..n : seen.costs[i].hour = sorted[i].from /\ seen.costs[i].amount = sorted[i].amount
  BY <1>5
<1>8. ASSUME NEW i \in 1..n
      PROVE  \E j \in 1..n : /\ seen.costs[i].hour = page.records[j].from
                            /\ seen.costs[i].amount = page.records[j].amount
  <2>1. PICK j \in 1..n : sorted[i] = page.records[j] BY <1>3
  <2> QED BY <1>7, <2>1
<1> QED BY <1>6, <1>8 DEF Drawn

\* _authoritative_hour_costs accepts nothing but a complete account: of the
\* records it was given, in whatever order and however many, one for every
\* hour of the window and in the order of the hours.
THEOREM AcceptedPageIsComplete ==
    ASSUME NEW page, NEW from \in Nat, NEW until \in Nat, from < until,
           NEW n \in Nat, Len(page.records) = n, DOMAIN page.records = 1..n,
           \A i \in 1..n : page.records[i].from \in Nat,
           NEW seen, seen = AuthoritativeHourCosts(page, from, until), seen.kind = "costs"
    PROVE  OneCostPerHour(seen.costs, from, until) /\ Drawn(seen.costs, page.records, n)
<1>1. OneCostPerHour(seen.costs, from, until) BY PageCovers
<1>2. Drawn(seen.costs, page.records, n) BY CostsAreRecords
<1> QED BY <1>1, <1>2
=============================================================================
