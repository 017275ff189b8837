-------------------------- MODULE ServerlessBilling --------------------------
(***************************************************************************)
(* Endpoint-hour billing.  Runpod reports one record per endpoint and UTC  *)
(* hour, in pages that may be incomplete, and never says that an hour is   *)
(* final.  AuthoritativeHourCosts decides whether a page is a complete     *)
(* account of a window (a sequence of hour costs), not yet one (pending)   *)
(* or none (an error).                                                     *)
(***************************************************************************)
EXTENDS ServerlessQuote, Sequences

\* billing_hour_bounds: the whole hours touched by [a, b), for a < b.
HourFloor(t) == (t \div HourTicks) * HourTicks
HourCeiling(t) == HourFloor(t + HourTicks - 1)

\* The hours of a window whose bounds are hours.
HoursIn(from, until) ==
    {h \in from..until : h < until /\ (h - from) % HourTicks = 0}

\* serverless_billing_hour_starts: first and last hour an interval touches.
FirstHour(a) == HourFloor(a)
LastHour(b) == HourCeiling(b) - HourTicks

\* _ordered_hours_cover on an allocation of contiguous hours.
AllocationCovers(first, last, a, b) == first <= FirstHour(a) /\ last >= LastHour(b)

-----------------------------------------------------------------------------
(* page: echo (the query echo matches), count, unique, records, total;     *)
(* record: from, until, own (its serverlessId is the endpoint's), parts    *)
(* (the sum of its component amounts), amount.                             *)

\* _amounts_from_mapping, billing_amounts: components sum to the total.
AmountsExact(record) == record.parts = record.amount

Error == [kind |-> "error", costs |-> <<>>]
Pending == [kind |-> "pending", costs |-> <<>>]

\* One record of the walk, at the cursor the records before it reached.
WalkRecord(rec, cursor, until) ==
    CASE rec.until <= rec.from -> "error"
      [] rec.from > cursor /\ rec.from < until -> "pending"
      [] rec.from # cursor -> "error"
      [] rec.until > until -> "error"
      [] rec.until < rec.from + HourTicks -> "pending"
      [] rec.until # rec.from + HourTicks -> "error"
      [] rec.from % HourTicks # 0 -> "error"   \* not a UTC hour
      [] OTHER -> "costs"

\* The cursor at record i: the end of the record before it.
Cursor(records, i, from) == IF i = 1 THEN from ELSE records[i - 1].until

\* The loop over the sorted records: it leaves at the first that is not the
\* next whole hour.  No record it accepts goes past the window, so it has
\* covered the window exactly when the cursor is at its end.
Walk(records, from, until) ==
    LET Verdict(i) == WalkRecord(records[i], Cursor(records, i, from), until)
        odd == {i \in DOMAIN records : Verdict(i) # "costs"}
    IN IF \E i \in odd : Verdict(i) = "error" /\ \A j \in odd : i <= j THEN "error"
       ELSE IF odd # {} \/ Cursor(records, Len(records) + 1, from) # until THEN "pending"
       ELSE "costs"

TotalOf(records) ==
    LET sum[i \in 0..Len(records)] ==
            IF i = 0 THEN 0 ELSE sum[i - 1] + records[i].amount
    IN sum[Len(records)]

HourCosts(records) ==
    [i \in 1..Len(records) |-> [hour |-> records[i].from, amount |-> records[i].amount]]

\* parsed.sort by start, which keeps the order of equal ones.
Position(records, j) ==
    Cardinality({k \in DOMAIN records : \/ records[k].from < records[j].from
                                        \/ records[k].from = records[j].from /\ k <= j})
SortedByStart(records) ==
    [i \in DOMAIN records |-> records[CHOOSE j \in DOMAIN records : Position(records, j) = i]]

\* _authoritative_hour_costs.
AuthoritativeHourCosts(page, from, until) ==
    IF ~page.echo \/ page.count # Len(page.records) THEN Error
    ELSE IF page.records = <<>>
         THEN IF page.unique \in {0, 1} THEN Pending ELSE Error
    ELSE IF page.unique # 1
            \/ \E i \in DOMAIN page.records :
                  ~page.records[i].own \/ ~AmountsExact(page.records[i])
         THEN Error
    ELSE LET sorted == SortedByStart(page.records)
             kind == Walk(sorted, from, until)
         IN IF kind # "costs" THEN [kind |-> kind, costs |-> <<>>]
            ELSE IF page.total # TotalOf(sorted) THEN Error
            ELSE [kind |-> "costs", costs |-> HourCosts(sorted)]

\* serverless_endpoint_hour_cost_totals.
CostTotal(costs) == TotalOf(costs)

\* The costs are one for every hour of the window, in order.
OneCostPerHour(costs, from, until) ==
    /\ costs # <<>>
    /\ costs[1].hour = from
    /\ \A i \in 1..Len(costs) - 1 : costs[i + 1].hour = costs[i].hour + HourTicks
    /\ costs[Len(costs)].hour + HourTicks = until
=============================================================================
