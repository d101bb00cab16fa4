--------------------- MODULE SubscriptionBillingProofs ---------------------
(***************************************************************************)
(* Theorems about SubscriptionBilling, for any number of processes, plans  *)
(* and subscriptions, and any ceiling on the periods settled at once.      *)
(***************************************************************************)
EXTENDS SubscriptionBilling, TLAPS

\* A row a run still holds is up to date, or its period has been settled
\* meanwhile and the index will refuse it.
RowsKnown ==
  \A p \in Procs : \A row \in run[p].rows :
    /\ sub[row.sub].status # "NONE"
    /\ row.next <= run[p].date
    /\ row.next = sub[row.sub].next \/ Settled(row.sub, row.next)

\* A billing lies on the schedule of a subscription that exists, begins by
\* the date of its run, and passes that date or stops at the ceiling.
BillsKnown ==
  \A b \in bills :
    /\ sub[b.sub].status # "NONE"
    /\ b.start <= b.date
    /\ b.date < End(b) \/ b.periods = MaxPeriods

Ordered == \A s \in Subs : sub[s].first <= sub[s].next

BillingInv == TypeOK /\ Ordered /\ PeriodsPartition /\ RowsKnown /\ BillsKnown
-----------------------------------------------------------------------------
\* What the assumption says of single intervals, prices and dates.
LEMMA StepsPositive == \A x \in Steps : x \in Nat \ {0}
BY BillingAssumption

LEMMA PricesNat == \A x \in Prices : x \in Nat
BY BillingAssumption

LEMMA DatesNat == \A x \in Dates : x \in Nat
BY BillingAssumption DEF Dates

\* Products of positive and of natural numbers.
LEMMA Product ==
  ASSUME NEW a \in Nat \ {0}, NEW b \in Nat \ {0}
  PROVE  a * b \in Nat \ {0}
OBVIOUS

LEMMA ProductNat ==
  ASSUME NEW a \in Nat, NEW b \in Nat
  PROVE  a * b \in Nat
OBVIOUS

\* The quotient plus one, times the divisor, passes the dividend.
LEMMA DivPasses ==
  ASSUME NEW a \in Nat, NEW b \in Nat \ {0}
  PROVE  a \div b \in Nat /\ a < (a \div b + 1) * b
OBVIOUS

\* What a run settles begins at next and passes its date, up to the ceiling.
LEMMA PeriodsPass ==
  ASSUME NEW next \in Nat, NEW step \in Nat \ {0}, NEW date \in Nat, next <= date
  PROVE  /\ Periods(next, step, date) \in Nat \ {0}
         /\ \/ date < next + Periods(next, step, date) * step
            \/ Periods(next, step, date) = MaxPeriods
<1> DEFINE q == (date - next) \div step
<1>1. date - next \in Nat
  OBVIOUS
<1>2. q \in Nat /\ date - next < (q + 1) * step
  BY <1>1, DivPasses
<1> HIDE DEF q
<1>3. Periods(next, step, date) = IF q + 1 <= MaxPeriods THEN q + 1 ELSE MaxPeriods
  BY DEF Periods, q
<1>4. CASE q + 1 <= MaxPeriods
  <2>1. (q + 1) * step \in Nat
    BY <1>2, ProductNat
  <2>2. date < next + (q + 1) * step
    BY <1>2, <2>1
  <2> QED BY <1>2, <1>3, <1>4, <2>2
<1>5. CASE ~(q + 1 <= MaxPeriods)
  BY <1>2, <1>3, <1>5, BillingAssumption
<1> QED BY <1>4, <1>5

\* A billing settles at least one day.
LEMMA BillEnds ==
  ASSUME NEW b \in Bill
  PROVE  End(b) \in Nat /\ b.start \in Nat /\ b.start < End(b)
<1>1. b.periods * b.step \in Nat \ {0} /\ b.start \in Nat
  BY Product, BillingAssumption DEF Bill
<1> QED BY <1>1 DEF End

\* A process without a run has a well-typed one.
LEMMA NoRunType == NoRun \in Run
BY BillingAssumption DEF NoRun, Run, Dates
-----------------------------------------------------------------------------
\* The invariant holds at first.
LEMMA InitBilling == Init => BillingInv
<1> SUFFICES ASSUME Init PROVE BillingInv
  OBVIOUS
<1>1. NoSub \in Sub
  BY BillingAssumption DEF NoSub, Sub
<1>2. TypeOK
  BY <1>1, NoRunType DEF Init, TypeOK, Tolerance
<1>3. Ordered
  BY DEF Init, Ordered, NoSub
<1>4. PeriodsPartition
  BY DEF Init, PeriodsPartition, BillsOf, NoSub
<1>5. RowsKnown /\ BillsKnown
  BY DEF Init, RowsKnown, BillsKnown, NoRun
<1> QED BY <1>2, <1>3, <1>4, <1>5 DEF BillingInv

\* Plans, and the wallet's other movements, touch nothing that is billed.
LEMMA OtherInv ==
  ASSUME BillingInv, UNCHANGED <<sub, bills, run>>,
         \/ \E p \in Plans, price \in Prices, step \in Steps : UpdatePlan(p, price, step)
         \/ \E a \in Amounts : Credit(a) \/ Debit(a)
         \/ UNCHANGED vars
  PROVE  BillingInv'
<1>1. TypeOK'
  <2>1. CASE \E p \in Plans, price \in Prices, step \in Steps : UpdatePlan(p, price, step)
    BY <2>1 DEF BillingInv, UpdatePlan, TypeOK, Plan, money
  <2>2. CASE \E a \in Amounts : Credit(a) \/ Debit(a)
    BY <2>2, BillingAssumption DEF BillingInv, Credit, Debit, TypeOK, Tolerance
  <2>3. CASE UNCHANGED vars
    BY <2>3 DEF BillingInv, TypeOK, vars, money
  <2> QED BY <2>1, <2>2, <2>3
<1> QED BY <1>1 DEF BillingInv, Ordered, PeriodsPartition, RowsKnown, BillsKnown,
                    BillsOf, End, Settled

\* A new subscription has no billing and its schedule has passed no day.
LEMMA SubscribeInv ==
  ASSUME BillingInv, NEW s \in Subs, NEW p \in Plans, NEW start \in Dates,
         NEW auto \in BOOLEAN, Subscribe(s, p, start, auto)
  PROVE  BillingInv'
<1> DEFINE first == start + plan[p].step
<1>1. first \in Nat
  <2>1. plan[p] \in Plan
    BY DEF BillingInv, TypeOK
  <2>2. plan[p].step \in Steps
    BY <2>1 DEF Plan
  <2>3. plan[p].step \in Nat /\ start \in Nat
    BY <2>2, StepsPositive, DatesNat
  <2> QED BY <2>3
<1>2. /\ sub[s].status = "NONE"
      /\ sub' = [sub EXCEPT ![s] = [status |-> "active", plan |-> p, first |-> first,
                                    next |-> first, auto |-> auto]]
      /\ UNCHANGED <<plan, bills, wallet, funded, run>>
  BY DEF Subscribe, money
<1> HIDE DEF first
<1>3. \A t \in Subs : /\ t = s => sub'[t].first = first /\ sub'[t].next = first
                                  /\ sub'[t].status = "active"
                      /\ t # s => sub'[t] = sub[t]
  BY <1>2 DEF BillingInv, TypeOK
<1>4. TypeOK'
  <2>1. sub' \in [Subs -> Sub]
    BY <1>1, <1>2 DEF BillingInv, TypeOK, Sub
  <2> QED BY <1>2, <2>1 DEF BillingInv, TypeOK
<1>5. Ordered'
  BY <1>1, <1>3 DEF BillingInv, Ordered
<1>6. \A b \in bills : b.sub # s /\ b.sub \in Subs
  BY <1>2 DEF BillingInv, BillsKnown, TypeOK, Bill
<1>7. PeriodsPartition'
  <2>1. \A t \in Subs : BillsOf(t)' = BillsOf(t)
    BY <1>2 DEF BillsOf
  <2>2. BillsOf(s) = {}
    BY <1>6 DEF BillsOf
  <2>3. ASSUME NEW t \in Subs
        PROVE  /\ \A b \in BillsOf(t) : sub'[t].first <= b.start /\ End(b) <= sub'[t].next
               /\ \A b, c \in BillsOf(t) : b # c => End(b) <= c.start \/ End(c) <= b.start
               /\ \A day \in sub'[t].first..(sub'[t].next - 1) :
                    \E b \in BillsOf(t) : b.start <= day /\ day < End(b)
    <3>1. CASE t = s
      BY <1>1, <1>3, <2>2, <3>1
    <3>2. CASE t # s
      BY <1>3, <3>2 DEF BillingInv, PeriodsPartition
    <3> QED BY <3>1, <3>2
  <2> QED BY <2>1, <2>3 DEF PeriodsPartition, End
<1>8. RowsKnown'
  <2>1. \A q \in Procs : \A row \in run[q].rows : row.sub \in Subs
    BY DEF BillingInv, TypeOK, Run, Due
  <2> QED BY <1>2, <1>3, <2>1 DEF BillingInv, RowsKnown, Settled
<1>9. BillsKnown'
  BY <1>2, <1>3, <1>6 DEF BillingInv, BillsKnown, End
<1> QED BY <1>4, <1>5, <1>7, <1>8, <1>9 DEF BillingInv

\* A status moves no schedule.
LEMMA TransitionInv ==
  ASSUME BillingInv, NEW s \in Subs, NEW t \in Transitions, Transition(s, t)
  PROVE  BillingInv'
<1>1. /\ sub[s].status # "NONE"
      /\ sub' = [sub EXCEPT ![s].status = t[2]]
      /\ t[2] \in {"active", "paused", "cancelled"}
      /\ UNCHANGED <<plan, bills, wallet, funded, run>>
  BY DEF Transition, Transitions, money
<1>2. sub' \in [Subs -> Sub]
  BY <1>1 DEF BillingInv, TypeOK, Sub
<1>3. \A u \in Subs : /\ sub'[u].first = sub[u].first
                      /\ sub'[u].next = sub[u].next
                      /\ sub[u].status # "NONE" => sub'[u].status # "NONE"
  BY <1>1 DEF BillingInv, TypeOK, Sub
<1>4. TypeOK' /\ Ordered'
  BY <1>1, <1>2, <1>3 DEF BillingInv, TypeOK, Ordered
<1>5. PeriodsPartition'
  BY <1>1, <1>3 DEF BillingInv, PeriodsPartition, BillsOf, End
<1>6. RowsKnown'
  <2>1. \A q \in Procs : \A row \in run[q].rows : row.sub \in Subs
    BY DEF BillingInv, TypeOK, Run, Due
  <2> QED BY <1>1, <1>3, <2>1 DEF BillingInv, RowsKnown, Settled
<1>7. BillsKnown'
  <2>1. \A b \in bills : b.sub \in Subs
    BY DEF BillingInv, TypeOK, Bill
  <2> QED BY <1>1, <1>3, <2>1 DEF BillingInv, BillsKnown, End
<1> QED BY <1>4, <1>5, <1>6, <1>7 DEF BillingInv
-----------------------------------------------------------------------------
\* A run that begins or ends changes no subscription and no billing.
LEMMA RunInv ==
  ASSUME BillingInv, NEW p \in Procs, (\E date \in Dates : StartRun(p, date)) \/ Abort(p)
  PROVE  BillingInv'
<1>1. UNCHANGED <<plan, sub, bills, wallet, funded>>
  BY DEF StartRun, Abort, money
<1>2. PICK r : /\ run' = [run EXCEPT ![p] = r]
               /\ r \in Run
               /\ \A row \in r.rows : /\ sub[row.sub].status # "NONE"
                                      /\ row.next <= r.date
                                      /\ row.next = sub[row.sub].next
  <2>1. CASE Abort(p)
    <3>1. run' = [run EXCEPT ![p] = NoRun] /\ NoRun.rows = {}
      BY <2>1 DEF Abort, NoRun
    <3> QED BY <3>1, NoRunType
  <2>2. ASSUME NEW date \in Dates, StartRun(p, date)
        PROVE  \E r : /\ run' = [run EXCEPT ![p] = r]
                      /\ r \in Run
                      /\ \A row \in r.rows : /\ sub[row.sub].status # "NONE"
                                             /\ row.next <= r.date
                                             /\ row.next = sub[row.sub].next
    <3> DEFINE r == [date |-> date, balance |-> wallet, rows |-> DueRows(date)]
    <3>1. DueRows(date) \subseteq Due
      BY DEF DueRows, Due, BillingInv, TypeOK, Sub, Plan
    <3>2. \A row \in DueRows(date) : /\ sub[row.sub].status # "NONE"
                                     /\ row.next <= date
                                     /\ row.next = sub[row.sub].next
      BY DEF DueRows
    <3>3. r \in Run
      BY <3>1 DEF Run, BillingInv, TypeOK
    <3>4. run' = [run EXCEPT ![p] = r]
      BY <2>2 DEF StartRun
    <3>5. r.rows = DueRows(date) /\ r.date = date
      OBVIOUS
    <3> HIDE DEF r
    <3> QED BY <3>2, <3>3, <3>4, <3>5
  <2> QED BY <2>1, <2>2
<1>3. TypeOK'
  BY <1>1, <1>2 DEF BillingInv, TypeOK
<1>4. RowsKnown'
  <2>1. \A q \in Procs : run'[q] = IF q = p THEN r ELSE run[q]
    BY <1>2 DEF BillingInv, TypeOK
  <2> QED BY <1>1, <1>2, <2>1 DEF BillingInv, RowsKnown, Settled
<1>5. Ordered' /\ PeriodsPartition' /\ BillsKnown'
  BY <1>1 DEF BillingInv, Ordered, PeriodsPartition, BillsKnown, BillsOf, End
<1> QED BY <1>3, <1>4, <1>5 DEF BillingInv

\* What is left of a run after one row is some of what it held.
LEMMA WithoutRow ==
  ASSUME NEW r \in Run, NEW row
  PROVE  /\ Without(r, row) \in Run
         /\ Without(r, row).rows \subseteq r.rows
         /\ Without(r, row).rows # {} => Without(r, row).date = r.date
<1>1. CASE r.rows = {row}
  BY <1>1, NoRunType DEF Without, NoRun
<1>2. CASE r.rows # {row}
  BY <1>2 DEF Without, Run
<1> QED BY <1>1, <1>2

\* A row that is settled extends the partition by the days it bills.
LEMMA SettleInv ==
  ASSUME BillingInv, NEW p \in Procs, NEW row \in run[p].rows, SettleRow(p, row)
  PROVE  BillingInv'
<1> DEFINE r       == run[p]
           s       == row.sub
           periods == Periods(row.next, row.step, r.date)
           amount  == row.price * periods
           pays    == PaysFrom(row.auto, r.balance, amount)
           bill    == [sub |-> s, start |-> row.next, periods |-> periods,
                       step |-> row.step, amount |-> amount,
                       method |-> IF pays THEN "wallet" ELSE "due", date |-> r.date]
<1>0. TypeOK /\ Ordered /\ PeriodsPartition /\ RowsKnown /\ BillsKnown
  BY DEF BillingInv
<1>1. r \in Run /\ row \in Due /\ run' = [run EXCEPT ![p] = Without(r, row)]
      /\ UNCHANGED <<plan, funded>>
  BY <1>0 DEF TypeOK, Run, SettleRow
<1>2. /\ s \in Subs /\ row.next \in Nat /\ row.step \in Nat \ {0} /\ row.price \in Nat
      /\ r.date \in Nat /\ r.date \in Dates /\ r.balance \in Int /\ row.next <= r.date
      /\ sub[s].status # "NONE"
      /\ row.next = sub[s].next \/ Settled(s, row.next)
  <2>1. /\ sub[s].status # "NONE" /\ row.next <= r.date
        /\ row.next = sub[s].next \/ Settled(s, row.next)
    BY <1>0 DEF RowsKnown
  <2>2. /\ s \in Subs /\ row.next \in Nat /\ row.step \in Steps /\ row.price \in Prices
        /\ r.date \in Dates /\ r.balance \in Int
    BY <1>1 DEF Due, Run
  <2>3. row.step \in Nat \ {0} /\ row.price \in Nat /\ r.date \in Nat
    BY <2>2, StepsPositive, PricesNat, DatesNat
  <2> QED BY <2>1, <2>2, <2>3
<1>3. /\ Without(r, row) \in Run
      /\ Without(r, row).rows \subseteq r.rows
      /\ Without(r, row).rows # {} => Without(r, row).date = r.date
  BY <1>1, WithoutRow
<1>4. \A q \in Procs : /\ run'[q].rows \subseteq run[q].rows
                       /\ run'[q].rows # {} => run'[q].date = run[q].date
  BY <1>0, <1>1, <1>3 DEF TypeOK
<1>5. run' \in [Procs -> Run]
  BY <1>0, <1>1, <1>3 DEF TypeOK
\* The row is skipped: only the run changes.
<1>6. CASE row.price = 0 \/ Settled(s, row.next)
  <2>1. UNCHANGED <<sub, bills, wallet>>
    BY <1>6 DEF SettleRow
  <2>2. TypeOK'
    BY <1>0, <1>1, <1>5, <2>1 DEF TypeOK
  <2>3. RowsKnown'
    BY <1>0, <1>4, <2>1 DEF RowsKnown, Settled
  <2>4. Ordered' /\ PeriodsPartition' /\ BillsKnown'
    BY <1>0, <2>1 DEF Ordered, PeriodsPartition, BillsKnown, BillsOf, End
  <2> QED BY <2>2, <2>3, <2>4 DEF BillingInv
\* The row is billed: it is up to date, and the schedule moves to its end.
<1>7. CASE ~(row.price = 0 \/ Settled(s, row.next))
  <2>1. /\ bills' = bills \cup {bill}
        /\ wallet' = IF pays THEN r.balance - amount ELSE wallet
        /\ sub' = [sub EXCEPT ![s].next = row.next + periods * row.step]
    BY <1>7 DEF SettleRow
  <2>2. row.next = sub[s].next
    BY <1>2, <1>7
  <2>3. /\ periods \in Nat \ {0}
        /\ r.date < row.next + periods * row.step \/ periods = MaxPeriods
    BY <1>2, PeriodsPass
  <2>4. pays => r.balance >= amount
    BY DEF PaysFrom
  <2> HIDE DEF periods, pays
  <2>5. periods * row.step \in Nat \ {0} /\ amount \in Nat
    BY <1>2, <2>3, Product, ProductNat
  <2> DEFINE end == row.next + periods * row.step
  <2>6. end \in Nat /\ row.next < end
    BY <1>2, <2>5
  <2>7. bill \in Bill /\ End(bill) = end /\ bill.sub = s /\ bill.start = row.next
    <3>1. row.step \in Steps
      BY <1>1 DEF Due
    <3> QED BY <1>2, <2>3, <2>5, <3>1 DEF Bill, End
  <2>8. \A t \in Subs : /\ sub'[t].first = sub[t].first /\ sub'[t].status = sub[t].status
                        /\ sub'[t].next = IF t = s THEN end ELSE sub[t].next
    BY <1>0, <1>2, <2>1 DEF TypeOK, Sub
  <2>9. bill.start <= bill.date /\ (bill.date < end \/ bill.periods = MaxPeriods)
    BY <1>2, <2>3
  <2>10. TypeOK'
    <3>1. sub' \in [Subs -> Sub]
      BY <1>0, <1>2, <2>1, <2>6 DEF TypeOK, Sub
    <3>2. wallet' \in Int /\ wallet' >= -Tolerance
      BY <1>0, <1>2, <2>1, <2>4, <2>5 DEF TypeOK, Tolerance
    <3> HIDE DEF bill
    <3> QED BY <1>0, <1>1, <1>5, <2>1, <2>7, <3>1, <3>2 DEF TypeOK
  <2> HIDE DEF bill, amount, end
  <2>11. \A t \in Subs : sub[t].first \in Nat /\ sub[t].next \in Nat /\ sub[t].first <= sub[t].next
    BY <1>0 DEF TypeOK, Ordered, Sub
  <2>12. Ordered'
    BY <1>2, <2>2, <2>6, <2>8, <2>11 DEF Ordered
  <2>13. \A b \in bills : /\ b \in Bill /\ b.sub \in Subs
                         /\ End(b) \in Nat /\ b.start \in Nat /\ b.start < End(b)
    BY <1>0, BillEnds DEF TypeOK, Bill
  <2>14. PeriodsPartition'
    <3> SUFFICES ASSUME NEW t \in Subs
                 PROVE  /\ \A b \in BillsOf(t)' : sub'[t].first <= b.start /\ End(b) <= sub'[t].next
                        /\ \A b, c \in BillsOf(t)' : b # c => End(b) <= c.start \/ End(c) <= b.start
                        /\ \A day \in sub'[t].first..(sub'[t].next - 1) :
                             \E b \in BillsOf(t)' : b.start <= day /\ day < End(b)
      BY DEF PeriodsPartition, End
    <3>1. /\ \A b \in BillsOf(t) : sub[t].first <= b.start /\ End(b) <= sub[t].next
          /\ \A b, c \in BillsOf(t) : b # c => End(b) <= c.start \/ End(c) <= b.start
          /\ \A day \in sub[t].first..(sub[t].next - 1) :
               \E b \in BillsOf(t) : b.start <= day /\ day < End(b)
      BY <1>0 DEF PeriodsPartition
    <3>2. CASE t # s
      <4>1. BillsOf(t)' = BillsOf(t)
        BY <2>1, <2>7, <3>2 DEF BillsOf
      <4> QED BY <2>8, <3>1, <3>2, <4>1
    <3>3. CASE t = s
      <4>1. BillsOf(t)' = BillsOf(t) \cup {bill}
        BY <2>1, <2>7, <3>3 DEF BillsOf
      <4>2. sub'[t].first = sub[t].first /\ sub'[t].next = end /\ sub[t].next = row.next
        BY <2>2, <2>8, <3>3
      <4>3. \A b \in BillsOf(t) : End(b) \in Nat /\ b.start \in Nat
        BY <2>13 DEF BillsOf
      <4>4. \A b \in BillsOf(t)' : sub'[t].first <= b.start /\ End(b) <= sub'[t].next
        BY <1>2, <2>6, <2>7, <2>11, <3>1, <4>1, <4>2, <4>3
      <4>5. ASSUME NEW b \in BillsOf(t)', NEW c \in BillsOf(t)', b # c
            PROVE  End(b) <= c.start \/ End(c) <= b.start
        <5>1. CASE b \in BillsOf(t) /\ c \in BillsOf(t)
          BY <3>1, <4>5, <5>1
        <5>2. CASE b = bill
          <6>1. c \in BillsOf(t)
            BY <4>1, <4>5, <5>2
          <6> QED BY <2>7, <3>1, <4>2, <5>2, <6>1
        <5>3. CASE c = bill
          <6>1. b \in BillsOf(t)
            BY <4>1, <4>5, <5>3
          <6> QED BY <2>7, <3>1, <4>2, <5>3, <6>1
        <5> QED BY <4>1, <5>1, <5>2, <5>3
      <4>6. ASSUME NEW day \in sub'[t].first..(sub'[t].next - 1)
            PROVE  \E b \in BillsOf(t)' : b.start <= day /\ day < End(b)
        <5>1. day \in Int /\ sub[t].first <= day /\ day < end
          BY <2>6, <2>11, <4>2
        <5>2. CASE day < row.next
          <6>1. day \in sub[t].first..(sub[t].next - 1)
            BY <1>2, <2>11, <4>2, <5>1, <5>2
          <6> QED BY <3>1, <4>1, <6>1
        <5>3. CASE ~(day < row.next)
          BY <1>2, <2>7, <4>1, <5>1, <5>3
        <5> QED BY <5>2, <5>3
      <4> QED BY <4>4, <4>5, <4>6
    <3> QED BY <3>2, <3>3
  <2>15. RowsKnown'
    <3> SUFFICES ASSUME NEW q \in Procs, NEW w \in run'[q].rows
                 PROVE  /\ sub'[w.sub].status # "NONE"
                        /\ w.next <= run'[q].date
                        /\ w.next = sub'[w.sub].next \/ Settled(w.sub, w.next)'
      BY DEF RowsKnown
    <3>1. w \in run[q].rows /\ run'[q].date = run[q].date
      BY <1>4
    <3>2. /\ sub[w.sub].status # "NONE" /\ w.next <= run[q].date
          /\ w.next = sub[w.sub].next \/ Settled(w.sub, w.next)
      BY <1>0, <3>1 DEF RowsKnown
    <3>3. w.sub \in Subs
      BY <1>0, <3>1 DEF TypeOK, Run, Due
    <3>4. CASE Settled(w.sub, w.next)
      BY <2>1, <2>8, <3>1, <3>2, <3>3, <3>4 DEF Settled
    <3>5. CASE w.next = sub[w.sub].next /\ w.sub = s
      BY <2>1, <2>2, <2>7, <2>8, <3>1, <3>2, <3>3, <3>5 DEF Settled
    <3>6. CASE w.next = sub[w.sub].next /\ w.sub # s
      BY <2>8, <3>1, <3>2, <3>3, <3>6
    <3> QED BY <3>2, <3>4, <3>5, <3>6
  <2>16. BillsKnown'
    <3> SUFFICES ASSUME NEW b \in bills'
                 PROVE  /\ sub'[b.sub].status # "NONE"
                        /\ b.start <= b.date
                        /\ b.date < End(b) \/ b.periods = MaxPeriods
      BY DEF BillsKnown, End
    <3>1. CASE b \in bills
      BY <1>0, <2>8, <2>13, <3>1 DEF BillsKnown
    <3>2. CASE b = bill
      BY <1>2, <2>7, <2>8, <2>9, <3>2
    <3> QED BY <2>1, <3>1, <3>2
  <2> QED BY <2>10, <2>12, <2>14, <2>15, <2>16 DEF BillingInv
<1> QED BY <1>6, <1>7
-----------------------------------------------------------------------------
\* The invariant is inductive.
LEMMA NextBilling == BillingInv /\ [Next]_vars => BillingInv'
<1> SUFFICES ASSUME BillingInv, [Next]_vars PROVE BillingInv'
  OBVIOUS
<1>1. CASE \/ \E p \in Plans, price \in Prices, step \in Steps : UpdatePlan(p, price, step)
           \/ \E a \in Amounts : Credit(a) \/ Debit(a)
           \/ UNCHANGED vars
  <2>1. UNCHANGED <<sub, bills, run>>
    BY <1>1 DEF UpdatePlan, Credit, Debit, vars
  <2> QED BY <1>1, <2>1, OtherInv
<1>2. ASSUME NEW s \in Subs, NEW p \in Plans, NEW start \in Dates, NEW auto \in BOOLEAN,
             Subscribe(s, p, start, auto)
      PROVE  BillingInv'
  BY <1>2, SubscribeInv
<1>3. ASSUME NEW s \in Subs, NEW t \in Transitions, Transition(s, t)
      PROVE  BillingInv'
  BY <1>3, TransitionInv
<1>4. ASSUME NEW p \in Procs, (\E date \in Dates : StartRun(p, date)) \/ Abort(p)
      PROVE  BillingInv'
  BY <1>4, RunInv
<1>5. ASSUME NEW p \in Procs, NEW row \in run[p].rows, SettleRow(p, row)
      PROVE  BillingInv'
  BY <1>5, SettleInv
<1> QED BY <1>1, <1>2, <1>3, <1>4, <1>5 DEF Next

\* The inductive invariant of the billing engine.
THEOREM BillingInvariant == Spec => []BillingInv
<1> QED BY InitBilling, NextBilling, PTL DEF Spec

\* Plans, subscriptions, billings and runs keep their types, and the wallet
\* stays within the tolerance of zero whichever process writes it last.
THEOREM BillingTypeCorrect == Spec => []TypeOK
<1>1. BillingInv => TypeOK
  BY DEF BillingInv
<1> QED BY <1>1, BillingInvariant, PTL

\* Every day a schedule has passed is in exactly one billing, whatever runs
\* race or end half way.
THEOREM PeriodsAreBilledOnce == Spec => []PeriodsPartition
<1>1. BillingInv => PeriodsPartition
  BY DEF BillingInv
<1> QED BY <1>1, BillingInvariant, PTL

\* A date that is run again bills nothing again below the ceiling.
THEOREM ReplaysAreFree == Spec => []ReplayNeverCharges
<1>1. BillingInv => ReplayNeverCharges
  <2> SUFFICES ASSUME BillingInv, NEW b \in bills, NEW c \in bills,
                      b.sub = c.sub, b.date = c.date, b.start < c.start
               PROVE  b.periods = MaxPeriods
    BY DEF ReplayNeverCharges
  <2>1. /\ b \in Bill /\ c \in Bill /\ b.sub \in Subs
        /\ b.date \in Nat /\ c.date \in Nat
    BY BillingAssumption DEF BillingInv, TypeOK, Bill, Dates
  <2>2. /\ End(b) \in Nat /\ b.start \in Nat /\ b.start < End(b)
        /\ End(c) \in Nat /\ c.start \in Nat /\ c.start < End(c)
    BY <2>1, BillEnds
  <2>3. End(b) <= c.start \/ End(c) <= b.start
    BY <2>1, <2>2 DEF BillingInv, PeriodsPartition, BillsOf
  <2>4. c.start <= c.date /\ (b.date < End(b) \/ b.periods = MaxPeriods)
    BY DEF BillingInv, BillsKnown
  <2> QED BY <2>1, <2>2, <2>3, <2>4
<1> QED BY <1>1, BillingInvariant, PTL
=============================================================================
