------------------------ MODULE SubscriptionBilling ------------------------
(***************************************************************************)
(* The subscription engine of the REST server (server/lib/subscriptions.js)*)
(* for one customer: plans, subscriptions and the billing run that settles *)
(* the periods that fell due, from the customer's wallet or as a row to    *)
(* collect.                                                                *)
(*                                                                         *)
(* runBilling is one synchronous call: it reads the due subscriptions with *)
(* their plans and the customer's balance in one query, then settles each  *)
(* in a transaction of its own.  Nothing else runs in its process in       *)
(* between, but another process that has the database open may, and the    *)
(* run may end after any of the transactions (a crash, a busy database).   *)
(*                                                                         *)
(* Dates are days; the caller of a run names any date.  Money is in minor  *)
(* units.  Whether a plan is_active only decides who may subscribe, which  *)
(* Subscribe leaves open.                                                  *)
(***************************************************************************)
EXTENDS Integers, FiniteSetsExt

CONSTANTS
  Procs,        \* server processes that open the database
  Subs,         \* customer_subscriptions rows a behaviour may create
  Plans,        \* subscription_plans rows
  Horizon,      \* bound: dates are 0..Horizon
  Prices,       \* prices a plan may have
  Steps,        \* values interval_days may have
  MaxPeriods,   \* MAX_CONSOLIDATED_PERIODS, 1200 in the code
  Amounts,      \* amounts of the customer's other wallet movements
  WalletCap     \* bound: credits stop here

ASSUME BillingAssumption ==
  /\ Horizon \in Nat
  /\ Plans # {}
  /\ Prices \subseteq Nat
  /\ Steps \subseteq Nat \ {0}
  /\ MaxPeriods \in Nat \ {0}
  /\ Amounts \subseteq Nat
  /\ WalletCap \in Nat

VARIABLES
  plan,    \* price and interval_days, per plan
  sub,     \* customer_subscriptions
  bills,   \* subscription_billings
  wallet,  \* customers.wallet_balance
  funded,  \* what other movements put into the wallet, net of what they took
  run      \* the billing run a process is in the middle of

money == <<wallet, funded>>
vars  == <<plan, sub, bills, money, run>>

Dates     == 0..Horizon
Tolerance == 1          \* 0.01 of the currency

\* A plan, a subscription and a billing; first is the first next_billing_date
\* a subscription had, step the interval its periods were billed at.
Plan == [price: Prices, step: Steps]
Sub  == [status: {"NONE", "active", "paused", "cancelled"}, plan: Plans,
         first: Nat, next: Nat, auto: BOOLEAN]
Bill == [sub: Subs, start: Nat, periods: Nat \ {0}, step: Steps,
         amount: Nat, method: {"due", "wallet"}, date: Dates]

\* A run: the date it was asked for, the balance it read, and the rows it
\* read and has still to settle, none when there is no run.
Due == [sub: Subs, next: Nat, price: Prices, step: Steps, auto: BOOLEAN]
Run == [date: Dates, balance: Int, rows: SUBSET Due]

NoSub == [status |-> "NONE", plan |-> CHOOSE p \in Plans : TRUE,
          first |-> 0, next |-> 0, auto |-> FALSE]
NoRun == [date |-> 0, balance |-> 0, rows |-> {}]

(* Types, and a balance never more than the 0.01 below zero that the       *)
(* wallet route tolerates (routes/customers.js:318), whichever process     *)
(* writes it last.                                                         *)
TypeOK ==
  /\ plan \in [Plans -> Plan]
  /\ sub \in [Subs -> Sub]
  /\ bills \subseteq Bill
  /\ wallet \in Int /\ wallet >= -Tolerance
  /\ funded \in Int
  /\ run \in [Procs -> Run]

Init ==
  /\ plan \in [Plans -> Plan]
  /\ sub = [s \in Subs |-> NoSub]
  /\ bills = {}
  /\ wallet = 0 /\ funded = 0
  /\ run = [p \in Procs |-> NoRun]
-----------------------------------------------------------------------------
\* A request is answered by a process that is not in the middle of a run.
Serving == \E p \in Procs : run[p] = NoRun

\* updatePlan.
UpdatePlan(p, price, step) ==
  /\ Serving
  /\ plan' = [plan EXCEPT ![p] = [price |-> price, step |-> step]]
  /\ UNCHANGED <<sub, bills, money, run>>

\* subscribeCustomer: one live subscription of a plan at a time.
Subscribe(s, p, start, auto) ==
  /\ Serving
  /\ sub[s].status = "NONE"
  /\ \A t \in Subs : sub[t].plan = p => sub[t].status \notin {"active", "paused"}
  /\ sub' = [sub EXCEPT ![s] =
       [status |-> "active", plan |-> p, first |-> start + plan[p].step,
        next |-> start + plan[p].step, auto |-> auto]]
  /\ UNCHANGED <<plan, bills, money, run>>

\* transitionSubscription, as pause, resume and cancel call it.
Transitions == {<<"active", "paused">>, <<"paused", "active">>,
                <<"active", "cancelled">>, <<"paused", "cancelled">>}
Transition(s, t) ==
  /\ Serving
  /\ sub[s].status = t[1]
  /\ sub' = [sub EXCEPT ![s].status = t[2]]
  /\ UNCHANGED <<plan, bills, money, run>>

\* The wallet's other movements: a credit, or a debit that it covers.
Credit(a) ==
  /\ Serving
  /\ wallet + a <= WalletCap
  /\ wallet' = wallet + a /\ funded' = funded + a
  /\ UNCHANGED <<plan, sub, bills, run>>
Debit(a) ==
  /\ Serving
  /\ wallet - a >= -Tolerance
  /\ wallet' = wallet - a /\ funded' = funded - a
  /\ UNCHANGED <<plan, sub, bills, run>>
-----------------------------------------------------------------------------
\* The periods a run settles at once: all that began by its date, up to the
\* ceiling.
OnePeriod(next, step, date) == 1                                     \* mutant
Periods(next, step, date)   ==
  LET begun == (date - next) \div step + 1
  IN  IF begun <= MaxPeriods THEN begun ELSE MaxPeriods

\* Whether the wallet, as the run read it, pays an amount.
PaysWhenAuto(auto, balance, amount) == auto /\ amount > 0            \* mutant
PaysFrom(auto, balance, amount)     == auto /\ amount > 0 /\ balance >= amount

\* The UNIQUE (subscription_id, period_start) index refuses a billing.
NeverSettled(s, start) == FALSE                                      \* mutant
Settled(s, start)      == \E b \in bills : b.sub = s /\ b.start = start

\* The due rows as the run's query joins them.
DueRows(date) ==
  {[sub |-> s, next |-> sub[s].next, price |-> plan[sub[s].plan].price,
    step |-> plan[sub[s].plan].step, auto |-> sub[s].auto] :
     s \in {t \in Subs : sub[t].status = "active" /\ sub[t].next <= date}}

\* runBilling up to its first transaction.
StartRun(p, date) ==
  /\ run[p] = NoRun
  /\ DueRows(date) # {}
  /\ run' = [run EXCEPT ![p] = [date |-> date, balance |-> wallet, rows |-> DueRows(date)]]
  /\ UNCHANGED <<plan, sub, bills, money>>

\* The run goes on with its other rows, and is over when there is none.
Without(r, row) == IF r.rows = {row} THEN NoRun ELSE [r EXCEPT !.rows = @ \ {row}]

\* One row: skipped when it costs nothing or its period is settled already,
\* and otherwise billed, whatever its subscription and the wallet hold now.
SettleRow(p, row) ==
  LET r       == run[p]
      periods == Periods(row.next, row.step, r.date)
      amount  == row.price * periods
      pays    == PaysFrom(row.auto, r.balance, amount)
  IN
  /\ row \in r.rows
  /\ run' = [run EXCEPT ![p] = Without(r, row)]
  /\ IF row.price = 0 \/ Settled(row.sub, row.next)
       THEN UNCHANGED <<sub, bills, wallet>>
       ELSE
         /\ bills' = bills \cup
              {[sub |-> row.sub, start |-> row.next, periods |-> periods,
                step |-> row.step, amount |-> amount,
                method |-> IF pays THEN "wallet" ELSE "due", date |-> r.date]}
         /\ wallet' = IF pays THEN r.balance - amount ELSE wallet
         /\ sub' = [sub EXCEPT ![row.sub].next = row.next + periods * row.step]
  /\ UNCHANGED <<plan, funded>>

\* The process dies, or a transaction fails otherwise: the run is over.
Abort(p) ==
  /\ run[p] # NoRun
  /\ run' = [run EXCEPT ![p] = NoRun]
  /\ UNCHANGED <<plan, sub, bills, money>>
-----------------------------------------------------------------------------
Next ==
  \/ \E p \in Plans, price \in Prices, step \in Steps : UpdatePlan(p, price, step)
  \/ \E s \in Subs :
       \/ \E p \in Plans, start \in Dates, auto \in BOOLEAN : Subscribe(s, p, start, auto)
       \/ \E t \in Transitions : Transition(s, t)
  \/ \E a \in Amounts : Credit(a) \/ Debit(a)
  \/ \E p \in Procs :
       \/ \E date \in Dates : StartRun(p, date)
       \/ \E row \in run[p].rows : SettleRow(p, row)
       \/ Abort(p)

Spec == Init /\ [][Next]_vars
-----------------------------------------------------------------------------
BillsOf(s) == {b \in bills : b.sub = s}
End(b)     == b.start + b.periods * b.step

(* Every day a subscription's schedule has passed is paid for in exactly   *)
(* one billing, although plans change their interval, subscriptions pause, *)
(* runs end half way and two runs of two processes race (db/schema.js:     *)
(* 669-673: billing a period twice is impossible "even if two billing runs *)
(* race").                                                                 *)
PeriodsPartition ==
  \A s \in Subs :
    /\ \A b \in BillsOf(s) : sub[s].first <= b.start /\ End(b) <= sub[s].next
    /\ \A b, c \in BillsOf(s) : b # c => End(b) <= c.start \/ End(c) <= b.start
    /\ \A day \in sub[s].first..(sub[s].next - 1) :
         \E b \in BillsOf(s) : b.start <= day /\ day < End(b)

(* Two runs for the same date bill a subscription once (lib/subscriptions. *)
(* js:378-380: "replaying the same run date can never charge again"),      *)
(* except where the first was stopped by the ceiling on periods.           *)
ReplayNeverCharges ==
  \A b, c \in bills :
    b.sub = c.sub /\ b.date = c.date /\ b.start < c.start => b.periods = MaxPeriods
-----------------------------------------------------------------------------
(* A statement the sources make that a billing run does not keep.          *)

AmountOf(b) == b.amount
WalletBills == {b \in bills : b.method = "wallet"}

(* lib/subscriptions.js:344-346: "auto_renew + sufficient wallet balance   *)
(* -> wallet debit ... Otherwise -> a 'due' billing row".  What billing    *)
(* has debited was in the wallet, but for the tolerance.                   *)
DebitsAreFunded == MapThenSumSet(AmountOf, WalletBills) <= funded + Tolerance
=============================================================================
