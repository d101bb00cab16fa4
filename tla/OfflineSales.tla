---------------------------- MODULE OfflineSales ----------------------------
(***************************************************************************)
(* A sale on a till (session.js, submitSale): the stock of its items is    *)
(* read, the units are reserved for half an hour, and the invoice is       *)
(* booked together with its stock and its reservations.  The three are     *)
(* separate transactions of one IndexedDB that every tab of the till       *)
(* shares, and a tab may die between them; a sale whose reservation fails  *)
(* is booked all the same.                                                 *)
(*                                                                         *)
(* A call of submitSale runs in a tab of its own.  Calls for one invoice   *)
(* number are a sale resumed after a crash, parked in two tabs, or sent    *)
(* again after an error.  The batches of an item are added up.  Payments   *)
(* and the queue row, written with the invoice, are left to SyncQueue.     *)
(***************************************************************************)
EXTENDS Integers, FiniteSetsExt

CONSTANTS
  Invoices,   \* invoice numbers
  Calls,      \* calls of submitSale
  InvoiceOf,  \* the number each of them carries
  Items,      \* items on sale
  Known,      \* items the till has stock rows of
  Qty,        \* what a call sells of each item
  Stock0,     \* stock at the start
  Levels,     \* stock a pull may bring
  MaxPulls    \* bound on pulls

None == "none"

ASSUME SalesAssumption ==
  /\ None \notin Calls
  /\ InvoiceOf \in [Calls -> Invoices]
  /\ Known \subseteq Items
  /\ Qty \in [Calls -> [Items -> Nat]]
  /\ Stock0 \in [Items -> Nat]
  /\ Levels \subseteq Nat /\ MaxPulls \in Nat

VARIABLES
  at,        \* how far each call is
  unread,    \* items whose stock a call has yet to read
  seen,      \* the stock it read
  reserved,  \* calls whose reservation succeeded
  hold,      \* reservations, by call and item
  late,      \* calls whose reservations are past expiresAt
  stock,     \* stock rows, added up by item
  booked,    \* invoices: the call that wrote each
  freeing,   \* reservations a failed call is about to release
  sweeping,  \* reservations the boot sweep is about to expire
  received,  \* what pulls added to the stock of each item
  pulls,     \* pulls so far
  raced      \* a hold has come to miss some of the units it stands for

callVars == <<at, unread, seen, reserved>>
vars == <<callVars, hold, late, stock, booked, freeing, sweeping, received, pulls, raced>>

Places == {"new", "read", "save", "tidy", "done", "failed", "lost"}
Status == {None, "active", "committed", "released", "expired"}

TypeOK ==
  /\ at \in [Calls -> Places]
  /\ unread \in [Calls -> SUBSET Items]
  /\ seen \in [Calls -> [Items -> Nat]]
  /\ reserved \subseteq Calls /\ late \subseteq Calls
  /\ hold \in [Calls -> [Items -> Status]]
  /\ stock \in [Items -> Nat]
  /\ booked \in [Invoices -> Calls \cup {None}]
  /\ freeing \in [Calls -> SUBSET (Calls \X Items)]
  /\ sweeping \subseteq Calls \X Items
  /\ received \in [Items -> Int]
  /\ pulls \in 0..MaxPulls
  /\ raced \in BOOLEAN

Init ==
  /\ at = [c \in Calls |-> "new"]
  /\ unread = [c \in Calls |-> {}]
  /\ seen = [c \in Calls |-> [i \in Items |-> 0]]
  /\ reserved = {} /\ late = {}
  /\ hold = [c \in Calls |-> [i \in Items |-> None]]
  /\ stock = Stock0
  /\ booked = [n \in Invoices |-> None]
  /\ freeing = [c \in Calls |-> {}]
  /\ sweeping = {}
  /\ received = [i \in Items |-> 0]
  /\ pulls = 0
  /\ raced = FALSE
-----------------------------------------------------------------------------
Wanted(c) == {i \in Items : Qty[c][i] > 0}

Active    == {r \in Calls \X Items : hold[r[1]][r[2]] = "active"}
AnyActive == Active                                                  \* mutant
Overdue   == {r \in Active : r[1] \in late}

\* The hold table after some of its rows are written back with a new status.
Marked(rows, status) ==
  [c \in Calls |-> [i \in Items |-> IF <<c, i>> \in rows THEN status ELSE hold[c][i]]]

\* getReservedQty: active reservations that have not expired.
Holders(i)  == {c \in Calls \ late : hold[c][i] = "active"}
Reserved(i) == SumFunctionOnSet([c \in Calls |-> Qty[c][i]], Holders(i))

\* Items without stock rows count as unlimited.
PhysicalOnly(c, i) == i \in Known => Qty[c][i] <= seen[c][i]         \* mutant
Available(c, i)    == i \in Known => Qty[c][i] <= seen[c][i] - Reserved(i)
-----------------------------------------------------------------------------
\* submitSale, up to the first read.
Submit(c) ==
  /\ at[c] = "new"
  /\ at' = [at EXCEPT ![c] = "read"]
  /\ unread' = [unread EXCEPT ![c] = Wanted(c)]
  /\ UNCHANGED <<seen, reserved, hold, late, stock, booked, freeing, sweeping, received, pulls, raced>>

\* getPhysicalStockMap: one item after the other, outside any transaction.
ReadStock(c, i) ==
  /\ at[c] = "read" /\ i \in unread[c]
  /\ seen' = [seen EXCEPT ![c][i] = stock[i]]
  /\ unread' = [unread EXCEPT ![c] = @ \ {i}]
  /\ UNCHANGED <<at, reserved, hold, late, stock, booked, freeing, sweeping, received, pulls, raced>>

\* reserveStock: expired rows are swept and every item of the sale is held.
Reserve(c) ==
  /\ at[c] = "read" /\ unread[c] = {}
  /\ \A i \in Wanted(c) : Available(c, i)
  /\ hold' = [Marked(Overdue, "expired") EXCEPT ![c] =
                [i \in Items |-> IF i \in Wanted(c) THEN "active" ELSE None]]
  /\ reserved' = reserved \cup {c}
  /\ at' = [at EXCEPT ![c] = "save"]
  /\ raced' = (raced \/ \E i \in Wanted(c) \cap Known : seen[c][i] > stock[i])
  /\ UNCHANGED <<unread, seen, late, stock, booked, freeing, sweeping, received, pulls>>

\* Some item is short, or the store fails: the sale goes on without.
Unreserved(c) ==
  /\ at[c] = "read"
  /\ at' = [at EXCEPT ![c] = "save"]
  /\ UNCHANGED <<unread, seen, reserved, hold, late, stock, booked, freeing, sweeping, received, pulls, raced>>

\* Batches are used up one after the other and never below zero.
Overdrawn(have, q) == have - q                                       \* mutant
Taken(have, q) == IF have < q THEN 0 ELSE have - q

SecondToo(n)  == TRUE                                                \* mutant
FirstOf(n)    == booked[n] = None

\* What booking a call commits: reserved items the till knows the stock of.
Committed(c) == IF c \in reserved THEN Wanted(c) \cap Known ELSE {}

\* enqueueInvoiceSale: the invoice, its reservations and its stock.
Book(c) ==
  LET n == InvoiceOf[c] IN
  /\ at[c] = "save"
  /\ FirstOf(n)
  /\ booked' = [booked EXCEPT ![n] = c]
  /\ hold' = Marked({r \in Active : InvoiceOf[r[1]] = n /\ r[2] \in Committed(c)}, "committed")
  /\ stock' = [i \in Items |->
                 IF i \in Committed(c) THEN Taken(stock[i], Qty[c][i]) ELSE stock[i]]
  /\ at' = [at EXCEPT ![c] = "done"]
  /\ UNCHANGED <<unread, seen, reserved, late, freeing, sweeping, received, pulls, raced>>

\* ... or the number is booked already, and the call is answered with it, ...
Replayed(c) ==
  /\ at[c] = "save"
  /\ ~FirstOf(InvoiceOf[c])
  /\ at' = [at EXCEPT ![c] = "done"]
  /\ UNCHANGED <<unread, seen, reserved, hold, late, stock, booked, freeing, sweeping, received, pulls, raced>>

\* ... or the transaction fails, and releaseReservation reads the rows of the
\* invoice ...
NotBooked(c) ==
  /\ at[c] = "save"
  /\ at' = [at EXCEPT ![c] = "tidy"]
  /\ freeing' = [freeing EXCEPT ![c] = {r \in Active : InvoiceOf[r[1]] = InvoiceOf[c]}]
  /\ UNCHANGED <<unread, seen, reserved, hold, late, stock, booked, sweeping, received, pulls, raced>>

\* ... and writes them back as released, whatever became of them.
ReleaseHolds(c) ==
  /\ at[c] = "tidy"
  /\ at' = [at EXCEPT ![c] = "failed"]
  /\ hold' = Marked(freeing[c], "released")
  /\ freeing' = [freeing EXCEPT ![c] = {}]
  /\ raced' = (raced \/ \E r \in freeing[c] : at[r[1]] = "save")
  /\ UNCHANGED <<unread, seen, reserved, late, stock, booked, sweeping, received, pulls>>

\* The tab is closed or the power fails.
Die(c) ==
  /\ at[c] \in {"read", "save", "tidy"}
  /\ at' = [at EXCEPT ![c] = "lost"]
  /\ freeing' = [freeing EXCEPT ![c] = {}]
  /\ UNCHANGED <<unread, seen, reserved, hold, late, stock, booked, sweeping, received, pulls, raced>>
-----------------------------------------------------------------------------
\* Half an hour passes.
Expire(c) ==
  /\ c \notin late
  /\ \E i \in Items : hold[c][i] = "active"
  /\ late' = late \cup {c}
  /\ raced' = (raced \/ at[c] = "save")
  /\ UNCHANGED <<callVars, hold, stock, booked, freeing, sweeping, received, pulls>>

\* releaseExpiredReservations when a tab is opened: rows are read ...
BeginSweep ==
  /\ sweeping = {} /\ Overdue # {}
  /\ sweeping' = Overdue
  /\ UNCHANGED <<callVars, hold, late, stock, booked, freeing, received, pulls, raced>>

\* ... and written back as expired, whatever became of them.
EndSweep ==
  /\ sweeping # {}
  /\ hold' = Marked(sweeping, "expired")
  /\ sweeping' = {}
  /\ UNCHANGED <<callVars, late, stock, booked, freeing, received, pulls, raced>>

\* applyRemoteChanges puts a stock row over the local one (bounded by MaxPulls).
Pull(i, level) ==
  /\ i \in Known /\ pulls < MaxPulls
  /\ pulls' = pulls + 1
  /\ stock' = [stock EXCEPT ![i] = level]
  /\ received' = [received EXCEPT ![i] = @ + level - stock[i]]
  /\ raced' = (raced \/ level < stock[i])
  /\ UNCHANGED <<callVars, hold, late, booked, freeing, sweeping>>
-----------------------------------------------------------------------------
Hold(c) == Reserve(c) \/ Unreserved(c) \/ \E i \in Items : ReadStock(c, i)
Save(c) == Book(c) \/ Replayed(c) \/ NotBooked(c)

CallStep(c) == Submit(c) \/ Hold(c) \/ Save(c) \/ ReleaseHolds(c) \/ Die(c) \/ Expire(c)

RowStep == BeginSweep \/ EndSweep \/ \E i \in Items, level \in Levels : Pull(i, level)

Next == RowStep \/ \E c \in Calls : CallStep(c)

Spec == Init /\ [][Next]_vars
-----------------------------------------------------------------------------
(* Correctness.  raced records that a hold was taken on stock read too     *)
(* early, that it expired or was freed before its sale was booked, or that *)
(* a pull lowered the stock under it.                                      *)

(* Unless raced, the active holds of an item are covered by its stock,     *)
(* while tabs die between the steps of a sale and failed calls and sweeps  *)
(* write back rows they read earlier (getAvailableStock).  A till that     *)
(* raced does promise units twice: session.js:612 reads the stock outside  *)
(* the transaction that reserves it.                                       *)
HoldsCovered == ~raced => \A i \in Known : Reserved(i) <= stock[i]

(* Unless raced, the stock of an item is what there was at the start, plus *)
(* what pulls changed, minus the units of the booked invoices that held    *)
(* theirs, each invoice counted once however often its sale is submitted,  *)
(* after a crash, a failed save or from a second tab ("the sale lands      *)
(* whole or not at all", session.js:555-557).                              *)
HeldSales == {n \in Invoices : booked[n] \in reserved}

StockExplained ==
  ~raced => \A i \in Known :
    stock[i] = Stock0[i] + received[i]
               - SumFunction([n \in HeldSales |-> Qty[booked[n]][i]])

(* A sale that reserved its units still holds all of them when it comes to *)
(* save, unless half an hour has passed, its number is booked already, or  *)
(* another submission of the number failed and freed them: neither the     *)
(* sales of other invoices nor a sweep take them away.                     *)
Undisturbed(c) ==
  /\ booked[InvoiceOf[c]] = None
  /\ \A d \in Calls : InvoiceOf[d] = InvoiceOf[c] => at[d] # "failed"

HoldLasts ==
  \A c \in reserved \ late :
    at[c] = "save" /\ Undisturbed(c) => \A i \in Wanted(c) : hold[c][i] = "active"
=============================================================================
