----------------------------- MODULE StockHolds -----------------------------
(***************************************************************************)
(* Holding stock for a cart (server/routes/stock.js): reserve, and release *)
(* under an idempotency key, of one product in one warehouse, beside what  *)
(* else moves its level: sales (lib/stockPolicy.js), adjustments and       *)
(* transfers.                                                              *)
(*                                                                         *)
(* A row of stock_levels keeps only the sum of its holds, and a release    *)
(* names a quantity and not a hold, so whose hold is freed depends on each *)
(* release running once: Idempotency is the other half of this module.  A  *)
(* client reserves a hold before it releases it, with one key for all its  *)
(* attempts; keys are named after the holds.                               *)
(*                                                                         *)
(* Transactions are synchronous, so reserve, adjust, transfer and the sale *)
(* of a line are single steps.                                             *)
(***************************************************************************)
EXTENDS Integers, Sequences, FiniteSetsExt

CONSTANTS
  Keys, Requests, KeyOf, MemCap, MaxFaults,  \* see Idempotency
  Units,      \* the quantity of a hold
  Quantities, \* quantities of sales, adjustments and transfers
  StockMode,  \* business setting stock_control
  Stock0,     \* stock_levels.qty at the start
  MaxQty      \* bound: receipts stop here and shortage stops at its negative

ASSUME HoldsAssumption ==
  /\ KeyOf \in [Requests -> Keys] /\ MemCap \in Nat \ {0} /\ MaxFaults \in Nat
  /\ Units \in [Keys -> Nat \ {0}]
  /\ Quantities \subseteq Nat \ {0}
  /\ StockMode \in {"strict", "warn", "off"}
  /\ Stock0 \in Int
  /\ MaxQty \in Nat

VARIABLES
  req, runs, inflight, mem, table, told, faults,  \* see Idempotency
  qty,       \* stock_levels.qty
  reserved,  \* stock_levels.reserved_qty
  held       \* holds that a reserve made

release == <<req, runs, inflight, mem, table, told, faults>>
level   == <<qty, reserved, held>>
vars    == <<release, level>>

Release == INSTANCE Idempotency

TypeOK ==
  /\ Release!TypeOK
  /\ qty \in Int
  /\ reserved \in Nat
  /\ held \subseteq Keys

Init ==
  /\ Release!Init
  /\ qty = Stock0
  /\ reserved = 0
  /\ held = {}
-----------------------------------------------------------------------------
Unfloored(total, q) == total - q                                     \* mutant
Freed(total, q) == IF total < q THEN 0 ELSE total - q   \* SQL MAX(0, total - q)

\* POST /api/stock/reserve: what is not reserved yet must cover the hold.
WholeLevel(q) == qty >= q                                            \* mutant
Available(q)  == qty - reserved >= q
Reserve(h) ==
  /\ h \notin held
  /\ Available(Units[h])
  /\ reserved' = reserved + Units[h]
  /\ held' = held \cup {h}
  /\ UNCHANGED <<release, qty>>

\* POST /api/stock/release, the call whose function runs.
ReleaseRun(r) ==
  /\ KeyOf[r] \in held
  /\ Release!Run(r)
  /\ reserved' = Freed(reserved, Units[KeyOf[r]])
  /\ UNCHANGED <<qty, held>>

\* ... a call that is replayed, joins another or is refused, ...
ReleaseHandle(r) ==
  /\ KeyOf[r] \in held
  /\ Release!Handle(r)
  /\ UNCHANGED level

\* ... and the answer of the one that ran, after cacheDel.
ReleaseReturn(r) == Release!Return(r) /\ UNCHANGED level

ServerFault == Release!Fault /\ UNCHANGED level

\* A line of a sale: strict mode takes nothing that is held.
SaleAllows(q) == StockMode = "strict" => qty >= 0 /\ qty - q >= reserved
Sell(q) ==
  /\ SaleAllows(q)
  /\ qty - q >= -MaxQty
  /\ qty' = qty - q
  /\ UNCHANGED <<release, reserved, held>>

\* POST /api/stock/adjust by a signed quantity, or a transfer arriving here.
Adjust(q) ==
  /\ qty + q \in -MaxQty..MaxQty
  /\ qty' = qty + q
  /\ UNCHANGED <<release, reserved, held>>

\* POST /api/stock/transfer to another warehouse: holds are not looked at.
TransferOut(q) ==
  /\ qty >= q
  /\ qty' = qty - q
  /\ UNCHANGED <<release, reserved, held>>
-----------------------------------------------------------------------------
ByHand == \E q \in Quantities : Adjust(q) \/ Adjust(-q) \/ TransferOut(q)

Next ==
  \/ \E h \in Keys : Reserve(h)
  \/ \E r \in Requests : ReleaseRun(r) \/ ReleaseHandle(r) \/ ReleaseReturn(r)
  \/ ServerFault
  \/ \E q \in Quantities : Sell(q)
  \/ ByHand

\* A function that was called returns: cacheDel and the table are local or
\* give up by themselves.  Nobody has to call.
Fairness == \A r \in Requests : WF_vars(ReleaseReturn(r))

Spec == Init /\ [][Next]_vars /\ Fairness
-----------------------------------------------------------------------------
Outstanding == {h \in held : runs[h] = 0}

(* As long as the server does not fail, reserved_qty is exactly what the   *)
(* holds nobody released yet add up to: whichever requests are retried,    *)
(* replayed, joined or refused, no release frees a hold of someone else    *)
(* (routes/stock.js:301 subtracts a quantity and clamps at zero).          *)
HoldsKept ==
  faults = 0 => reserved = SumFunctionOnSet(Units, Outstanding)

(* In strict mode only a manager's adjustment or transfer can take stock   *)
(* away from under the holds: no reserve, release or sale does.            *)
OnlyByHandUncovered ==
  [][StockMode = "strict" /\ qty >= reserved /\ qty' < reserved' => ByHand]_vars

(* No call hangs: whoever runs the operation or waits for it is answered,  *)
(* or is cut off by the end of the process.                                *)
EventuallyAnswered ==
  \A r \in Requests :
    req[r] \in {"running", "waiting"} ~> req[r] \in {"answered", "failed"}

(* The releases implement the abstract promise of an idempotency key,      *)
(* crashes, evictions and expiries included.                               *)
ReleasesOnce == Release!RunsOnce
=============================================================================
