------------------------- MODULE OfflineSalesProofs -------------------------
(***************************************************************************)
(* A sale keeps what it reserved until it is saved, for any number of      *)
(* tabs, invoices and items, whatever the other sales and sweeps do.       *)
(* HoldLasts is not inductive: two operations write back rows that they    *)
(* read in an earlier step, and what they hold must be known to be theirs. *)
(* On it rest the sums: what the holds and the booked sales add up to.     *)
(***************************************************************************)
EXTENDS OfflineSales, SumTheorems, TLAPS

\* A call reserves once, on its way to save.
ReservedPast == \A c \in reserved : at[c] \notin {"new", "read"}

\* A failed call frees rows of its own invoice.
FreesItsOwn == \A c \in Calls : \A r \in freeing[c] : InvoiceOf[r[1]] = InvoiceOf[c]

\* The boot sweep expires rows that are past their time.
SweepsLate == \A r \in sweeping : r[1] \in late

SalesInv == TypeOK /\ ReservedPast /\ FreesItsOwn /\ SweepsLate /\ HoldLasts
-----------------------------------------------------------------------------
(* Writing rows back keeps the type of the table and the other rows.       *)
LEMMA MarkedRows ==
  ASSUME TypeOK, NEW rows, NEW status \in Status
  PROVE  /\ Marked(rows, status) \in [Calls -> [Items -> Status]]
         /\ \A c \in Calls, i \in Items :
              <<c, i>> \notin rows => Marked(rows, status)[c][i] = hold[c][i]
<1>1. \A c \in Calls, i \in Items : hold[c][i] \in Status BY DEF TypeOK
<1> QED BY <1>1 DEF Marked

(* Stock is taken down to zero and no further.                             *)
LEMMA TakenNat == ASSUME NEW have \in Nat, NEW q \in Nat PROVE Taken(have, q) \in Nat
BY DEF Taken

(* A sale that is left undisturbed was so before.                          *)
LEMMA UndisturbedBefore ==
  ASSUME NEW d \in Calls, Undisturbed(d)', booked' = booked,
         \A e \in Calls : at[e] = "failed" => at'[e] = "failed"
  PROVE  Undisturbed(d)
BY DEF Undisturbed

(* What a step owes to HoldLasts: a sale that has come to save with its    *)
(* units held, and is undisturbed, was there before or holds them now.     *)
LEMMA HoldsStay ==
  ASSUME TypeOK, HoldLasts, late \subseteq late', reserved' \subseteq Calls,
         \A d \in reserved' \ late' :
           at'[d] = "save" /\ Undisturbed(d)' =>
             \/ \A i \in Wanted(d) : hold'[d][i] = "active"
             \/ /\ d \in reserved /\ at[d] = "save" /\ Undisturbed(d)
                /\ \A i \in Items : hold'[d][i] = hold[d][i]
  PROVE  HoldLasts'
<1>1. ASSUME NEW d \in reserved' \ late', at'[d] = "save", Undisturbed(d)', NEW i \in Wanted(d)
      PROVE  hold'[d][i] = "active"
  <2>1. CASE \A j \in Wanted(d) : hold'[d][j] = "active" BY <1>1, <2>1
  <2>2. CASE /\ d \in reserved /\ at[d] = "save" /\ Undisturbed(d)
             /\ \A j \in Items : hold'[d][j] = hold[d][j]
    <3>1. i \in Items BY <1>1 DEF Wanted
    <3>2. d \in reserved \ late BY <1>1, <2>2
    <3>3. hold[d][i] = "active" BY <1>1, <2>2, <3>2 DEF HoldLasts
    <3> QED BY <2>2, <3>1, <3>3
  <2> QED BY <1>1, <2>1, <2>2
<1> QED BY <1>1 DEF HoldLasts, Wanted

(* The sales start with the invariant.                                     *)
LEMMA SalesStart == Init => SalesInv
<1> SUFFICES ASSUME Init PROVE SalesInv OBVIOUS
<1>1. /\ hold \in [Calls -> [Items -> Status]]
      /\ freeing \in [Calls -> SUBSET (Calls \X Items)]
      /\ unread \in [Calls -> SUBSET Items]
      /\ booked \in [Invoices -> Calls \cup {None}]
  BY DEF Init, Status
<1>2. pulls \in 0..MaxPulls BY SalesAssumption DEF Init
<1>3. /\ at \in [Calls -> Places] /\ seen \in [Calls -> [Items -> Nat]]
      /\ stock \in [Items -> Nat] /\ received \in [Items -> Int]
  BY SalesAssumption DEF Init, Places
<1>4. TypeOK BY <1>1, <1>2, <1>3 DEF Init, TypeOK
<1> QED BY <1>4 DEF Init, SalesInv, ReservedPast, FreesItsOwn, SweepsLate, HoldLasts

(* Every step of a call keeps it.                                          *)
LEMMA CallKeeps ==
  ASSUME SalesInv, NEW c \in Calls, CallStep(c) PROVE SalesInv'
<1> USE SalesAssumption
<1>t. TypeOK BY DEF SalesInv
<1>1. CASE Submit(c)
  <2>1. TypeOK' BY <1>t, <1>1 DEF Submit, TypeOK, Places, Wanted
  <2>2. ReservedPast' BY <1>t, <1>1 DEF Submit, SalesInv, ReservedPast, TypeOK
  <2>3. FreesItsOwn' /\ SweepsLate'
    BY <1>t, <1>1 DEF Submit, SalesInv, FreesItsOwn, SweepsLate, TypeOK
  <2>4. /\ \A d \in Calls : at[d] = "failed" => at'[d] = "failed"
        /\ \A d \in reserved : at'[d] = "save" => at[d] = "save"
    BY <1>t, <1>1 DEF Submit, SalesInv, ReservedPast, TypeOK
  <2>5. HoldLasts'
    BY <1>t, <1>1, <2>1, <2>4, HoldsStay, UndisturbedBefore DEF Submit, SalesInv, TypeOK
  <2> QED BY <2>1, <2>2, <2>3, <2>5 DEF SalesInv
<1>2. ASSUME NEW i \in Items, ReadStock(c, i) PROVE SalesInv'
  <2>1. TypeOK' BY <1>t, <1>2 DEF ReadStock, TypeOK, Places
  <2>2. ReservedPast' BY <1>t, <1>2 DEF ReadStock, SalesInv, ReservedPast, TypeOK
  <2>3. FreesItsOwn' /\ SweepsLate'
    BY <1>t, <1>2 DEF ReadStock, SalesInv, FreesItsOwn, SweepsLate, TypeOK
  <2>4. /\ \A d \in Calls : at[d] = "failed" => at'[d] = "failed"
        /\ \A d \in reserved : at'[d] = "save" => at[d] = "save"
    BY <1>t, <1>2 DEF ReadStock, SalesInv, ReservedPast, TypeOK
  <2>5. HoldLasts'
    BY <1>t, <1>2, <2>1, <2>4, HoldsStay, UndisturbedBefore DEF ReadStock, SalesInv, TypeOK
  <2> QED BY <2>1, <2>2, <2>3, <2>5 DEF SalesInv
<1>3. CASE Unreserved(c)
  <2>1. TypeOK' BY <1>t, <1>3 DEF Unreserved, TypeOK, Places
  <2>2. ReservedPast' BY <1>t, <1>3 DEF Unreserved, SalesInv, ReservedPast, TypeOK
  <2>3. FreesItsOwn' /\ SweepsLate'
    BY <1>t, <1>3 DEF Unreserved, SalesInv, FreesItsOwn, SweepsLate, TypeOK
  <2>4. /\ \A d \in Calls : at[d] = "failed" => at'[d] = "failed"
        /\ \A d \in reserved : at'[d] = "save" => at[d] = "save"
    BY <1>t, <1>3 DEF Unreserved, SalesInv, ReservedPast, TypeOK
  <2>5. HoldLasts'
    BY <1>t, <1>3, <2>1, <2>4, HoldsStay, UndisturbedBefore DEF Unreserved, SalesInv, TypeOK
  <2> QED BY <2>1, <2>2, <2>3, <2>5 DEF SalesInv
<1>4. CASE Replayed(c)
  <2>1. TypeOK' BY <1>t, <1>4 DEF Replayed, TypeOK, Places
  <2>2. ReservedPast' BY <1>t, <1>4 DEF Replayed, SalesInv, ReservedPast, TypeOK
  <2>3. FreesItsOwn' /\ SweepsLate'
    BY <1>t, <1>4 DEF Replayed, SalesInv, FreesItsOwn, SweepsLate, TypeOK
  <2>4. /\ \A d \in Calls : at[d] = "failed" => at'[d] = "failed"
        /\ \A d \in reserved : at'[d] = "save" => at[d] = "save"
    BY <1>t, <1>4 DEF Replayed, SalesInv, ReservedPast, TypeOK
  <2>5. HoldLasts'
    BY <1>t, <1>4, <2>1, <2>4, HoldsStay, UndisturbedBefore DEF Replayed, SalesInv, TypeOK
  <2> QED BY <2>1, <2>2, <2>3, <2>5 DEF SalesInv
<1>5. CASE NotBooked(c)
  <2>1. TypeOK' BY <1>t, <1>5 DEF NotBooked, TypeOK, Places, Active
  <2>2. ReservedPast' BY <1>t, <1>5 DEF NotBooked, SalesInv, ReservedPast, TypeOK
  <2>3. FreesItsOwn' /\ SweepsLate'
    BY <1>t, <1>5 DEF NotBooked, SalesInv, FreesItsOwn, SweepsLate, TypeOK, Active
  <2>4. /\ \A d \in Calls : at[d] = "failed" => at'[d] = "failed"
        /\ \A d \in reserved : at'[d] = "save" => at[d] = "save"
    BY <1>t, <1>5 DEF NotBooked, SalesInv, ReservedPast, TypeOK
  <2>5. HoldLasts'
    BY <1>t, <1>5, <2>1, <2>4, HoldsStay, UndisturbedBefore DEF NotBooked, SalesInv, TypeOK
  <2> QED BY <2>1, <2>2, <2>3, <2>5 DEF SalesInv
<1>6. CASE Die(c)
  <2>1. TypeOK' BY <1>t, <1>6 DEF Die, TypeOK, Places
  <2>2. ReservedPast' BY <1>t, <1>6 DEF Die, SalesInv, ReservedPast, TypeOK
  <2>3. FreesItsOwn' /\ SweepsLate'
    BY <1>t, <1>6 DEF Die, SalesInv, FreesItsOwn, SweepsLate, TypeOK
  <2>4. /\ \A d \in Calls : at[d] = "failed" => at'[d] = "failed"
        /\ \A d \in reserved : at'[d] = "save" => at[d] = "save"
    BY <1>t, <1>6 DEF Die, SalesInv, ReservedPast, TypeOK
  <2>5. HoldLasts'
    BY <1>t, <1>6, <2>1, <2>4, HoldsStay, UndisturbedBefore DEF Die, SalesInv, TypeOK
  <2> QED BY <2>1, <2>2, <2>3, <2>5 DEF SalesInv
<1>7. CASE Reserve(c)
  <2>1. /\ Marked(Overdue, "expired") \in [Calls -> [Items -> Status]]
        /\ \A d \in Calls, i \in Items :
             d \notin late => Marked(Overdue, "expired")[d][i] = hold[d][i]
    <3>1. "expired" \in Status BY DEF Status
    <3>2. \A d \in Calls, i \in Items : d \notin late => <<d, i>> \notin Overdue
      BY DEF Overdue
    <3>3. /\ Marked(Overdue, "expired") \in [Calls -> [Items -> Status]]
          /\ \A d \in Calls, i \in Items :
               <<d, i>> \notin Overdue => Marked(Overdue, "expired")[d][i] = hold[d][i]
      BY <1>t, <3>1, MarkedRows
    <3> QED BY <3>2, <3>3
  <2>2. /\ hold' \in [Calls -> [Items -> Status]]
        /\ \A i \in Wanted(c) : hold'[c][i] = "active"
        /\ \A d \in Calls \ late, i \in Items : d # c => hold'[d][i] = hold[d][i]
    BY <1>7, <2>1 DEF Reserve, Status, Wanted
  <2>3. TypeOK' BY <1>t, <1>7, <2>2 DEF Reserve, TypeOK, Places
  <2>4. ReservedPast' BY <1>t, <1>7 DEF Reserve, SalesInv, ReservedPast, TypeOK
  <2>5. FreesItsOwn' /\ SweepsLate'
    BY <1>7 DEF Reserve, SalesInv, FreesItsOwn, SweepsLate
  <2>6. /\ \A d \in Calls : at[d] = "failed" => at'[d] = "failed"
        /\ \A d \in reserved : d # c /\ at'[d] = "save" => at[d] = "save"
    BY <1>t, <1>7 DEF Reserve, TypeOK
  <2>7. \A d \in Calls : Undisturbed(d)' => Undisturbed(d)
    BY <1>7, <2>6, UndisturbedBefore DEF Reserve
  <2>8. \A d \in reserved' \ late' : d \in Calls \ late /\ (d # c => d \in reserved)
    BY <1>t, <1>7 DEF Reserve, TypeOK
  <2>9. HoldLasts'
    BY <1>t, <1>7, <2>2, <2>3, <2>6, <2>7, <2>8, HoldsStay DEF Reserve, SalesInv, TypeOK
  <2> QED BY <2>3, <2>4, <2>5, <2>9 DEF SalesInv
<1>8. CASE Book(c)
  <2> DEFINE rows == {r \in Active : InvoiceOf[r[1]] = InvoiceOf[c] /\ r[2] \in Committed(c)}
  <2>1. /\ hold' \in [Calls -> [Items -> Status]]
        /\ \A d \in Calls, i \in Items :
             InvoiceOf[d] # InvoiceOf[c] => hold'[d][i] = hold[d][i]
    <3>1. hold' = Marked(rows, "committed") BY <1>8 DEF Book
    <3>2. \A d \in Calls, i \in Items : <<d, i>> \in rows => InvoiceOf[d] = InvoiceOf[c]
      OBVIOUS
    <3>3. "committed" \in Status BY DEF Status
    <3> HIDE DEF rows
    <3>4. /\ Marked(rows, "committed") \in [Calls -> [Items -> Status]]
          /\ \A d \in Calls, i \in Items :
               <<d, i>> \notin rows => Marked(rows, "committed")[d][i] = hold[d][i]
      BY <1>t, <3>3, MarkedRows
    <3> QED BY <3>1, <3>2, <3>4
  <2>2. stock' \in [Items -> Nat]
    <3>1. \A i \in Items : Taken(stock[i], Qty[c][i]) \in Nat /\ stock[i] \in Nat
      <4>1. \A i \in Items : Qty[c][i] \in Nat /\ stock[i] \in Nat BY <1>t DEF TypeOK
      <4> QED BY <4>1, TakenNat
    <3> QED BY <1>8, <3>1 DEF Book
  <2>3. booked' \in [Invoices -> Calls \cup {None}] BY <1>t, <1>8 DEF Book, TypeOK
  <2>4. TypeOK' BY <1>t, <1>8, <2>1, <2>2, <2>3 DEF Book, TypeOK, Places
  <2>5. ReservedPast' BY <1>t, <1>8 DEF Book, SalesInv, ReservedPast, TypeOK
  <2>6. FreesItsOwn' /\ SweepsLate' BY <1>8 DEF Book, SalesInv, FreesItsOwn, SweepsLate
  <2>7. ASSUME NEW d \in Calls, Undisturbed(d)'
        PROVE  InvoiceOf[d] # InvoiceOf[c] /\ Undisturbed(d)
    <3>1. booked'[InvoiceOf[c]] = c BY <1>t, <1>8 DEF Book, TypeOK
    <3>2. \A e \in Calls : at[e] = "failed" => at'[e] = "failed"
      BY <1>t, <1>8 DEF Book, TypeOK
    <3> QED BY <1>t, <1>8, <2>7, <3>1, <3>2 DEF Undisturbed, Book, TypeOK
  <2>8. HoldLasts'
    <3>1. \A d \in reserved : at'[d] = "save" => at[d] = "save"
      BY <1>t, <1>8 DEF Book, TypeOK
    <3>2. \A d \in reserved' \ late' : Undisturbed(d)' =>
            InvoiceOf[d] # InvoiceOf[c] /\ Undisturbed(d)
      BY <1>t, <1>8, <2>7 DEF Book, TypeOK
    <3> QED BY <1>t, <1>8, <2>1, <3>1, <3>2, HoldsStay DEF Book, SalesInv, TypeOK
  <2> QED BY <2>4, <2>5, <2>6, <2>8 DEF SalesInv
<1>9. CASE ReleaseHolds(c)
  <2>1. /\ hold' \in [Calls -> [Items -> Status]]
        /\ \A d \in Calls, i \in Items :
             InvoiceOf[d] # InvoiceOf[c] => hold'[d][i] = hold[d][i]
    <3>1. \A d \in Calls, i \in Items : <<d, i>> \in freeing[c] => InvoiceOf[d] = InvoiceOf[c]
      BY DEF SalesInv, FreesItsOwn
    <3>2. "released" \in Status BY DEF Status
    <3>3. /\ Marked(freeing[c], "released") \in [Calls -> [Items -> Status]]
          /\ \A d \in Calls, i \in Items :
               <<d, i>> \notin freeing[c] => Marked(freeing[c], "released")[d][i] = hold[d][i]
      BY <1>t, <3>2, MarkedRows
    <3> QED BY <1>9, <3>1, <3>3 DEF ReleaseHolds
  <2>2. TypeOK' BY <1>t, <1>9, <2>1 DEF ReleaseHolds, TypeOK, Places
  <2>3. ReservedPast' BY <1>t, <1>9 DEF ReleaseHolds, SalesInv, ReservedPast, TypeOK
  <2>4. FreesItsOwn' /\ SweepsLate'
    BY <1>t, <1>9 DEF ReleaseHolds, SalesInv, FreesItsOwn, SweepsLate, TypeOK
  <2>5. at'[c] = "failed" BY <1>t, <1>9 DEF ReleaseHolds, TypeOK
  <2>6. /\ \A d \in Calls : at[d] = "failed" => at'[d] = "failed"
        /\ \A d \in reserved : at'[d] = "save" => at[d] = "save"
    BY <1>t, <1>9 DEF ReleaseHolds, TypeOK
  <2>7. \A d \in Calls : Undisturbed(d)' => Undisturbed(d) /\ InvoiceOf[d] # InvoiceOf[c]
    <3>1. \A d \in Calls : Undisturbed(d)' => InvoiceOf[d] # InvoiceOf[c]
      BY <2>5 DEF Undisturbed
    <3> QED BY <1>9, <2>6, <3>1, UndisturbedBefore DEF ReleaseHolds
  <2>8. HoldLasts'
    BY <1>t, <1>9, <2>1, <2>6, <2>7, HoldsStay DEF ReleaseHolds, SalesInv, TypeOK
  <2> QED BY <2>2, <2>3, <2>4, <2>8 DEF SalesInv
<1>10. CASE Expire(c)
  <2>1. TypeOK' /\ late \subseteq late' BY <1>t, <1>10 DEF Expire, callVars, TypeOK
  <2>2. ReservedPast' /\ FreesItsOwn' /\ SweepsLate'
    BY <1>10, <2>1 DEF Expire, callVars, SalesInv, ReservedPast, FreesItsOwn, SweepsLate
  <2>3. HoldLasts'
    BY <1>t, <1>10, <2>1, HoldsStay, UndisturbedBefore DEF Expire, callVars, SalesInv, TypeOK
  <2> QED BY <2>1, <2>2, <2>3 DEF SalesInv
<1> QED
  BY <1>1, <1>2, <1>3, <1>4, <1>5, <1>6, <1>7, <1>8, <1>9, <1>10 DEF CallStep, Hold, Save

(* So do the sweep and the pull.                                           *)
LEMMA RowsKeep == ASSUME SalesInv, RowStep PROVE SalesInv'
<1> USE SalesAssumption
<1>t. TypeOK BY DEF SalesInv
<1>1. CASE BeginSweep
  <2>1. TypeOK' BY <1>t, <1>1 DEF BeginSweep, callVars, TypeOK, Overdue, Active
  <2>2. ReservedPast' /\ FreesItsOwn' /\ SweepsLate'
    BY <1>1 DEF BeginSweep, callVars, SalesInv, ReservedPast, FreesItsOwn, SweepsLate, Overdue
  <2>3. HoldLasts'
    BY <1>t, <1>1, HoldsStay, UndisturbedBefore DEF BeginSweep, callVars, SalesInv, TypeOK
  <2> QED BY <2>1, <2>2, <2>3 DEF SalesInv
<1>2. CASE EndSweep
  <2>1. /\ hold' \in [Calls -> [Items -> Status]]
        /\ \A d \in Calls \ late, i \in Items : hold'[d][i] = hold[d][i]
    <3>1. \A d \in Calls \ late, i \in Items : <<d, i>> \notin sweeping
      BY DEF SalesInv, SweepsLate
    <3>2. "expired" \in Status BY DEF Status
    <3>3. /\ Marked(sweeping, "expired") \in [Calls -> [Items -> Status]]
          /\ \A d \in Calls, i \in Items :
               <<d, i>> \notin sweeping => Marked(sweeping, "expired")[d][i] = hold[d][i]
      BY <1>t, <3>2, MarkedRows
    <3> QED BY <1>2, <3>1, <3>3 DEF EndSweep
  <2>2. TypeOK' BY <1>t, <1>2, <2>1 DEF EndSweep, callVars, TypeOK
  <2>3. ReservedPast' /\ FreesItsOwn' /\ SweepsLate'
    BY <1>2 DEF EndSweep, callVars, SalesInv, ReservedPast, FreesItsOwn, SweepsLate
  <2>4. HoldLasts'
    BY <1>t, <1>2, <2>1, HoldsStay, UndisturbedBefore DEF EndSweep, callVars, SalesInv, TypeOK
  <2> QED BY <2>2, <2>3, <2>4 DEF SalesInv
<1>3. ASSUME NEW i \in Items, NEW level \in Levels, Pull(i, level) PROVE SalesInv'
  <2>1. level \in Nat OBVIOUS
  <2>2. TypeOK' BY <1>t, <1>3, <2>1 DEF Pull, callVars, TypeOK
  <2>3. ReservedPast' /\ FreesItsOwn' /\ SweepsLate' /\ HoldLasts'
    BY <1>3 DEF Pull, callVars, SalesInv, ReservedPast, FreesItsOwn, SweepsLate, HoldLasts,
       Undisturbed, Wanted
  <2> QED BY <2>2, <2>3 DEF SalesInv
<1> QED BY <1>1, <1>2, <1>3 DEF RowStep

(* Steps that change nothing keep it.                                      *)
LEMMA SalesStutter == SalesInv /\ UNCHANGED vars => SalesInv'
BY DEF SalesInv, TypeOK, ReservedPast, FreesItsOwn, SweepsLate, HoldLasts, Undisturbed, Wanted,
   vars, callVars

(* The invariant of the till's sales (session.js:563-700 with              *)
(* stock-reservations.js), for any number of submissions and tabs.         *)
THEOREM SalesInvariant == Spec => []SalesInv
<1>1. SalesInv /\ [Next]_vars => SalesInv'
  BY CallKeeps, RowsKeep, SalesStutter DEF Next
<1> QED BY SalesStart, <1>1, PTL DEF Spec

(* Types; booking takes no stock below zero, whatever pulls and sales      *)
(* raced it.                                                               *)
THEOREM SalesTypeCorrect == Spec => []TypeOK
<1>1. SalesInv => TypeOK BY DEF SalesInv
<1> QED BY <1>1, SalesInvariant, PTL

(* Neither another invoice's sale nor a sweep takes a sale's units away    *)
(* before it is saved (releaseExpiredReservations, releaseReservation).    *)
THEOREM SaleKeepsItsHold == Spec => []HoldLasts
<1>1. SalesInv => HoldLasts BY DEF SalesInv
<1> QED BY <1>1, SalesInvariant, PTL
-----------------------------------------------------------------------------
(* The sums.  There are finitely many reservations and booked invoices at  *)
(* any time, each reserved by a call that came past reading and written by *)
(* one that is done, and as long as nothing raced, a reserved sale that    *)
(* comes to save still holds its units.                                    *)
BookedNumbers   == {n \in Invoices : booked[n] # None}
Finitely        == IsFiniteSet(reserved) /\ IsFiniteSet(BookedNumbers)
ActiveReserved  == \A c \in Calls, i \in Items : hold[c][i] = "active" => c \in reserved
LateReserved    == late \subseteq reserved
BookedPast      == \A n \in Invoices : booked[n] \in Calls => at[booked[n]] = "done"
SaveHolds ==
  ~raced => \A c \in reserved :
    at[c] = "save" /\ booked[InvoiceOf[c]] = None =>
      c \notin late /\ \A i \in Wanted(c) : hold[c][i] = "active"

CoverInv ==
  /\ Finitely /\ ActiveReserved /\ LateReserved /\ BookedPast
  /\ SaveHolds /\ HoldsCovered /\ StockExplained

UnitsOf(i) == [c \in Calls |-> Qty[c][i]]
Sold(i)    == [n \in HeldSales |-> Qty[booked[n]][i]]

LEMMA CoverStart == Init => CoverInv
<1> USE SalesAssumption
<1> SUFFICES ASSUME Init PROVE CoverInv OBVIOUS
<1>1. BookedNumbers = {} /\ HeldSales = {} BY DEF Init, BookedNumbers, HeldSales
<1>2. \A i \in Items : Holders(i) = {} BY DEF Init, Holders, None
<1>3. Finitely BY <1>1, FS_EmptySet DEF Init, Finitely
<1>4. ActiveReserved /\ LateReserved /\ BookedPast /\ SaveHolds
  BY DEF Init, ActiveReserved, LateReserved, BookedPast, SaveHolds, None
<1>5. HoldsCovered
  <2>1. \A i \in Items : Reserved(i) = 0 BY <1>2, SumEmpty DEF Reserved
  <2>2. \A i \in Items : stock[i] \in Nat BY DEF Init
  <2> QED BY <2>1, <2>2 DEF HoldsCovered
<1>6. StockExplained
  <2>1. \A i \in Items : SumFunction(Sold(i)) = 0
    BY <1>1, SumEmpty DEF SumFunction, Sold
  <2>2. \A i \in Items : stock[i] = Stock0[i] /\ Stock0[i] \in Nat /\ received[i] = 0
    BY DEF Init
  <2> QED BY <2>1, <2>2 DEF StockExplained, Sold
<1> QED BY <1>3, <1>4, <1>5, <1>6 DEF CoverInv

(* The terms of the sums are quantities, and their sets are finite.        *)
LEMMA HoldersFinite ==
  ASSUME TypeOK, Finitely, ActiveReserved, NEW i \in Items
  PROVE  /\ IsFiniteSet(Holders(i)) /\ Holders(i) \subseteq Calls
         /\ \A c \in Calls : UnitsOf(i)[c] = Qty[c][i] /\ UnitsOf(i)[c] \in Nat
         /\ Reserved(i) = SumFunctionOnSet(UnitsOf(i), Holders(i))
         /\ Reserved(i) \in Nat
<1>1. Holders(i) \subseteq reserved BY DEF Holders, ActiveReserved
<1>2. IsFiniteSet(Holders(i)) /\ Holders(i) \subseteq Calls
  BY <1>1, FS_Subset DEF Finitely, Holders
<1>3. \A c \in Calls : UnitsOf(i)[c] = Qty[c][i] /\ UnitsOf(i)[c] \in Nat
  BY SalesAssumption DEF UnitsOf
<1>4. Reserved(i) = SumFunctionOnSet(UnitsOf(i), Holders(i)) BY DEF Reserved, UnitsOf
<1>5. SumFunctionOnSet(UnitsOf(i), Holders(i)) \in Nat BY <1>2, <1>3, SumNat
<1> QED BY <1>2, <1>3, <1>4, <1>5

LEMMA SoldFinite ==
  ASSUME TypeOK, Finitely, NEW i \in Items
  PROVE  /\ IsFiniteSet(HeldSales)
         /\ \A n \in HeldSales : Sold(i)[n] = Qty[booked[n]][i] /\ Sold(i)[n] \in Int
         /\ SumFunction(Sold(i)) = SumFunctionOnSet(Sold(i), HeldSales)
         /\ SumFunction(Sold(i)) \in Int
<1> USE SalesAssumption
<1>1. HeldSales \subseteq BookedNumbers BY DEF HeldSales, BookedNumbers, TypeOK
<1>2. IsFiniteSet(HeldSales) BY <1>1, FS_Subset DEF Finitely
<1>3. \A n \in HeldSales : Sold(i)[n] = Qty[booked[n]][i] /\ Sold(i)[n] \in Int
  BY DEF Sold, HeldSales, TypeOK
<1>4. SumFunction(Sold(i)) = SumFunctionOnSet(Sold(i), HeldSales)
  BY DEF SumFunction, Sold
<1>5. SumFunctionOnSet(Sold(i), HeldSales) \in Int BY <1>2, <1>3, SumInt
<1> QED BY <1>2, <1>3, <1>4, <1>5

(* Fewer holders reserve no more.                                          *)
LEMMA FewerHolders ==
  ASSUME TypeOK, Finitely, ActiveReserved, NEW i \in Items, Holders(i)' \subseteq Holders(i)
  PROVE  Reserved(i)' <= Reserved(i) /\ Reserved(i)' \in Nat
<1>1. Reserved(i)' = SumFunctionOnSet(UnitsOf(i), Holders(i)')
  BY DEF Reserved, UnitsOf
<1>2. IsFiniteSet(Holders(i)) /\ \A c \in Holders(i) : UnitsOf(i)[c] \in Nat
  BY HoldersFinite
<1>3. IsFiniteSet(Holders(i)') /\ \A c \in Holders(i)' : UnitsOf(i)[c] \in Nat
  BY <1>2, FS_Subset
<1>4. SumFunctionOnSet(UnitsOf(i), Holders(i)') \in Nat BY <1>3, SumNat
<1>5. SumFunctionOnSet(UnitsOf(i), Holders(i)') <= SumFunctionOnSet(UnitsOf(i), Holders(i))
  BY <1>2, SumSubset
<1> QED BY <1>1, <1>4, <1>5, HoldersFinite

(* A step that takes and books nothing may end holds; ending one of a sale *)
(* that has come to save is recorded in raced.                             *)
LEMMA CoverEnds ==
  ASSUME SalesInv, CoverInv, UNCHANGED <<reserved, stock, booked, received>>,
         raced => raced', late \subseteq late', late' \subseteq reserved,
         \A c \in Calls, i \in Items : hold'[c][i] = "active" => hold[c][i] = "active",
         \A c \in reserved : at'[c] = "save" => at[c] = "save",
         \A c \in Calls : at[c] = "done" => at'[c] = "done",
         ~raced' => \A c \in reserved :
           at'[c] = "save" /\ booked[InvoiceOf[c]] = None =>
             /\ c \in late' => c \in late
             /\ \A i \in Wanted(c) : hold[c][i] = "active" => hold'[c][i] = "active"
  PROVE  CoverInv'
<1>1. Finitely' BY DEF CoverInv, Finitely, BookedNumbers
<1>2. ActiveReserved' /\ LateReserved' /\ BookedPast'
  BY DEF CoverInv, ActiveReserved, LateReserved, BookedPast
<1>3. SaveHolds'
  <2> SUFFICES ASSUME ~raced', NEW c \in reserved, at'[c] = "save", booked[InvoiceOf[c]] = None
               PROVE  c \notin late' /\ \A i \in Wanted(c) : hold'[c][i] = "active"
    BY DEF SaveHolds, Wanted
  <2>1. c \notin late /\ \A i \in Wanted(c) : hold[c][i] = "active"
    BY DEF CoverInv, SaveHolds
  <2> QED BY <2>1
<1>4. HoldsCovered'
  <2> SUFFICES ASSUME ~raced', NEW i \in Known PROVE Reserved(i)' <= stock[i]
    BY DEF HoldsCovered
  <2>1. i \in Items BY SalesAssumption
  <2>2. Holders(i)' \subseteq Holders(i) BY <2>1 DEF Holders
  <2>3. Reserved(i)' <= Reserved(i) /\ Reserved(i)' \in Nat
    BY <2>1, <2>2, FewerHolders DEF SalesInv, CoverInv
  <2>4. Reserved(i) <= stock[i] BY DEF CoverInv, HoldsCovered
  <2>5. Reserved(i) \in Nat /\ stock[i] \in Nat
    BY <2>1, HoldersFinite DEF SalesInv, CoverInv, TypeOK
  <2> QED BY <2>3, <2>4, <2>5
<1>5. StockExplained'
  <2>1. HeldSales' = HeldSales BY DEF HeldSales
  <2> QED BY <2>1 DEF CoverInv, StockExplained
<1> QED BY <1>1, <1>2, <1>3, <1>4, <1>5 DEF CoverInv

(* A hold is taken on stock that covers it beside the others, unless the   *)
(* stock fell since it was read, which raced records.                      *)
LEMMA CoverReserve ==
  ASSUME SalesInv, CoverInv, NEW c \in Calls, Reserve(c)
  PROVE  CoverInv'
<1> USE SalesAssumption
<1>t. TypeOK BY DEF SalesInv
<1>0. c \notin reserved /\ c \notin late /\ reserved \subseteq Calls
  BY <1>t DEF Reserve, SalesInv, ReservedPast, CoverInv, LateReserved, TypeOK
<1>1. /\ \A d \in Calls, i \in Items : d # c =>
              hold'[d][i] = IF <<d, i>> \in Overdue THEN "expired" ELSE hold[d][i]
      /\ \A i \in Items : hold'[c][i] = IF i \in Wanted(c) THEN "active" ELSE None
      /\ reserved' = reserved \cup {c}
      /\ at' = [at EXCEPT ![c] = "save"] /\ at[c] = "read"
      /\ \A i \in Wanted(c) : Available(c, i)
      /\ ~raced' => ~raced /\ \A i \in Wanted(c) \cap Known : ~(seen[c][i] > stock[i])
      /\ UNCHANGED <<late, stock, booked, received>>
  BY DEF Reserve, Marked
<1>2. \A d \in Calls, i \in Items :
        d \notin late => <<d, i>> \notin Overdue
  BY DEF Overdue
<1>3. Finitely' BY <1>1, FS_AddElement DEF CoverInv, Finitely, BookedNumbers
<1>4. ActiveReserved' BY <1>1 DEF CoverInv, ActiveReserved
<1>5. LateReserved' BY <1>1 DEF CoverInv, LateReserved
<1>6. BookedPast' BY <1>t, <1>1 DEF CoverInv, BookedPast, TypeOK
<1>7. SaveHolds'
  <2> SUFFICES ASSUME ~raced', NEW d \in reserved', at'[d] = "save",
                      booked[InvoiceOf[d]] = None
               PROVE  d \notin late /\ \A i \in Wanted(d) : hold'[d][i] = "active"
    BY <1>1 DEF SaveHolds, Wanted
  <2>1. CASE d = c BY <2>1, <1>0, <1>1 DEF Wanted
  <2>2. CASE d # c
    <3>1. d \in reserved /\ d \in Calls /\ at[d] = "save" BY <2>2, <1>0, <1>1, <1>t DEF TypeOK
    <3>2. d \notin late /\ \A i \in Wanted(d) : hold[d][i] = "active"
      BY <1>1, <3>1 DEF CoverInv, SaveHolds
    <3> QED BY <1>1, <1>2, <2>2, <3>1, <3>2 DEF Wanted
  <2> QED BY <2>1, <2>2
<1>8. HoldsCovered'
  <2> SUFFICES ASSUME ~raced', NEW i \in Known PROVE Reserved(i)' <= stock[i]
    BY <1>1 DEF HoldsCovered
  <2>t. i \in Items /\ stock[i] \in Nat /\ seen[c][i] \in Nat /\ Qty[c][i] \in Nat
    BY <1>t DEF TypeOK
  <2>1. /\ IsFiniteSet(Holders(i)) /\ Holders(i) \subseteq Calls
        /\ \A d \in Calls : UnitsOf(i)[d] = Qty[d][i] /\ UnitsOf(i)[d] \in Nat
        /\ Reserved(i) = SumFunctionOnSet(UnitsOf(i), Holders(i))
        /\ Reserved(i) \in Nat
    BY <2>t, <1>t, HoldersFinite DEF CoverInv
  <2>2. Reserved(i) <= stock[i] BY <1>1 DEF CoverInv, HoldsCovered
  <2>3. \A d \in Calls : d # c /\ d \in Holders(i)' => d \in Holders(i)
    BY <1>1, <2>t DEF Holders
  <2>4. CASE i \notin Wanted(c)
    <3>1. c \notin Holders(i)' BY <1>1, <2>4, <2>t DEF Holders, None
    <3>2. Holders(i)' \subseteq Holders(i)
      <4>1. Holders(i)' \subseteq Calls BY DEF Holders
      <4> QED BY <4>1, <2>3, <3>1
    <3>3. Reserved(i)' <= Reserved(i) /\ Reserved(i)' \in Nat
      BY <1>t, <2>t, <3>2, FewerHolders DEF CoverInv
    <3> QED BY <2>1, <2>2, <2>t, <3>3
  <2>5. CASE i \in Wanted(c)
    <3>1. Qty[c][i] + Reserved(i) <= stock[i]
      <4>1. Qty[c][i] <= seen[c][i] - Reserved(i) BY <1>1, <2>5 DEF Available
      <4>2. ~(seen[c][i] > stock[i]) BY <1>1, <2>5
      <4> QED BY <4>1, <4>2, <2>1, <2>t
    <3>2. c \notin Holders(i) BY <1>0, <2>t DEF Holders, CoverInv, ActiveReserved
    <3>3. Holders(i)' \subseteq Holders(i) \cup {c}
      <4>1. Holders(i)' \subseteq Calls BY DEF Holders
      <4> QED BY <4>1, <2>3
    <3>4. /\ IsFiniteSet(Holders(i) \cup {c})
          /\ \A d \in Holders(i) \cup {c} : UnitsOf(i)[d] \in Nat /\ UnitsOf(i)[d] \in Int
      BY <2>1, FS_AddElement
    <3>5. SumFunctionOnSet(UnitsOf(i), Holders(i) \cup {c}) = Qty[c][i] + Reserved(i)
      BY <2>1, <3>2, <3>4, SumAdd
    <3>6. Reserved(i)' = SumFunctionOnSet(UnitsOf(i), Holders(i)')
      BY DEF Reserved, UnitsOf
    <3>7. SumFunctionOnSet(UnitsOf(i), Holders(i)')
            <= SumFunctionOnSet(UnitsOf(i), Holders(i) \cup {c})
      BY <3>3, <3>4, SumSubset
    <3>8. SumFunctionOnSet(UnitsOf(i), Holders(i)') \in Nat
      <4>1. IsFiniteSet(Holders(i)') /\ \A d \in Holders(i)' : UnitsOf(i)[d] \in Nat
        BY <3>3, <3>4, FS_Subset
      <4> QED BY <4>1, SumNat
    <3> QED BY <2>1, <2>t, <3>1, <3>5, <3>6, <3>7, <3>8
  <2> QED BY <2>4, <2>5
<1>9. StockExplained'
  <2>1. \A n \in Invoices : booked[n] # c
    BY <1>1 DEF CoverInv, BookedPast
  <2>2. HeldSales' = HeldSales BY <1>1, <2>1 DEF HeldSales
  <2> QED BY <1>1, <2>2 DEF CoverInv, StockExplained
<1> QED BY <1>3, <1>4, <1>5, <1>6, <1>7, <1>8, <1>9 DEF CoverInv

(* Booking takes the units of a sale from the stock and ends its holds in  *)
(* one transaction; the holds show that the units are there.               *)
LEMMA CoverBook ==
  ASSUME SalesInv, CoverInv, NEW c \in Calls, Book(c)
  PROVE  CoverInv'
<1> USE SalesAssumption
<1> DEFINE n == InvoiceOf[c]
           rows == {r \in Active : InvoiceOf[r[1]] = n /\ r[2] \in Committed(c)}
<1>t. TypeOK BY DEF SalesInv
<1>n. n \in Invoices OBVIOUS
<1>1. /\ at[c] = "save" /\ booked[n] = None
      /\ at' = [at EXCEPT ![c] = "done"] /\ booked' = [booked EXCEPT ![n] = c]
      /\ \A d \in Calls, i \in Items :
           hold'[d][i] = IF <<d, i>> \in rows THEN "committed" ELSE hold[d][i]
      /\ \A i \in Items :
           stock'[i] = IF i \in Committed(c) THEN Taken(stock[i], Qty[c][i]) ELSE stock[i]
      /\ UNCHANGED <<reserved, late, received, raced>>
  BY DEF Book, FirstOf, Marked
<1>2. \A d \in Calls, i \in Items : <<d, i>> \in rows =>
        hold[d][i] = "active" /\ InvoiceOf[d] = n
  BY DEF Active
<1>3. \A d \in Calls, i \in Items : hold'[d][i] = "active" => hold[d][i] = "active"
  BY <1>1
<1>4. Finitely'
  <2>1. BookedNumbers' \subseteq BookedNumbers \cup {n}
    BY <1>1, <1>t, <1>n DEF BookedNumbers, TypeOK
  <2>2. IsFiniteSet(BookedNumbers \cup {n}) BY FS_AddElement DEF CoverInv, Finitely
  <2>3. IsFiniteSet(BookedNumbers') BY <2>1, <2>2, FS_Subset
  <2> QED BY <1>1, <2>3 DEF CoverInv, Finitely
<1>5. ActiveReserved' /\ LateReserved' BY <1>1, <1>3 DEF CoverInv, ActiveReserved, LateReserved
<1>6. BookedPast' BY <1>1, <1>t, <1>n DEF CoverInv, BookedPast, TypeOK
<1>7. SaveHolds'
  <2> SUFFICES ASSUME ~raced, NEW d \in reserved, at'[d] = "save", booked'[InvoiceOf[d]] = None
               PROVE  d \notin late /\ \A i \in Wanted(d) : hold'[d][i] = "active"
    BY <1>1 DEF SaveHolds, Wanted
  <2>1. d \in Calls /\ None # c /\ InvoiceOf[d] \in Invoices BY <1>t DEF TypeOK
  <2>2. InvoiceOf[d] # n BY <1>1, <1>t, <1>n, <2>1 DEF TypeOK
  <2>3. booked[InvoiceOf[d]] = None BY <1>1, <1>t, <2>1, <2>2 DEF TypeOK
  <2>4. at[d] = "save" BY <1>1, <1>t, <2>1 DEF TypeOK
  <2>5. d \notin late /\ \A i \in Wanted(d) : hold[d][i] = "active"
    BY <2>3, <2>4 DEF CoverInv, SaveHolds
  <2> QED BY <1>1, <1>2, <2>1, <2>2, <2>5 DEF Wanted
<1>8. ASSUME ~raced, NEW i \in Known
      PROVE  /\ stock'[i] = IF c \in reserved THEN stock[i] - Qty[c][i] ELSE stock[i]
             /\ Reserved(i)' <= stock'[i]
  <2>t. i \in Items /\ stock[i] \in Nat /\ Qty[c][i] \in Nat BY <1>t DEF TypeOK
  <2>1. /\ IsFiniteSet(Holders(i)) /\ Holders(i) \subseteq Calls
        /\ \A d \in Calls : UnitsOf(i)[d] = Qty[d][i] /\ UnitsOf(i)[d] \in Nat
        /\ Reserved(i) = SumFunctionOnSet(UnitsOf(i), Holders(i))
        /\ Reserved(i) \in Nat
    BY <2>t, <1>t, HoldersFinite DEF CoverInv
  <2>2. Reserved(i) <= stock[i] BY <1>8 DEF CoverInv, HoldsCovered
  <2>3. Holders(i)' \subseteq Holders(i) BY <1>1, <1>3, <2>t DEF Holders
  <2>4. Reserved(i)' <= Reserved(i) /\ Reserved(i)' \in Nat
    BY <1>t, <2>t, <2>3, FewerHolders DEF CoverInv
  <2>5. CASE i \notin Committed(c)
    <3>1. stock'[i] = stock[i] BY <1>1, <2>5, <2>t
    <3>2. c \in reserved => Qty[c][i] = 0 BY <1>8, <2>5, <2>t DEF Committed, Wanted
    <3> QED BY <2>1, <2>2, <2>4, <2>t, <3>1, <3>2
  <2>6. CASE i \in Committed(c)
    <3>1. c \in reserved /\ i \in Wanted(c) BY <2>6 DEF Committed
    <3>2. c \notin late /\ hold[c][i] = "active"
      BY <1>1, <1>8, <3>1 DEF CoverInv, SaveHolds
    <3>3. c \in Holders(i) BY <3>2 DEF Holders
    <3>4. hold'[c][i] = "committed"
      <4>1. <<c, i>> \in rows BY <2>6, <2>t, <3>2 DEF Active
      <4> QED BY <1>1, <2>t, <4>1
    <3>5. Holders(i)' \subseteq Holders(i) \ {c} BY <2>3, <3>4 DEF Holders
    <3>6. Reserved(i) = Qty[c][i] + SumFunctionOnSet(UnitsOf(i), Holders(i) \ {c})
      <4>1. \A d \in Holders(i) : UnitsOf(i)[d] \in Int BY <2>1
      <4> QED BY <2>1, <3>3, <4>1, SumRemove
    <3>7. IsFiniteSet(Holders(i) \ {c}) /\ \A d \in Holders(i) \ {c} : UnitsOf(i)[d] \in Nat
      BY <2>1, FS_RemoveElement
    <3>8. SumFunctionOnSet(UnitsOf(i), Holders(i) \ {c}) \in Nat BY <3>7, SumNat
    <3>9. SumFunctionOnSet(UnitsOf(i), Holders(i)')
            <= SumFunctionOnSet(UnitsOf(i), Holders(i) \ {c})
      BY <3>5, <3>7, SumSubset
    <3>10. Reserved(i)' = SumFunctionOnSet(UnitsOf(i), Holders(i)')
      BY DEF Reserved, UnitsOf
    <3>11. stock'[i] = stock[i] - Qty[c][i]
      BY <1>1, <2>1, <2>2, <2>6, <2>t, <3>6, <3>8 DEF Taken
    <3> QED BY <2>1, <2>2, <2>4, <2>t, <3>1, <3>6, <3>8, <3>9, <3>10, <3>11
  <2> QED BY <2>5, <2>6
<1>9. HoldsCovered' BY <1>1, <1>8 DEF HoldsCovered
<1>10. StockExplained'
  <2> SUFFICES ASSUME ~raced, NEW i \in Known
               PROVE  stock'[i] = Stock0[i] + received[i] - SumFunction(Sold(i))'
    BY <1>1 DEF StockExplained, Sold
  <2>t. /\ i \in Items /\ stock[i] \in Nat /\ Stock0[i] \in Nat /\ received[i] \in Int
        /\ Qty[c][i] \in Nat
    BY <1>t DEF TypeOK
  <2>1. stock[i] = Stock0[i] + received[i] - SumFunction(Sold(i))
    BY DEF CoverInv, StockExplained, Sold
  <2>2. /\ IsFiniteSet(HeldSales)
        /\ \A m \in HeldSales : Sold(i)[m] = Qty[booked[m]][i] /\ Sold(i)[m] \in Int
        /\ SumFunction(Sold(i)) = SumFunctionOnSet(Sold(i), HeldSales)
        /\ SumFunction(Sold(i)) \in Int
    BY <1>t, <2>t, SoldFinite DEF CoverInv
  <2>3. n \notin HeldSales BY <1>1, <1>t DEF HeldSales, TypeOK
  <2>4. \A m \in HeldSales : m \in Invoices /\ m # n /\ booked'[m] = booked[m]
    BY <1>1, <1>t, <2>3 DEF HeldSales, TypeOK
  <2>5. SumFunction(Sold(i))' = SumFunctionOnSet(Sold(i)', HeldSales')
    BY DEF SumFunction, Sold
  <2>6. HeldSales' = IF c \in reserved THEN HeldSales \cup {n} ELSE HeldSales
    BY <1>1, <1>t, <1>n, <2>4 DEF HeldSales, TypeOK
  <2>7. \A m \in HeldSales' : Sold(i)'[m] = Qty[booked'[m]][i] BY DEF Sold
  <2>8. SumFunctionOnSet(Sold(i)', HeldSales) = SumFunctionOnSet(Sold(i), HeldSales)
    <3>1. \A m \in HeldSales : Sold(i)'[m] = Sold(i)[m] BY <2>2, <2>4, <2>6, <2>7
    <3> QED BY <2>2, <3>1, SumEqual
  <2>9. CASE c \notin reserved
    BY <1>8, <2>1, <2>2, <2>5, <2>6, <2>8, <2>9
  <2>10. CASE c \in reserved
    <3>1. HeldSales' = HeldSales \cup {n} /\ Sold(i)'[n] = Qty[c][i]
      BY <1>1, <1>t, <1>n, <2>6, <2>7, <2>10 DEF TypeOK
    <3>2. \A m \in HeldSales \cup {n} : Sold(i)'[m] \in Int
      BY <2>2, <2>4, <2>7, <2>t, <3>1
    <3>3. SumFunctionOnSet(Sold(i)', HeldSales \cup {n})
            = Qty[c][i] + SumFunctionOnSet(Sold(i)', HeldSales)
      BY <2>2, <2>3, <3>1, <3>2, SumAdd
    <3> QED BY <1>8, <2>1, <2>2, <2>5, <2>8, <2>10, <2>t, <3>1, <3>3
  <2> QED BY <2>9, <2>10
<1> QED BY <1>4, <1>5, <1>6, <1>7, <1>9, <1>10 DEF CoverInv

(* A pull adds what it changes to received, and lowers no stock unseen.    *)
LEMMA CoverPull ==
  ASSUME SalesInv, CoverInv, NEW i \in Items, NEW level \in Levels, Pull(i, level)
  PROVE  CoverInv'
<1> USE SalesAssumption
<1>t. TypeOK BY DEF SalesInv
<1>1. /\ stock' = [stock EXCEPT ![i] = level]
      /\ received' = [received EXCEPT ![i] = @ + level - stock[i]]
      /\ ~raced' => ~raced /\ ~(level < stock[i])
      /\ UNCHANGED <<at, reserved, hold, late, booked>>
  BY DEF Pull, callVars
<1>2. Finitely' /\ ActiveReserved' /\ LateReserved' /\ BookedPast'
  BY <1>1 DEF CoverInv, Finitely, BookedNumbers, ActiveReserved, LateReserved, BookedPast
<1>3. SaveHolds' BY <1>1 DEF CoverInv, SaveHolds, Wanted
<1>4. HoldsCovered'
  <2> SUFFICES ASSUME ~raced', NEW j \in Known PROVE Reserved(j)' <= stock'[j]
    BY DEF HoldsCovered
  <2>t. j \in Items /\ stock[j] \in Nat /\ level \in Nat BY <1>t DEF TypeOK
  <2>1. Reserved(j)' = Reserved(j) BY <1>1 DEF Reserved, Holders
  <2>2. Reserved(j) <= stock[j] BY <1>1 DEF CoverInv, HoldsCovered
  <2>3. Reserved(j) \in Nat BY <1>t, <2>t, HoldersFinite DEF CoverInv
  <2>4. stock[j] <= stock'[j] BY <1>1, <1>t, <2>t DEF TypeOK
  <2>5. stock'[j] \in Nat BY <1>1, <1>t, <2>t DEF TypeOK
  <2> QED BY <2>1, <2>2, <2>3, <2>4, <2>5, <2>t
<1>5. StockExplained'
  <2> SUFFICES ASSUME ~raced', NEW j \in Known
               PROVE  stock'[j] = Stock0[j] + received'[j] - SumFunction(Sold(j))'
    BY DEF StockExplained, Sold
  <2>t. /\ j \in Items /\ stock[j] \in Nat /\ Stock0[j] \in Nat /\ received[j] \in Int
        /\ level \in Nat
    BY <1>t DEF TypeOK
  <2>1. stock[j] = Stock0[j] + received[j] - SumFunction(Sold(j))
    BY <1>1 DEF CoverInv, StockExplained, Sold
  <2>2. SumFunction(Sold(j))' = SumFunction(Sold(j)) BY <1>1 DEF Sold, HeldSales
  <2>3. SumFunction(Sold(j)) \in Int BY <1>t, <2>t, SoldFinite DEF CoverInv
  <2>4. stock'[j] - stock[j] = received'[j] - received[j] /\ stock'[j] \in Int /\ received'[j] \in Int
    BY <1>1, <1>t, <2>t DEF TypeOK
  <2>5. stock'[j] = Stock0[j] + received'[j] - SumFunction(Sold(j))
    <3>1. stock'[j] = stock[j] + (received'[j] - received[j]) BY <2>4, <2>t
    <3> DEFINE x == SumFunction(Sold(j))
               v == received[j]
               w == received'[j]
    <3>2. v \in Int /\ w \in Int /\ x \in Int /\ Stock0[j] \in Int BY <2>3, <2>4, <2>t
    <3>3. stock'[j] = Stock0[j] + v - x + (w - v) BY <2>1, <3>1
    <3> HIDE DEF x, v, w
    <3>4. Stock0[j] + v - x + (w - v) = Stock0[j] + w - x BY <3>2
    <3> QED BY <3>3, <3>4 DEF w, x
  <2> QED BY <2>2, <2>5
<1> QED BY <1>2, <1>3, <1>4, <1>5 DEF CoverInv

LEMMA CoverStep == SalesInv /\ CoverInv /\ [Next]_vars => CoverInv'
<1> USE SalesAssumption
<1> SUFFICES ASSUME SalesInv, CoverInv, [Next]_vars PROVE CoverInv' OBVIOUS
<1>t. TypeOK /\ LateReserved BY DEF SalesInv, CoverInv
<1>0. reserved \subseteq Calls /\ late \subseteq reserved BY <1>t DEF TypeOK, LateReserved
<1>1. ASSUME UNCHANGED <<reserved, hold, late, stock, booked, received, raced>>,
             \A d \in Calls : at'[d] = "save" /\ d \in reserved => at[d] = "save",
             \A d \in Calls : at[d] = "done" => at'[d] = "done"
      PROVE  CoverInv'
  BY <1>0, <1>1, CoverEnds
<1>2. ASSUME NEW c \in Calls, CallStep(c) PROVE CoverInv'
  <2>1. CASE Submit(c) BY <1>1, <1>t, <2>1 DEF Submit, TypeOK
  <2>2. CASE \E i \in Items : ReadStock(c, i) BY <1>1, <2>2 DEF ReadStock
  <2>3. CASE Unreserved(c)
    <3>1. c \notin reserved BY <2>3 DEF Unreserved, SalesInv, ReservedPast
    <3> QED BY <1>1, <1>t, <2>3, <3>1 DEF Unreserved, TypeOK
  <2>4. CASE Replayed(c) BY <1>1, <1>t, <2>4 DEF Replayed, TypeOK
  <2>5. CASE NotBooked(c) BY <1>1, <1>t, <2>5 DEF NotBooked, TypeOK
  <2>6. CASE Die(c) BY <1>1, <1>t, <2>6 DEF Die, TypeOK
  <2>7. CASE Reserve(c) BY <2>7, CoverReserve
  <2>8. CASE Book(c) BY <2>8, CoverBook
  <2>9. CASE ReleaseHolds(c)
    <3>1. /\ UNCHANGED <<reserved, late, stock, booked, received>>
          /\ at' = [at EXCEPT ![c] = "failed"] /\ at[c] = "tidy"
          /\ ~raced' => ~raced /\ \A r \in freeing[c] : at[r[1]] # "save"
          /\ \A d \in Calls, i \in Items :
               hold'[d][i] = IF <<d, i>> \in freeing[c] THEN "released" ELSE hold[d][i]
      BY <2>9 DEF ReleaseHolds, Marked
    <3>2. /\ \A d \in Calls : at'[d] = "save" => at[d] = "save"
          /\ \A d \in Calls : at[d] = "done" => at'[d] = "done"
      BY <1>t, <3>1 DEF TypeOK
    <3>3. ~raced' => \A d \in reserved : at'[d] = "save" =>
            \A i \in Wanted(d) : hold'[d][i] = hold[d][i]
      <4> SUFFICES ASSUME ~raced', NEW d \in reserved, at'[d] = "save", NEW i \in Wanted(d)
                   PROVE  hold'[d][i] = hold[d][i]
        OBVIOUS
      <4>1. d \in Calls /\ i \in Items /\ at[d] = "save" BY <1>0, <3>2 DEF Wanted
      <4>2. <<d, i>> \notin freeing[c]
        <5>1. <<d, i>>[1] = d OBVIOUS
        <5> QED BY <3>1, <4>1, <5>1
      <4> QED BY <3>1, <4>1, <4>2
    <3> QED BY <1>0, <3>1, <3>2, <3>3, CoverEnds
  <2>10. CASE Expire(c)
    <3>1. /\ UNCHANGED <<at, reserved, hold, stock, booked, received>>
          /\ late' = late \cup {c}
          /\ ~raced' => ~raced /\ at[c] # "save"
      BY <2>10 DEF Expire, callVars
    <3>2. c \in reserved BY <2>10 DEF Expire, CoverInv, ActiveReserved
    <3> QED BY <1>0, <3>1, <3>2, CoverEnds
  <2> QED
    BY <1>2, <2>1, <2>2, <2>3, <2>4, <2>5, <2>6, <2>7, <2>8, <2>9, <2>10 DEF CallStep, Hold, Save
<1>3. CASE RowStep
  <2>1. CASE BeginSweep BY <1>1, <2>1 DEF BeginSweep, callVars
  <2>2. CASE EndSweep
    <3>1. /\ UNCHANGED <<at, reserved, late, stock, booked, received, raced>>
          /\ \A d \in Calls, i \in Items :
               hold'[d][i] = IF <<d, i>> \in sweeping THEN "expired" ELSE hold[d][i]
      BY <2>2 DEF EndSweep, callVars, Marked
    <3>2. \A d \in Calls, i \in Items : <<d, i>> \in sweeping => d \in late
      BY DEF SalesInv, SweepsLate
    <3>3. ~raced => \A d \in reserved : at[d] = "save" /\ booked[InvoiceOf[d]] = None =>
            \A i \in Wanted(d) : hold'[d][i] = hold[d][i]
      BY <1>0, <3>1, <3>2 DEF CoverInv, SaveHolds, Wanted
    <3> QED BY <1>0, <3>1, <3>3, CoverEnds
  <2>3. CASE \E i \in Items, level \in Levels : Pull(i, level) BY <2>3, CoverPull
  <2> QED BY <1>3, <2>1, <2>2, <2>3 DEF RowStep
<1>4. CASE UNCHANGED vars BY <1>1, <1>4 DEF vars, callVars
<1> QED BY <1>2, <1>3, <1>4 DEF Next

THEOREM CoverInvariant == Spec => []CoverInv
BY SalesInvariant, CoverStart, CoverStep, PTL DEF Spec

(* Active holds stay covered by the stock, whatever order the transactions *)
(* of reserveStock, enqueueInvoiceSale, the sweep and the pull come in and *)
(* whichever tabs die between them, unless one of the races happened that  *)
(* raced records.                                                          *)
THEOREM HoldsStayCovered == Spec => []HoldsCovered
<1>1. CoverInv => HoldsCovered BY DEF CoverInv
<1> QED BY <1>1, CoverInvariant, PTL

(* The stock is what there was, plus what pulls changed, minus what the    *)
(* invoices that held their units sold, each counted once, unless one of   *)
(* the races happened that raced records.                                  *)
THEOREM StockIsExplained == Spec => []StockExplained
<1>1. CoverInv => StockExplained BY DEF CoverInv
<1> QED BY <1>1, CoverInvariant, PTL
=============================================================================
