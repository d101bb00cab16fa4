-------------------------- MODULE StockHoldsProofs --------------------------
(***************************************************************************)
(* Proofs about StockHolds, for any number of keys and requests, any       *)
(* memory limit and any faults: its types, that the releases implement     *)
(* OnceOnly, that only a manager's adjustment or transfer uncovers the     *)
(* holds, and that reserved_qty is the sum of the holds not yet released.  *)
(***************************************************************************)
EXTENDS StockHolds, SumTheorems, SequenceTheorems, TLAPS

(* Which copies of an answer may exist beside each other, and that each is *)
(* of the last run.                                                        *)
InFlightAlone ==
  \A k \in Keys : inflight[k] # 0 =>
    /\ inflight[k] = runs[k]
    /\ ~Release!InMemory(k)
    /\ ~table[k].live
WaitingForRun ==
  \A r \in Requests :
    req[r] \in {"running", "waiting"} => inflight[KeyOf[r]] # 0
MemoryIsLast == \A i \in DOMAIN mem : mem[i].run = runs[mem[i].key]
TableIsLast  == \A k \in Keys : table[k].live => table[k].run = runs[k]
ToldIsAnswered == \A r \in Requests : req[r] # "answered" => told[r] = 0
KeptUntilFault == faults = 0 => \A i \in DOMAIN mem : table[mem[i].key].live

OneAnswer ==
  /\ InFlightAlone /\ WaitingForRun /\ MemoryIsLast
  /\ TableIsLast /\ ToldIsAnswered /\ KeptUntilFault

OnceInv == Release!TypeOK /\ OneAnswer
-----------------------------------------------------------------------------
(* What the memory holds after an answer is added: that answer and answers *)
(* it held before, at most the oldest of which went (idempotency.js:60).   *)
LEMMA RememberFacts ==
  ASSUME NEW S, NEW s \in Seq(S), NEW e \in S
  PROVE  /\ Release!Remember(s, e) \in Seq(S)
         /\ \A i \in DOMAIN Release!Remember(s, e) :
              \/ Release!Remember(s, e)[i] = e
              \/ \E j \in DOMAIN s : Release!Remember(s, e)[i] = s[j]
<1> DEFINE longer == Append(s, e)
<1>1. /\ longer \in Seq(S) /\ Len(longer) = Len(s) + 1
      /\ \A i \in 1..Len(longer) :
           longer[i] = e \/ \E j \in DOMAIN s : longer[i] = s[j]
  <2>1. longer \in Seq(S) /\ Len(longer) = Len(s) + 1
    BY AppendProperties
  <2>2. ASSUME NEW i \in 1..Len(longer)
        PROVE  longer[i] = e \/ \E j \in DOMAIN s : longer[i] = s[j]
    <3>1. CASE i = Len(s) + 1
      BY <3>1, AppendProperties
    <3>2. CASE i \in 1..Len(s)
      <4>1. longer[i] = s[i] BY <3>2, AppendProperties
      <4> QED BY <4>1, <3>2, LenProperties
    <3> QED BY <2>1, <2>2, <3>1, <3>2, LenProperties
  <2> QED BY <2>1, <2>2
<1>2. /\ Tail(longer) \in Seq(S)
      /\ \A i \in DOMAIN Tail(longer) : i + 1 \in 1..Len(longer)
                                        /\ Tail(longer)[i] = longer[i + 1]
  <2> HIDE DEF longer
  <2>1. longer # <<>> /\ Len(longer) \in Nat BY <1>1, LenProperties, EmptySeq
  <2> QED BY <1>1, <2>1, HeadTailProperties, LenProperties
<1>3. DOMAIN longer = 1..Len(longer) BY <1>1, LenProperties
<1> HIDE DEF longer
<1>4. Release!Remember(s, e) = IF Len(longer) > MemCap THEN Tail(longer) ELSE longer
  BY DEF Release!Remember, longer
<1>5. CASE Release!Remember(s, e) = longer BY <1>5, <1>1, <1>3
<1>6. CASE Release!Remember(s, e) = Tail(longer)
  <2>1. ASSUME NEW i \in DOMAIN Tail(longer)
        PROVE  Tail(longer)[i] = e \/ \E j \in DOMAIN s : Tail(longer)[i] = s[j]
    BY <1>1, <1>2
  <2> QED BY <1>6, <1>2, <2>1
<1> QED BY <1>4, <1>5, <1>6
-----------------------------------------------------------------------------
(* What lookup tells a request that finds nothing: its key has no answer.  *)
LEMMA NothingRecorded ==
  ASSUME NEW k, Release!Recorded(k) = {}
  PROVE  ~Release!InMemory(k) /\ ~table[k].live
<1>1. Release!InMemory(k) => Release!MemoryRuns(k) # {}
  BY DEF Release!InMemory, Release!MemoryRuns
<1> QED BY <1>1 DEF Release!Recorded, Release!TableRuns

(* ... and a request that finds something is told of the last run.         *)
LEMMA RecordedIsLast ==
  ASSUME OneAnswer, NEW k \in Keys, NEW n \in Release!Recorded(k)
  PROVE  n = runs[k] /\ k \in Release!Known
<1>1. CASE Release!InMemory(k)
  <2>1. n \in Release!MemoryRuns(k) BY <1>1 DEF Release!Recorded
  <2> QED BY <1>1, <2>1 DEF Release!MemoryRuns, OneAnswer, MemoryIsLast, Release!Known
<1>2. CASE ~Release!InMemory(k)
  BY <1>2 DEF Release!Recorded, Release!TableRuns, OneAnswer, TableIsLast, Release!Known
<1> QED BY <1>1, <1>2

(* The invariant holds at the start.                                       *)
LEMMA OnceInit == Init => OnceInv
<1> SUFFICES ASSUME Init PROVE OnceInv OBVIOUS
<1>1. mem = <<>> /\ mem \in Seq(Release!Entry)
  BY DEF Init, Release!Init
<1>2. Release!TypeOK
  BY <1>1 DEF Init, Release!Init, Release!TypeOK, Release!States, Release!Row
<1>3. OneAnswer
  BY <1>1, HoldsAssumption DEF Init, Release!Init, OneAnswer, InFlightAlone, WaitingForRun,
    MemoryIsLast, TableIsLast, ToldIsAnswered, KeptUntilFault
<1> QED BY <1>2, <1>3 DEF OnceInv

(* A call that is replayed, joins a run or is refused keeps the invariant. *)
LEMMA OnceHandle ==
  ASSUME OnceInv, NEW r \in Requests, Release!Handle(r)
  PROVE  OnceInv'
<1> USE HoldsAssumption
<1> DEFINE k == KeyOf[r]
<1>0. k \in Keys OBVIOUS
<1>1. CASE Release!Replay(r)
  <2>1. PICK n \in Release!Recorded(k) : told' = [told EXCEPT ![r] = n]
    BY <1>1 DEF Release!Replay
  <2>2. n = runs[k] BY <2>1, <1>0, RecordedIsLast DEF OnceInv
  <2>3. Release!TypeOK'
    BY <1>0, <1>1, <2>1, <2>2 DEF OnceInv, Release!TypeOK, Release!Replay, Release!States
  <2>4. OneAnswer'
    BY <1>0, <1>1, <2>1 DEF OnceInv, Release!TypeOK, Release!Replay, Release!InMemory, OneAnswer,
      InFlightAlone, WaitingForRun, MemoryIsLast, TableIsLast, ToldIsAnswered, KeptUntilFault
  <2> QED BY <2>3, <2>4 DEF OnceInv
<1>2. CASE Release!Join(r)
  <2>1. Release!TypeOK'
    BY <1>2 DEF OnceInv, Release!TypeOK, Release!Join, Release!States
  <2>2. OneAnswer'
    BY <1>0, <1>2 DEF OnceInv, Release!TypeOK, Release!Join, Release!InMemory, OneAnswer,
      InFlightAlone, WaitingForRun, MemoryIsLast, TableIsLast, ToldIsAnswered, KeptUntilFault
  <2> QED BY <2>1, <2>2 DEF OnceInv
<1>3. CASE Release!Refuse(r)
  <2>1. Release!TypeOK'
    BY <1>3 DEF OnceInv, Release!TypeOK, Release!Refuse, Release!First, Release!States
  <2>2. OneAnswer'
    BY <1>0, <1>3 DEF OnceInv, Release!TypeOK, Release!Refuse, Release!First, Release!InMemory,
      OneAnswer, InFlightAlone, WaitingForRun, MemoryIsLast, TableIsLast, ToldIsAnswered,
      KeptUntilFault
  <2> QED BY <2>1, <2>2 DEF OnceInv
<1> QED BY <1>1, <1>2, <1>3 DEF Release!Handle

(* The call whose function runs keeps it: its key had no answer.           *)
LEMMA OnceRun ==
  ASSUME OnceInv, NEW r \in Requests, Release!Run(r)
  PROVE  OnceInv'
<1> USE HoldsAssumption
<1> DEFINE k == KeyOf[r]
<1>0. k \in Keys OBVIOUS
<1>1. ~Release!InMemory(k) /\ ~table[k].live /\ inflight[k] = 0
  BY NothingRecorded DEF Release!Run, Release!First
<1>2. /\ req' = [req EXCEPT ![r] = "running"]
      /\ runs' = [runs EXCEPT ![k] = @ + 1]
      /\ inflight' = [inflight EXCEPT ![k] = runs[k] + 1]
      /\ UNCHANGED <<mem, table, told, faults>>
      /\ req[r] = "new"
  BY DEF Release!Run, Release!First
<1> HIDE DEF k
<1>3. Release!TypeOK'
  BY <1>0, <1>2 DEF OnceInv, Release!TypeOK, Release!States
<1>4. InFlightAlone'
  BY <1>0, <1>1, <1>2 DEF OnceInv, OneAnswer, InFlightAlone, Release!TypeOK, Release!InMemory
<1>5. WaitingForRun'
  BY <1>0, <1>1, <1>2 DEF OnceInv, OneAnswer, WaitingForRun, Release!TypeOK, k
<1>6. MemoryIsLast'
  BY <1>0, <1>1, <1>2 DEF OnceInv, OneAnswer, MemoryIsLast, Release!TypeOK, Release!InMemory
<1>7. TableIsLast'
  BY <1>0, <1>1, <1>2 DEF OnceInv, OneAnswer, TableIsLast, Release!TypeOK
<1>8. ToldIsAnswered' /\ KeptUntilFault'
  BY <1>0, <1>1, <1>2 DEF OnceInv, OneAnswer, ToldIsAnswered, KeptUntilFault, Release!TypeOK
<1> QED BY <1>3, <1>4, <1>5, <1>6, <1>7, <1>8 DEF OnceInv, OneAnswer

(* Storing an answer and handing it to everyone who waits keeps it, even   *)
(* when the write to the table fails.                                      *)
LEMMA OnceReturn ==
  ASSUME OnceInv, NEW r \in Requests, NEW written \in BOOLEAN,
         Release!Finish(r, written)
  PROVE  OnceInv'
<1> USE HoldsAssumption
<1> DEFINE k == KeyOf[r]
           e == [key |-> k, run |-> inflight[k]]
<1>0. k \in Keys OBVIOUS
<1>1. /\ inflight[k] # 0 /\ inflight[k] = runs[k]
      /\ ~Release!InMemory(k) /\ ~table[k].live
  BY <1>0 DEF Release!Finish, OnceInv, OneAnswer, WaitingForRun, InFlightAlone
<1>2. e \in Release!Entry
  BY <1>0, <1>1 DEF OnceInv, Release!TypeOK, Release!Entry
<1>3. /\ mem' \in Seq(Release!Entry)
      /\ \A i \in DOMAIN mem' : mem'[i] = e \/ \E j \in DOMAIN mem : mem'[i] = mem[j]
  BY <1>2, RememberFacts DEF OnceInv, Release!TypeOK, Release!Finish
<1>4. /\ told' = [q \in Requests |-> IF q \in Release!Settled(k) THEN inflight[k] ELSE told[q]]
      /\ req' = [q \in Requests |-> IF q \in Release!Settled(k) THEN "answered" ELSE req[q]]
      /\ inflight' = [inflight EXCEPT ![k] = 0]
      /\ runs' = runs
  BY DEF Release!Finish
<1>5. /\ table' \in [Keys -> Release!Row] /\ faults' \in Nat
      /\ \A j \in Keys : j # k => table'[j] = table[j]
      /\ table'[k] \in {table[k], [run |-> runs[k], live |-> TRUE]}
      /\ faults' = 0 => faults = 0 /\ table'[k].live
  <2>1. CASE written
    <3>1. /\ table' = [table EXCEPT ![k] = [run |-> runs[k], live |-> TRUE]]
          /\ faults' = faults
      BY <2>1, <1>0, <1>1 DEF Release!Finish, Release!Upserted, OnceInv, Release!TypeOK
    <3>2. runs[k] \in Nat /\ table \in [Keys -> Release!Row] /\ faults \in Nat
      BY <1>0 DEF OnceInv, Release!TypeOK
    <3> HIDE DEF k, e
    <3> QED BY <1>0, <3>1, <3>2 DEF Release!Row
  <2>2. CASE ~written
    BY <2>2, <1>0, <1>1 DEF Release!Finish, OnceInv, Release!TypeOK
  <2> QED BY <2>1, <2>2
<1>6. \A q \in Requests :
        q \in Release!Settled(k) <=> KeyOf[q] = k /\ req[q] \in {"running", "waiting"}
  BY DEF Release!Settled
<1>7. e.key = k /\ e.run = runs[k] BY <1>1
<1> HIDE DEF k, e
<1>8. Release!TypeOK'
  BY <1>0, <1>3, <1>4, <1>5 DEF OnceInv, Release!TypeOK, Release!States
<1>9. \A j \in Keys : j # k /\ Release!InMemory(j)' => Release!InMemory(j)
  BY <1>3, <1>7 DEF Release!InMemory
<1>10. InFlightAlone'
  BY <1>0, <1>4, <1>5, <1>9 DEF OnceInv, OneAnswer, InFlightAlone, Release!TypeOK
<1>11. WaitingForRun'
  BY <1>0, <1>4, <1>6 DEF OnceInv, OneAnswer, WaitingForRun, Release!TypeOK
<1>12. MemoryIsLast'
  BY <1>3, <1>4, <1>7 DEF OnceInv, OneAnswer, MemoryIsLast
<1>13. TableIsLast'
  BY <1>0, <1>4, <1>5 DEF OnceInv, OneAnswer, TableIsLast
<1>14. ToldIsAnswered'
  BY <1>4 DEF OnceInv, OneAnswer, ToldIsAnswered
<1>15. KeptUntilFault'
  <2>1. ASSUME NEW j \in DOMAIN mem PROVE mem[j].key \in Keys
    <3>1. mem \in Seq(Release!Entry) /\ mem \in [1..Len(mem) -> Release!Entry]
      BY LenProperties DEF OnceInv, Release!TypeOK
    <3>2. mem[j] \in Release!Entry BY <2>1, <3>1
    <3> QED BY <3>2 DEF Release!Entry
  <2> SUFFICES ASSUME faults' = 0, NEW i \in DOMAIN mem' PROVE table'[mem'[i].key].live
    BY DEF KeptUntilFault
  <2>2. CASE mem'[i] = e BY <2>2, <1>5, <1>7
  <2>3. ASSUME NEW j \in DOMAIN mem, mem'[i] = mem[j] PROVE table'[mem'[i].key].live
    <3>1. table[mem[j].key].live BY <1>5 DEF OnceInv, OneAnswer, KeptUntilFault
    <3>2. CASE mem[j].key = k BY <2>3, <3>2, <1>5
    <3>3. CASE mem[j].key # k BY <2>1, <2>3, <3>1, <3>3, <1>5
    <3> QED BY <3>2, <3>3
  <2> QED BY <1>3, <2>2, <2>3
<1> QED BY <1>8, <1>10, <1>11, <1>12, <1>13, <1>14, <1>15 DEF OnceInv, OneAnswer

(* A crash and an expiry keep it: they leave fewer answers.                *)
LEMMA OnceFault ==
  ASSUME OnceInv, Release!Fault
  PROVE  OnceInv'
<1> USE HoldsAssumption
<1>1. CASE Release!Crash
  <2>1. /\ mem' = <<>> /\ mem' \in Seq(Release!Entry)
        /\ inflight' = [k \in Keys |-> 0]
        /\ req' = [r \in Requests |->
                     IF req[r] \in {"running", "waiting"} THEN "failed" ELSE req[r]]
        /\ faults' \in Nat \ {0}
        /\ UNCHANGED <<runs, table, told>>
    BY <1>1 DEF Release!Crash, OnceInv, Release!TypeOK
  <2>2. Release!TypeOK'
    BY <2>1 DEF OnceInv, Release!TypeOK, Release!States
  <2>3. OneAnswer'
    BY <2>1 DEF OnceInv, Release!TypeOK, Release!InMemory, OneAnswer, InFlightAlone,
      WaitingForRun, MemoryIsLast, TableIsLast, ToldIsAnswered, KeptUntilFault
  <2> QED BY <2>2, <2>3 DEF OnceInv
<1>2. ASSUME NEW k \in Keys, Release!Expire(k) PROVE OnceInv'
  <2>1. /\ table' = [table EXCEPT ![k].live = FALSE]
        /\ faults' \in Nat \ {0}
        /\ UNCHANGED <<req, runs, inflight, mem, told>>
    BY <1>2 DEF Release!Expire, OnceInv, Release!TypeOK
  <2>2. Release!TypeOK'
    BY <2>1 DEF OnceInv, Release!TypeOK, Release!Row
  <2>3. OneAnswer'
    BY <2>1 DEF OnceInv, Release!TypeOK, Release!Row, Release!InMemory, OneAnswer,
      InFlightAlone, WaitingForRun, MemoryIsLast, TableIsLast, ToldIsAnswered, KeptUntilFault
  <2> QED BY <2>2, <2>3 DEF OnceInv
<1> QED BY <1>1, <1>2 DEF Release!Fault

LEMMA OnceStep == OnceInv /\ [Next]_vars => OnceInv'
<1> SUFFICES ASSUME OnceInv, [Next]_vars PROVE OnceInv' OBVIOUS
<1>1. CASE UNCHANGED release
  BY <1>1 DEF release, OnceInv, Release!TypeOK, Release!InMemory, OneAnswer, InFlightAlone,
    WaitingForRun, MemoryIsLast, TableIsLast, ToldIsAnswered, KeptUntilFault
<1>2. CASE \E r \in Requests : ReleaseRun(r) \/ ReleaseHandle(r) \/ ReleaseReturn(r)
  BY <1>2, OnceRun, OnceHandle, OnceReturn
  DEF ReleaseRun, ReleaseHandle, ReleaseReturn, Release!Return
<1>3. CASE ServerFault
  BY <1>3, OnceFault DEF ServerFault
<1> QED
  BY <1>1, <1>2, <1>3
  DEF Next, vars, Reserve, Sell, ByHand, Adjust, TransferOut

THEOREM OnceInvariant == Spec => []OnceInv
<1> QED BY OnceInit, OnceStep, PTL DEF Spec
-----------------------------------------------------------------------------
(* The refinement, one case per action of Idempotency.                     *)
LEMMA OnceStart == Init => Release!Once!Init
<1> SUFFICES ASSUME Init PROVE Release!Once!Init OBVIOUS
<1>1. Release!Known = {}
  BY DEF Init, Release!Init, Release!Known, Release!InMemory
<1> QED BY <1>1 DEF Init, Release!Init, Release!Once!Init

(* A step that runs nothing and tells nothing may only forget what the     *)
(* faults allow it to.                                                     *)
LEMMA Forgetting ==
  ASSUME OnceInv, OnceInv', UNCHANGED <<runs, told>>,
         faults > 0 => faults' > 0,
         \A k \in Keys : k \in Release!Known' => k \in Release!Known,
         \A k \in Keys : k \in Release!Known /\ ~(faults' > 0) => k \in Release!Known'
  PROVE  Release!Once!Next
BY DEF OnceInv, Release!TypeOK, Release!Once!Next, Release!Once!Performed,
  Release!Once!Remembered, Release!Once!Told

LEMMA ReplayRefines ==
  ASSUME OnceInv, OnceInv', NEW r \in Requests, Release!Replay(r)
  PROVE  Release!Once!Next
<1> USE HoldsAssumption
<1>0. KeyOf[r] \in Keys OBVIOUS
<1>1. PICK n \in Release!Recorded(KeyOf[r]) : told' = [told EXCEPT ![r] = n]
  BY DEF Release!Replay
<1>2. n = runs[KeyOf[r]] /\ KeyOf[r] \in Release!Known
  BY <1>0, <1>1, RecordedIsLast DEF OnceInv
<1>3. told[r] = 0
  BY DEF OnceInv, OneAnswer, ToldIsAnswered, Release!Replay
<1>4. UNCHANGED <<runs, faults, Release!Known>>
  BY DEF Release!Replay, Release!Known, Release!InMemory
<1>5. \A q \in Requests : Release!Once!Told(q) \/ told'[q] = told[q]
  BY <1>0, <1>1, <1>2, <1>3 DEF Release!Once!Told, OnceInv, Release!TypeOK
<1> QED
  BY <1>4, <1>5 DEF OnceInv, Release!TypeOK, Release!Once!Next, Release!Once!Remembered

LEMMA RunRefines ==
  ASSUME OnceInv, OnceInv', NEW r \in Requests, Release!Run(r)
  PROVE  Release!Once!Next
<1> USE HoldsAssumption
<1> DEFINE k == KeyOf[r]
<1>0. k \in Keys OBVIOUS
<1>1. /\ ~Release!InMemory(k) /\ ~table[k].live /\ inflight[k] = 0
      /\ runs' = [runs EXCEPT ![k] = @ + 1]
      /\ inflight' = [inflight EXCEPT ![k] = runs[k] + 1]
      /\ UNCHANGED <<mem, table, told, faults>>
  BY NothingRecorded DEF Release!Run, Release!First
<1> HIDE DEF k
<1>2. \A j \in Keys : Release!InMemory(j)' <=> Release!InMemory(j)
  BY <1>1 DEF Release!InMemory
<1>3. Release!Once!Performed(k)
  BY <1>0, <1>1 DEF Release!Once!Performed, Release!Known, OnceInv, Release!TypeOK
<1>4. \A j \in Keys \ {k} : Release!Once!Remembered(j)
  BY <1>0, <1>1, <1>2 DEF Release!Once!Remembered, Release!Known, OnceInv, Release!TypeOK
<1> QED
  BY <1>1, <1>3, <1>4 DEF OnceInv, Release!TypeOK, Release!Once!Next

LEMMA FinishRefines ==
  ASSUME OnceInv, OnceInv', NEW r \in Requests, NEW written \in BOOLEAN,
         Release!Finish(r, written)
  PROVE  Release!Once!Next
<1> USE HoldsAssumption
<1> DEFINE k == KeyOf[r]
           e == [key |-> k, run |-> inflight[k]]
<1>0. k \in Keys OBVIOUS
<1>1. inflight[k] # 0 /\ inflight[k] = runs[k] /\ ~table[k].live /\ k \in Release!Known
  BY <1>0 DEF Release!Finish, OnceInv, OneAnswer, WaitingForRun, InFlightAlone, Release!Known
<1>2. e \in Release!Entry
  BY <1>0, <1>1 DEF OnceInv, Release!TypeOK, Release!Entry
<1>3. \A i \in DOMAIN mem' : mem'[i] = e \/ \E j \in DOMAIN mem : mem'[i] = mem[j]
  BY <1>2, RememberFacts DEF OnceInv, Release!TypeOK, Release!Finish
<1>4. /\ told' = [q \in Requests |-> IF q \in Release!Settled(k) THEN inflight[k] ELSE told[q]]
      /\ inflight' = [inflight EXCEPT ![k] = 0]
      /\ runs' = runs
  BY DEF Release!Finish
<1>5. /\ \A j \in Keys : j # k => table'[j] = table[j]
      /\ faults > 0 => faults' > 0
      /\ faults' = 0 => faults = 0 /\ table'[k].live
  <2>1. CASE written
    <3>1. table' = [table EXCEPT ![k] = [run |-> inflight[k], live |-> TRUE]] /\ faults' = faults
      BY <2>1, <1>0, <1>1 DEF Release!Finish, Release!Upserted, OnceInv, Release!TypeOK
    <3>2. table \in [Keys -> Release!Row] BY DEF OnceInv, Release!TypeOK
    <3> HIDE DEF k, e
    <3> QED BY <3>1, <3>2, <1>0
  <2>2. CASE ~written
    BY <2>2, <1>0 DEF Release!Finish, OnceInv, Release!TypeOK
  <2> QED BY <2>1, <2>2
<1>6. \A q \in Requests : q \in Release!Settled(k) => KeyOf[q] = k /\ told[q] = 0
  BY DEF Release!Settled, OnceInv, OneAnswer, ToldIsAnswered
<1>7. e.key = k OBVIOUS
<1> HIDE DEF k, e
<1>8. \A j \in Keys : j # k /\ Release!InMemory(j)' => Release!InMemory(j)
  BY <1>3, <1>7 DEF Release!InMemory
<1>9. \A j \in Keys : j \in Release!Known' => j \in Release!Known
  BY <1>0, <1>1, <1>4, <1>5, <1>8 DEF Release!Known, OnceInv, Release!TypeOK
<1>10. ASSUME NEW j \in Keys, j \in Release!Known, ~(faults' > 0)
       PROVE  j \in Release!Known'
  <2>1. faults' = 0 BY <1>10 DEF OnceInv, Release!TypeOK
  <2>2. CASE j = k BY <2>1, <2>2, <1>5 DEF Release!Known
  <2>3. CASE j # k
    <3>1. inflight'[j] = inflight[j] BY <2>3, <1>4 DEF OnceInv, Release!TypeOK
    <3>2. Release!InMemory(j) => table[j].live
      BY <2>1, <1>5 DEF OnceInv, OneAnswer, KeptUntilFault, Release!InMemory
    <3> QED BY <2>3, <3>1, <3>2, <1>5, <1>10 DEF Release!Known
  <2> QED BY <2>2, <2>3
<1>11. \A q \in Requests : Release!Once!Told(q) \/ told'[q] = told[q]
  BY <1>1, <1>4, <1>6 DEF Release!Once!Told
<1>12. \A j \in Keys : Release!Once!Remembered(j)
  BY <1>4, <1>9, <1>10 DEF Release!Once!Remembered
<1> QED
  BY <1>4, <1>5, <1>11, <1>12 DEF OnceInv, Release!TypeOK, Release!Once!Next

LEMMA FaultRefines ==
  ASSUME OnceInv, OnceInv', Release!Fault
  PROVE  Release!Once!Next
<1> USE HoldsAssumption
<1>0. /\ faults' > 0 /\ UNCHANGED <<runs, told>>
      /\ \A k \in Keys : k \in Release!Known' => k \in Release!Known
  <2>1. CASE Release!Crash
    BY <2>1 DEF Release!Crash, Release!Known, Release!InMemory, OnceInv, Release!TypeOK
  <2>2. ASSUME NEW k \in Keys, Release!Expire(k)
        PROVE  /\ faults' > 0 /\ UNCHANGED <<runs, told>>
               /\ \A j \in Keys : j \in Release!Known' => j \in Release!Known
    <3>1. /\ faults' = faults + 1 /\ UNCHANGED <<runs, told, inflight, mem>>
          /\ table' = [table EXCEPT ![k].live = FALSE]
      BY <2>2 DEF Release!Expire
    <3>2. \A j \in Keys : table'[j].live => table[j].live
      BY <3>1 DEF OnceInv, Release!TypeOK, Release!Row
    <3> QED BY <3>1, <3>2 DEF Release!Known, Release!InMemory, OnceInv, Release!TypeOK
  <2> QED BY <2>1, <2>2 DEF Release!Fault
<1> QED BY <1>0, Forgetting

LEMMA OnceNext ==
  ASSUME OnceInv, OnceInv', [Next]_vars
  PROVE  [Release!Once!Next]_(Release!Once!once)
<1>1. CASE UNCHANGED release
  BY <1>1 DEF release, Release!Once!once, Release!Known, Release!InMemory
<1>2. ASSUME NEW r \in Requests, Release!Run(r) PROVE Release!Once!Next
  BY <1>2, RunRefines
<1>3. ASSUME NEW r \in Requests, Release!Handle(r)
      PROVE  [Release!Once!Next]_(Release!Once!once)
  <2>1. CASE Release!Replay(r) BY <2>1, ReplayRefines
  <2>2. CASE Release!Join(r) \/ Release!Refuse(r)
    BY <2>2 DEF Release!Join, Release!Refuse, Release!Once!once, Release!Known, Release!InMemory
  <2> QED BY <1>3, <2>1, <2>2 DEF Release!Handle
<1>4. ASSUME NEW r \in Requests, Release!Return(r) PROVE Release!Once!Next
  BY <1>4, FinishRefines DEF Release!Return
<1>5. ASSUME Release!Fault PROVE Release!Once!Next
  BY <1>5, FaultRefines
<1> QED
  BY <1>1, <1>2, <1>3, <1>4, <1>5
  DEF Next, vars, Reserve, ReleaseRun, ReleaseHandle, ReleaseReturn, ServerFault, Sell, ByHand,
    Adjust, TransferOut

(* The releases implement OnceOnly: the map of runs in flight, the copies  *)
(* in memory and the rows of idempotency_keys together never run a release *)
(* whose answer is still known and never answer with an older run.         *)
THEOREM ReleasesRunOnce == Spec => ReleasesOnce
<1>1. OnceInv /\ OnceInv' /\ [Next]_vars => [Release!Once!Next]_(Release!Once!once)
  BY OnceNext
<1> QED
  BY <1>1, OnceStart, OnceInvariant, PTL
  DEF Spec, ReleasesOnce, Release!RunsOnce, Release!Once!Spec
-----------------------------------------------------------------------------
(* Every handler keeps the types: no release drives reserved_qty below     *)
(* zero, whatever it names.                                                *)
LEMMA LevelStep ==
  ASSUME TypeOK, [Next]_vars, OnceInv'
  PROVE  TypeOK'
<1> USE HoldsAssumption DEF TypeOK
<1>0. Release!TypeOK' BY DEF OnceInv
<1>1. ASSUME NEW h \in Keys, Reserve(h) PROVE TypeOK'
  BY <1>0, <1>1 DEF Reserve
<1>2. ASSUME NEW r \in Requests, ReleaseRun(r) PROVE TypeOK'
  BY <1>0, <1>2 DEF ReleaseRun, Freed
<1>3. CASE UNCHANGED level
  BY <1>0, <1>3 DEF level
<1>4. ASSUME NEW q \in Int, qty' = qty + q \/ qty' = qty - q, UNCHANGED <<reserved, held>>
      PROVE  TypeOK'
  BY <1>0, <1>4
<1>5. \A q \in Quantities : q \in Int /\ -q \in Int OBVIOUS
<1>6. CASE \E q \in Quantities : Sell(q)
  BY <1>4, <1>5, <1>6 DEF Sell
<1>7. CASE ByHand
  BY <1>4, <1>5, <1>7 DEF ByHand, Adjust, TransferOut
<1> QED
  BY <1>1, <1>2, <1>3, <1>6, <1>7
  DEF Next, vars, ReleaseHandle, ReleaseReturn, ServerFault

THEOREM HoldsTypeCorrect == Spec => []TypeOK
<1>1. Init => TypeOK
  BY OnceInit, HoldsAssumption DEF Init, OnceInv, TypeOK
<1> QED BY <1>1, OnceInvariant, LevelStep, PTL DEF Spec

(* In strict mode no reserve, release or sale takes stock that is held:    *)
(* only an adjustment or a transfer by hand leaves holds uncovered.        *)
THEOREM UncoveredOnlyByHand == Spec => OnlyByHandUncovered
<1>1. ASSUME TypeOK, [Next]_vars, StockMode = "strict", qty >= reserved, qty' < reserved'
      PROVE  ByHand
  <2> USE <1>1, HoldsAssumption DEF TypeOK
  <2>1. ASSUME NEW h \in Keys, Reserve(h) PROVE FALSE
    BY <2>1 DEF Reserve, Available
  <2>2. ASSUME NEW r \in Requests, ReleaseRun(r) PROVE FALSE
    BY <2>2 DEF ReleaseRun, Freed
  <2>3. CASE UNCHANGED level BY <2>3 DEF level
  <2>4. ASSUME NEW q \in Quantities, Sell(q) PROVE FALSE
    BY <2>4 DEF Sell, SaleAllows
  <2> QED
    BY <2>1, <2>2, <2>3, <2>4 DEF Next, vars, ReleaseHandle, ReleaseReturn, ServerFault
<1>2. TypeOK /\ [Next]_vars =>
        [StockMode = "strict" /\ qty >= reserved /\ qty' < reserved' => ByHand]_vars
  BY <1>1
<1> QED BY <1>2, HoldsTypeCorrect, PTL DEF Spec, OnlyByHandUncovered
-----------------------------------------------------------------------------
(* Only holds are released, there are finitely many of them, and until a   *)
(* fault a release that ran is known, so that nothing runs it again.       *)
FinitelyHeld     == IsFiniteSet(held)
ReleasedWereHeld == \A k \in Keys : runs[k] # 0 => k \in held
RunIsKnown ==
  faults = 0 => \A k \in Keys : runs[k] # 0 => inflight[k] # 0 \/ table[k].live

HoldsInv == FinitelyHeld /\ ReleasedWereHeld /\ RunIsKnown /\ HoldsKept

LEMMA OutstandingFinite == FinitelyHeld => IsFiniteSet(Outstanding)
<1>1. Outstanding \subseteq held BY DEF Outstanding
<1> QED BY <1>1, FS_Subset DEF FinitelyHeld

LEMMA HoldsInit == Init => HoldsInv
<1> SUFFICES ASSUME Init PROVE HoldsInv OBVIOUS
<1>1. held = {} /\ reserved = 0 /\ \A k \in Keys : runs[k] = 0
  BY DEF Init, Release!Init
<1>2. Outstanding = {} BY <1>1 DEF Outstanding
<1> QED
  BY <1>1, <1>2, SumEmpty, FS_EmptySet
  DEF HoldsInv, FinitelyHeld, ReleasedWereHeld, RunIsKnown, HoldsKept

\* A step that leaves the holds and what was released alone.
LEMMA HoldsUntouched ==
  ASSUME HoldsInv, UNCHANGED <<runs, reserved, held>>, faults' = 0 => faults = 0,
         faults' = 0 => \A k \in Keys :
           inflight[k] # 0 \/ table[k].live => inflight'[k] # 0 \/ table'[k].live
  PROVE  HoldsInv'
<1>1. Outstanding' = Outstanding BY DEF Outstanding
<1>2. HoldsKept' BY <1>1 DEF HoldsInv, HoldsKept
<1>3. FinitelyHeld' /\ ReleasedWereHeld' BY DEF HoldsInv, FinitelyHeld, ReleasedWereHeld
<1>4. RunIsKnown' BY DEF HoldsInv, RunIsKnown
<1> QED BY <1>2, <1>3, <1>4 DEF HoldsInv

\* A hold is added, ...
LEMMA HoldsReserve ==
  ASSUME TypeOK, HoldsInv, NEW h \in Keys, Reserve(h)
  PROVE  HoldsInv'
<1>1. /\ h \notin held /\ held' = held \cup {h} /\ reserved' = reserved + Units[h]
      /\ UNCHANGED <<req, runs, inflight, mem, table, told, faults>>
  BY DEF Reserve, release
<1>2. FinitelyHeld' BY <1>1, FS_AddElement DEF HoldsInv, FinitelyHeld
<1>3. ReleasedWereHeld' /\ RunIsKnown' BY <1>1 DEF HoldsInv, ReleasedWereHeld, RunIsKnown
<1>4. HoldsKept'
  <2>1. runs[h] = 0 BY <1>1 DEF HoldsInv, ReleasedWereHeld
  <2>2. Outstanding' = Outstanding \cup {h} /\ h \notin Outstanding
    BY <1>1, <2>1 DEF Outstanding
  <2>3. IsFiniteSet(Outstanding) BY OutstandingFinite DEF HoldsInv
  <2>4. \A y \in Outstanding \cup {h} : Units[y] \in Int
    BY HoldsAssumption DEF Outstanding, TypeOK
  <2>5. SumFunctionOnSet(Units, Outstanding \cup {h})
          = Units[h] + SumFunctionOnSet(Units, Outstanding)
    BY <2>2, <2>3, <2>4, SumAdd
  <2>6. SumFunctionOnSet(Units, Outstanding) \in Int /\ Units[h] \in Int
    BY <2>3, <2>4, SumInt
  <2> QED BY <1>1, <2>2, <2>5, <2>6 DEF HoldsInv, HoldsKept
<1> QED BY <1>2, <1>3, <1>4 DEF HoldsInv

\* ... and freed by the one release of it that runs, which finds at least its
\* own units reserved.
LEMMA HoldsRelease ==
  ASSUME TypeOK, OnceInv, HoldsInv, NEW r \in Requests, ReleaseRun(r)
  PROVE  HoldsInv'
<1> USE HoldsAssumption
<1> DEFINE k == KeyOf[r]
<1>0. k \in Keys /\ k \in held BY DEF ReleaseRun
<1>1. /\ ~table[k].live /\ inflight[k] = 0
      /\ runs' = [runs EXCEPT ![k] = @ + 1]
      /\ inflight' = [inflight EXCEPT ![k] = runs[k] + 1]
      /\ UNCHANGED <<table, faults, held>>
      /\ reserved' = Freed(reserved, Units[k])
  BY NothingRecorded DEF ReleaseRun, Release!Run, Release!First
<1>t. /\ runs \in [Keys -> Nat] /\ inflight \in [Keys -> Nat] /\ reserved \in Nat
      /\ held \subseteq Keys /\ Units[k] \in Nat
  BY <1>0 DEF TypeOK, Release!TypeOK
<1> HIDE DEF k
<1>2. FinitelyHeld' BY <1>1 DEF HoldsInv, FinitelyHeld
<1>3. ReleasedWereHeld' BY <1>0, <1>1, <1>t DEF HoldsInv, ReleasedWereHeld
<1>4. RunIsKnown' BY <1>0, <1>1, <1>t DEF HoldsInv, RunIsKnown
<1>5. HoldsKept'
  <2> SUFFICES ASSUME faults' = 0 PROVE reserved' = SumFunctionOnSet(Units, Outstanding')
    BY DEF HoldsKept
  <2>1. runs[k] = 0 /\ reserved = SumFunctionOnSet(Units, Outstanding)
    BY <1>0, <1>1 DEF HoldsInv, RunIsKnown, HoldsKept
  <2>2. k \in Outstanding /\ Outstanding' = Outstanding \ {k}
    BY <1>0, <1>1, <1>t, <2>1 DEF Outstanding
  <2>3. IsFiniteSet(Outstanding) BY OutstandingFinite DEF HoldsInv
  <2>4. \A y \in Outstanding : Units[y] \in Int /\ Units[y] \in Nat
    BY <1>t DEF Outstanding
  <2>5. SumFunctionOnSet(Units, Outstanding)
          = Units[k] + SumFunctionOnSet(Units, Outstanding \ {k})
    BY <2>2, <2>3, <2>4, SumRemove
  <2>6. SumFunctionOnSet(Units, Outstanding \ {k}) \in Nat
    <3>1. IsFiniteSet(Outstanding \ {k}) BY <2>3, FS_RemoveElement
    <3>2. \A y \in Outstanding \ {k} : Units[y] \in Nat BY <2>4
    <3> QED BY <3>1, <3>2, SumNat
  <2> QED BY <1>1, <1>t, <2>1, <2>2, <2>5, <2>6 DEF Freed
<1> QED BY <1>2, <1>3, <1>4, <1>5 DEF HoldsInv

LEMMA HoldsStep == TypeOK /\ OnceInv /\ HoldsInv /\ [Next]_vars => HoldsInv'
<1> SUFFICES ASSUME TypeOK, OnceInv, HoldsInv, [Next]_vars PROVE HoldsInv' OBVIOUS
<1>1. ASSUME NEW h \in Keys, Reserve(h) PROVE HoldsInv'
  BY <1>1, HoldsReserve
<1>2. ASSUME NEW r \in Requests, ReleaseRun(r) PROVE HoldsInv'
  BY <1>2, HoldsRelease
<1>3. ASSUME NEW r \in Requests, ReleaseHandle(r) PROVE HoldsInv'
  BY <1>3, HoldsUntouched
  DEF ReleaseHandle, level, Release!Handle, Release!Replay, Release!Join, Release!Refuse
<1>4. ASSUME NEW r \in Requests, ReleaseReturn(r) PROVE HoldsInv'
  <2> DEFINE k == KeyOf[r]
  <2>1. PICK written \in BOOLEAN : Release!Finish(r, written)
    BY <1>4 DEF ReleaseReturn, Release!Return
  <2>2. /\ UNCHANGED <<runs, reserved, held>>
        /\ inflight' = [inflight EXCEPT ![k] = 0]
    BY <1>4, <2>1 DEF ReleaseReturn, level, Release!Finish
  <2>t. k \in Keys /\ inflight \in [Keys -> Nat] /\ table \in [Keys -> Release!Row] /\ faults \in Nat
    BY HoldsAssumption DEF TypeOK, Release!TypeOK
  <2>3. faults' = 0 => /\ faults = 0
                       /\ \A j \in Keys : j # k => table'[j] = table[j]
                       /\ table'[k].live
    <3>1. CASE written
      <4>1. /\ table' = [table EXCEPT ![k] = Release!Upserted(@, inflight[k])] /\ faults' = faults
        BY <2>1, <3>1 DEF Release!Finish
      <4>2. table'[k] = Release!Upserted(table[k], inflight[k]) BY <4>1, <2>t
      <4>3. table'[k].live BY <4>2 DEF Release!Upserted
      <4> QED BY <4>1, <4>3, <2>t
    <3>2. CASE ~written
      BY <2>1, <2>t, <3>2 DEF Release!Finish
    <3> QED BY <3>1, <3>2
  <2> HIDE DEF k
  <2>4. faults' = 0 => \A j \in Keys :
          inflight[j] # 0 \/ table[j].live => inflight'[j] # 0 \/ table'[j].live
    BY <2>2, <2>3, <2>t
  <2> QED BY <2>2, <2>3, <2>4, HoldsUntouched
<1>5. CASE ServerFault
  <2>1. UNCHANGED <<runs, reserved, held>> /\ faults' = faults + 1 /\ faults \in Nat
    BY <1>5 DEF ServerFault, level, Release!Fault, Release!Crash, Release!Expire, TypeOK,
      Release!TypeOK
  <2>2. ~(faults' = 0) BY <2>1
  <2> QED BY <2>1, <2>2, HoldsUntouched
<1>6. CASE UNCHANGED <<release, reserved, held>>
  BY <1>6, HoldsUntouched DEF release
<1> QED
  BY <1>1, <1>2, <1>3, <1>4, <1>5, <1>6
  DEF Next, vars, level, Sell, ByHand, Adjust, TransferOut

(* As long as the server does not fail, reserved_qty is what the holds     *)
(* nobody released add up to, for any number of holds and requests.        *)
THEOREM HoldsAddUp == Spec => []HoldsKept
<1>1. HoldsInv => HoldsKept BY DEF HoldsInv
<1> QED BY <1>1, HoldsInit, HoldsStep, HoldsTypeCorrect, OnceInvariant, PTL DEF Spec
=============================================================================
