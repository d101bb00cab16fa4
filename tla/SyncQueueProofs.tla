-------------------------- MODULE SyncQueueProofs --------------------------
(***************************************************************************)
(* No edit is lost by the sync queue, for any number of documents, tabs,   *)
(* edits, crashes and retries.  NoEditLost is not inductive: what a push   *)
(* holds in memory must be known to be what its row still carries, or to   *)
(* have been overtaken, for markSynced not to close a row on another edit. *)
(***************************************************************************)
EXTENDS SyncQueue, SequenceTheorems, TLAPS

\* The newest edit of a document is in some row.
NewestQueued ==
  \A d \in Docs : edits[d] > 0 => \E i \in DOMAIN queue : Edit(i) = <<d, edits[d]>>

\* A row marked synced is answered for.
SyncedIsSettled ==
  \A i \in DOMAIN queue : queue[i].status = "synced" => Edit(i) \in settled \cup overtaken

\* A push holds the edit its row carries, unless another overtook it.
HeldIsCurrent ==
  \A t \in Tabs : \A e \in tab[t].list :
    e.rev = queue[e.row].rev \/ Edit(e.row) \in overtaken

SyncInv == TypeOK /\ NewestQueued /\ SyncedIsSettled /\ HeldIsCurrent
-----------------------------------------------------------------------------
\* A row of the queue is replaced by another of the same document.
Replaced(i, r) ==
  /\ i \in DOMAIN queue
  /\ r \in Row /\ r.doc = queue[i].doc
  /\ r.ready \/ r.attempts < MaxAttempts
  /\ queue' = [queue EXCEPT ![i] = r]

\* What the queue is after a step, so far as its type goes.
QueueKept ==
  /\ queue' \in Seq(Row)
  /\ \A i \in DOMAIN queue' : queue'[i].ready \/ queue'[i].attempts < MaxAttempts
  /\ \A i \in DOMAIN queue : i \in DOMAIN queue' /\ queue'[i].doc = queue[i].doc

(* A replaced row leaves the others where they are.                        *)
LEMMA ReplacedRow ==
  ASSUME TypeOK, NEW i, NEW r, Replaced(i, r)
  PROVE  /\ QueueKept
         /\ DOMAIN queue' = DOMAIN queue
         /\ \A j \in DOMAIN queue : queue'[j] = IF j = i THEN r ELSE queue[j]
<1>1. queue \in Seq(Row) /\ DOMAIN queue = 1..Len(queue) BY DEF TypeOK
<1>2. /\ queue' \in Seq(Row) /\ Len(queue') = Len(queue)
      /\ \A j \in 1..Len(queue) : queue'[j] = IF j = i THEN r ELSE queue[j]
  BY <1>1, ExceptSeq DEF Replaced
<1>3. DOMAIN queue' = DOMAIN queue BY <1>1, <1>2
<1>4. \A j \in DOMAIN queue : queue[j].ready \/ queue[j].attempts < MaxAttempts
  BY DEF TypeOK
<1> QED BY <1>1, <1>2, <1>3, <1>4 DEF Replaced, QueueKept

(* An added row comes last.                                                *)
LEMMA AddedRow ==
  ASSUME TypeOK, NEW r \in Row, r.ready, queue' = Append(queue, r)
  PROVE  /\ QueueKept
         /\ DOMAIN queue' = DOMAIN queue \cup {Len(queue) + 1}
         /\ Len(queue) + 1 \notin DOMAIN queue
         /\ \A j \in DOMAIN queue : queue'[j] = queue[j]
         /\ queue'[Len(queue) + 1] = r
<1>1. queue \in Seq(Row) /\ DOMAIN queue = 1..Len(queue) /\ Len(queue) \in Nat
  BY LenProperties DEF TypeOK
<1>2. /\ queue' \in Seq(Row) /\ Len(queue') = Len(queue) + 1
      /\ \A j \in 1..Len(queue) : queue'[j] = queue[j]
      /\ queue'[Len(queue) + 1] = r
  BY <1>1, AppendProperties
<1>3. DOMAIN queue' = 1..(Len(queue) + 1) BY <1>2
<1>4. DOMAIN queue' = DOMAIN queue \cup {Len(queue) + 1} BY <1>1, <1>3
<1>5. \A j \in DOMAIN queue : queue[j].ready \/ queue[j].attempts < MaxAttempts
  BY DEF TypeOK
<1> QED BY <1>1, <1>2, <1>4, <1>5 DEF QueueKept

(* A failure never counts past the limit.                                  *)
LEMMA CountedType ==
  ASSUME NEW n \in 0..MaxAttempts
  PROVE  Counted(n) \in 0..MaxAttempts
BY SyncAssumption DEF Counted

(* What markRetry writes is a row, ready unless it has attempts left.      *)
LEMMA RetriedRow ==
  ASSUME NEW row \in Row
  PROVE  LET r == Retried(row) IN
         /\ r \in Row /\ r.doc = row.doc /\ r.rev = row.rev /\ r.status # "synced"
         /\ r.ready \/ r.attempts < MaxAttempts
<1> DEFINE n == Counted(row.attempts)
<1>1. n \in 0..MaxAttempts BY CountedType DEF Row
<1>2. Dead(n) \in BOOLEAN /\ (Dead(n) \/ n < MaxAttempts)
  BY <1>1, SyncAssumption DEF Dead
<1>3. Retried(row) = [row EXCEPT !.attempts = n,
                                 !.status = IF Dead(n) THEN "failed" ELSE "pending",
                                 !.ready = Dead(n)]
  BY DEF Retried
<1> QED BY <1>1, <1>2, <1>3 DEF Row

(* Steps that move a row through its states leave the edit it carries.     *)
Moved(i, status) ==
  \E r : /\ Replaced(i, r) /\ r.rev = queue[i].rev
         /\ r.status = "synced" => status = "synced"

LEMMA RowMoves ==
  ASSUME TypeOK, NEW t \in Tabs
  PROVE  /\ ResetRow(t) => \E i \in DOMAIN queue : Moved(i, "pending")
         /\ \A e \in tab[t].list :
              /\ Reject(t, e) => Moved(e.row, "failed")
              /\ Post(t, e) => Moved(e.row, "syncing")
              /\ Answered(t, e) => Moved(e.row, "synced")
              /\ Failed(t, e) => Moved(e.row, "failed")
<1>1. \A i \in DOMAIN queue : queue[i] \in Row BY DEF TypeOK
<1>2. \A i \in DOMAIN queue : queue[i].ready \/ queue[i].attempts < MaxAttempts
  BY DEF TypeOK
<1>3. tab[t].stuck \subseteq DOMAIN queue /\ \A e \in tab[t].list : e.row \in DOMAIN queue
  BY DEF TypeOK
<1>4. ASSUME ResetRow(t) PROVE \E i \in DOMAIN queue : Moved(i, "pending")
  <2>1. PICK i \in tab[t].stuck : queue' = [queue EXCEPT ![i].status = "pending"]
    BY <1>4 DEF ResetRow
  <2> DEFINE r == [queue[i] EXCEPT !.status = "pending"]
  <2>2. i \in DOMAIN queue /\ queue[i] \in Row BY <1>1, <1>3
  <2>3. r \in Row /\ r.doc = queue[i].doc /\ r.rev = queue[i].rev /\ r.status # "synced"
        /\ r.ready = queue[i].ready /\ r.attempts = queue[i].attempts
    BY <2>2 DEF Row
  <2>4. Replaced(i, r) BY <1>2, <2>1, <2>2, <2>3 DEF Replaced
  <2> QED BY <2>2, <2>3, <2>4 DEF Moved
<1>5. ASSUME NEW e \in tab[t].list
      PROVE  /\ Reject(t, e) => Moved(e.row, "failed")
             /\ Post(t, e) => Moved(e.row, "syncing")
             /\ Answered(t, e) => Moved(e.row, "synced")
             /\ Failed(t, e) => Moved(e.row, "failed")
  <2> DEFINE i == e.row
             counted == [queue[i] EXCEPT !.status = "failed", !.ready = TRUE,
                                         !.attempts = Counted(queue[i].attempts)]
             sent    == [queue[i] EXCEPT !.status = "syncing"]
             closed  == [queue[i] EXCEPT !.status = "synced"]
  <2>1. i \in DOMAIN queue /\ queue[i] \in Row BY <1>1, <1>3
  <2>2. Counted(queue[i].attempts) \in 0..MaxAttempts BY <2>1, CountedType DEF Row
  <2>3. /\ counted \in Row /\ counted.doc = queue[i].doc /\ counted.rev = queue[i].rev
        /\ counted.ready /\ counted.status # "synced"
    BY <2>1, <2>2 DEF Row
  <2>4. /\ sent \in Row /\ sent.doc = queue[i].doc /\ sent.rev = queue[i].rev
        /\ sent.ready = queue[i].ready /\ sent.attempts = queue[i].attempts
        /\ sent.status # "synced"
    BY <2>1 DEF Row
  <2>5. /\ closed \in Row /\ closed.doc = queue[i].doc /\ closed.rev = queue[i].rev
        /\ closed.ready = queue[i].ready /\ closed.attempts = queue[i].attempts
    BY <2>1 DEF Row
  <2>6. ASSUME Reject(t, e) PROVE Moved(i, "failed")
    <3>1. queue' = [queue EXCEPT ![i] = counted] BY <2>6 DEF Reject
    <3>2. Replaced(i, counted) BY <2>1, <2>3, <3>1 DEF Replaced
    <3> QED BY <2>3, <3>2 DEF Moved
  <2>7. ASSUME Post(t, e) PROVE Moved(i, "syncing")
    <3>1. queue' = [queue EXCEPT ![i] = sent] BY <2>7 DEF Post
    <3>2. Replaced(i, sent) BY <1>2, <2>1, <2>4, <3>1 DEF Replaced
    <3> QED BY <2>4, <3>2 DEF Moved
  <2>8. ASSUME Answered(t, e) PROVE Moved(i, "synced")
    <3>1. queue' = [queue EXCEPT ![i] = closed] BY <2>8 DEF Answered
    <3>2. Replaced(i, closed) BY <1>2, <2>1, <2>5, <3>1 DEF Replaced
    <3> QED BY <2>5, <3>2 DEF Moved
  <2>9. ASSUME Failed(t, e) PROVE Moved(i, "failed")
    <3>1. queue' = [queue EXCEPT ![i] = Retried(queue[i])] BY <2>9 DEF Failed
    <3>2. Replaced(i, Retried(queue[i])) BY <2>1, <3>1, RetriedRow DEF Replaced
    <3> QED BY <2>1, <3>2, RetriedRow DEF Moved
  <2> QED BY <2>6, <2>7, <2>8, <2>9
<1> QED BY <1>4, <1>5

LEMMA RowMovesByItself ==
  ASSUME TypeOK, NEW i \in DOMAIN queue
  PROVE  /\ BackoffPasses(i) => Moved(i, queue[i].status)
         /\ RetryFailed(i) => Moved(i, "pending")
<1> DEFINE due  == [queue[i] EXCEPT !.ready = TRUE]
           open == [queue[i] EXCEPT !.status = "pending", !.attempts = 0, !.ready = TRUE]
<1>1. queue[i] \in Row BY DEF TypeOK
<1>2. /\ due \in Row /\ due.doc = queue[i].doc /\ due.rev = queue[i].rev
      /\ due.ready /\ due.status = queue[i].status
  BY <1>1 DEF Row
<1>3. /\ open \in Row /\ open.doc = queue[i].doc /\ open.rev = queue[i].rev
      /\ open.ready /\ open.status # "synced"
  <2>1. 0 \in 0..MaxAttempts BY SyncAssumption
  <2> QED BY <1>1, <2>1 DEF Row
<1>4. ASSUME BackoffPasses(i) PROVE Moved(i, queue[i].status)
  <2>1. queue' = [queue EXCEPT ![i] = due] BY <1>4 DEF BackoffPasses
  <2>2. Replaced(i, due) BY <1>2, <2>1 DEF Replaced
  <2> QED BY <1>2, <2>2 DEF Moved
<1>5. ASSUME RetryFailed(i) PROVE Moved(i, "pending")
  <2>1. queue' = [queue EXCEPT ![i] = open] BY <1>5 DEF RetryFailed
  <2>2. Replaced(i, open) BY <1>3, <2>1 DEF Replaced
  <2> QED BY <1>3, <2>2 DEF Moved
<1> QED BY <1>4, <1>5
-----------------------------------------------------------------------------
\* What a step must keep, apart from the queue, for TypeOK.
OthersTyped ==
  /\ \A t \in Tabs : \/ tab'[t] = tab[t]
                      \/ /\ tab'[t] \in [ pc: {"idle", "reset", "push", "post"},
                                           stuck: SUBSET DOMAIN queue', list: SUBSET Item ]
                         /\ \A e \in tab'[t].list : e.row \in DOMAIN queue'
  /\ \A t \in Tabs : \/ draft'[t] = draft[t]
                      \/ draft'[t] = NoDraft
  /\ tab' = [t \in Tabs |-> tab'[t]] /\ draft' = [t \in Tabs |-> draft'[t]]
  /\ edits' \in [Docs -> Nat]
  /\ settled' \subseteq Docs \X Nat /\ overtaken' \subseteq Docs \X Nat
  /\ crashes' \in 0..MaxCrashes /\ retries' \in 0..MaxRetries

LEMMA TypeKept ==
  ASSUME TypeOK, QueueKept, OthersTyped
  PROVE  TypeOK'
<1>1. \A i \in DOMAIN queue : i \in DOMAIN queue' /\ queue'[i].doc = queue[i].doc
  BY DEF QueueKept
<1>2. tab' \in [Tabs -> [ pc: {"idle", "reset", "push", "post"},
                         stuck: SUBSET DOMAIN queue', list: SUBSET Item ]]
  <2> SUFFICES ASSUME NEW t \in Tabs
               PROVE  tab'[t] \in [ pc: {"idle", "reset", "push", "post"},
                                     stuck: SUBSET DOMAIN queue', list: SUBSET Item ]
    BY DEF OthersTyped
  <2>1. CASE tab'[t] = tab[t] BY <1>1, <2>1 DEF TypeOK
  <2>2. CASE tab'[t] # tab[t] BY <2>2 DEF OthersTyped
  <2> QED BY <2>1, <2>2
<1>3. \A t \in Tabs : \A e \in tab'[t].list : e.row \in DOMAIN queue'
  BY <1>1 DEF TypeOK, OthersTyped
<1>4. draft' \in [Tabs -> {NoDraft} \cup [doc: Docs, row: Nat]]
  BY DEF TypeOK, OthersTyped
<1>5. \A t \in Tabs : draft'[t].row # 0 =>
        /\ draft'[t].row \in DOMAIN queue'
        /\ queue'[draft'[t].row].doc = draft'[t].doc
  BY <1>1 DEF TypeOK, OthersTyped, NoDraft
<1> QED BY <1>2, <1>3, <1>4, <1>5 DEF TypeOK, OthersTyped, QueueKept

(* A new row, or a new payload in the row an edit joins.                   *)
LEMMA WrittenQueue ==
  ASSUME TypeOK, NEW t \in Tabs, Write(t)
  PROVE  LET d   == draft[t].doc
             i   == draft[t].row
             rev == edits[d] + 1
             k   == IF i = 0 THEN Len(queue) + 1 ELSE i
         IN /\ d \in Docs /\ rev \in Nat \ {0}
            /\ QueueKept
            /\ DOMAIN queue' = DOMAIN queue \cup {k}
            /\ queue'[k] = Fresh(d, rev)
            /\ \A j \in DOMAIN queue : j # k => queue'[j] = queue[j]
            /\ i # 0 => i \in DOMAIN queue /\ queue[i].doc = d
            /\ i = 0 => k \notin DOMAIN queue
<1> DEFINE d   == draft[t].doc
           i   == draft[t].row
           rev == edits[d] + 1
<1>1. draft[t] \in [doc: Docs, row: Nat] /\ d \in Docs /\ i \in Nat
  BY DEF TypeOK, Write
<1>2. edits[d] \in Nat /\ rev \in Nat \ {0} BY <1>1 DEF TypeOK
<1>3. Fresh(d, rev) \in Row /\ Fresh(d, rev).ready /\ Fresh(d, rev).doc = d
  <2>1. 0 \in 0..MaxAttempts BY SyncAssumption
  <2> QED BY <1>1, <1>2, <2>1 DEF Fresh, Row
<1>4. CASE i = 0
  <2>1. queue' = Append(queue, Fresh(d, rev)) BY <1>4 DEF Write
  <2> QED BY <1>1, <1>2, <1>3, <1>4, <2>1, AddedRow
<1>5. CASE i # 0
  <2>1. i \in DOMAIN queue /\ queue[i].doc = d BY <1>5 DEF TypeOK
  <2>2. queue' = [queue EXCEPT ![i] = Fresh(d, rev)] BY <1>5 DEF Write, Joined
  <2>3. Replaced(i, Fresh(d, rev)) BY <1>3, <2>1, <2>2 DEF Replaced
  <2>4. /\ QueueKept
        /\ DOMAIN queue' = DOMAIN queue
        /\ \A j \in DOMAIN queue : queue'[j] = IF j = i THEN Fresh(d, rev) ELSE queue[j]
    BY <2>3, ReplacedRow
  <2> QED BY <1>1, <1>2, <1>5, <2>1, <2>4
<1> QED BY <1>4, <1>5

(* A tab that goes on with the items it held.                              *)
LEMMA TabTyped ==
  ASSUME TypeOK, NEW t \in Tabs, NEW e,
         tab' = [tab EXCEPT ![t] = Idle] \/ Done(t, e)
           \/ tab' = [tab EXCEPT ![t].pc = "post"]
           \/ tab' = [tab EXCEPT ![t].stuck = @ \ {e}],
         DOMAIN queue' = DOMAIN queue
  PROVE  /\ tab' \in [Tabs -> [ pc: {"idle", "reset", "push", "post"},
                                stuck: SUBSET DOMAIN queue', list: SUBSET Item ]]
         /\ \A u \in Tabs : tab'[u].list \subseteq tab[u].list
<1> DEFINE T == [pc: {"idle", "reset", "push", "post"},
                 stuck: SUBSET DOMAIN queue', list: SUBSET Item]
<1>1. tab \in [Tabs -> T] BY DEF TypeOK
<1>2. PICK v : tab' = [tab EXCEPT ![t] = v] /\ v \in T /\ v.list \subseteq tab[t].list
  <2> DEFINE posting  == [tab[t] EXCEPT !.pc = "post"]
             done     == [tab[t] EXCEPT !.pc = "push", !.list = tab[t].list \ {e}]
             resetting == [tab[t] EXCEPT !.stuck = tab[t].stuck \ {e}]
  <2>1. tab[t] \in T BY <1>1
  <2>2. CASE tab' = [tab EXCEPT ![t] = Idle]
    <3>1. Idle \in T /\ Idle.list \subseteq tab[t].list BY DEF Idle
    <3> QED BY <2>2, <3>1
  <2>3. CASE Done(t, e)
    <3>1. tab' = [tab EXCEPT ![t] = done] BY <2>3 DEF Done
    <3>2. done \in T /\ done.list \subseteq tab[t].list BY <2>1
    <3> QED BY <3>1, <3>2
  <2>4. CASE tab' = [tab EXCEPT ![t].pc = "post"]
    <3>1. tab' = [tab EXCEPT ![t] = posting] BY <2>4
    <3>2. posting \in T /\ posting.list \subseteq tab[t].list BY <2>1
    <3> QED BY <3>1, <3>2
  <2>5. CASE tab' = [tab EXCEPT ![t].stuck = @ \ {e}]
    <3>1. tab' = [tab EXCEPT ![t] = resetting] BY <2>5
    <3>2. resetting \in T /\ resetting.list \subseteq tab[t].list BY <2>1
    <3> QED BY <3>1, <3>2
  <2> QED BY <2>2, <2>3, <2>4, <2>5
<1> HIDE DEF T
<1>3. tab' \in [Tabs -> T] /\ \A u \in Tabs : tab'[u].list \subseteq tab[u].list
  BY <1>1, <1>2
<1> QED BY <1>3 DEF T

(* Steps that move a row keep the types.                                   *)
LEMMA MoveTyped ==
  ASSUME TypeOK, NEW i, NEW status, Moved(i, status),
         DOMAIN queue' = DOMAIN queue =>
           /\ tab' \in [Tabs -> [ pc: {"idle", "reset", "push", "post"},
                                  stuck: SUBSET DOMAIN queue', list: SUBSET Item ]]
           /\ \A u \in Tabs : tab'[u].list \subseteq tab[u].list,
         settled' \subseteq Docs \X Nat, retries' \in 0..MaxRetries,
         UNCHANGED <<draft, edits, overtaken, crashes>>
  PROVE  TypeOK'
<1>1. PICK r : Replaced(i, r) BY DEF Moved
<1>2. QueueKept /\ DOMAIN queue' = DOMAIN queue BY <1>1, ReplacedRow
<1>3. OthersTyped BY <1>2 DEF OthersTyped, TypeOK
<1> QED BY <1>2, <1>3, TypeKept

LEMMA StepTyped ==
  ASSUME TypeOK, [Next]_syncVars
  PROVE  TypeOK'
<1>1. CASE UNCHANGED syncVars BY <1>1 DEF syncVars, TypeOK
<1>2. ASSUME NEW t \in Tabs, NEW d \in Docs, LookUp(t, d) PROVE TypeOK'
  <2>1. PICK i \in {0} \cup DOMAIN queue :
          Joins(d, i) /\ draft' = [draft EXCEPT ![t] = [doc |-> d, row |-> i]]
    BY <1>2 DEF LookUp
  <2>2. i \in Nat /\ (i # 0 => queue[i].doc = d)
    <3>1. DOMAIN queue \subseteq Nat BY DEF TypeOK
    <3> QED BY <2>1, <3>1 DEF Joins
  <2>3. draft' \in [Tabs -> {NoDraft} \cup [doc: Docs, row: Nat]]
    BY <2>1, <2>2 DEF TypeOK
  <2>4. \A u \in Tabs : draft'[u].row # 0 =>
          draft'[u].row \in DOMAIN queue /\ queue[draft'[u].row].doc = draft'[u].doc
    BY <2>1, <2>2 DEF TypeOK
  <2> QED BY <1>2, <2>3, <2>4 DEF LookUp, TypeOK
<1>3. ASSUME NEW t \in Tabs, Write(t) PROVE TypeOK'
  <2>1. QueueKept /\ draft[t].doc \in Docs /\ edits[draft[t].doc] + 1 \in Nat
    BY <1>3, WrittenQueue
  <2>2. /\ tab' = tab /\ settled' = settled /\ crashes' = crashes /\ retries' = retries
        /\ draft' = [draft EXCEPT ![t] = NoDraft]
        /\ edits' = [edits EXCEPT ![draft[t].doc] = edits[draft[t].doc] + 1]
        /\ overtaken' \subseteq overtaken \cup {<<draft[t].doc, edits[draft[t].doc] + 1>>}
    BY <1>3 DEF Write
  <2>3. edits' \in [Docs -> Nat] BY <2>1, <2>2 DEF TypeOK
  <2>4. settled' \subseteq Docs \X Nat /\ overtaken' \subseteq Docs \X Nat
    BY <2>1, <2>2 DEF TypeOK
  <2>5. /\ tab' = [u \in Tabs |-> tab'[u]] /\ draft' = [u \in Tabs |-> draft'[u]]
        /\ \A u \in Tabs : draft'[u] = draft[u] \/ draft'[u] = NoDraft
    BY <2>2 DEF TypeOK
  <2>6. crashes' \in 0..MaxCrashes /\ retries' \in 0..MaxRetries
    BY <2>2 DEF TypeOK
  <2>7. OthersTyped BY <2>2, <2>3, <2>4, <2>5, <2>6 DEF OthersTyped
  <2> QED BY <2>1, <2>7, TypeKept
<1>4. ASSUME NEW t \in Tabs, BeginPush(t) PROVE TypeOK'
  BY <1>4 DEF BeginPush, Stuck, Rows, TypeOK
<1>5. ASSUME NEW t \in Tabs, TakeList(t) PROVE TypeOK'
  <2> DEFINE read == {[row |-> i, rev |-> queue[i].rev, ready |-> queue[i].ready]
                        : i \in Rows("pending")}
  <2>1. \A i \in DOMAIN queue : i \in Nat \ {0} /\ queue[i] \in Row
    BY DEF TypeOK
  <2>2. read \subseteq Item /\ \A e \in read : e.row \in DOMAIN queue
    BY <2>1 DEF Item, Row, Rows
  <2>3. tab' = [tab EXCEPT ![t].pc = "push", ![t].list = read] BY <1>5 DEF TakeList
  <2> HIDE DEF read
  <2> DEFINE T == [pc: {"idle", "reset", "push", "post"},
                   stuck: SUBSET DOMAIN queue, list: SUBSET Item]
             v == [tab[t] EXCEPT !.pc = "push", !.list = read]
  <2>4. tab \in [Tabs -> T] BY DEF TypeOK
  <2>5. v \in T /\ v.list = read BY <2>2, <2>4
  <2>6. tab' = [tab EXCEPT ![t] = v] BY <2>3
  <2> HIDE DEF T, v
  <2>7. tab' \in [Tabs -> T] BY <2>4, <2>5, <2>6
  <2>8. \A u \in Tabs : \A e \in tab'[u].list : e.row \in DOMAIN queue
    BY <2>2, <2>4, <2>5, <2>6 DEF TypeOK
  <2> QED BY <1>5, <2>7, <2>8 DEF TakeList, TypeOK, T
<1>6. ASSUME NEW t \in Tabs, EndPush(t) \/ CloseTab(t) PROVE TypeOK'
  <2>3. /\ tab' = [tab EXCEPT ![t] = Idle] /\ queue' = queue
        /\ UNCHANGED <<edits, settled, overtaken, retries>>
        /\ draft' = draft \/ draft' = [draft EXCEPT ![t] = NoDraft]
    BY <1>6 DEF EndPush, CloseTab
  <2>4. crashes' \in 0..MaxCrashes BY <1>6, SyncAssumption DEF EndPush, CloseTab, TypeOK
  <2>5. /\ Idle \in [ pc: {"idle", "reset", "push", "post"},
                      stuck: SUBSET DOMAIN queue', list: SUBSET Item ]
        /\ Idle.list = {}
    BY DEF Idle
  <2>6. /\ tab' = [u \in Tabs |-> tab'[u]] /\ draft' = [u \in Tabs |-> draft'[u]]
        /\ \A u \in Tabs : draft'[u] = draft[u] \/ draft'[u] = NoDraft
        /\ \A u \in Tabs : tab'[u] = tab[u] \/ tab'[u] = Idle
    BY <2>3 DEF TypeOK
  <2>7. edits' \in [Docs -> Nat] /\ settled' \subseteq Docs \X Nat
        /\ overtaken' \subseteq Docs \X Nat /\ retries' \in 0..MaxRetries
    BY <2>3 DEF TypeOK
  <2>1. OthersTyped BY <2>4, <2>5, <2>6, <2>7 DEF OthersTyped
  <2>2. QueueKept BY <1>6 DEF EndPush, CloseTab, QueueKept, TypeOK
  <2> QED BY <2>1, <2>2, TypeKept
<1>7. ASSUME NEW t \in Tabs, ResetRow(t) PROVE TypeOK'
  <2>1. PICK i \in DOMAIN queue : Moved(i, "pending") BY <1>7, RowMoves
  <2>2. PICK j : tab' = [tab EXCEPT ![t].stuck = @ \ {j}] BY <1>7 DEF ResetRow
  <2>3. settled' \subseteq Docs \X Nat /\ retries' \in 0..MaxRetries
    BY <1>7 DEF ResetRow, TypeOK
  <2>4. UNCHANGED <<draft, edits, overtaken, crashes>> BY <1>7 DEF ResetRow
  <2> QED BY <2>1, <2>2, <2>3, <2>4, TabTyped, MoveTyped
<1>8. ASSUME NEW t \in Tabs, NEW e \in tab[t].list, Handle(t, e) PROVE TypeOK'
  <2>1. CASE Skip(t, e)
    <3>1. DOMAIN queue' = DOMAIN queue /\ Done(t, e) BY <2>1 DEF Skip
    <3>2. OthersTyped BY <2>1, <3>1, TabTyped DEF Skip, OthersTyped, TypeOK
    <3>3. QueueKept BY <2>1 DEF Skip, QueueKept, TypeOK
    <3> QED BY <3>2, <3>3, TypeKept
  <2>2. CASE Reject(t, e)
    <3>1. Moved(e.row, "failed") BY <2>2, RowMoves
    <3>2. /\ Done(t, e) /\ UNCHANGED <<draft, edits, overtaken, crashes>>
          /\ settled' \subseteq Docs \X Nat /\ retries' \in 0..MaxRetries
      BY <2>2 DEF Reject, TypeOK
    <3> QED BY <3>1, <3>2, TabTyped, MoveTyped
  <2>3. CASE Post(t, e)
    <3>1. Moved(e.row, "syncing") BY <2>3, RowMoves
    <3>2. /\ tab' = [tab EXCEPT ![t].pc = "post"]
          /\ UNCHANGED <<draft, edits, overtaken, crashes>>
          /\ settled' \subseteq Docs \X Nat /\ retries' \in 0..MaxRetries
      BY <2>3 DEF Post, TypeOK
    <3> QED BY <3>1, <3>2, TabTyped, MoveTyped
  <2>4. CASE Answered(t, e)
    <3>1. Moved(e.row, "synced") BY <2>4, RowMoves
    <3>4. e \in Item /\ queue[e.row] \in Row BY DEF TypeOK
    <3>5. queue[e.row].doc \in Docs /\ e.rev \in Nat BY <3>4 DEF Row, Item
    <3>2. <<queue[e.row].doc, e.rev>> \in Docs \X Nat BY <3>5
    <3>3. /\ Done(t, e) /\ UNCHANGED <<draft, edits, overtaken, crashes>>
          /\ settled' \subseteq Docs \X Nat /\ retries' \in 0..MaxRetries
      BY <2>4, <3>2 DEF Answered, TypeOK
    <3> QED BY <3>1, <3>3, TabTyped, MoveTyped
  <2>5. CASE Failed(t, e)
    <3>1. Moved(e.row, "failed") BY <2>5, RowMoves
    <3>2. /\ tab' = [tab EXCEPT ![t] = Idle]
          /\ UNCHANGED <<draft, edits, overtaken, crashes>>
          /\ settled' \subseteq Docs \X Nat /\ retries' \in 0..MaxRetries
      BY <2>5 DEF Failed, TypeOK
    <3> QED BY <3>1, <3>2, TabTyped, MoveTyped
  <2> QED BY <1>8, <2>1, <2>2, <2>3, <2>4, <2>5 DEF Handle
<1>9. ASSUME NEW i \in DOMAIN queue, RowStep(i) PROVE TypeOK'
  <2>1. \E status : Moved(i, status) BY <1>9, RowMovesByItself DEF RowStep
  <2>2. DOMAIN queue' = DOMAIN queue => 
          /\ tab' \in [Tabs -> [ pc: {"idle", "reset", "push", "post"},
                                 stuck: SUBSET DOMAIN queue', list: SUBSET Item ]]
          /\ \A u \in Tabs : tab'[u].list \subseteq tab[u].list
    BY <1>9 DEF RowStep, BackoffPasses, RetryFailed, TypeOK
  <2>3. /\ UNCHANGED <<draft, edits, overtaken, crashes>>
        /\ settled' \subseteq Docs \X Nat /\ retries' \in 0..MaxRetries
    BY <1>9, SyncAssumption DEF RowStep, BackoffPasses, RetryFailed, TypeOK
  <2> QED BY <2>1, <2>2, <2>3, MoveTyped
<1> QED BY <1>1, <1>2, <1>3, <1>4, <1>5, <1>6, <1>7, <1>8, <1>9
        DEF Next, TabStep, Work
-----------------------------------------------------------------------------
\* The three parts of SyncInv that are about edits.
EditsKept == NewestQueued /\ SyncedIsSettled /\ HeldIsCurrent

(* A step that moves a row through its states keeps them, if it marks only *)
(* an answered row synced and no push takes up anything.                   *)
LEMMA MoveKeepsEdits ==
  ASSUME SyncInv, NEW i, NEW status, Moved(i, status),
         status = "synced" => queue[i].status = "synced" \/ Edit(i) \in settled' \cup overtaken,
         settled \subseteq settled', UNCHANGED <<edits, overtaken>>,
         \A u \in Tabs : tab'[u].list \subseteq tab[u].list
  PROVE  EditsKept'
<1>1. PICK r : Replaced(i, r) /\ r.rev = queue[i].rev /\ (r.status = "synced" => status = "synced")
  BY DEF Moved
<1>2. /\ DOMAIN queue' = DOMAIN queue
      /\ \A j \in DOMAIN queue : queue'[j] = IF j = i THEN r ELSE queue[j]
  BY <1>1, ReplacedRow DEF SyncInv
<1>3. i \in DOMAIN queue /\ r.doc = queue[i].doc BY <1>1 DEF Replaced
<1>4. \A j \in DOMAIN queue : queue'[j].rev = queue[j].rev /\ Edit(j)' = Edit(j)
  BY <1>1, <1>2, <1>3 DEF Edit
<1>5. NewestQueued' BY <1>2, <1>4 DEF SyncInv, NewestQueued
<1>6. SyncedIsSettled'
  <2> SUFFICES ASSUME NEW j \in DOMAIN queue, queue'[j].status = "synced"
               PROVE  Edit(j) \in settled' \cup overtaken'
    BY <1>2, <1>4 DEF SyncedIsSettled
  <2>1. CASE queue[j].status = "synced" BY <2>1 DEF SyncInv, SyncedIsSettled
  <2>2. CASE queue[j].status # "synced" BY <1>1, <1>2, <2>2
  <2> QED BY <2>1, <2>2
<1>7. HeldIsCurrent'
  <2> SUFFICES ASSUME NEW t \in Tabs, NEW e \in tab'[t].list
               PROVE  e.rev = queue'[e.row].rev \/ Edit(e.row)' \in overtaken'
    BY DEF HeldIsCurrent
  <2>1. e \in tab[t].list OBVIOUS
  <2>2. e.row \in DOMAIN queue BY <2>1 DEF SyncInv, TypeOK
  <2> QED BY <1>4, <2>1, <2>2 DEF SyncInv, HeldIsCurrent
<1> QED BY <1>5, <1>6, <1>7 DEF EditsKept

(* So does a step that leaves the queue and takes nothing up.              *)
LEMMA IdleKeepsEdits ==
  ASSUME SyncInv, UNCHANGED <<queue, edits, settled, overtaken>>,
         \A u \in Tabs : tab'[u].list \subseteq tab[u].list
  PROVE  EditsKept'
BY DEF SyncInv, EditsKept, NewestQueued, SyncedIsSettled, HeldIsCurrent, Edit

(* What a push takes up is what the rows carry.                            *)
LEMMA TakenIsCurrent ==
  ASSUME SyncInv, NEW t \in Tabs, TakeList(t)
  PROVE  EditsKept'
<1> DEFINE read == {[row |-> i, rev |-> queue[i].rev, ready |-> queue[i].ready]
                      : i \in Rows("pending")}
<1>1. \A u \in Tabs : tab'[u].list = IF u = t THEN read ELSE tab[u].list
  BY DEF TakeList, SyncInv, TypeOK
<1>2. \A e \in read : e.rev = queue[e.row].rev OBVIOUS
<1>3. UNCHANGED <<queue, edits, settled, overtaken>> BY DEF TakeList
<1> HIDE DEF read
<1>4. HeldIsCurrent' BY <1>1, <1>2, <1>3 DEF SyncInv, HeldIsCurrent, Edit
<1> QED BY <1>3, <1>4 DEF SyncInv, EditsKept, NewestQueued, SyncedIsSettled, Edit

(* An edit becomes the newest of its document and is in the row it wrote,  *)
(* which is pending; the pushes that hold the row have been overtaken.     *)
LEMMA WriteKeepsEdits ==
  ASSUME SyncInv, NEW t \in Tabs, Write(t)
  PROVE  EditsKept'
<1> DEFINE d   == draft[t].doc
           i   == draft[t].row
           rev == edits[d] + 1
           k   == IF i = 0 THEN Len(queue) + 1 ELSE i
<1>1. /\ d \in Docs /\ rev \in Nat \ {0}
      /\ DOMAIN queue' = DOMAIN queue \cup {k}
      /\ queue'[k] = Fresh(d, rev)
      /\ \A j \in DOMAIN queue : j # k => queue'[j] = queue[j]
      /\ i # 0 => i \in DOMAIN queue /\ queue[i].doc = d
      /\ i = 0 => k \notin DOMAIN queue
  BY WrittenQueue DEF SyncInv
<1>2. queue'[k].doc = d /\ queue'[k].rev = rev /\ queue'[k].status = "pending"
  BY <1>1 DEF Fresh
<1>3. \A j \in DOMAIN queue : j # k => Edit(j)' = Edit(j) BY <1>1 DEF Edit
<1>4. edits' = [edits EXCEPT ![d] = rev] BY DEF Write
<1>5. /\ tab' = tab /\ settled' = settled /\ overtaken \subseteq overtaken'
      /\ Held(i) => <<d, rev>> \in overtaken'
  BY DEF Write
<1>6. NewestQueued'
  <2> SUFFICES ASSUME NEW c \in Docs, edits'[c] > 0
               PROVE  \E j \in DOMAIN queue' : Edit(j)' = <<c, edits'[c]>>
    BY DEF NewestQueued
  <2>1. CASE c = d
    <3>1. edits'[c] = rev BY <1>1, <1>4, <2>1 DEF SyncInv, TypeOK
    <3> QED BY <1>1, <1>2, <2>1, <3>1 DEF Edit
  <2>2. CASE c # d
    <3>1. edits'[c] = edits[c] BY <1>4, <2>2 DEF SyncInv, TypeOK
    <3>2. PICK j \in DOMAIN queue : Edit(j) = <<c, edits[c]>>
      BY <3>1 DEF SyncInv, NewestQueued
    <3>3. j # k BY <1>1, <2>2, <3>2 DEF Edit
    <3> QED BY <1>1, <1>3, <3>1, <3>2, <3>3
  <2> QED BY <2>1, <2>2
<1>7. SyncedIsSettled'
  <2> SUFFICES ASSUME NEW j \in DOMAIN queue', queue'[j].status = "synced"
               PROVE  Edit(j)' \in settled' \cup overtaken'
    BY DEF SyncedIsSettled
  <2>1. j # k /\ j \in DOMAIN queue BY <1>1, <1>2
  <2>2. queue[j].status = "synced" /\ Edit(j)' = Edit(j) BY <1>1, <1>3, <2>1
  <2> QED BY <1>5, <2>1, <2>2 DEF SyncInv, SyncedIsSettled
<1>8. HeldIsCurrent'
  <2> SUFFICES ASSUME NEW u \in Tabs, NEW e \in tab[u].list
               PROVE  e.rev = queue'[e.row].rev \/ Edit(e.row)' \in overtaken'
    BY <1>5 DEF HeldIsCurrent
  <2>1. e.row \in DOMAIN queue BY DEF SyncInv, TypeOK
  <2>2. CASE e.row = k
    <3>1. e.row = i BY <1>1, <2>1, <2>2
    <3>2. Held(i) BY <3>1 DEF Held
    <3> QED BY <1>2, <1>5, <2>2, <3>2 DEF Edit
  <2>3. CASE e.row # k
    <3>1. queue'[e.row] = queue[e.row] /\ Edit(e.row)' = Edit(e.row)
      BY <1>1, <1>3, <2>1, <2>3
    <3> QED BY <1>5, <3>1 DEF SyncInv, HeldIsCurrent
  <2> QED BY <2>2, <2>3
<1> QED BY <1>6, <1>7, <1>8 DEF EditsKept

(* The steps of a push other than reading its list.                        *)
LEMMA HandleKeepsEdits ==
  ASSUME SyncInv, NEW t \in Tabs, NEW e \in tab[t].list, Handle(t, e)
  PROVE  EditsKept'
<1>1. TypeOK BY DEF SyncInv
<1>2. \A f : Done(t, f) => \A u \in Tabs : tab'[u].list \subseteq tab[u].list
  BY <1>1 DEF Done, TypeOK
<1>3. tab' = [tab EXCEPT ![t] = Idle] => \A u \in Tabs : tab'[u].list \subseteq tab[u].list
  BY <1>1 DEF Idle, TypeOK
<1>4. tab' = [tab EXCEPT ![t].pc = "post"] =>
        \A u \in Tabs : tab'[u].list \subseteq tab[u].list
  BY <1>1 DEF TypeOK
<1>5. CASE Skip(t, e) BY <1>2, <1>5, IdleKeepsEdits DEF Skip
<1>6. CASE Reject(t, e)
  <2>1. Moved(e.row, "failed") BY <1>1, <1>6, RowMoves
  <2>2. UNCHANGED <<edits, settled, overtaken>> /\ Done(t, e) BY <1>6 DEF Reject
  <2> QED BY <1>2, <2>1, <2>2, MoveKeepsEdits
<1>7. CASE Post(t, e)
  <2>1. Moved(e.row, "syncing") BY <1>1, <1>7, RowMoves
  <2>2. UNCHANGED <<edits, settled, overtaken>> /\ tab' = [tab EXCEPT ![t].pc = "post"]
    BY <1>7 DEF Post
  <2> QED BY <1>4, <2>1, <2>2, MoveKeepsEdits
<1>8. CASE Answered(t, e)
  <2>1. Moved(e.row, "synced") BY <1>1, <1>8, RowMoves
  <2>2. /\ UNCHANGED <<edits, overtaken>> /\ Done(t, e)
        /\ settled' = settled \cup {<<queue[e.row].doc, e.rev>>}
    BY <1>8 DEF Answered
  <2>3. Edit(e.row) \in settled' \cup overtaken
    BY <2>2 DEF SyncInv, HeldIsCurrent, Edit
  <2> QED BY <1>2, <2>1, <2>2, <2>3, MoveKeepsEdits
<1>9. CASE Failed(t, e)
  <2>1. Moved(e.row, "failed") BY <1>1, <1>9, RowMoves
  <2>2. UNCHANGED <<edits, settled, overtaken>> /\ tab' = [tab EXCEPT ![t] = Idle]
    BY <1>9 DEF Failed
  <2> QED BY <1>3, <2>1, <2>2, MoveKeepsEdits
<1> QED BY <1>5, <1>6, <1>7, <1>8, <1>9 DEF Handle

LEMMA StepKeepsEdits ==
  ASSUME SyncInv, [Next]_syncVars
  PROVE  EditsKept'
<1>1. TypeOK BY DEF SyncInv
<1>2. CASE UNCHANGED syncVars BY <1>2, IdleKeepsEdits DEF syncVars
<1>3. ASSUME NEW t \in Tabs, NEW d \in Docs, LookUp(t, d) PROVE EditsKept'
  BY <1>3, IdleKeepsEdits DEF LookUp
<1>4. ASSUME NEW t \in Tabs, BeginPush(t) PROVE EditsKept'
  <2>1. \A u \in Tabs : tab'[u].list \subseteq tab[u].list
    BY <1>1, <1>4 DEF BeginPush, TypeOK
  <2> QED BY <1>4, <2>1, IdleKeepsEdits DEF BeginPush
<1>5. ASSUME NEW t \in Tabs, EndPush(t) \/ CloseTab(t) PROVE EditsKept'
  <2>1. \A u \in Tabs : tab'[u].list \subseteq tab[u].list
    BY <1>1, <1>5 DEF EndPush, CloseTab, Idle, TypeOK
  <2> QED BY <1>5, <2>1, IdleKeepsEdits DEF EndPush, CloseTab
<1>6. ASSUME NEW t \in Tabs, ResetRow(t) PROVE EditsKept'
  <2>1. PICK i \in DOMAIN queue : Moved(i, "pending") BY <1>1, <1>6, RowMoves
  <2>2. \A u \in Tabs : tab'[u].list \subseteq tab[u].list
    BY <1>1, <1>6 DEF ResetRow, TypeOK
  <2>3. UNCHANGED <<edits, settled, overtaken>> BY <1>6 DEF ResetRow
  <2> QED BY <2>1, <2>2, <2>3, MoveKeepsEdits
<1>7. ASSUME NEW i \in DOMAIN queue, RowStep(i) PROVE EditsKept'
  <2>1. Moved(i, queue[i].status) \/ Moved(i, "pending")
    BY <1>1, <1>7, RowMovesByItself DEF RowStep
  <2>2. UNCHANGED <<tab, edits, settled, overtaken>>
    BY <1>7 DEF RowStep, BackoffPasses, RetryFailed
  <2> QED BY <2>1, <2>2, MoveKeepsEdits
<1> QED BY <1>2, <1>3, <1>4, <1>5, <1>6, <1>7, TakenIsCurrent, WriteKeepsEdits, HandleKeepsEdits
        DEF Next, TabStep, Work

(* The types, and the invariant that makes NoEditLost inductive.           *)
THEOREM SyncInvariant == Spec => []SyncInv
<1>1. Init => SyncInv
  <2> SUFFICES ASSUME Init PROVE SyncInv OBVIOUS
  <2>1. queue = <<>> /\ queue \in Seq(Row) /\ DOMAIN queue = {} BY EmptySeq DEF Init
  <2>2. /\ tab = [t \in Tabs |-> Idle] /\ draft = [t \in Tabs |-> NoDraft]
        /\ edits = [d \in Docs |-> 0] /\ settled = {} /\ overtaken = {}
        /\ crashes = 0 /\ retries = 0
    BY DEF Init
  <2>3. /\ Idle \in [ pc: {"idle", "reset", "push", "post"},
                      stuck: SUBSET DOMAIN queue, list: SUBSET Item ]
        /\ Idle.list = {} /\ NoDraft.row = 0
    BY DEF Idle, NoDraft
  <2>4. TypeOK BY <2>1, <2>2, <2>3, SyncAssumption DEF TypeOK
  <2>5. NewestQueued BY <2>2 DEF NewestQueued
  <2>6. SyncedIsSettled BY <2>1 DEF SyncedIsSettled
  <2>7. HeldIsCurrent BY <2>2, <2>3 DEF HeldIsCurrent
  <2> QED BY <2>4, <2>5, <2>6, <2>7 DEF SyncInv
<1>2. SyncInv /\ [Next]_syncVars => SyncInv'
  <2> SUFFICES ASSUME SyncInv, [Next]_syncVars PROVE SyncInv' OBVIOUS
  <2>1. TypeOK' BY StepTyped DEF SyncInv
  <2>2. EditsKept' BY StepKeepsEdits
  <2> QED BY <2>1, <2>2 DEF SyncInv, EditsKept
<1> QED BY <1>1, <1>2, PTL DEF Spec

(* The queue, the tabs and the drafts have their types; a row that waits   *)
(* for its backoff has attempts left (markRetry).                          *)
THEOREM SyncTypeCorrect == Spec => []TypeOK
<1>1. SyncInv => TypeOK BY DEF SyncInv
<1> QED BY <1>1, SyncInvariant, PTL

(* NoEditLost for every number of tabs: two of them may reset, resend and  *)
(* close each other's rows in any order, and crash at any await.           *)
THEOREM EditsAreNotLost == Spec => []NoEditLost
<1>1. SyncInv => NoEditLost
  <2> SUFFICES ASSUME SyncInv, NEW d \in Docs, edits[d] > 0,
                      <<d, edits[d]>> \notin settled \cup overtaken
               PROVE  \E i \in DOMAIN queue :
                        Edit(i) = <<d, edits[d]>> /\ queue[i].status # "synced"
    BY DEF NoEditLost
  <2>1. PICK i \in DOMAIN queue : Edit(i) = <<d, edits[d]>> BY DEF SyncInv, NewestQueued
  <2> QED BY <2>1 DEF SyncInv, SyncedIsSettled
<1> QED BY <1>1, SyncInvariant, PTL
=============================================================================
