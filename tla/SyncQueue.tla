----------------------------- MODULE SyncQueue -----------------------------
(***************************************************************************)
(* The till's queue of local edits (POS/src/services/offline-store.js) and *)
(* the push that drains it (sync-core.js).  The queue is one IndexedDB     *)
(* table shared by every tab of the till; each tab runs at most one sync   *)
(* cycle, and nothing keeps two tabs from draining the queue together.     *)
(*                                                                         *)
(* Every await of a push or of an edit is a step boundary, except inside   *)
(* markRetry and markFailed, which read a row's count and write it back.   *)
(* A payload is the number of the edit it comes from.  One operation per   *)
(* document and one tenant are modelled, and rows are pushed by age.       *)
(* Opening a till calls resetStuckSyncing alone: that is the first half of *)
(* a push here, which its tab may leave at any moment.                     *)
(***************************************************************************)
EXTENDS Naturals, Sequences, FiniteSets, Functions

CONSTANTS
  Docs,         \* documents: entityType and entityId
  Tabs,         \* tabs of the till
  Edits,        \* how often each document is edited at most
  MaxAttempts,  \* failures after which a row is dead (10)
  MaxCrashes,   \* tabs closed while they push, at most
  MaxRetries    \* rows reopened by hand, at most

None == "none"

ASSUME SyncAssumption ==
  /\ None \notin Docs
  /\ Edits \in [Docs -> Nat]
  /\ MaxAttempts \in Nat \ {0}
  /\ MaxCrashes \in Nat /\ MaxRetries \in Nat

VARIABLES
  queue,      \* syncQueue, by id
  tab,        \* what each tab is doing
  draft,      \* the edit each tab is about to write: its document and row
  edits,      \* edits written so far, by document
  settled,    \* edits the server answered: accepted, or a recorded conflict
  overtaken,  \* edits written to a row that some push had already read
  crashes, retries

syncVars == <<queue, tab, draft, edits, settled, overtaken, crashes, retries>>

Row == [ doc: Docs, rev: Nat \ {0},
         status: {"pending", "syncing", "synced", "failed"},
         attempts: 0..MaxAttempts,
         ready: BOOLEAN ]           \* nextRetryAt is past, or not set

Item == [row: Nat \ {0}, rev: Nat \ {0}, ready: BOOLEAN]

Idle == [pc |-> "idle", stuck |-> {}, list |-> {}]
NoDraft == [doc |-> None, row |-> 0]

TypeOK ==
  /\ queue \in Seq(Row)
  /\ \A i \in DOMAIN queue : queue[i].ready \/ queue[i].attempts < MaxAttempts
  /\ tab \in [Tabs -> [ pc: {"idle", "reset", "push", "post"},
                        stuck: SUBSET DOMAIN queue, list: SUBSET Item ]]
  /\ \A t \in Tabs : \A e \in tab[t].list : e.row \in DOMAIN queue
  /\ draft \in [Tabs -> {NoDraft} \cup [doc: Docs, row: Nat]]
  /\ \A t \in Tabs : draft[t].row # 0 =>
        /\ draft[t].row \in DOMAIN queue
        /\ queue[draft[t].row].doc = draft[t].doc
  /\ edits \in [Docs -> Nat]
  /\ settled \subseteq Docs \X Nat /\ overtaken \subseteq Docs \X Nat
  /\ crashes \in 0..MaxCrashes /\ retries \in 0..MaxRetries

Init ==
  /\ queue = <<>>
  /\ tab = [t \in Tabs |-> Idle]
  /\ draft = [t \in Tabs |-> NoDraft]
  /\ edits = [d \in Docs |-> 0]
  /\ settled = {} /\ overtaken = {}
  /\ crashes = 0 /\ retries = 0
-----------------------------------------------------------------------------
Rows(status) == {i \in DOMAIN queue : queue[i].status = status}

Edit(i) == <<queue[i].doc, queue[i].rev>>

\* The row an edit joins: the oldest pending one of its document, 0 for none.
Joins(d, i) ==
  LET same == {j \in Rows("pending") : queue[j].doc = d}
  IN IF same = {} THEN i = 0 ELSE i \in same /\ \A j \in same : i <= j

\* What upsertQueueRow writes: a clean pending row with the new payload.
Fresh(d, rev) ==
  [doc |-> d, rev |-> rev, status |-> "pending", attempts |-> 0, ready |-> TRUE]

KeepsStatus(q, i, d, rev) ==                                         \* mutant
  [q EXCEPT ![i].rev = rev, ![i].attempts = 0, ![i].ready = TRUE]
Joined(q, i, d, rev) == [q EXCEPT ![i] = Fresh(d, rev)]

\* The rows a push has read and not yet done with.
Held(i) == \E t \in Tabs : \E e \in tab[t].list : e.row = i

\* upsertQueueRow reads the document's rows, ...
LookUp(t, d) ==
  /\ draft[t] = NoDraft
  /\ edits[d] + Cardinality({u \in Tabs : draft[u].doc = d}) < Edits[d]
  /\ \E i \in {0} \cup DOMAIN queue :
       Joins(d, i) /\ draft' = [draft EXCEPT ![t] = [doc |-> d, row |-> i]]
  /\ UNCHANGED <<queue, tab, edits, settled, overtaken, crashes, retries>>

\* ... and then updates the pending one it found, or adds a row.
Write(t) ==
  /\ draft[t] # NoDraft
  /\ LET d == draft[t].doc
         i == draft[t].row
         rev == edits[d] + 1
     IN /\ edits' = [edits EXCEPT ![d] = rev]
        /\ queue' = IF i = 0 THEN Append(queue, Fresh(d, rev))
                             ELSE Joined(queue, i, d, rev)
        /\ overtaken' = IF Held(i) THEN overtaken \cup {<<d, rev>>} ELSE overtaken
  /\ draft' = [draft EXCEPT ![t] = NoDraft]
  /\ UNCHANGED <<tab, settled, crashes, retries>>
-----------------------------------------------------------------------------
NoneStuck == {}                                                      \* mutant
Stuck == Rows("syncing")

\* A push starts with resetStuckSyncing: it reads the rows in flight, ...
BeginPush(t) ==
  /\ tab[t].pc = "idle"
  /\ tab' = [tab EXCEPT ![t] = [pc |-> "reset", stuck |-> Stuck, list |-> {}]]
  /\ UNCHANGED <<queue, draft, edits, settled, overtaken, crashes, retries>>

\* ... and returns them to pending one by one, whatever became of them.
ResetRow(t) ==
  /\ tab[t].pc = "reset"
  /\ \E i \in tab[t].stuck :
       /\ \A j \in tab[t].stuck : i <= j
       /\ queue' = [queue EXCEPT ![i].status = "pending"]
       /\ tab' = [tab EXCEPT ![t].stuck = @ \ {i}]
  /\ UNCHANGED <<draft, edits, settled, overtaken, crashes, retries>>

\* pendingOperations: the rows are read once, with their payloads.
TakeList(t) ==
  /\ tab[t].pc = "reset" /\ tab[t].stuck = {}
  /\ tab' = [tab EXCEPT ![t].pc = "push", ![t].list =
       {[row |-> i, rev |-> queue[i].rev, ready |-> queue[i].ready] : i \in Rows("pending")}]
  /\ UNCHANGED <<queue, draft, edits, settled, overtaken, crashes, retries>>

\* The item whose turn it is, in a loop over the list.
Turn(t, e) == tab[t].pc = "push" /\ \A f \in tab[t].list : e.row <= f.row
Done(t, e) == tab' = [tab EXCEPT ![t].pc = "push", ![t].list = @ \ {e}]

\* The backoff gate.  An item that was not ready when it was read is passed
\* over, unless its time has come since.
Skip(t, e) ==
  /\ Turn(t, e) /\ ~e.ready
  /\ Done(t, e)
  /\ UNCHANGED <<queue, draft, edits, settled, overtaken, crashes, retries>>

Counted(n) == IF n < MaxAttempts THEN n + 1 ELSE MaxAttempts

\* validateBeforeSync throws: markFailed.  What it looks at is not modelled, so
\* any payload may be rejected.
Reject(t, e) ==
  /\ Turn(t, e)
  /\ queue' = [queue EXCEPT ![e.row].status = "failed", ![e.row].ready = TRUE,
                            ![e.row].attempts = Counted(@)]
  /\ Done(t, e)
  /\ UNCHANGED <<draft, edits, settled, overtaken, crashes, retries>>

\* markSyncing, and the request is on its way.
Post(t, e) ==
  /\ Turn(t, e)
  /\ queue' = [queue EXCEPT ![e.row].status = "syncing"]
  /\ tab' = [tab EXCEPT ![t].pc = "post"]
  /\ UNCHANGED <<draft, edits, settled, overtaken, crashes, retries>>

Posted(t, e) == tab[t].pc = "post" /\ \A f \in tab[t].list : e.row <= f.row

\* The server accepts the edit, or answers with a conflict, which is recorded:
\* either way markSynced, and the next item.
Answered(t, e) ==
  /\ Posted(t, e)
  /\ queue' = [queue EXCEPT ![e.row].status = "synced"]
  /\ settled' = settled \cup {<<queue[e.row].doc, e.rev>>}
  /\ Done(t, e)
  /\ UNCHANGED <<draft, edits, overtaken, crashes, retries>>

\* markRetry: the row waits for its backoff, or is dead after MaxAttempts.
OneMore(n) == n > MaxAttempts                                        \* mutant
Dead(n) == n >= MaxAttempts

Retried(row) ==
  LET n == Counted(row.attempts)
  IN [row EXCEPT !.attempts = n,
                 !.status = IF Dead(n) THEN "failed" ELSE "pending",
                 !.ready = Dead(n)]

\* No answer, or an error: the push is abandoned.
Failed(t, e) ==
  /\ Posted(t, e)
  /\ queue' = [queue EXCEPT ![e.row] = Retried(@)]
  /\ tab' = [tab EXCEPT ![t] = Idle]
  /\ UNCHANGED <<draft, edits, settled, overtaken, crashes, retries>>

EndPush(t) ==
  /\ tab[t].pc = "push" /\ tab[t].list = {}
  /\ tab' = [tab EXCEPT ![t] = Idle]
  /\ UNCHANGED <<queue, draft, edits, settled, overtaken, crashes, retries>>
-----------------------------------------------------------------------------
\* A tab is closed, or the till loses power, and is opened again.
CloseTab(t) ==
  /\ crashes < MaxCrashes /\ (tab[t] # Idle \/ draft[t] # NoDraft)
  /\ crashes' = crashes + 1
  /\ tab' = [tab EXCEPT ![t] = Idle]
  /\ draft' = [draft EXCEPT ![t] = NoDraft]
  /\ UNCHANGED <<queue, edits, settled, overtaken, retries>>

\* nextRetryAt comes.
BackoffPasses(i) ==
  /\ i \in DOMAIN queue /\ ~queue[i].ready
  /\ queue' = [queue EXCEPT ![i].ready = TRUE]
  /\ UNCHANGED <<tab, draft, edits, settled, overtaken, crashes, retries>>

\* The cashier reopens a failed row.
RetryFailed(i) ==
  /\ retries < MaxRetries
  /\ i \in Rows("failed")
  /\ queue' = [queue EXCEPT ![i].status = "pending", ![i].attempts = 0,
                            ![i].ready = TRUE]
  /\ retries' = retries + 1
  /\ UNCHANGED <<tab, draft, edits, settled, overtaken, crashes>>

Handle(t, e) == Skip(t, e) \/ Reject(t, e) \/ Post(t, e) \/ Answered(t, e) \/ Failed(t, e)

Work(t) ==
  \/ ResetRow(t) \/ TakeList(t) \/ EndPush(t)
  \/ \E e \in tab[t].list : Handle(t, e)

TabStep(t) == Write(t) \/ BeginPush(t) \/ Work(t) \/ CloseTab(t)
RowStep(i) == BackoffPasses(i) \/ RetryFailed(i)

Next ==
  \/ \E t \in Tabs : TabStep(t) \/ \E d \in Docs : LookUp(t, d)
  \/ \E i \in DOMAIN queue : RowStep(i)

Spec == Init /\ [][Next]_syncVars

Ids == 1..FoldFunction(+, 0, Edits)
Open == Rows("pending") \cup Rows("syncing")
Closed == Rows("synced") \cup Rows("failed")

\* Automatic mode polls, a request is answered or times out, and time passes.
FairSpec ==
  /\ Spec
  /\ \A t \in Tabs : WF_syncVars(BeginPush(t)) /\ WF_syncVars(Work(t))
  /\ \A i \in Ids : WF_syncVars(BackoffPasses(i))
-----------------------------------------------------------------------------
\* The newest edit of a document is answered for by the server, or waits in a
\* row that is not marked synced - dead rows included -, unless it joined a
\* row that a push had already read (sync-core.js:150, offline-store.js:82).
\* Neither two tabs that drain the queue, nor a reset of rows in flight, nor a
\* row that is answered while an edit is about to join it, loses one.
NoEditLost ==
  \A d \in Docs : LET newest == <<d, edits[d]>> IN
    edits[d] > 0 =>
      \/ newest \in settled \cup overtaken
      \/ \E i \in DOMAIN queue : Edit(i) = newest /\ queue[i].status # "synced"

\* With automatic sync, a row that waits or is in flight is at some time synced
\* or dead, once the rows before it are and stay so: a crash in the middle of a
\* push, a backoff or another tab's reset does not leave it there for ever
\* (offline-store.js:482).  A row before it that two tabs keep reopening may.
EventuallySettled ==
  \A i \in Ids :
    (\A j \in 1..(i - 1) : <>[](j \in Closed)) => (i \in Open ~> i \in Closed)
=============================================================================
