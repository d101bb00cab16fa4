--------------------------- MODULE WebhookOutbox ---------------------------
(***************************************************************************)
(* The webhook outbox of the REST server: rows of webhook_outbox, the      *)
(* subscriptions they are posted to, and the dispatchers that post them    *)
(* (server/lib/webhooks.js), with the administrator's routes over them     *)
(* (server/routes/webhooks.js).                                            *)
(*                                                                         *)
(* Several processes may have the database open.  Each has a timer that    *)
(* fires every 10 s; a tick takes or renews a lease of 20 s and, when it   *)
(* holds it, starts a batch.  A batch is an async function: it reads the   *)
(* due rows once, then for each row posts to all its subscribers, awaits   *)
(* their answers and records the outcome.  Between an await and its answer *)
(* anything may run, the next batch of the same process included.          *)
(*                                                                         *)
(* Time is counted in timer periods: every live process ticks once per     *)
(* period, and a post (8 s at most) ends before the second tick after it.  *)
(* A tick that is late by more, or whose lease update fails, is the fault  *)
(* MissTick.  next_attempt_at is abstracted to whether it has passed.      *)
(***************************************************************************)
EXTENDS Integers, FiniteSets

CONSTANTS
  Procs,        \* server processes that open the database
  Slots,        \* bound: batches of one process that can overlap
  Subs,         \* webhook_subscriptions rows
  Jobs,         \* ids an outbox row may get, in order of insertion
  Events,       \* event names
  EventOf,      \* the event of each row
  Configs,      \* sets of events an administrator may subscribe a row to
  BatchSize,    \* BATCH, 50 in the code
  MaxAttempts,  \* MAX_ATTEMPTS, 8 in the code
  Manual,       \* whether administrators call POST /api/webhooks/dispatch
  MaxFaults,    \* bound: crashes, failed writes and missed ticks
  MaxRequeues,  \* bound: administrators' retries
  Nobody,       \* dispatcher_lock.owner of a lease never taken
  Ended         \* process id of a process that is gone

ASSUME OutboxAssumption ==
  /\ Jobs \subseteq Nat \ {0} /\ IsFiniteSet(Jobs)
  /\ EventOf \in [Jobs -> Events]
  /\ Configs \subseteq SUBSET Events
  /\ BatchSize \in Nat \ {0}
  /\ MaxAttempts \in Nat \ {0}
  /\ Manual \in BOOLEAN
  /\ MaxFaults \in Nat /\ MaxRequeues \in Nat
  /\ Nobody \notin Procs /\ Ended \notin Procs

VARIABLES
  status,    \* webhook_outbox.status, or NONE before and GONE after the row
  attempts,  \* webhook_outbox.attempts
  due,       \* next_attempt_at has passed
  listens,   \* events of each active subscription, {} when inactive
  lease,     \* dispatcher_lock: owner and periods left
  up,        \* the process is running
  ticked,    \* its timer has fired in this period
  batch,     \* running dispatchBatch calls, per process and slot
  acked,     \* subscribers seen to answer a post of the row with 2xx
  rounds,    \* rounds of posts made for the row, counted up to MaxAttempts
  faults, requeues, missed

rows   == <<status, attempts, due>>
ghosts == <<acked, rounds>>
procs  == <<up, ticked>>
bounds == <<faults, requeues, missed>>
vars   == <<rows, listens, lease, procs, batch, ghosts, bounds>>

OneTick    == 1                                                      \* mutant
LeaseTicks == 2                       \* LEASE_SECONDS 20, in periods of 10 s

Statuses == {"NONE", "PENDING", "DELIVERED", "SKIPPED", "DEAD", "GONE"}

(***************************************************************************)
(* One dispatchBatch call: job is the row it is posting (0 when the slot   *)
(* is free) and to the subscribers it posts to, queue the rows still to    *)
(* come, seen the attempts it read with them.  spare is the number of      *)
(* ticks the posts in flight may still outlast, and byTick says that a     *)
(* timer started the call and not an administrator.                        *)
(***************************************************************************)
Batch == [job: Jobs \cup {0}, to: SUBSET Subs, queue: SUBSET Jobs,
          seen: [Jobs -> Nat], spare: {0, 1}, byTick: BOOLEAN]

Idle == [job |-> 0, to |-> {}, queue |-> {}, seen |-> [j \in Jobs |-> 0],
         spare |-> 0, byTick |-> FALSE]

Typed ==
  /\ status \in [Jobs -> Statuses]
  /\ attempts \in [Jobs -> Nat]
  /\ due \in [Jobs -> BOOLEAN]
  /\ listens \in [Subs -> SUBSET Events]
  /\ lease \in [owner: Procs \cup {Nobody, Ended}, left: Nat]
  /\ up \in [Procs -> BOOLEAN]
  /\ ticked \in [Procs -> BOOLEAN]
  /\ batch \in [Procs -> [Slots -> Batch]]
  /\ acked \in [Jobs -> SUBSET Subs]
  /\ rounds \in [Jobs -> 0..MaxAttempts]
  /\ faults \in Nat /\ requeues \in Nat /\ missed \in BOOLEAN

(* Types, and the range of the attempts column: a row is attempted         *)
(* MaxAttempts times and once more for each retry an administrator asked   *)
(* for, however many stale batches write their own count over it           *)
(* (lib/webhooks.js:117-142).                                              *)
TypeOK == Typed /\ \A j \in Jobs : attempts[j] <= MaxAttempts + requeues

Init ==
  /\ status = [j \in Jobs |-> "NONE"]
  /\ attempts = [j \in Jobs |-> 0]
  /\ due = [j \in Jobs |-> FALSE]
  /\ listens \in [Subs -> {{}, Events}]
  /\ lease = [owner |-> Nobody, left |-> 0]
  /\ up = [p \in Procs |-> TRUE]
  /\ ticked = [p \in Procs |-> FALSE]
  /\ batch = [p \in Procs |-> [k \in Slots |-> Idle]]
  /\ acked = [j \in Jobs |-> {}]
  /\ rounds = [j \in Jobs |-> 0]
  /\ faults = 0 /\ requeues = 0 /\ missed = FALSE
-----------------------------------------------------------------------------
Audience(j) == {s \in Subs : EventOf[j] \in listens[s]}

\* ORDER BY id LIMIT BATCH.
Lowest(S) == {j \in S : Cardinality({k \in S : k < j}) < BatchSize}
First(S)  == CHOOSE j \in S : \A k \in S : j <= k
DueRows   == Lowest({j \in Jobs : status[j] = "PENDING" /\ due[j]})

\* An UPDATE ... WHERE id=? finds no row once the janitor has deleted it.
Write(st, S, value) == [j \in Jobs |-> IF j \in S /\ st[j] # "GONE" THEN value ELSE st[j]]

(***************************************************************************)
(* From one await to the next: rows of queue that nobody listens to are    *)
(* marked SKIPPED, up to the first that somebody does, which is posted.    *)
(* When none is left the batch ends with the janitor's DELETE, of whatever *)
(* finished rows are old enough.                                           *)
(***************************************************************************)
Heard(queue)  == {j \in queue : Audience(j) # {}}
Passed(queue) == {j \in queue : \A h \in Heard(queue) : j < h}
Finished(st)  == {j \in Jobs : st[j] \in {"DELIVERED", "SKIPPED", "DEAD"}}

Resumed(b, queue) ==
  IF Heard(queue) = {} THEN Idle
  ELSE [b EXCEPT !.job   = First(Heard(queue)),
                 !.to    = Audience(First(Heard(queue))),
                 !.queue = {j \in queue : j > First(Heard(queue))}]

Swept(st, queue) ==
  LET after == Write(st, Passed(queue), "SKIPPED") IN
  IF Heard(queue) # {} THEN status' = after
  ELSE \E old \in SUBSET Finished(after) : status' = Write(after, old, "GONE")

FreeSlot(b) == CHOOSE k \in Slots : b[k] = Idle

\* dispatchBatch up to its first await, among the batches b of process p.
Start(p, b, byTick) ==
  IF DueRows = {} THEN /\ batch' = [batch EXCEPT ![p] = b]
                       /\ UNCHANGED status
  ELSE
    /\ \E k \in Slots : b[k] = Idle
    /\ batch' = [batch EXCEPT ![p] = [b EXCEPT ![FreeSlot(b)] = Resumed(
         [Idle EXCEPT !.seen   = [j \in Jobs |-> IF j \in DueRows THEN attempts[j] ELSE 0],
                      !.spare  = IF byTick THEN 0 ELSE 1,
                      !.byTick = byTick], DueRows)]]
    /\ Swept(status, DueRows)
-----------------------------------------------------------------------------
\* tryAcquireLeadership: free, expired or already its own.
NeverExpires(p) == lease.owner \in {Nobody, p}                       \* mutant
LeaseFree(p)    == lease.left = 0 \/ lease.owner = p

\* Posts in flight at a tick may outlast no further one.
Aged(p) == [k \in Slots |-> [batch[p][k] EXCEPT !.spare = 0]]

\* The interval callback of startDispatcher.
Tick(p) ==
  /\ up[p] /\ ~ticked[p]
  /\ \A k \in Slots : batch[p][k].job # 0 => batch[p][k].spare > 0
  /\ ticked' = [ticked EXCEPT ![p] = TRUE]
  /\ IF LeaseFree(p)
       THEN /\ lease' = [owner |-> p, left |-> LeaseTicks]
            /\ Start(p, Aged(p), TRUE)
       ELSE /\ batch' = [batch EXCEPT ![p] = Aged(p)]
            /\ UNCHANGED <<lease, status>>
  /\ UNCHANGED <<attempts, due, listens, up, ghosts, bounds>>

\* POST /api/webhooks/dispatch: a batch without the lease.
Dispatch(p) ==
  /\ Manual /\ up[p] /\ DueRows # {}
  /\ Start(p, batch[p], FALSE)
  /\ UNCHANGED <<attempts, due, listens, lease, procs, ghosts, bounds>>

\* Which answers make a row DELIVERED: one subscriber is enough.
AllSettled(to, ok) == to # {}                                        \* mutant
OkAny(to, ok)      == ok # {}

\* Whether a row that failed in this round is given up.
LastButOne(count) == count >= MaxAttempts - 1                        \* mutant
OneTooMany(count) == count > MaxAttempts                             \* mutant
GiveUp(count)     == count >= MaxAttempts

\* The status a failed round leaves a row in that is tried again.
BackToPending(s) == "PENDING"                                        \* mutant
KeptForRetry(s)  == s

\* The subscribers in ok answered with 2xx, the others failed or timed out.
Answered(b, ok) ==
  /\ acked'  = [acked EXCEPT ![b.job] = @ \cup ok]
  /\ rounds' = [rounds EXCEPT ![b.job] = IF @ < MaxAttempts THEN @ + 1 ELSE @]

(***************************************************************************)
(* All posts of a round have settled: the outcome is written over whatever *)
(* the row holds now, counting from the attempts read at the batch's start.*)
(***************************************************************************)
Settle(p, k) ==
  LET b     == batch[p][k]
      j     == b.job
      count == b.seen[j] + 1
  IN
  /\ j # 0
  /\ \E ok \in SUBSET b.to :
       LET outcome == IF OkAny(b.to, ok) THEN "DELIVERED"
                      ELSE IF GiveUp(count) THEN "DEAD" ELSE KeptForRetry(status[j])
           retried == ~OkAny(b.to, ok) /\ ~GiveUp(count)
       IN
       /\ Answered(b, ok)
       /\ due' = [due EXCEPT ![j] = @ /\ ~retried]
       /\ Swept(Write(status, {j}, outcome), b.queue)
  /\ attempts' = [attempts EXCEPT ![j] = IF status[j] # "GONE" THEN count ELSE @]
  /\ batch' = [batch EXCEPT ![p][k] = Resumed([b EXCEPT !.spare = 1], b.queue)]
  /\ UNCHANGED <<listens, lease, procs, bounds>>

\* next_attempt_at of a row passes.
Elapse(j) ==
  /\ status[j] = "PENDING" /\ ~due[j]
  /\ due' = [due EXCEPT ![j] = TRUE]
  /\ UNCHANGED <<status, attempts, listens, lease, procs, batch, ghosts, bounds>>

\* A period ends when every running timer has fired in it.
Period ==
  /\ \A p \in Procs : up[p] => ticked[p]
  /\ ticked' = [p \in Procs |-> FALSE]
  /\ lease' = [lease EXCEPT !.left = IF @ > 0 THEN @ - 1 ELSE 0]
  /\ UNCHANGED <<rows, listens, up, batch, ghosts, bounds>>
-----------------------------------------------------------------------------
\* The routes are answered by a running process.
Serving == \E p \in Procs : up[p]

\* emit: a row for an event that somebody listens to.
Emit(j) ==
  /\ Serving
  /\ status[j] = "NONE" /\ \A i \in Jobs : i < j => status[i] # "NONE"
  /\ Audience(j) # {}
  /\ status' = [status EXCEPT ![j] = "PENDING"]
  /\ due' = [due EXCEPT ![j] = TRUE]
  /\ UNCHANGED <<attempts, listens, lease, procs, batch, ghosts, bounds>>

\* POST, PUT, PATCH and DELETE of /api/webhooks.
Configure(s, events) ==
  /\ Serving
  /\ listens' = [listens EXCEPT ![s] = events]
  /\ UNCHANGED <<rows, lease, procs, batch, ghosts, bounds>>

\* POST /api/webhooks/outbox/:id/retry.
Requeue(j) ==
  /\ Serving
  /\ requeues < MaxRequeues
  /\ status[j] \in {"DEAD", "PENDING"}
  /\ status' = [status EXCEPT ![j] = "PENDING"]
  /\ due' = [due EXCEPT ![j] = TRUE]
  /\ requeues' = requeues + 1
  /\ UNCHANGED <<attempts, listens, lease, procs, batch, ghosts, faults, missed>>

\* A write after the answers fails: dispatchBatch rejects, its rows stay.
Abort(p, k) ==
  /\ faults < MaxFaults
  /\ batch[p][k].job # 0
  /\ \E ok \in SUBSET batch[p][k].to : Answered(batch[p][k], ok)
  /\ batch' = [batch EXCEPT ![p][k] = Idle]
  /\ faults' = faults + 1
  /\ UNCHANGED <<rows, listens, lease, procs, requeues, missed>>

\* The event loop stalls past a tick, or the lease update fails.
MissTick(p) ==
  /\ faults < MaxFaults
  /\ up[p] /\ ~ticked[p]
  /\ ticked' = [ticked EXCEPT ![p] = TRUE]
  /\ missed' = TRUE /\ faults' = faults + 1
  /\ UNCHANGED <<rows, listens, lease, up, batch, ghosts, requeues>>

\* A process ends; the next one may get the same process id or another.
Crash(p) ==
  /\ faults < MaxFaults
  /\ up[p]
  /\ up' = [up EXCEPT ![p] = FALSE]
  /\ batch' = [batch EXCEPT ![p] = [k \in Slots |-> Idle]]
  /\ \/ UNCHANGED lease
     \/ lease.owner = p /\ lease' = [lease EXCEPT !.owner = Ended]
  /\ faults' = faults + 1
  /\ UNCHANGED <<rows, listens, ticked, ghosts, requeues, missed>>

\* The supervisor starts it again; its first tick is a period away.
Restart(p) ==
  /\ ~up[p]
  /\ up' = [up EXCEPT ![p] = TRUE]
  /\ ticked' = [ticked EXCEPT ![p] = TRUE]
  /\ UNCHANGED <<rows, listens, lease, batch, ghosts, bounds>>
-----------------------------------------------------------------------------
Next ==
  \/ \E p \in Procs : \/ Tick(p) \/ Dispatch(p)
                      \/ MissTick(p) \/ Crash(p) \/ Restart(p)
                      \/ \E k \in Slots : Settle(p, k) \/ Abort(p, k)
  \/ \E j \in Jobs : Emit(j) \/ Elapse(j) \/ Requeue(j)
  \/ \E s \in Subs, events \in Configs : Configure(s, events)
  \/ Period

Spec == Init /\ [][Next]_vars

\* Timers fire, posts settle by their timeout, waits elapse and the
\* supervisor restarts; nothing is asked of administrators.
Fairness ==
  /\ \A p \in Procs : /\ WF_vars(Tick(p)) /\ WF_vars(Restart(p))
                      /\ \A k \in Slots : WF_vars(Settle(p, k))
  /\ \A j \in Jobs : WF_vars(Elapse(j))
  /\ WF_vars(Period)

FairSpec == Spec /\ Fairness
-----------------------------------------------------------------------------
Running == {r \in Procs \X Slots : batch[r[1]][r[2]].job # 0}

(* A row is DELIVERED only when a subscriber answered 2xx, and DEAD only   *)
(* after MaxAttempts rounds of posts, although overlapping batches count   *)
(* from stale reads of attempts and write over each other.                 *)
OutcomeEarned ==
  \A j \in Jobs : /\ status[j] = "DELIVERED" => acked[j] # {}
                  /\ status[j] = "DEAD" => rounds[j] = MaxAttempts

(* While no timer misses a period, every batch a timer started runs in the *)
(* process that holds a lease that has not run out: batches of two timers  *)
(* never overlap across processes (lib/webhooks.js:164-169), whatever      *)
(* crashes and restarts come between.                                      *)
OneDispatcher ==
  ~missed => \A r \in Running :
    batch[r[1]][r[2]].byTick => lease.owner = r[1] /\ lease.left > 0

(* A row that was delivered or skipped never becomes PENDING again, so no  *)
(* batch that starts later reads it.  A batch that read it before may post *)
(* it once more (NeverDoubleDelivered) and write DEAD or SKIPPED over the  *)
(* outcome, but a post that fails then does not queue the row for another  *)
(* round (lib/webhooks.js:117-138).                                        *)
FinishedIsNotRetried ==
  [][\A j \in Jobs :
       status[j] \in {"DELIVERED", "SKIPPED", "GONE"} => status'[j] # "PENDING"]_vars

(* Every row that is emitted is eventually delivered, skipped or given up, *)
(* through crashes of the process that holds the lease.                    *)
EventuallySettled ==
  \A j \in Jobs : status[j] = "PENDING" ~> status[j] # "PENDING"
-----------------------------------------------------------------------------
(* A statement the sources make that the dispatcher does not keep.         *)

(* server/server.js:106-107: the dispatcher lock "singleton-gates the      *)
(* outbox so a single writer is never double-delivered".  No subscriber    *)
(* that has accepted a row has another post of it in flight.               *)
NeverDoubleDelivered ==
  \A r \in Running :
    LET b == batch[r[1]][r[2]] IN b.to \cap acked[b.job] = {}
=============================================================================
