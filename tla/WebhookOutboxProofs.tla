------------------------ MODULE WebhookOutboxProofs ------------------------
(***************************************************************************)
(* Theorems about WebhookOutbox, for any number of processes, overlapping  *)
(* batches, subscriptions and rows, and any number of faults.              *)
(***************************************************************************)
EXTENDS WebhookOutbox, WellFoundedInduction, TLAPS

\* A count of attempts never runs ahead of the rounds that were made.
Counted(n, j) == n <= rounds[j] \/ rounds[j] = MaxAttempts

CountsOK ==
  /\ \A j \in Jobs : Counted(attempts[j], j)
  /\ \A p \in Procs, k \in Slots, j \in Jobs : Counted(batch[p][k].seen[j], j)

\* What keeps the lease from running out under a batch: the process that
\* runs it has two periods left once its timer has fired, one before.
LeaseHeld ==
  ~missed => \A p \in Procs, k \in Slots :
    batch[p][k].job # 0 /\ batch[p][k].byTick =>
      /\ up[p] /\ lease.owner = p /\ lease.left >= 1
      /\ ticked[p] => lease.left >= 2

OutboxInv == Typed /\ OutcomeEarned /\ CountsOK /\ LeaseHeld
-----------------------------------------------------------------------------
\* The row a batch resumes with is one of its queue.
LEMMA FirstIn ==
  ASSUME NEW S, S \subseteq Jobs, S # {}
  PROVE  First(S) \in S
<1>1. S \subseteq Nat
  BY OutboxAssumption
<1>2. PICK j \in S : \A k \in S : ~ (<<k, j>> \in OpToRel(<, Nat))
  BY <1>1, NatLessThanWellFounded, WFMin
<1>3. ASSUME NEW k \in S, k < j PROVE FALSE
  <2>1. <<k, j>> \in Nat \X Nat
    BY <1>1
  <2>2. <<k, j>> \in OpToRel(<, Nat)
    BY <1>3, <2>1 DEF OpToRel
  <2> QED BY <1>2, <2>2
<1>4. \A k \in S : j <= k
  BY <1>1, <1>3
<1> QED BY <1>2, <1>4 DEF First

LEMMA IdleType == Idle \in Batch
BY DEF Idle, Batch

\* A batch resumed is free or goes on with the counts and the origin it had.
LEMMA ResumedBatch ==
  ASSUME NEW b \in Batch, NEW queue, queue \subseteq Jobs
  PROVE  /\ Resumed(b, queue) \in Batch
         /\ Resumed(b, queue) = Idle \/ (/\ Resumed(b, queue).seen = b.seen
                                         /\ Resumed(b, queue).byTick = b.byTick)
<1>1. CASE Heard(queue) = {}
  BY <1>1, IdleType DEF Resumed
<1>2. CASE Heard(queue) # {}
  <2>1. Heard(queue) \subseteq Jobs
    BY DEF Heard
  <2>2. First(Heard(queue)) \in Jobs
    BY <1>2, <2>1, FirstIn
  <2>3. Audience(First(Heard(queue))) \subseteq Subs
    BY DEF Audience
  <2> QED BY <1>2, <2>2, <2>3 DEF Resumed, Batch
<1> QED BY <1>1, <1>2

\* From one await to the next, rows only become SKIPPED or GONE.
LEMMA SweptRows ==
  ASSUME NEW st \in [Jobs -> Statuses], NEW queue, Swept(st, queue)
  PROVE  /\ status' \in [Jobs -> Statuses]
         /\ \A j \in Jobs : status'[j] \in {st[j], "SKIPPED", "GONE"}
<1> DEFINE after == Write(st, Passed(queue), "SKIPPED")
<1>1. /\ after \in [Jobs -> Statuses]
      /\ \A j \in Jobs : after[j] \in {st[j], "SKIPPED"}
  BY DEF Write, Statuses
<1>2. status' = after \/ \E old : status' = Write(after, old, "GONE")
  BY DEF Swept
<1> HIDE DEF after
<1>3. CASE status' = after
  BY <1>1, <1>3
<1>4. ASSUME NEW old, status' = Write(after, old, "GONE")
      PROVE  /\ status' \in [Jobs -> Statuses]
             /\ \A j \in Jobs : status'[j] \in {st[j], "SKIPPED", "GONE"}
  BY <1>1, <1>4 DEF Write, Statuses
<1> QED BY <1>2, <1>3, <1>4

\* Starting a batch leaves every slot as it was or with a batch that counts
\* from the attempts it read and carries the given origin.
LEMMA StartBatch ==
  ASSUME Typed, NEW p \in Procs, NEW b \in [Slots -> Batch],
         NEW byTick \in BOOLEAN, Start(p, b, byTick)
  PROVE  /\ batch' \in [Procs -> [Slots -> Batch]]
         /\ \A q \in Procs \ {p} : batch'[q] = batch[q]
         /\ \A k \in Slots :
              \/ batch'[p][k] = b[k]
              \/ batch'[p][k] = Idle
              \/ /\ batch'[p][k].byTick = byTick
                 /\ \A j \in Jobs : batch'[p][k].seen[j] \in {0, attempts[j]}
         /\ status' \in [Jobs -> Statuses]
         /\ \A j \in Jobs : status'[j] \in {status[j], "SKIPPED", "GONE"}
<1>1. CASE DueRows = {}
  BY <1>1 DEF Start, Typed
<1>2. CASE DueRows # {}
  <2> DEFINE fresh == [Idle EXCEPT !.seen   = [j \in Jobs |-> IF j \in DueRows THEN attempts[j] ELSE 0],
                                   !.spare  = IF byTick THEN 0 ELSE 1,
                                   !.byTick = byTick]
             f     == FreeSlot(b)
  <2>1. DueRows \subseteq Jobs
    BY DEF DueRows, Lowest
  <2>2. fresh \in Batch /\ fresh.byTick = byTick
        /\ \A j \in Jobs : fresh.seen[j] \in {0, attempts[j]}
    BY DEF Idle, Batch, Typed
  <2>3. f \in Slots
    BY <1>2 DEF Start, FreeSlot
  <2>4. batch' = [batch EXCEPT ![p] = [b EXCEPT ![f] = Resumed(fresh, DueRows)]]
        /\ Swept(status, DueRows)
    BY <1>2 DEF Start
  <2> HIDE DEF fresh, f
  <2>5. /\ Resumed(fresh, DueRows) \in Batch
        /\ Resumed(fresh, DueRows) = Idle
             \/ (/\ Resumed(fresh, DueRows).seen = fresh.seen
                 /\ Resumed(fresh, DueRows).byTick = fresh.byTick)
    BY <2>1, <2>2, ResumedBatch
  <2>6. /\ status' \in [Jobs -> Statuses]
        /\ \A j \in Jobs : status'[j] \in {status[j], "SKIPPED", "GONE"}
    BY <2>4, SweptRows DEF Typed
  <2>7. batch' \in [Procs -> [Slots -> Batch]] /\ \A q \in Procs \ {p} : batch'[q] = batch[q]
    BY <2>3, <2>4, <2>5 DEF Typed
  <2>8. \A k \in Slots : batch'[p][k] = IF k = f THEN Resumed(fresh, DueRows) ELSE b[k]
    BY <2>3, <2>4 DEF Typed
  <2> QED BY <2>2, <2>5, <2>6, <2>7, <2>8
<1> QED BY <1>1, <1>2

LEMMA AgedBatch ==
  ASSUME Typed, NEW p \in Procs
  PROVE  /\ Aged(p) \in [Slots -> Batch]
         /\ \A k \in Slots : /\ Aged(p)[k].job = batch[p][k].job
                             /\ Aged(p)[k].seen = batch[p][k].seen
                             /\ Aged(p)[k].byTick = batch[p][k].byTick
<1>1. ASSUME NEW k \in Slots
      PROVE  /\ [batch[p][k] EXCEPT !.spare = 0] \in Batch
             /\ [batch[p][k] EXCEPT !.spare = 0].job = batch[p][k].job
             /\ [batch[p][k] EXCEPT !.spare = 0].seen = batch[p][k].seen
             /\ [batch[p][k] EXCEPT !.spare = 0].byTick = batch[p][k].byTick
  <2>1. batch[p][k] \in Batch
    BY DEF Typed
  <2> QED BY <2>1 DEF Batch
<1> QED BY <1>1 DEF Aged
-----------------------------------------------------------------------------
LEMMA InitInv == Init => OutboxInv
<1> SUFFICES ASSUME Init PROVE OutboxInv
  OBVIOUS
<1>1. Typed
  <2>1. status \in [Jobs -> Statuses]
    BY DEF Init, Statuses
  <2>2. listens \in [Subs -> SUBSET Events]
    BY DEF Init
  <2>3. batch \in [Procs -> [Slots -> Batch]]
    BY IdleType DEF Init
  <2>4. rounds \in [Jobs -> 0..MaxAttempts]
    BY OutboxAssumption DEF Init
  <2> QED BY <2>1, <2>2, <2>3, <2>4 DEF Init, Typed
<1>2. OutcomeEarned
  BY DEF Init, OutcomeEarned
<1>3. CountsOK
  BY DEF Init, CountsOK, Counted, Idle
<1>4. LeaseHeld
  BY DEF Init, LeaseHeld, Idle
<1> QED BY <1>1, <1>2, <1>3, <1>4 DEF OutboxInv
-----------------------------------------------------------------------------
\* Faults and restarts: a crash frees the process's batches.
LEMMA FaultInv ==
  ASSUME OutboxInv, NEW p \in Procs, MissTick(p) \/ Crash(p) \/ Restart(p)
  PROVE  OutboxInv'
<1> USE DEF OutboxInv, bounds, ghosts, rows, procs
<1>1. CASE MissTick(p)
  <2>1. Typed'
    BY <1>1 DEF MissTick, Typed
  <2>2. OutcomeEarned' /\ CountsOK' /\ LeaseHeld'
    BY <1>1 DEF MissTick, OutcomeEarned, CountsOK, Counted, LeaseHeld
  <2> QED BY <2>1, <2>2
<1>2. CASE Crash(p)
  <2>1. batch' = [batch EXCEPT ![p] = [k \in Slots |-> Idle]]
    BY <1>2 DEF Crash
  <2>2. batch' \in [Procs -> [Slots -> Batch]]
    BY <2>1, IdleType DEF Typed
  <2>3. /\ lease' \in [owner: Procs \cup {Nobody, Ended}, left: Nat]
        /\ lease'.left = lease.left
        /\ lease'.owner = lease.owner \/ lease.owner = p
    BY <1>2 DEF Crash, Typed
  <2>4. \A q \in Procs, k \in Slots :
          batch'[q][k] = IF q = p THEN Idle ELSE batch[q][k]
    BY <2>1 DEF Typed
  <2>5. Typed'
    <3>1. /\ up' = [up EXCEPT ![p] = FALSE] /\ faults' = faults + 1
          /\ UNCHANGED <<rows, listens, ticked, ghosts, requeues, missed>>
      BY <1>2 DEF Crash
    <3> QED BY <2>2, <2>3, <3>1 DEF Typed
  <2>6. CountsOK'
    <3>1. \A j0 \in Jobs : Counted(Idle.seen[j0], j0)
      BY DEF Typed, Counted, Idle
    <3> QED BY <1>2, <2>4, <3>1 DEF Crash, CountsOK, Counted
  <2>7. LeaseHeld'
    <3> SUFFICES ASSUME ~missed, NEW q \in Procs, NEW k \in Slots,
                        batch'[q][k].job # 0, batch'[q][k].byTick
                 PROVE  up'[q] /\ lease'.owner = q /\ lease'.left >= 1
                        /\ (ticked'[q] => lease'.left >= 2)
      BY <1>2 DEF Crash, LeaseHeld
    <3>1. q # p /\ batch'[q][k] = batch[q][k]
      BY <2>4 DEF Idle
    <3>2. up[q] /\ lease.owner = q /\ lease.left >= 1 /\ (ticked[q] => lease.left >= 2)
      BY <3>1 DEF LeaseHeld
    <3> QED BY <1>2, <2>3, <3>1, <3>2 DEF Crash, Typed
  <2>8. OutcomeEarned'
    BY <1>2 DEF Crash, OutcomeEarned
  <2> QED BY <2>5, <2>6, <2>7, <2>8
<1>3. CASE Restart(p)
  <2>1. Typed'
    BY <1>3 DEF Restart, Typed
  <2>2. OutcomeEarned' /\ CountsOK'
    BY <1>3 DEF Restart, OutcomeEarned, CountsOK, Counted
  <2>3. LeaseHeld'
    BY <1>3 DEF Restart, LeaseHeld, Typed
  <2> QED BY <2>1, <2>2, <2>3
<1> QED BY <1>1, <1>2, <1>3

\* Rows that are inserted, fall due or are requeued.
LEMMA RowInv ==
  ASSUME OutboxInv, NEW j \in Jobs, Elapse(j) \/ Emit(j) \/ Requeue(j)
  PROVE  OutboxInv'
<1> USE DEF OutboxInv, bounds, ghosts, rows, procs
<1>1. CASE Elapse(j)
  BY <1>1 DEF Elapse, Typed, OutcomeEarned, CountsOK, Counted, LeaseHeld
<1>2. CASE Emit(j) \/ Requeue(j)
  <2>1. status' = [status EXCEPT ![j] = "PENDING"] /\ due' = [due EXCEPT ![j] = TRUE]
        /\ UNCHANGED <<attempts, listens, lease, procs, batch, ghosts, faults, missed>>
        /\ requeues' \in {requeues, requeues + 1}
    BY <1>2 DEF Emit, Requeue
  <2>2. Typed'
    BY <2>1 DEF Typed, Statuses
  <2>3. OutcomeEarned' /\ CountsOK' /\ LeaseHeld'
    BY <2>1 DEF Typed, OutcomeEarned, CountsOK, Counted, LeaseHeld
  <2> QED BY <2>2, <2>3
<1> QED BY <1>1, <1>2

LEMMA ConfigureInv ==
  ASSUME OutboxInv, NEW s \in Subs, NEW events \in Configs, Configure(s, events)
  PROVE  OutboxInv'
<1> USE DEF OutboxInv, bounds, ghosts, rows, procs
<1>1. listens' \in [Subs -> SUBSET Events]
  BY OutboxAssumption DEF Configure, Typed
<1> QED BY <1>1 DEF Configure, Typed, OutcomeEarned, CountsOK, Counted, LeaseHeld

\* The lease loses a period only after the holder's timer has fired.
LEMMA PeriodInv ==
  ASSUME OutboxInv, Period \/ UNCHANGED vars
  PROVE  OutboxInv'
<1> USE DEF OutboxInv, bounds, ghosts, rows, procs
<1>1. CASE Period
  <2>1. Typed'
    BY <1>1 DEF Period, Typed
  <2>2. OutcomeEarned' /\ CountsOK'
    BY <1>1 DEF Period, OutcomeEarned, CountsOK, Counted
  <2>3. LeaseHeld'
    BY <1>1 DEF Period, LeaseHeld, Typed
  <2> QED BY <2>1, <2>2, <2>3
<1>2. CASE UNCHANGED vars
  BY <1>2 DEF vars, Typed, OutcomeEarned, CountsOK, Counted, LeaseHeld
<1> QED BY <1>1, <1>2

\* The counts stay sound when a process's slots keep their counts, are
\* freed, or take them over from the rows.
LEMMA CountsKept ==
  ASSUME Typed, CountsOK, NEW p \in Procs, UNCHANGED <<attempts, rounds>>,
         \A q \in Procs \ {p} : batch'[q] = batch[q],
         \A k \in Slots : \/ batch'[p][k].seen = batch[p][k].seen
                         \/ batch'[p][k] = Idle
                         \/ \A j \in Jobs : batch'[p][k].seen[j] \in {0, attempts[j]}
  PROVE  CountsOK'
<1>1. \A j \in Jobs : Counted(0, j) /\ Counted(attempts[j], j)
  BY DEF Typed, CountsOK, Counted
<1>2. ASSUME NEW q \in Procs, NEW k \in Slots, NEW j \in Jobs
      PROVE  Counted(batch'[q][k].seen[j], j)
  <2>1. CASE q # p
    BY <2>1 DEF CountsOK
  <2>2. CASE q = p
    <3>1. \/ batch'[q][k].seen[j] = batch[q][k].seen[j]
          \/ batch'[q][k].seen[j] \in {0, attempts[j]}
      BY <2>2 DEF Idle
    <3>2. Counted(batch[q][k].seen[j], j)
      BY DEF CountsOK
    <3> QED BY <1>1, <3>1, <3>2
  <2> QED BY <2>1, <2>2
<1> QED BY <1>1, <1>2 DEF CountsOK, Counted

\* A tick or an administrator's dispatch.
LEMMA StartInv ==
  ASSUME OutboxInv, NEW p \in Procs, Tick(p) \/ Dispatch(p)
  PROVE  OutboxInv'
<1> USE DEF OutboxInv, bounds, ghosts, rows, procs
<1>1. Typed /\ OutcomeEarned /\ CountsOK /\ LeaseHeld
  OBVIOUS
<1> DEFINE Kept(k)  == /\ batch'[p][k].job = batch[p][k].job
                       /\ batch'[p][k].seen = batch[p][k].seen
                       /\ batch'[p][k].byTick = batch[p][k].byTick
           Begun(k, byTick) == \/ batch'[p][k] = Idle
                               \/ /\ batch'[p][k].byTick = byTick
                                  /\ \A j \in Jobs : batch'[p][k].seen[j] \in {0, attempts[j]}
           Common == /\ batch' \in [Procs -> [Slots -> Batch]]
                     /\ \A q \in Procs \ {p} : batch'[q] = batch[q]
                     /\ status' \in [Jobs -> Statuses]
                     /\ \A j \in Jobs : status'[j] \in {status[j], "SKIPPED", "GONE"}
                     /\ UNCHANGED <<attempts, due, listens, up, ghosts, bounds>>
\* The three ways a batch slot, the lease and the timer can come out.
<1>2. CASE Tick(p) /\ LeaseFree(p)
  <2>0. /\ Start(p, Aged(p), TRUE)
        /\ UNCHANGED <<attempts, due, listens, up, ghosts, bounds>>
    BY <1>2 DEF Tick
  <2>1. Common /\ \A k \in Slots : Kept(k) \/ Begun(k, TRUE)
    <3>1. /\ Aged(p) \in [Slots -> Batch]
          /\ \A k \in Slots : /\ Aged(p)[k].job = batch[p][k].job
                              /\ Aged(p)[k].seen = batch[p][k].seen
                              /\ Aged(p)[k].byTick = batch[p][k].byTick
      BY <1>1, AgedBatch
    <3>2. /\ batch' \in [Procs -> [Slots -> Batch]]
          /\ \A q \in Procs \ {p} : batch'[q] = batch[q]
          /\ \A k \in Slots : batch'[p][k] = Aged(p)[k] \/ Begun(k, TRUE)
          /\ status' \in [Jobs -> Statuses]
          /\ \A j \in Jobs : status'[j] \in {status[j], "SKIPPED", "GONE"}
      BY <1>1, <2>0, <3>1, StartBatch
    <3>3. \A k \in Slots : Kept(k) \/ Begun(k, TRUE)
      BY <3>1, <3>2
    <3> QED BY <2>0, <3>2, <3>3
  <2>2. lease' = [owner |-> p, left |-> 2] /\ ticked' = [ticked EXCEPT ![p] = TRUE]
    BY <1>2 DEF Tick, LeaseTicks
  <2> HIDE DEF Kept, Begun
  <2>3. Typed'
    BY <2>1, <2>2 DEF Typed
  <2>4. OutcomeEarned'
    BY <2>1 DEF OutcomeEarned, Typed
  <2>5. CountsOK'
    BY <2>1, CountsKept DEF Kept, Begun
  <2>6. LeaseHeld'
    <3> SUFFICES ASSUME ~missed, NEW q \in Procs, NEW k \in Slots,
                        batch'[q][k].job # 0, batch'[q][k].byTick
                 PROVE  up'[q] /\ lease'.owner = q /\ lease'.left >= 1
                        /\ (ticked'[q] => lease'.left >= 2)
      BY <2>1 DEF LeaseHeld
    <3>1. CASE q = p
      BY <1>2, <2>1, <2>2, <3>1 DEF Tick
    <3>2. CASE q # p
      <4>1. batch'[q][k] = batch[q][k]
        BY <2>1, <3>2
      <4>2. lease.owner = q /\ lease.left >= 1
        BY <4>1 DEF LeaseHeld
      <4> QED BY <1>2, <3>2, <4>2 DEF LeaseFree, Typed
    <3> QED BY <3>1, <3>2
  <2> QED BY <2>3, <2>4, <2>5, <2>6
<1>3. CASE Tick(p) /\ ~LeaseFree(p)
  <2>0. /\ batch' = [batch EXCEPT ![p] = Aged(p)] /\ status' = status
        /\ UNCHANGED <<attempts, due, listens, up, ghosts, bounds>>
    BY <1>3 DEF Tick
  <2>1. Common /\ \A k \in Slots : Kept(k)
    <3>1. /\ Aged(p) \in [Slots -> Batch]
          /\ \A k \in Slots : /\ Aged(p)[k].job = batch[p][k].job
                              /\ Aged(p)[k].seen = batch[p][k].seen
                              /\ Aged(p)[k].byTick = batch[p][k].byTick
      BY <1>1, AgedBatch
    <3>2. /\ batch' \in [Procs -> [Slots -> Batch]]
          /\ \A q \in Procs \ {p} : batch'[q] = batch[q]
          /\ batch'[p] = Aged(p)
      BY <2>0, <3>1 DEF Typed
    <3> QED BY <2>0, <3>1, <3>2 DEF Typed
  <2>2. lease' = lease /\ ticked' = [ticked EXCEPT ![p] = TRUE]
    BY <1>3 DEF Tick
  <2>3. Typed'
    BY <2>1, <2>2 DEF Typed
  <2>4. OutcomeEarned'
    BY <2>1 DEF OutcomeEarned, Typed
  <2>5. CountsOK'
    BY <2>1, CountsKept
  <2>6. LeaseHeld'
    <3> SUFFICES ASSUME ~missed, NEW q \in Procs, NEW k \in Slots,
                        batch'[q][k].job # 0, batch'[q][k].byTick
                 PROVE  up'[q] /\ lease'.owner = q /\ lease'.left >= 1
                        /\ (ticked'[q] => lease'.left >= 2)
      BY <2>1 DEF LeaseHeld
    <3>1. batch[q][k].job # 0 /\ batch[q][k].byTick
      BY <2>1
    <3>2. up[q] /\ lease.owner = q /\ lease.left >= 1 /\ (ticked[q] => lease.left >= 2)
      BY <3>1 DEF LeaseHeld
    <3>3. q # p
      BY <1>3, <3>2 DEF LeaseFree
    <3> QED BY <2>1, <2>2, <3>2, <3>3 DEF Typed
  <2> QED BY <2>3, <2>4, <2>5, <2>6
<1>4. CASE Dispatch(p)
  <2>1. batch[p] \in [Slots -> Batch]
    BY DEF Typed
  <2>2. Start(p, batch[p], FALSE)
    BY <1>4 DEF Dispatch
  <2>3. Common /\ \A k \in Slots : Kept(k) \/ Begun(k, FALSE)
    <3>1. /\ batch' \in [Procs -> [Slots -> Batch]]
          /\ \A q \in Procs \ {p} : batch'[q] = batch[q]
          /\ \A k \in Slots : batch'[p][k] = batch[p][k] \/ Begun(k, FALSE)
          /\ status' \in [Jobs -> Statuses]
          /\ \A j \in Jobs : status'[j] \in {status[j], "SKIPPED", "GONE"}
      BY <1>1, <2>1, <2>2, StartBatch
    <3>2. \A k \in Slots : Kept(k) \/ Begun(k, FALSE)
      BY <3>1
    <3>3. UNCHANGED <<attempts, due, listens, up, ghosts, bounds>>
      BY <1>4 DEF Dispatch
    <3> QED BY <3>1, <3>2, <3>3
  <2>4. lease' = lease /\ ticked' = ticked
    BY <1>4 DEF Dispatch
  <2> HIDE DEF Kept, Begun
  <2>5. Typed'
    BY <2>3, <2>4 DEF Typed
  <2>6. OutcomeEarned'
    BY <2>3 DEF OutcomeEarned, Typed
  <2>7. CountsOK'
    BY <2>3, CountsKept DEF Kept, Begun
  <2>8. LeaseHeld'
    <3> SUFFICES ASSUME ~missed, NEW q \in Procs, NEW k \in Slots,
                        batch'[q][k].job # 0, batch'[q][k].byTick
                 PROVE  up[q] /\ lease.owner = q /\ lease.left >= 1
                        /\ (ticked[q] => lease.left >= 2)
      BY <2>3, <2>4 DEF LeaseHeld
    <3>1. batch[q][k].job # 0 /\ batch[q][k].byTick
      BY <2>3 DEF Kept, Begun, Idle
    <3> QED BY <3>1 DEF LeaseHeld
  <2> QED BY <2>5, <2>6, <2>7, <2>8
<1> QED BY <1>2, <1>3, <1>4
-----------------------------------------------------------------------------
\* A round of posts is counted and its answers kept.
LEMMA AnsweredGhosts ==
  ASSUME Typed, OutcomeEarned, NEW b \in Batch, b.job # 0, NEW ok \in SUBSET b.to,
         Answered(b, ok)
  PROVE  /\ acked' \in [Jobs -> SUBSET Subs]
         /\ rounds' \in [Jobs -> 0..MaxAttempts]
         /\ \A j \in Jobs : acked[j] \subseteq acked'[j]
         /\ ok \subseteq acked'[b.job]
         /\ \A j \in Jobs : rounds[j] <= rounds'[j]
         /\ rounds'[b.job] = rounds[b.job] + 1 \/ rounds'[b.job] = MaxAttempts
<1>1. b.job \in Jobs /\ b.to \subseteq Subs
  BY DEF Batch
<1>2. acked' = [acked EXCEPT ![b.job] = @ \cup ok]
  BY DEF Answered
<1>3. rounds' = [rounds EXCEPT ![b.job] = IF @ < MaxAttempts THEN @ + 1 ELSE @]
  BY DEF Answered
<1>4. \A j \in Jobs : rounds[j] \in 0..MaxAttempts
  BY DEF Typed
<1>5. MaxAttempts \in Nat
  BY OutboxAssumption
<1>6. /\ acked' \in [Jobs -> SUBSET Subs]
      /\ \A j \in Jobs : acked[j] \subseteq acked'[j]
      /\ ok \subseteq acked'[b.job]
  BY <1>1, <1>2 DEF Typed
<1>7. /\ rounds' \in [Jobs -> 0..MaxAttempts]
      /\ \A j \in Jobs : rounds[j] <= rounds'[j]
      /\ rounds'[b.job] = rounds[b.job] + 1 \/ rounds'[b.job] = MaxAttempts
  <2> DEFINE grown(n) == IF n < MaxAttempts THEN n + 1 ELSE n
  <2>1. \A n \in 0..MaxAttempts :
          /\ grown(n) \in 0..MaxAttempts /\ n <= grown(n)
          /\ grown(n) = n + 1 \/ grown(n) = MaxAttempts
    BY <1>5
  <2>2. rounds' = [rounds EXCEPT ![b.job] = grown(rounds[b.job])]
    BY <1>3
  <2> HIDE DEF grown
  <2>3. \A j \in Jobs : rounds'[j] = IF j = b.job THEN grown(rounds[j]) ELSE rounds[j]
    BY <1>1, <2>2 DEF Typed
  <2>4. rounds' \in [Jobs -> 0..MaxAttempts]
    <3>1. grown(rounds[b.job]) \in 0..MaxAttempts
      <4>1. rounds[b.job] \in 0..MaxAttempts
        BY <1>1, <1>4
      <4> QED BY <1>5, <4>1 DEF grown
    <3>2. rounds \in [Jobs -> 0..MaxAttempts]
      BY DEF Typed
    <3> QED BY <2>2, <3>1, <3>2, Zenon
  <2>5. \A j \in Jobs : rounds[j] <= rounds'[j]
    BY <1>4, <1>5, <2>1, <2>3
  <2> QED BY <1>1, <1>4, <2>1, <2>3, <2>4, <2>5
<1> QED BY <1>6, <1>7

\* Counts that were sound stay so when rounds only grow.
LEMMA CountedGrows ==
  ASSUME NEW n \in Nat, NEW j \in Jobs, Counted(n, j),
         rounds[j] \in 0..MaxAttempts, rounds'[j] \in 0..MaxAttempts, rounds[j] <= rounds'[j]
  PROVE  n <= rounds'[j] \/ rounds'[j] = MaxAttempts
BY OutboxAssumption DEF Counted

\* The lease is untouched and no batch is added that a timer started.
LEMMA LeaseKept ==
  ASSUME LeaseHeld, UNCHANGED <<up, ticked, lease, missed>>,
         \A q \in Procs, k \in Slots :
           batch'[q][k].job # 0 => /\ batch[q][k].job # 0
                                   /\ batch'[q][k].byTick = batch[q][k].byTick
  PROVE  LeaseHeld'
BY DEF LeaseHeld

LEMMA AbortInv ==
  ASSUME OutboxInv, NEW p \in Procs, NEW k \in Slots, Abort(p, k)
  PROVE  OutboxInv'
<1>1. Typed /\ OutcomeEarned /\ CountsOK /\ LeaseHeld
  BY DEF OutboxInv
<1>2. batch[p][k] \in Batch /\ batch[p][k].job # 0
  BY <1>1 DEF Abort, Typed
<1>3. PICK ok \in SUBSET batch[p][k].to : Answered(batch[p][k], ok)
  BY DEF Abort
<1>4. /\ acked' \in [Jobs -> SUBSET Subs]
      /\ rounds' \in [Jobs -> 0..MaxAttempts]
      /\ \A j \in Jobs : acked[j] \subseteq acked'[j]
      /\ \A j \in Jobs : rounds[j] <= rounds'[j]
  BY <1>1, <1>2, <1>3, AnsweredGhosts
<1>5. /\ batch' = [batch EXCEPT ![p][k] = Idle]
      /\ UNCHANGED <<status, attempts, due, listens, lease, up, ticked, requeues, missed>>
      /\ faults' = faults + 1
  BY DEF Abort, rows, procs
<1>6. \A q \in Procs, l \in Slots :
        batch'[q][l] = IF q = p /\ l = k THEN Idle ELSE batch[q][l]
  BY <1>1, <1>5 DEF Typed
<1>7. Typed'
  <2>1. batch' \in [Procs -> [Slots -> Batch]]
    BY <1>1, <1>5, IdleType DEF Typed
  <2> QED BY <1>1, <1>4, <1>5, <2>1 DEF Typed
<1>8. OutcomeEarned'
  <2> SUFFICES ASSUME NEW i \in Jobs
               PROVE  /\ status[i] = "DELIVERED" => acked'[i] # {}
                      /\ status[i] = "DEAD" => rounds'[i] = MaxAttempts
    BY <1>5 DEF OutcomeEarned
  <2>1. /\ status[i] = "DELIVERED" => acked[i] # {}
        /\ status[i] = "DEAD" => rounds[i] = MaxAttempts
    BY <1>1 DEF OutcomeEarned
  <2>2. rounds[i] <= rounds'[i] /\ rounds'[i] \in 0..MaxAttempts /\ acked[i] \subseteq acked'[i]
    BY <1>4
  <2> QED BY <2>1, <2>2, OutboxAssumption
<1>9. CountsOK'
  <2>1. \A i \in Jobs : /\ rounds[i] \in 0..MaxAttempts
                        /\ attempts[i] \in Nat /\ Counted(attempts[i], i)
    BY <1>1 DEF Typed, CountsOK
  <2>2. \A q \in Procs, l \in Slots, i \in Jobs :
          batch'[q][l].seen[i] \in Nat /\ Counted(batch'[q][l].seen[i], i)
    <3>1. \A q \in Procs, l \in Slots, i \in Jobs :
            batch[q][l].seen[i] \in Nat /\ Counted(batch[q][l].seen[i], i)
      BY <1>1 DEF CountsOK, Typed, Batch
    <3>2. \A i \in Jobs : Idle.seen[i] \in Nat /\ Counted(Idle.seen[i], i)
      BY <2>1 DEF Counted, Idle
    <3> QED BY <1>6, <3>1, <3>2
  <2> QED BY <1>4, <1>5, <2>1, <2>2, CountedGrows DEF CountsOK, Counted
<1>10. LeaseHeld'
  <2>1. \A q \in Procs, l \in Slots :
          batch'[q][l].job # 0 => /\ batch[q][l].job # 0
                                  /\ batch'[q][l].byTick = batch[q][l].byTick
    BY <1>6 DEF Idle
  <2> QED BY <1>1, <1>5, <2>1, LeaseKept
<1> QED BY <1>7, <1>8, <1>9, <1>10 DEF OutboxInv

LEMMA SettleInv ==
  ASSUME OutboxInv, NEW p \in Procs, NEW k \in Slots, Settle(p, k)
  PROVE  OutboxInv'
<1> DEFINE b     == batch[p][k]
           j     == b.job
           count == b.seen[j] + 1
           next  == Resumed([b EXCEPT !.spare = 1], b.queue)
           Outcome(ok) == IF OkAny(b.to, ok) THEN "DELIVERED"
                          ELSE IF GiveUp(count) THEN "DEAD" ELSE KeptForRetry(status[j])
<1>1. Typed /\ OutcomeEarned /\ CountsOK /\ LeaseHeld
  BY DEF OutboxInv
<1>2. /\ b \in Batch /\ j \in Jobs /\ j # 0 /\ count \in Nat
      /\ b.queue \subseteq Jobs
  BY <1>1 DEF Settle, Typed, Batch
<1>3. PICK ok \in SUBSET b.to :
        /\ Answered(b, ok)
        /\ due' = [due EXCEPT ![j] = @ /\ ~(~OkAny(b.to, ok) /\ ~GiveUp(count))]
        /\ Swept(Write(status, {j}, Outcome(ok)), b.queue)
  BY DEF Settle
<1>4. /\ attempts' = [attempts EXCEPT ![j] = IF status[j] # "GONE" THEN count ELSE @]
      /\ batch' = [batch EXCEPT ![p][k] = next]
      /\ UNCHANGED <<listens, lease, up, ticked, faults, requeues, missed>>
  BY DEF Settle, procs, bounds
<1>5. /\ acked' \in [Jobs -> SUBSET Subs]
      /\ rounds' \in [Jobs -> 0..MaxAttempts]
      /\ \A i \in Jobs : acked[i] \subseteq acked'[i]
      /\ ok \subseteq acked'[j]
      /\ \A i \in Jobs : rounds[i] <= rounds'[i]
      /\ rounds'[j] = rounds[j] + 1 \/ rounds'[j] = MaxAttempts
  BY <1>1, <1>2, <1>3, AnsweredGhosts
<1>6. /\ next \in Batch
      /\ next = Idle \/ (next.seen = b.seen /\ next.byTick = b.byTick)
  <2>1. /\ [b EXCEPT !.spare = 1] \in Batch
        /\ [b EXCEPT !.spare = 1].seen = b.seen
        /\ [b EXCEPT !.spare = 1].byTick = b.byTick
    BY <1>2 DEF Batch
  <2> QED BY <1>2, <2>1, ResumedBatch
<1>7. /\ Write(status, {j}, Outcome(ok)) \in [Jobs -> Statuses]
      /\ \A i \in Jobs : \/ Write(status, {j}, Outcome(ok))[i] = status[i]
                         \/ i = j /\ Write(status, {j}, Outcome(ok))[i] = Outcome(ok)
  BY <1>1, <1>2 DEF Write, Typed, KeptForRetry, Statuses
<1>8. /\ status' \in [Jobs -> Statuses]
      /\ \A i \in Jobs : \/ status'[i] \in {status[i], "SKIPPED", "GONE"}
                         \/ i = j /\ status'[i] = Outcome(ok)
  BY <1>3, <1>7, SweptRows
\* The count of this round is covered by the rounds made, this one included.
<1>9. count <= rounds'[j] \/ rounds'[j] = MaxAttempts
  <2>1. Counted(b.seen[j], j)
    BY <1>1, <1>2 DEF CountsOK
  <2>2. b.seen[j] \in Nat /\ rounds[j] \in 0..MaxAttempts /\ MaxAttempts \in Nat
    BY <1>1, <1>2, OutboxAssumption DEF Batch, Typed
  <2> QED BY <1>2, <1>5, <2>1, <2>2 DEF Counted
<1> HIDE DEF next, count, Outcome
<1>10. \A q \in Procs, l \in Slots :
         batch'[q][l] = IF q = p /\ l = k THEN next ELSE batch[q][l]
  BY <1>1, <1>4 DEF Typed
<1>11. Typed'
  <2>1. batch' \in [Procs -> [Slots -> Batch]]
    BY <1>1, <1>4, <1>6 DEF Typed
  <2>2. attempts' \in [Jobs -> Nat]
    BY <1>1, <1>2, <1>4 DEF Typed
  <2>3. due' \in [Jobs -> BOOLEAN]
    BY <1>1, <1>3 DEF Typed
  <2> QED BY <1>1, <1>4, <1>5, <1>8, <2>1, <2>2, <2>3 DEF Typed
<1>12. OutcomeEarned'
  <2> SUFFICES ASSUME NEW i \in Jobs
               PROVE  /\ status'[i] = "DELIVERED" => acked'[i] # {}
                      /\ status'[i] = "DEAD" => rounds'[i] = MaxAttempts
    BY DEF OutcomeEarned
  <2>1. CASE status'[i] \in {status[i], "SKIPPED", "GONE"}
    <3>1. /\ status[i] = "DELIVERED" => acked[i] # {}
          /\ status[i] = "DEAD" => rounds[i] = MaxAttempts
      BY <1>1 DEF OutcomeEarned
    <3>2. rounds[i] <= rounds'[i] /\ rounds'[i] \in 0..MaxAttempts /\ acked[i] \subseteq acked'[i]
      BY <1>5
    <3> QED BY <2>1, <3>1, <3>2, OutboxAssumption
  <2>2. CASE i = j /\ status'[i] = Outcome(ok)
    <3>1. CASE OkAny(b.to, ok)
      <4>1. acked'[j] # {}
        BY <1>5, <3>1 DEF OkAny
      <4> QED BY <2>2, <3>1, <4>1 DEF Outcome
    <3>2. CASE ~OkAny(b.to, ok) /\ GiveUp(count)
      <4>1. rounds'[j] = MaxAttempts
        <5>1. count \in Nat /\ rounds'[j] \in 0..MaxAttempts /\ MaxAttempts \in Nat
          BY <1>2, <1>5, OutboxAssumption
        <5>2. count >= MaxAttempts
          BY <3>2 DEF GiveUp
        <5> QED BY <1>9, <5>1, <5>2
      <4> QED BY <2>2, <3>2, <4>1 DEF Outcome
    <3>3. CASE ~OkAny(b.to, ok) /\ ~GiveUp(count)
      <4>1. status'[i] = status[i]
        BY <2>2, <3>3 DEF Outcome, KeptForRetry
      <4> QED BY <2>1, <4>1
    <3> QED BY <3>1, <3>2, <3>3
  <2> QED BY <1>8, <2>1, <2>2
<1>13. CountsOK'
  <2>1. \A i \in Jobs : /\ rounds[i] \in 0..MaxAttempts
                        /\ attempts[i] \in Nat /\ Counted(attempts[i], i)
    BY <1>1 DEF Typed, CountsOK
  <2>2. ASSUME NEW i \in Jobs
        PROVE  attempts'[i] <= rounds'[i] \/ rounds'[i] = MaxAttempts
    <3>1. attempts'[i] = attempts[i] \/ (i = j /\ attempts'[i] = count)
      BY <1>1, <1>2, <1>4 DEF Typed
    <3>2. attempts[i] <= rounds'[i] \/ rounds'[i] = MaxAttempts
      BY <1>5, <2>1, CountedGrows
    <3> QED BY <1>9, <3>1, <3>2
  <2>3. \A q \in Procs, l \in Slots, i \in Jobs :
          batch'[q][l].seen[i] \in Nat /\ Counted(batch'[q][l].seen[i], i)
    <3>1. \A q \in Procs, l \in Slots, i \in Jobs :
            batch[q][l].seen[i] \in Nat /\ Counted(batch[q][l].seen[i], i)
      BY <1>1 DEF CountsOK, Typed, Batch
    <3>2. \A i \in Jobs : Idle.seen[i] \in Nat /\ Counted(Idle.seen[i], i)
      BY <2>1 DEF Counted, Idle
    <3>3. \A i \in Jobs : next.seen[i] \in Nat /\ Counted(next.seen[i], i)
      BY <1>6, <3>1, <3>2
    <3> QED BY <1>10, <3>1, <3>3
  <2> QED BY <1>5, <2>1, <2>2, <2>3, CountedGrows DEF CountsOK, Counted
<1>14. LeaseHeld'
  <2>1. \A q \in Procs, l \in Slots :
          batch'[q][l].job # 0 => /\ batch[q][l].job # 0
                                  /\ batch'[q][l].byTick = batch[q][l].byTick
    BY <1>2, <1>6, <1>10 DEF Idle
  <2> QED BY <1>1, <1>4, <2>1, LeaseKept
<1> QED BY <1>11, <1>12, <1>13, <1>14 DEF OutboxInv
-----------------------------------------------------------------------------
LEMMA NextInv == OutboxInv /\ [Next]_vars => OutboxInv'
<1> SUFFICES ASSUME OutboxInv, [Next]_vars
             PROVE  OutboxInv'
  OBVIOUS
<1>1. ASSUME NEW p \in Procs, Tick(p) \/ Dispatch(p)
      PROVE  OutboxInv'
  BY <1>1, StartInv
<1>2. ASSUME NEW p \in Procs, NEW k \in Slots, Settle(p, k) \/ Abort(p, k)
      PROVE  OutboxInv'
  BY <1>2, SettleInv, AbortInv
<1>3. ASSUME NEW p \in Procs, MissTick(p) \/ Crash(p) \/ Restart(p)
      PROVE  OutboxInv'
  BY <1>3, FaultInv
<1>4. ASSUME NEW j \in Jobs, Emit(j) \/ Elapse(j) \/ Requeue(j)
      PROVE  OutboxInv'
  BY <1>4, RowInv
<1>5. ASSUME NEW s \in Subs, NEW events \in Configs, Configure(s, events)
      PROVE  OutboxInv'
  BY <1>5, ConfigureInv
<1>6. CASE Period \/ UNCHANGED vars
  BY <1>6, PeriodInv
<1> QED BY <1>1, <1>2, <1>3, <1>4, <1>5, <1>6 DEF Next

\* The outbox's inductive invariant.
THEOREM OutboxInvariant == Spec => []OutboxInv
<1> QED BY InitInv, NextInv, PTL DEF Spec

\* A count that may still be written stays below the attempts allowed.
AttemptsBounded ==
  /\ \A j \in Jobs : /\ attempts[j] <= MaxAttempts + requeues
                     /\ status[j] \in {"NONE", "PENDING"} => attempts[j] < MaxAttempts + requeues
  /\ \A p \in Procs, k \in Slots, j \in Jobs :
       batch[p][k].seen[j] < MaxAttempts + requeues

\* A batch that starts reads the attempts of PENDING rows only.
LEMMA StartReadsPending ==
  ASSUME Typed, AttemptsBounded, NEW p \in Procs, NEW b \in [Slots -> Batch],
         \A k \in Slots : b[k].seen = batch[p][k].seen,
         NEW byTick \in BOOLEAN, Start(p, b, byTick)
  PROVE  \A q \in Procs, k \in Slots, j \in Jobs :
           batch'[q][k].seen[j] < MaxAttempts + requeues
<1>0. MaxAttempts \in Nat \ {0} /\ requeues \in Nat /\ \A j \in Jobs : attempts[j] \in Nat
  BY OutboxAssumption DEF Typed
<1>1. \A q \in Procs \ {p} : batch'[q] = batch[q]
  BY StartBatch
<1>2. ASSUME NEW k \in Slots, NEW j \in Jobs
      PROVE  batch'[p][k].seen[j] < MaxAttempts + requeues
  <2>1. CASE DueRows = {}
    <3>1. batch'[p] = b
      BY <2>1 DEF Start, Typed
    <3> QED BY <3>1 DEF AttemptsBounded
  <2>2. CASE DueRows # {}
    <3> DEFINE fresh == [Idle EXCEPT !.seen   = [i \in Jobs |-> IF i \in DueRows THEN attempts[i] ELSE 0],
                                     !.spare  = IF byTick THEN 0 ELSE 1,
                                     !.byTick = byTick]
               f     == FreeSlot(b)
    <3>1. fresh \in Batch /\ fresh.seen[j] = IF j \in DueRows THEN attempts[j] ELSE 0
      BY <1>0 DEF Idle, Batch
    <3>2. DueRows \subseteq Jobs /\ \A i \in DueRows : status[i] = "PENDING"
      BY DEF DueRows, Lowest
    <3>3. f \in Slots
      BY <2>2 DEF Start, FreeSlot
    <3>4. batch' = [batch EXCEPT ![p] = [b EXCEPT ![f] = Resumed(fresh, DueRows)]]
      BY <2>2 DEF Start
    <3> HIDE DEF fresh, f
    <3>5. Resumed(fresh, DueRows) = Idle \/ Resumed(fresh, DueRows).seen = fresh.seen
      BY <3>1, <3>2, ResumedBatch
    <3>6. batch'[p][k] = IF k = f THEN Resumed(fresh, DueRows) ELSE b[k]
      BY <3>3, <3>4 DEF Typed
    <3>7. Idle.seen[j] = 0
      BY DEF Idle
    <3>8. fresh.seen[j] < MaxAttempts + requeues
      BY <1>0, <3>1, <3>2 DEF AttemptsBounded
    <3>9. b[k].seen[j] < MaxAttempts + requeues
      BY DEF AttemptsBounded
    <3> QED BY <1>0, <3>5, <3>6, <3>7, <3>8, <3>9
  <2> QED BY <2>1, <2>2
<1> QED BY <1>1, <1>2 DEF AttemptsBounded

\* Settling writes one more than a count that was below the limit, and
\* leaves the row PENDING only when the result is below MaxAttempts.
LEMMA SettleBounded ==
  ASSUME Typed, AttemptsBounded, NEW p \in Procs, NEW k \in Slots, Settle(p, k)
  PROVE  AttemptsBounded'
<1> DEFINE b     == batch[p][k]
           j     == b.job
           count == b.seen[j] + 1
           next  == Resumed([b EXCEPT !.spare = 1], b.queue)
           Outcome(ok) == IF OkAny(b.to, ok) THEN "DELIVERED"
                          ELSE IF GiveUp(count) THEN "DEAD" ELSE KeptForRetry(status[j])
<1>1. /\ b \in Batch /\ j \in Jobs /\ j # 0 /\ count \in Nat
      /\ b.queue \subseteq Jobs
  BY DEF Settle, Typed, Batch
<1>2. MaxAttempts \in Nat \ {0} /\ requeues \in Nat /\ \A i \in Jobs : attempts[i] \in Nat
  BY OutboxAssumption DEF Typed
<1>3. count <= MaxAttempts + requeues
  BY <1>1, <1>2 DEF AttemptsBounded, Batch
<1>4. PICK ok \in SUBSET b.to : Swept(Write(status, {j}, Outcome(ok)), b.queue)
  BY DEF Settle
<1>5. /\ attempts' = [attempts EXCEPT ![j] = IF status[j] # "GONE" THEN count ELSE @]
      /\ batch' = [batch EXCEPT ![p][k] = next]
      /\ UNCHANGED requeues
  BY DEF Settle, bounds
<1>6. next = Idle \/ next.seen = b.seen
  <2>1. [b EXCEPT !.spare = 1] \in Batch /\ [b EXCEPT !.spare = 1].seen = b.seen
    BY <1>1 DEF Batch
  <2> QED BY <1>1, <2>1, ResumedBatch
<1>7. /\ Write(status, {j}, Outcome(ok)) \in [Jobs -> Statuses]
      /\ \A i \in Jobs : Write(status, {j}, Outcome(ok))[i]
           = IF i = j /\ status[i] # "GONE" THEN Outcome(ok) ELSE status[i]
  BY <1>1 DEF Write, Typed, KeptForRetry, Statuses
<1>8. \A i \in Jobs : status'[i] \in {Write(status, {j}, Outcome(ok))[i], "SKIPPED", "GONE"}
  BY <1>4, <1>7, SweptRows
<1>9. ASSUME NEW i \in Jobs
      PROVE  /\ attempts'[i] <= MaxAttempts + requeues
             /\ status'[i] \in {"NONE", "PENDING"} => attempts'[i] < MaxAttempts + requeues
  <2>1. attempts'[i] = IF i = j /\ status[i] # "GONE" THEN count ELSE attempts[i]
    BY <1>1, <1>5 DEF Typed
  <2>2. CASE i = j /\ status[i] # "GONE"
    <3>1. ASSUME status'[i] \in {"NONE", "PENDING"} PROVE count < MaxAttempts + requeues
      <4>1. status'[i] = Outcome(ok)
        BY <1>7, <1>8, <2>2, <3>1
      <4>2. ~GiveUp(count)
        BY <3>1, <4>1
      <4> QED BY <1>1, <1>2, <4>2 DEF GiveUp
    <3> QED BY <1>3, <2>1, <2>2, <3>1
  <2>3. CASE ~(i = j /\ status[i] # "GONE")
    <3>1. status'[i] \in {status[i], "SKIPPED", "GONE"}
      BY <1>7, <1>8, <2>3
    <3> QED BY <2>1, <2>3, <3>1 DEF AttemptsBounded
  <2> QED BY <2>2, <2>3
<1>10. ASSUME NEW q \in Procs, NEW l \in Slots, NEW i \in Jobs
       PROVE  batch'[q][l].seen[i] < MaxAttempts + requeues
  <2> HIDE DEF next
  <2>1. batch'[q][l] = IF q = p /\ l = k THEN next ELSE batch[q][l]
    BY <1>5 DEF Typed
  <2>2. batch[q][l].seen[i] < MaxAttempts + requeues
    BY DEF AttemptsBounded
  <2>3. Idle.seen[i] = 0
    BY DEF Idle
  <2>4. 0 < MaxAttempts + requeues
    BY <1>2
  <2>5. CASE q = p /\ l = k
    BY <1>6, <2>1, <2>2, <2>3, <2>4, <2>5
  <2>6. CASE ~(q = p /\ l = k)
    BY <2>1, <2>2, <2>6
  <2> QED BY <2>5, <2>6
<1> HIDE DEF next, count
<1> QED BY <1>5, <1>9, <1>10 DEF AttemptsBounded

LEMMA BoundedNext == Typed /\ AttemptsBounded /\ [Next]_vars => AttemptsBounded'
<1> SUFFICES ASSUME Typed, AttemptsBounded, [Next]_vars
             PROVE  AttemptsBounded'
  OBVIOUS
<1>0. MaxAttempts \in Nat \ {0} /\ requeues \in Nat /\ \A j \in Jobs : attempts[j] \in Nat
  BY OutboxAssumption DEF Typed
<1>1. ASSUME NEW p \in Procs, Tick(p) \/ Dispatch(p) PROVE AttemptsBounded'
  <2>1. /\ batch[p] \in [Slots -> Batch] /\ Aged(p) \in [Slots -> Batch]
        /\ \A k \in Slots : Aged(p)[k].seen = batch[p][k].seen
    BY AgedBatch DEF Typed
  <2>2. UNCHANGED <<attempts, requeues>>
    BY <1>1 DEF Tick, Dispatch, bounds
  <2>3. CASE \E b \in [Slots -> Batch], byTick \in BOOLEAN :
               Start(p, b, byTick) /\ \A k \in Slots : b[k].seen = batch[p][k].seen
    <3>1. \A j \in Jobs : status'[j] \in {status[j], "SKIPPED", "GONE"}
      BY <2>3, StartBatch
    <3>2. \A q \in Procs, k \in Slots, j \in Jobs :
            batch'[q][k].seen[j] < MaxAttempts + requeues
      BY <2>3, StartReadsPending
    <3> QED BY <2>2, <3>1, <3>2 DEF AttemptsBounded
  <2>4. CASE batch' = [batch EXCEPT ![p] = Aged(p)] /\ UNCHANGED status
    <3>1. \A q \in Procs, k \in Slots : batch'[q][k].seen = batch[q][k].seen
      BY <2>1, <2>4 DEF Typed
    <3> QED BY <2>2, <2>4, <3>1 DEF AttemptsBounded
  <2> QED BY <1>1, <2>1, <2>3, <2>4 DEF Tick, Dispatch
<1>2. ASSUME NEW p \in Procs, NEW k \in Slots, Abort(p, k)
      PROVE  AttemptsBounded'
  <2>1. UNCHANGED <<status, attempts, requeues>>
    BY <1>2 DEF Abort, rows
  <2>2. \A q \in Procs, l \in Slots : batch'[q][l] \in {batch[q][l], Idle}
    BY <1>2 DEF Abort, Typed
  <2>3. \A j \in Jobs : Idle.seen[j] = 0
    BY DEF Idle
  <2> QED BY <1>0, <2>1, <2>2, <2>3 DEF AttemptsBounded
<1>3. ASSUME NEW p \in Procs, NEW k \in Slots, Settle(p, k) PROVE AttemptsBounded'
  BY <1>3, SettleBounded
<1>4. ASSUME NEW j \in Jobs, Emit(j) PROVE AttemptsBounded'
  BY <1>4 DEF Emit, bounds, AttemptsBounded, Typed
<1>5. ASSUME NEW j \in Jobs, Requeue(j) PROVE AttemptsBounded'
  BY <1>0, <1>5 DEF Requeue, AttemptsBounded, Typed, Batch
<1>6. CASE UNCHANGED <<status, attempts, batch, requeues>>
  BY <1>6 DEF AttemptsBounded
<1>7. ASSUME NEW p \in Procs, MissTick(p) \/ Restart(p)
      PROVE  UNCHANGED <<status, attempts, batch, requeues>>
  BY <1>7 DEF MissTick, Restart, rows, bounds
<1>8. ASSUME NEW j \in Jobs, Elapse(j) PROVE UNCHANGED <<status, attempts, batch, requeues>>
  BY <1>8 DEF Elapse, bounds
<1>9. ASSUME NEW s \in Subs, NEW events \in Configs, Configure(s, events)
      PROVE  UNCHANGED <<status, attempts, batch, requeues>>
  BY <1>9 DEF Configure, rows, bounds
<1>10. CASE Period \/ UNCHANGED vars
  BY <1>6, <1>10 DEF Period, vars, rows, bounds
<1>11. ASSUME NEW p \in Procs, Crash(p) PROVE AttemptsBounded'
  <2>1. UNCHANGED <<status, attempts, requeues>>
    BY <1>11 DEF Crash, rows
  <2>2. \A q \in Procs, l \in Slots : batch'[q][l] \in {batch[q][l], Idle}
    BY <1>11 DEF Crash, Typed
  <2>3. \A j \in Jobs : Idle.seen[j] = 0
    BY DEF Idle
  <2> QED BY <1>0, <2>1, <2>2, <2>3 DEF AttemptsBounded
<1> QED BY <1>1, <1>2, <1>3, <1>4, <1>5, <1>6, <1>7, <1>8, <1>9, <1>10, <1>11 DEF Next

\* The rows, leases and batches keep their types, and no row's attempts
\* outnumber MaxAttempts and the retries administrators asked for.
THEOREM OutboxTypeCorrect == Spec => []TypeOK
<1>1. Init => AttemptsBounded
  BY OutboxAssumption DEF Init, AttemptsBounded, Idle
<1>2. OutboxInv => Typed
  BY DEF OutboxInv
<1>3. Typed /\ AttemptsBounded => TypeOK
  BY DEF AttemptsBounded, TypeOK
<1> QED BY <1>1, <1>2, <1>3, BoundedNext, OutboxInvariant, PTL DEF Spec

\* However batches overlap and write over each other, a row reads DELIVERED
\* only after a 2xx answer and DEAD only after MaxAttempts rounds.
THEOREM OutcomesAreEarned == Spec => []OutcomeEarned
<1>1. OutboxInv => OutcomeEarned
  BY DEF OutboxInv
<1> QED BY <1>1, OutboxInvariant, PTL

\* As long as no timer misses a period, only the process that holds a live
\* lease runs a batch that a timer started.
THEOREM LeaseExcludes == Spec => []OneDispatcher
<1>1. OutboxInv => OneDispatcher
  <2> SUFFICES ASSUME OutboxInv, ~missed, NEW r \in Running, batch[r[1]][r[2]].byTick
               PROVE  lease.owner = r[1] /\ lease.left > 0
    BY DEF OneDispatcher
  <2>1. r[1] \in Procs /\ r[2] \in Slots /\ batch[r[1]][r[2]].job # 0
    BY DEF Running
  <2>2. lease.owner = r[1] /\ lease.left >= 1
    BY <2>1 DEF OutboxInv, LeaseHeld
  <2> QED BY <2>2 DEF OutboxInv, Typed
<1> QED BY <1>1, OutboxInvariant, PTL

\* No batch brings a delivered, skipped or deleted row back to PENDING.
THEOREM FinishedStaysFinished == Spec => FinishedIsNotRetried
<1> DEFINE Stays == \A j \in Jobs :
             status[j] \in {"DELIVERED", "SKIPPED", "GONE"} => status'[j] # "PENDING"
<1>1. OutboxInv => Typed
  BY DEF OutboxInv
<1>2. Typed /\ [Next]_vars => [Stays]_vars
  <2> SUFFICES ASSUME Typed, Next PROVE Stays
    OBVIOUS
  <2>1. ASSUME NEW p \in Procs, Tick(p) \/ Dispatch(p) PROVE Stays
    <3>1. batch[p] \in [Slots -> Batch] /\ Aged(p) \in [Slots -> Batch]
      BY AgedBatch DEF Typed
    <3>2. CASE UNCHANGED status
      BY <3>2
    <3>3. CASE \E b \in [Slots -> Batch], byTick \in BOOLEAN : Start(p, b, byTick)
      <4>1. \A j \in Jobs : status'[j] \in {status[j], "SKIPPED", "GONE"}
        BY <3>3, StartBatch
      <4> QED BY <4>1
    <3> QED BY <2>1, <3>1, <3>2, <3>3 DEF Tick, Dispatch
  <2>2. ASSUME NEW p \in Procs, NEW k \in Slots, Settle(p, k) PROVE Stays
    <3> DEFINE outcome(ok) ==
                 IF OkAny(batch[p][k].to, ok) THEN "DELIVERED"
                 ELSE IF GiveUp(batch[p][k].seen[batch[p][k].job] + 1) THEN "DEAD"
                 ELSE KeptForRetry(status[batch[p][k].job])
               st(ok) == Write(status, {batch[p][k].job}, outcome(ok))
    <3>1. PICK ok \in SUBSET batch[p][k].to : Swept(st(ok), batch[p][k].queue)
      BY <2>2 DEF Settle
    <3>2. /\ st(ok) \in [Jobs -> Statuses]
          /\ \A j \in Jobs : st(ok)[j] \in {status[j], "DELIVERED", "DEAD"}
      BY DEF Typed, Write, KeptForRetry, Statuses
    <3> HIDE DEF st
    <3>3. \A j \in Jobs : status'[j] \in {st(ok)[j], "SKIPPED", "GONE"}
      BY <3>1, <3>2, SweptRows
    <3> QED BY <3>2, <3>3
  <2>3. ASSUME NEW j \in Jobs, Emit(j) \/ Requeue(j) PROVE Stays
    BY <2>3 DEF Emit, Requeue, Typed
  <2>4. CASE UNCHANGED status
    BY <2>4
  <2>5. ASSUME NEW p \in Procs, NEW k \in Slots, Abort(p, k)
        PROVE  UNCHANGED status
    BY <2>5 DEF Abort, rows
  <2>6. ASSUME NEW p \in Procs, MissTick(p) \/ Crash(p) \/ Restart(p)
        PROVE  UNCHANGED status
    BY <2>6 DEF MissTick, Crash, Restart, rows
  <2>7. ASSUME NEW j \in Jobs, Elapse(j) PROVE UNCHANGED status
    BY <2>7 DEF Elapse
  <2>8. ASSUME NEW s \in Subs, NEW events \in Configs, Configure(s, events)
        PROVE  UNCHANGED status
    BY <2>8 DEF Configure, rows
  <2>9. CASE Period
    BY <2>4, <2>9 DEF Period, rows
  <2> QED BY <2>1, <2>2, <2>3, <2>4, <2>5, <2>6, <2>7, <2>8, <2>9 DEF Next
<1> QED BY <1>1, <1>2, OutboxInvariant, PTL DEF Spec, FinishedIsNotRetried
=============================================================================
