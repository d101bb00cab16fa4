---------------------------- MODULE Idempotency ----------------------------
(***************************************************************************)
(* Idempotency keys of the REST server (server/lib/idempotency.js): the    *)
(* map of operations in flight, the answers in memory, and the answers in  *)
(* the idempotency_keys table, which expire after TTL_HOURS.               *)
(*                                                                         *)
(* The server is one process (server.js:99-109 refuses to fork over        *)
(* SQLite).  An operation commits in the synchronous part of its function; *)
(* what it awaits afterwards (stock:release awaits cacheDel) lets other    *)
(* requests run before its answer is stored.  Once the promise settles,    *)
(* its owner and everyone who waits for it continue before any other       *)
(* request does.                                                           *)
(*                                                                         *)
(* An answer is represented by the number of the run that produced it.     *)
(* Requests without a key run unconditionally and are left out.            *)
(***************************************************************************)
EXTENDS Naturals, Sequences

CONSTANTS
  Keys,      \* keys, already namespaced by scope, tenant, org and branch
  Requests,  \* the calls a behaviour makes, each with a key
  KeyOf,     \* the key of a request
  MemCap,    \* answers kept in memory, 5000 in the code
  MaxFaults  \* bound on crashes, expiries and failed writes together

\* Assumed by the modules that instantiate this one.
KeyAssumption ==
  KeyOf \in [Requests -> Keys] /\ MemCap \in Nat \ {0} /\ MaxFaults \in Nat

VARIABLES
  req,       \* where each request is
  runs,      \* how often the operation of a key committed
  inflight,  \* the run whose promise is in the inflight map, 0 for none
  mem,       \* memFallback, in insertion order
  table,     \* idempotency_keys: the run stored and whether it is unexpired
  told,      \* the run whose answer each request got, 0 for none
  faults     \* crashes, expiries and failed writes so far

vars == <<req, runs, inflight, mem, table, told, faults>>

States == {"new", "running", "waiting", "answered", "failed"}
Entry  == [key: Keys, run: Nat \ {0}]
Row    == [run: Nat, live: BOOLEAN]

TypeOK ==
  /\ req \in [Requests -> States]
  /\ runs \in [Keys -> Nat]
  /\ inflight \in [Keys -> Nat]
  /\ mem \in Seq(Entry)
  /\ table \in [Keys -> Row]
  /\ told \in [Requests -> Nat]
  /\ faults \in Nat

Init ==
  /\ req = [r \in Requests |-> "new"]
  /\ runs = [k \in Keys |-> 0]
  /\ inflight = [k \in Keys |-> 0]
  /\ mem = <<>>
  /\ table = [k \in Keys |-> [run |-> 0, live |-> FALSE]]
  /\ told = [r \in Requests |-> 0]
  /\ faults = 0
-----------------------------------------------------------------------------
\* storedResponse: the run to replay for a key, memory before the table.
InMemory(k)   == \E i \in DOMAIN mem : mem[i].key = k
MemoryRuns(k) == {mem[i].run : i \in {j \in DOMAIN mem : mem[j].key = k}}
ExpiredToo(k) == IF table[k].run # 0 THEN {table[k].run} ELSE {}     \* mutant
TableRuns(k)  == IF table[k].live THEN {table[k].run} ELSE {}
MemoryOnly(k) == MemoryRuns(k)                                       \* mutant
Recorded(k)   == IF InMemory(k) THEN MemoryRuns(k) ELSE TableRuns(k)

\* memFallback.set and the eviction of the oldest entry over the limit.
Remember(entries, e) ==
  LET longer == Append(entries, e)
  IN IF Len(longer) > MemCap THEN Tail(longer) ELSE longer

\* The upsert: a row that is unexpired is not overwritten.
Upserted(row, run) == IF row.live THEN row ELSE [run |-> run, live |-> TRUE]

\* Who continues when the promise of k settles: its owner and those waiting.
OwnerOnly(k) == {r \in Requests : KeyOf[r] = k /\ req[r] = "running"} \* mutant
Settled(k) == {r \in Requests : KeyOf[r] = k /\ req[r] \in {"running", "waiting"}}

\* A stored answer is sent again.
Replay(r) ==
  /\ req[r] = "new"
  /\ \E n \in Recorded(KeyOf[r]) : told' = [told EXCEPT ![r] = n]
  /\ req' = [req EXCEPT ![r] = "answered"]
  /\ UNCHANGED <<runs, inflight, mem, table, faults>>

\* The operation is in flight: wait for its answer.
Join(r) ==
  /\ req[r] = "new"
  /\ Recorded(KeyOf[r]) = {}
  /\ inflight[KeyOf[r]] # 0
  /\ req' = [req EXCEPT ![r] = "waiting"]
  /\ UNCHANGED <<runs, inflight, mem, table, told, faults>>

\* A first request: the function is called.
First(r) == /\ req[r] = "new"
            /\ Recorded(KeyOf[r]) = {}
            /\ inflight[KeyOf[r]] = 0

\* ... and commits, or is refused and leaves nothing behind.
Run(r) ==
  LET k == KeyOf[r] IN
  /\ First(r)
  /\ req' = [req EXCEPT ![r] = "running"]
  /\ runs' = [runs EXCEPT ![k] = @ + 1]
  /\ inflight' = [inflight EXCEPT ![k] = runs[k] + 1]
  /\ UNCHANGED <<mem, table, told, faults>>

Refuse(r) ==
  /\ First(r)
  /\ req' = [req EXCEPT ![r] = "failed"]
  /\ UNCHANGED <<runs, inflight, mem, table, told, faults>>

\* storeResponse and the answers; the write to the table may fail.
Finish(r, written) ==
  LET k == KeyOf[r] IN
  /\ req[r] = "running"
  /\ mem' = Remember(mem, [key |-> k, run |-> inflight[k]])
  /\ IF written THEN /\ table' = [table EXCEPT ![k] = Upserted(@, inflight[k])]
                     /\ UNCHANGED faults
                ELSE /\ faults < MaxFaults /\ faults' = faults + 1
                     /\ UNCHANGED table
  /\ told' = [q \in Requests |-> IF q \in Settled(k) THEN inflight[k] ELSE told[q]]
  /\ req' = [q \in Requests |-> IF q \in Settled(k) THEN "answered" ELSE req[q]]
  /\ inflight' = [inflight EXCEPT ![k] = 0]
  /\ UNCHANGED runs

\* The process ends and is restarted: the maps and the requests are gone.
Crash ==
  /\ faults < MaxFaults
  /\ faults' = faults + 1
  /\ mem' = <<>>
  /\ inflight' = [k \in Keys |-> 0]
  /\ req' = [r \in Requests |->
               IF req[r] \in {"running", "waiting"} THEN "failed" ELSE req[r]]
  /\ UNCHANGED <<runs, table, told>>

\* expires_at of a row passes.
Expire(k) ==
  /\ faults < MaxFaults
  /\ faults' = faults + 1
  /\ table[k].live
  /\ table' = [table EXCEPT ![k].live = FALSE]
  /\ UNCHANGED <<req, runs, inflight, mem, told>>
-----------------------------------------------------------------------------
\* A call that finds an answer or a run in flight, or is refused; the answer
\* of a run; and what interrupts or outlasts it.
Handle(r) == Replay(r) \/ Join(r) \/ Refuse(r)
Return(r) == \E written \in BOOLEAN : Finish(r, written)
Fault     == Crash \/ \E k \in Keys : Expire(k)

Next == (\E r \in Requests : Run(r) \/ Handle(r) \/ Return(r)) \/ Fault

Spec == Init /\ [][Next]_vars
-----------------------------------------------------------------------------
\* A result is known while it is in flight, in memory or unexpired.
Known == {k \in Keys : inflight[k] # 0 \/ InMemory(k) \/ table[k].live}

Once == INSTANCE OnceOnly WITH known <- Known, failed <- faults > 0

(* The three copies of an answer together behave as one: an operation runs *)
(* again only when no copy of its answer is left, no copy is older than    *)
(* the last run, and until a crash, an expiry or a failed write the row    *)
(* keeps what memory evicts, so no operation runs twice.                   *)
RunsOnce == Once!Spec
=============================================================================
