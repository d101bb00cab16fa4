------------------------------ MODULE OnceOnly ------------------------------
(***************************************************************************)
(* What an idempotency key promises: "mutating requests can be retried     *)
(* after network failures without executing the mutation twice"            *)
(* (server/lib/idempotency.js:4).  The operation behind a key runs only    *)
(* while no result of it is known, and a request is told the result of the *)
(* latest run.  A result is forgotten only after something failed, so that *)
(* without a failure an operation runs at most once.                       *)
(*                                                                         *)
(* A step may concern several keys at once, so it is described key by key: *)
(* recording one result may evict another.                                 *)
(***************************************************************************)
EXTENDS Naturals

CONSTANTS
  Keys,      \* idempotency keys, scoped by route and tenant
  Requests,  \* the calls a behaviour makes
  KeyOf      \* the key each of them carries

VARIABLES
  runs,   \* how often the operation of a key was performed
  known,  \* keys whose latest result is known
  told,   \* which run's result each request was told, 0 for none yet
  failed  \* whether a crash, an expiry or a failed write has happened

once == <<runs, known, told, failed>>

Init ==
  /\ runs = [k \in Keys |-> 0]
  /\ known = {}
  /\ told = [r \in Requests |-> 0]
  /\ ~failed

\* The operation runs: nothing is known of it, and now its result is.
Performed(k) ==
  /\ k \notin known
  /\ runs'[k] = runs[k] + 1
  /\ k \in known'

\* The operation does not run: at most its result is forgotten.
Remembered(k) ==
  /\ runs'[k] = runs[k]
  /\ k \in known' => k \in known
  /\ k \in known /\ ~failed' => k \in known'

\* A request is told a result that is known.
Told(r) ==
  /\ told[r] = 0
  /\ KeyOf[r] \in known
  /\ told'[r] = runs[KeyOf[r]]

Next ==
  /\ runs' \in [Keys -> Nat] /\ told' \in [Requests -> Nat]
  /\ failed => failed'
  /\ \A k \in Keys : Performed(k) \/ Remembered(k)
  /\ \A r \in Requests : Told(r) \/ told'[r] = told[r]

Spec == Init /\ [][Next]_once
=============================================================================
