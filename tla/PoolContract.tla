---------------------------- MODULE PoolContract ----------------------------
(***************************************************************************)
(* What a caller of runPool(items, concurrency, worker) is promised,       *)
(* without the way utils/pool.js delivers it.                              *)
(*                                                                         *)
(* A pool is opened once on a set of items.  Every item is started at most *)
(* once, never more than "limit" of them are in progress, and the promise  *)
(* of the pool settles at most once: "resolved" when every item ended,     *)
(* "rejected" as soon as one threw.  A rejection stops nothing: items not  *)
(* yet started may still start afterwards.  "lost" is the outcome nobody   *)
(* sees, because the process that held the promise is gone.                *)
(***************************************************************************)
EXTENDS Integers, FiniteSets

VARIABLES
  items,     \* the items the pool was opened on
  limit,     \* how many may be in progress together
  started,   \* items handed to the worker
  ended,     \* items whose worker returned
  threw,     \* items whose worker threw
  outcome    \* state of the promise

contractVars == <<items, limit, started, ended, threw, outcome>>

InProgress == started \ (ended \cup threw)

ContractInit ==
  /\ items = {}
  /\ limit = 1
  /\ started = {}
  /\ ended = {}
  /\ threw = {}
  /\ outcome = "idle"

\* The caller decides the items and the limit.
Open ==
  /\ outcome = "idle"
  /\ IsFiniteSet(items')
  /\ outcome' = "pending"
  /\ limit' \in Nat \ {0}
  /\ started' = {} /\ ended' = {} /\ threw' = {}

Start ==
  /\ outcome \in {"pending", "rejected"}
  /\ Cardinality(InProgress) < limit
  /\ \E i \in items \ started : started' = started \cup {i}
  /\ UNCHANGED <<items, limit, ended, threw, outcome>>

Finish ==
  /\ outcome \in {"pending", "rejected"}
  /\ \E i \in InProgress : ended' = ended \cup {i}
  /\ UNCHANGED <<items, limit, started, threw, outcome>>

Throw ==
  /\ outcome \in {"pending", "rejected"}
  /\ \E i \in InProgress : threw' = threw \cup {i}
  /\ outcome' = "rejected"
  /\ UNCHANGED <<items, limit, started, ended>>

Resolve ==
  /\ outcome = "pending"
  /\ ended = items
  /\ threw = {}
  /\ outcome' = "resolved"
  /\ UNCHANGED <<items, limit, started, ended, threw>>

\* The process exits, before or after the call: whatever was in progress is
\* never heard of again, and nothing starts any more.
Lose ==
  /\ outcome' = "lost"
  /\ UNCHANGED <<started, ended, threw>>

ContractNext == Open \/ Start \/ Finish \/ Throw \/ Resolve \/ Lose

ContractSpec == ContractInit /\ [][ContractNext]_contractVars
=============================================================================
