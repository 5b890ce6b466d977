----------------------------- MODULE WorkerPool -----------------------------
(***************************************************************************)
(* runPool of src/backend/src/utils/pool.js: the concurrency limiter under *)
(* every fleet operation (deployment jobs, monitor cycles, quick checks,   *)
(* program queries, readiness and provisioning sweeps).                    *)
(*                                                                         *)
(* The call starts min(limit, items.length) runners.  A runner repeats:    *)
(* test the shared index, take the item at it and increment it (no await   *)
(* between the test and the increment), then await the worker.  The        *)
(* promise of the call is Promise.all over the runners.                    *)
(***************************************************************************)
EXTENDS Integers, FiniteSets

CONSTANTS
  Lengths,        \* values of items.length the call is made with
  Concurrencies   \* values of the concurrency argument

ASSUME LengthsAssumption == Lengths \subseteq Nat
ASSUME ConcurrenciesAssumption == Concurrencies \subseteq Int

VARIABLES
  length,     \* items.length
  limit,      \* the limit of the call
  index,      \* the shared cursor: items 1..index have been taken
  at,         \* where each runner is
  holds,      \* the item a busy runner works on, the last one otherwise
  finished,   \* items whose result has been stored
  thrown,     \* items whose worker rejected
  outcome     \* the promise returned by runPool

vars == <<length, limit, index, at, holds, finished, thrown, outcome>>

AtLeastOne(c) == IF c < 1 THEN 1 ELSE c

Width(lim, len) == IF lim < len THEN lim ELSE len

Runners == 1 .. Width(limit, length)

Busy == {r \in Runners : at[r] = "busy"}

Init ==
  /\ length = 0
  /\ limit = 1
  /\ index = 0
  /\ at = [r \in 1..0 |-> "loop"]
  /\ holds = [r \in 1..0 |-> 0]
  /\ finished = {}
  /\ thrown = {}
  /\ outcome = "idle"

\* The call: the limit is at least one, and no more runners than items.
Call ==
  /\ outcome = "idle"
  /\ \E n \in Lengths, c \in Concurrencies :
       /\ length' = n
       /\ limit' = AtLeastOne(c)
       /\ at' = [r \in 1 .. Width(AtLeastOne(c), n) |-> "loop"]
       /\ holds' = [r \in 1 .. Width(AtLeastOne(c), n) |-> 0]
  /\ outcome' = "pending"
  /\ UNCHANGED <<index, finished, thrown>>

\* Faulty variant: the runners stop at the first rejection.
ClaimUnlessRejected(r) ==
  /\ outcome = "pending"
  /\ at[r] = "loop"
  /\ index < length
  /\ index' = index + 1
  /\ holds' = [holds EXCEPT ![r] = index + 1]
  /\ at' = [at EXCEPT ![r] = "busy"]
  /\ UNCHANGED <<length, limit, finished, thrown, outcome>>

\* while (index < items.length) { const i = index++; worker(items[i], i) ...
Claim(r) ==
  /\ at[r] = "loop"
  /\ index < length
  /\ index' = index + 1
  /\ holds' = [holds EXCEPT ![r] = index + 1]
  /\ at' = [at EXCEPT ![r] = "busy"]
  /\ UNCHANGED <<length, limit, finished, thrown, outcome>>

\* ... results[i] = <what the worker resolved to>; back to the loop test.
Store(r) ==
  /\ at[r] = "busy"
  /\ finished' = finished \cup {holds[r]}
  /\ at' = [at EXCEPT ![r] = "loop"]
  /\ UNCHANGED <<length, limit, index, holds, thrown, outcome>>

\* Faulty variant: the rejection of a worker is swallowed by its runner.
RejectSwallowed(r) ==
  /\ at[r] = "busy"
  /\ thrown' = thrown \cup {holds[r]}
  /\ at' = [at EXCEPT ![r] = "loop"]
  /\ UNCHANGED <<length, limit, index, holds, finished, outcome>>

\* The worker rejects: its runner ends, and Promise.all rejects with the
\* first rejection.  The other runners are not told.
Reject(r) ==
  /\ at[r] = "busy"
  /\ thrown' = thrown \cup {holds[r]}
  /\ at' = [at EXCEPT ![r] = "threw"]
  /\ outcome' = "rejected"
  /\ UNCHANGED <<length, limit, index, holds, finished>>

\* The loop test fails: the runner returns.
Leave(r) ==
  /\ at[r] = "loop"
  /\ index >= length
  /\ at' = [at EXCEPT ![r] = "returned"]
  /\ UNCHANGED <<length, limit, index, holds, finished, thrown, outcome>>

\* Faulty variant: a count of runners to wait for that never reaches zero when
\* the list is empty.
ResolveUnlessEmpty ==
  /\ Runners # {}
  /\ outcome = "pending"
  /\ \A r \in Runners : at[r] = "returned"
  /\ outcome' = "resolved"
  /\ UNCHANGED <<length, limit, index, at, holds, finished, thrown>>

\* Promise.all resolves once every runner returned (at once if there is none).
ResolveAll ==
  /\ outcome = "pending"
  /\ \A r \in Runners : at[r] = "returned"
  /\ outcome' = "resolved"
  /\ UNCHANGED <<length, limit, index, at, holds, finished, thrown>>

RunnerStep(r) == Claim(r) \/ Store(r) \/ Reject(r) \/ Leave(r)

Next ==
  \/ Call
  \/ \E r \in Runners : RunnerStep(r)
  \/ ResolveAll

Spec == Init /\ [][Next]_vars

-----------------------------------------------------------------------------

TypeOK ==
  /\ length \in Nat
  /\ limit \in Nat \ {0}
  /\ index \in Nat
  /\ at \in [Runners -> {"loop", "busy", "returned", "threw"}]
  /\ holds \in [Runners -> Nat]
  /\ finished \subseteq Nat
  /\ thrown \subseteq Nat
  /\ outcome \in {"idle", "pending", "resolved", "rejected"}

\* No item is ever given to two workers, nor given again once its worker
\* answered: the test and the increment of the shared index are one step.
NoItemTwice ==
  \A r \in Busy :
    /\ holds[r] \notin finished \cup thrown
    /\ \A s \in Busy : holds[r] = holds[s] => r = s

\* The caller's await returns normally only when every item has its result.
ResolvedMeansAllRan == outcome = "resolved" => finished = 1 .. length

\* The strengthening that makes the above inductive: what the cursor passed
\* is exactly what ended, threw or is in progress; a runner leaves only an
\* exhausted pool; and a throw is never forgotten.
IndexInv ==
  /\ index <= length
  /\ 1 .. index = finished \cup thrown \cup {holds[r] : r \in Busy}

RunnerInv ==
  /\ \A r \in Runners : at[r] = "returned" => index = length
  /\ \A r \in Runners : at[r] = "threw" => outcome = "rejected"
  /\ thrown # {} => outcome = "rejected"
  /\ finished \cap thrown = {}

OutcomeInv ==
  /\ outcome = "idle" => length = 0
  /\ outcome = "resolved" => \A r \in Runners : at[r] = "returned"

PoolInv ==
  /\ TypeOK
  /\ NoItemTwice
  /\ IndexInv
  /\ RunnerInv
  /\ OutcomeInv

\* The runners deliver what PoolContract promises.
Contract == INSTANCE PoolContract WITH
  items <- 1 .. length,
  started <- 1 .. index,
  ended <- finished,
  threw <- thrown

ImplementsContract == Contract!ContractSpec

-----------------------------------------------------------------------------
(***************************************************************************)
(* Every worker settles: the remote calls of this program all carry a      *)
(* timeout.  A runner's microtasks are then never starved.                 *)
(***************************************************************************)
RunnerIds == UNION {1 .. n : n \in Lengths}

Fairness ==
  /\ \A r \in RunnerIds : WF_vars(r \in Runners /\ RunnerStep(r))
  /\ WF_vars(ResolveAll)

FairSpec == Spec /\ Fairness

\* The caller of a pool is always answered.
AlwaysSettles == outcome = "pending" ~> outcome \in {"resolved", "rejected"}

\* A rejection does not abandon the items behind it: the surviving runners
\* take them all, although the caller has already been told.  Only when every
\* runner threw are items left.
SurvivorsDrain ==
  outcome = "rejected" ~>
    \/ index = length /\ Busy = {}
    \/ \A r \in Runners : at[r] = "threw"
=============================================================================
