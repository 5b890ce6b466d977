--------------------------- MODULE InventoryQueue ---------------------------
(***************************************************************************)
(* The background inventory of services/vmCheckQueue.js.  A lightweight    *)
(* check that finds an endpoint online, but does not know which agent      *)
(* version it runs, queues a full inventory of it.  Inventories run in     *)
(* the background, a few at a time, from a queue in the memory of the      *)
(* process: inventoryPending, inventoryInFlight and inventoryWorkers.      *)
(*                                                                         *)
(* Code between two awaits is one action.  The awaits of a check (its      *)
(* write, whose answer is looked at later) and of an inventory (reading    *)
(* the endpoint, probing it) are where the actions interleave.             *)
(*                                                                         *)
(* Of the record of an endpoint only what needsBackgroundInventory tells   *)
(* apart is kept: "needy" (its agent version is not known), "settled"      *)
(* (known, removed, excluded or synchronised lately) and "gone" (deleted). *)
(***************************************************************************)
EXTENDS Integers, Sequences, FiniteSets

CONSTANTS
  Hosts,          \* endpoints
  MaxConcurrent,  \* INVENTORY_MAX_CONCURRENT
  MaxNoted,       \* bound: checks of one endpoint about to ask for an inventory
  MaxRestarts     \* bound: restarts of the process

ASSUME QueueAssumption ==
  /\ IsFiniteSet(Hosts)
  /\ MaxConcurrent \in Nat \ {0}
  /\ MaxNoted \in Nat
  /\ MaxRestarts \in Nat

VARIABLES
  record,    \* what the database says of each endpoint
  noted,     \* checks whose write returned an online, needy endpoint, not yet acted on
  pending,   \* inventoryPending
  inFlight,  \* inventoryInFlight
  workers,   \* inventoryWorkers
  waiting,   \* inventories of each endpoint scheduled or reading its record
  probing,   \* inventories of each endpoint whose probe is under way
  restarts

queue == <<pending, inFlight, workers>>
vars == <<record, noted, pending, inFlight, workers, waiting, probing, restarts>>

Records == {"needy", "settled", "gone"}

Init ==
  /\ record \in [Hosts -> Records]
  /\ noted = [h \in Hosts |-> 0]
  /\ pending = <<>>
  /\ inFlight = {}
  /\ workers = 0
  /\ waiting = [h \in Hosts |-> 0]
  /\ probing = [h \in Hosts |-> 0]
  /\ restarts = 0

Queued == {pending[i] : i \in 1 .. Len(pending)}
Active(h) == waiting[h] + probing[h] > 0

NeedsInventory(h) == record[h] = "needy"
Plus(f, S) == [h \in Hosts |-> IF h \in S THEN f[h] + 1 ELSE f[h]]
Minus(f, h) == [f EXCEPT ![h] = @ - 1]

-----------------------------------------------------------------------------
(* The queue. *)

(* The endpoints the loop of drainBackgroundInventory has started after n    *)
(* entries of the list q: it skips those in flight, with busy in flight      *)
(* when the loop begins.                                                     *)
Fresh(q, n, busy) == {q[i] : i \in 1 .. n} \ busy

(* How many entries the loop takes off the list: it goes on while there are  *)
(* entries and fewer than MaxConcurrent inventories, w of them before.       *)
Taken(q, busy, w) ==
  CHOOSE n \in 0 .. Len(q) :
    /\ n = Len(q) \/ w + Cardinality(Fresh(q, n, busy)) >= MaxConcurrent
    /\ \A m \in 0 .. n - 1 : w + Cardinality(Fresh(q, m, busy)) < MaxConcurrent

(* Taking the newest entry first. *)
DrainNewestFirst(q, busy, w, due) ==
  LET n == Taken(q, busy, w)
      started == {q[i] : i \in Len(q) - n + 1 .. Len(q)} \ busy
  IN /\ pending' = SubSeq(q, 1, Len(q) - n)
     /\ inFlight' = busy \cup started
     /\ workers' = w + Cardinality(started)
     /\ waiting' = Plus(due, started)

(* The number of workers is not counted up. *)
DrainUncounted(q, busy, w, due) ==
  LET n == Taken(q, busy, w)
      started == Fresh(q, n, busy)
  IN /\ pending' = SubSeq(q, n + 1, Len(q))
     /\ inFlight' = busy \cup started
     /\ workers' = w
     /\ waiting' = Plus(due, started)

(* drainBackgroundInventory, from the list q, with busy in flight, w workers *)
(* and the inventories due scheduled already: the whole loop.                *)
Drain(q, busy, w, due) ==
  LET n == Taken(q, busy, w)
      started == Fresh(q, n, busy)
  IN /\ pending' = SubSeq(q, n + 1, Len(q))
     /\ inFlight' = busy \cup started
     /\ workers' = w + Cardinality(started)
     /\ waiting' = Plus(due, started)

(* queueBackgroundInventory: one that is queued or runs is not queued again. *)
QueueInventory(h) ==
  IF h \in inFlight \/ h \in Queued
    THEN UNCHANGED <<queue, waiting>>
    ELSE Drain(Append(pending, h), inFlight, workers, waiting)

-----------------------------------------------------------------------------
(* Checks: the monitor, the import, the API and the start-up sweep call      *)
(* checkVmRecord at any time.                                                *)

(* The write of a check.  What it writes was put together from the record as *)
(* read before the probe, so it can also bring an older version back.  A     *)
(* deleted endpoint is not found, which ends the check.  When the probe      *)
(* found the endpoint online, the answer of the database says whether it is  *)
(* needy: the code after the await decides on that answer (noted).           *)
CheckWrites(h, online) ==
  /\ record[h] # "gone"
  /\ noted[h] < MaxNoted
  /\ \E r \in {"needy", "settled"} :
       /\ record' = [record EXCEPT ![h] = r]
       /\ noted' = IF online /\ r = "needy" THEN [noted EXCEPT ![h] = @ + 1] ELSE noted
  /\ UNCHANGED <<queue, waiting, probing, restarts>>

(* The rest of checkVmRecord: the answer may be out of date by now. *)
CheckReturns(h) ==
  /\ noted[h] > 0
  /\ noted' = [noted EXCEPT ![h] = @ - 1]
  /\ QueueInventory(h)
  /\ UNCHANGED <<record, probing, restarts>>

(* Imports, edits, uninstalls, synchronisation and deletion. *)
OthersWrite(h) ==
  /\ \E r \in Records \ {record[h]} : record' = [record EXCEPT ![h] = r]
  /\ UNCHANGED <<noted, queue, waiting, probing, restarts>>

-----------------------------------------------------------------------------
(* runBackgroundInventoryJob. *)

(* The endpoint stays marked in flight. *)
FinishWithoutRelease(h, due) == Drain(pending, inFlight, IF workers > 0 THEN workers - 1 ELSE 0, due)

(* Nobody looks whether another inventory is waiting. *)
FinishWithoutDrain(h, due) ==
  /\ inFlight' = inFlight \ {h}
  /\ workers' = IF workers > 0 THEN workers - 1 ELSE 0
  /\ waiting' = due
  /\ UNCHANGED pending

(* The finally block, with the inventories due left scheduled. *)
Finish(h, due) ==
  Drain(pending, inFlight \ {h}, IF workers > 0 THEN workers - 1 ELSE 0, due)

(* The endpoint is read and needs an inventory: the probe begins. *)
JobReads(h) ==
  /\ waiting[h] > 0
  /\ NeedsInventory(h)
  /\ probing' = Plus(probing, {h})
  /\ waiting' = Minus(waiting, h)
  /\ UNCHANGED <<record, noted, queue, restarts>>

(* It is deleted, or does not need one any more; or the database call fails, *)
(* whatever the record says.                                                 *)
JobGivesUp(h) ==
  /\ waiting[h] > 0
  /\ Finish(h, Minus(waiting, h))
  /\ UNCHANGED <<record, noted, probing, restarts>>

(* The probe ends: found the version, or not; the endpoint may be deleted,   *)
(* and the write may fail, which leaves the record.                          *)
JobEnds(h) ==
  /\ probing[h] > 0
  /\ probing' = Minus(probing, h)
  /\ \E r \in {record[h]} \cup (IF record[h] = "gone" THEN {} ELSE {"needy", "settled"}) :
       record' = [record EXCEPT ![h] = r]
  /\ Finish(h, waiting)
  /\ UNCHANGED <<noted, restarts>>

(* The process ends and starts again: the queue is in its memory. *)
Restart ==
  /\ restarts < MaxRestarts
  /\ restarts' = restarts + 1
  /\ noted' = [h \in Hosts |-> 0]
  /\ pending' = <<>>
  /\ inFlight' = {}
  /\ workers' = 0
  /\ waiting' = [h \in Hosts |-> 0]
  /\ probing' = [h \in Hosts |-> 0]
  /\ UNCHANGED record

-----------------------------------------------------------------------------
Next ==
  \/ \E h \in Hosts, online \in BOOLEAN : CheckWrites(h, online)
  \/ \E h \in Hosts : CheckReturns(h)
  \/ \E h \in Hosts : OthersWrite(h)
  \/ \E h \in Hosts : JobReads(h)
  \/ \E h \in Hosts : JobGivesUp(h)
  \/ \E h \in Hosts : JobEnds(h)
  \/ Restart

Spec == Init /\ [][Next]_vars

(* What the scheduling of Node.js and the timeouts of the remote calls       *)
(* justify: what is scheduled runs, database calls and probes end.           *)
JobReadsOrGivesUp(h) == JobReads(h) \/ JobGivesUp(h)

Fairness ==
  \A h \in Hosts :
    /\ WF_vars(CheckReturns(h))
    /\ WF_vars(JobReadsOrGivesUp(h))
    /\ WF_vars(JobEnds(h))

(* The monitor checks every endpoint again and again, which is online, and   *)
(* the database does not fail every time an inventory reads from it.         *)
HealthyFleet ==
  \A h \in Hosts : WF_vars(CheckWrites(h, TRUE)) /\ SF_vars(JobReads(h))

LiveSpec == Spec /\ Fairness /\ HealthyFleet

-----------------------------------------------------------------------------
(* Properties. *)

(* The type invariant. *)
TypeOK ==
  /\ record \in [Hosts -> Records]
  /\ noted \in [Hosts -> 0 .. MaxNoted]
  /\ pending \in Seq(Hosts)
  /\ inFlight \subseteq Hosts
  /\ workers \in 0 .. MaxConcurrent
  /\ waiting \in [Hosts -> Nat]
  /\ probing \in [Hosts -> Nat]
  /\ restarts \in 0 .. MaxRestarts

(* The set, the list and the counter say the same of the inventories that    *)
(* exist: one per endpoint in flight, counted once, none queued as well, and *)
(* the list has no duplicates.                                               *)
BooksAgree ==
  /\ inFlight = {h \in Hosts : Active(h)}
  /\ workers = Cardinality(inFlight)
  /\ inFlight \cap Queued = {}
  /\ \A i, j \in 1 .. Len(pending) : pending[i] = pending[j] => i = j

(* An endpoint has at most one inventory at a time (inventoryInFlight),      *)
(* however many checks ask for one, before and while it runs.                *)
OneJobPerHost == \A h \in Hosts : waiting[h] + probing[h] <= 1

(* "Deferred full agent inventory - bounded concurrency": the inventories    *)
(* that exist, in whatever stage, are never more than MaxConcurrent.         *)
AtMostLimit == Cardinality({h \in Hosts : Active(h)}) <= MaxConcurrent

(* Nothing waits in the list while an inventory could start: whoever ends    *)
(* (also by an exception) looks at the list, and nothing else would.         *)
NoIdleWorker == pending # <<>> => workers = MaxConcurrent

(* The inductive invariant.                                                  *)
QueueInv == TypeOK /\ BooksAgree /\ OneJobPerHost /\ NoIdleWorker

(* No endpoint overtakes: one leaves the list only when all before it do,    *)
(* and unless the process ends an endpoint leaves the list only to be        *)
(* inventoried.                                                              *)
FirstComeFirstServed ==
  [][restarts' = restarts =>
       \A j \in 1 .. Len(pending) :
         pending[j] \notin Queued' =>
           /\ waiting'[pending[j]] + probing'[pending[j]] > 0
           /\ \A i \in 1 .. j : pending[i] \notin Queued']_vars

(* Once the process stays up, what is queued gets its inventory.             *)
QueuedIsStarted ==
  \A h \in Hosts : (h \in Queued /\ restarts = MaxRestarts) ~> Active(h)

(* An endpoint without a known version that checks go on finding online is   *)
(* probed again and again until the version is known (or others settle it):  *)
(* neither a request dropped while an older inventory runs, nor a restart,   *)
(* nor a stale answer leaves it out for good.                                *)
NeedyIsProbed ==
  \A h \in Hosts : []<>~NeedsInventory(h) \/ []<>(probing[h] > 0)
=============================================================================
