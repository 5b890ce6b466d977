------------------------- MODULE DeploymentJobProofs -------------------------
(***************************************************************************)
(* DeploymentJob, for every fleet, every set of jobs and requests, every   *)
(* concurrency and any number of failed calls and restarts.                *)
(***************************************************************************)
EXTENDS DeploymentJob, FiniteSetTheorems, TLAPS

LEMMA TargetsAreEndpoints ==
  ASSUME TypeOK, NEW j \in Jobs
  PROVE  /\ Targets(j) \in SUBSET Endpoints
         /\ IsFiniteSet(Targets(j))
         /\ Total(j) \in Nat
<1>1. body[j] \in Requests \cup {NoBody}
  BY DEF TypeOK
<1>2. Targets(j) \in SUBSET Endpoints
  BY <1>1 DEF Targets, Requests, NoBody
<1>. QED
  BY <1>2, FleetAssumption, FS_Subset, FS_CardinalityType DEF Total

\* Counting one more under any of the four names leaves counters.
LEMMA CountOneMore ==
  ASSUME NEW c \in Counters, NEW v \in {"success", "failed", "skipped", "cancelled"}
  PROVE  [c EXCEPT ![v] = @ + 1] \in Counters
<1>1. CASE v = "success"
  BY <1>1 DEF Counters
<1>2. CASE v = "failed"
  BY <1>2 DEF Counters
<1>3. CASE v = "skipped"
  BY <1>3 DEF Counters
<1>4. CASE v = "cancelled"
  BY <1>4 DEF Counters
<1>. QED
  BY <1>1, <1>2, <1>3, <1>4

\* Updating one entry of a two-level function, or adding to one of its sets.
LEMMA UpdateEntry ==
  ASSUME NEW S, NEW T, NEW V, NEW f \in [S -> [T -> V]], NEW x \in S, NEW y \in T,
         NEW v \in V
  PROVE  [f EXCEPT ![x][y] = v] \in [S -> [T -> V]]
OBVIOUS

LEMMA AddToEntry ==
  ASSUME NEW S, NEW V, NEW f \in [S -> SUBSET V], NEW x \in S, NEW v \in V
  PROVE  [f EXCEPT ![x] = @ \cup {v}] \in [S -> SUBSET V]
OBVIOUS

LEMMA RemoveFromEntry ==
  ASSUME NEW S, NEW V, NEW f \in [S -> SUBSET V], NEW x \in S, NEW v
  PROVE  [f EXCEPT ![x] = @ \ {v}] \in [S -> SUBSET V]
OBVIOUS

-----------------------------------------------------------------------------
(* Type correctness.                                                       *)

LEMMA InitTypeOK == Init => TypeOK
<1>1. Zero \in Counters
  BY DEF Zero, Counters
<1>2. Nothing \in [done : Nat, stats : Counters]
  BY <1>1 DEF Nothing
<1>. QED
  BY <1>1, <1>2 DEF Init, TypeOK, Statuses, ResultStatuses, RunPlaces, WorkerPlaces,
     Verdicts

LEMMA RequestTypeOK ==
  ASSUME TypeOK, NEW j \in Jobs, NEW b \in Requests, Request(j, b)
  PROVE  TypeOK'
BY DEF TypeOK, Request, RunPlaces, jobDoc, tallyVars, cancelVars

LEMMA SubmitTypeOK ==
  ASSUME TypeOK, NEW j \in Jobs, Submit(j)
  PROVE  TypeOK'
BY RequestTypeOK, FleetAssumption DEF Submit

LEMMA RetryTypeOK ==
  ASSUME TypeOK, NEW j \in Jobs, NEW k \in Jobs, RetryFailed(j, k)
  PROVE  TypeOK'
<1> DEFINE b == [body[j] EXCEPT !.parent = j,
                                !.endpoints = FailedResults(j),
                                !.confirmed = (body[j].environment = "prod")]
<1>1. FailedResults(j) \in (SUBSET Endpoints) \ {{}}
  <2>1. FailedResults(j) # {}
    BY DEF RetryFailed
  <2>2. FailedResults(j) \subseteq Endpoints
    BY TargetsAreEndpoints DEF FailedResults
  <2>. QED
    BY <2>1, <2>2
<1>2. body[j] \in Requests
  BY DEF TypeOK, RetryFailed, FailedResults, Targets, NoBody
<1>3. b \in Requests
  BY <1>1, <1>2 DEF Requests
<1>. QED
  BY <1>3, RequestTypeOK DEF RetryFailed

LEMMA CreationTypeOK ==
  ASSUME TypeOK, NEW j \in Jobs, InsertJob(j) \/ Schedule(j)
  PROVE  TypeOK'
<1>1. CASE InsertJob(j)
  <2>1. results' \in [Jobs -> [Endpoints -> ResultStatuses]]
    BY <1>1 DEF TypeOK, InsertJob, ResultStatuses
  <2>2. worker' \in [Jobs -> [Endpoints -> WorkerPlaces]]
    BY <1>1 DEF TypeOK, InsertJob, WorkerPlaces
  <2>. QED
    BY <1>1, <2>1, <2>2 DEF TypeOK, InsertJob, RunPlaces, Statuses, tallyVars,
       cancelVars
<1>2. CASE Schedule(j)
  BY <1>2 DEF TypeOK, Schedule, RunPlaces, jobDoc, tallyVars, cancelVars
<1>. QED
  BY <1>1, <1>2

LEMMA RunStartTypeOK ==
  ASSUME TypeOK, NEW j \in Jobs, StartRun(j) \/ LoadJob(j) \/ MarkRunning(j)
  PROVE  TypeOK'
BY DEF TypeOK, StartRun, LoadJob, MarkRunning, RunPlaces, Statuses, jobDoc,
   tallyVars, cancelVars

LEMMA OpenPoolTypeOK ==
  ASSUME TypeOK, NEW j \in Jobs, OpenPool(j)
  PROVE  TypeOK'
<1>1. Total(j) \in Nat
  BY TargetsAreEndpoints
<1>2. Concurrency(body[j].environment) \in Nat
  BY BoundsAssumption DEF Concurrency
<1>. QED
  BY <1>1, <1>2 DEF TypeOK, OpenPool, RunPlaces, jobDoc, tallyVars, cancelVars

LEMMA RunEndTypeOK ==
  ASSUME TypeOK, NEW j \in Jobs, LeavePool(j) \/ WriteFinal(j) \/ WriteFailed(j)
  PROVE  TypeOK'
<1>1. Total(j) \in Nat
  BY TargetsAreEndpoints
<1>2. FinalStatus(stats[j]) \in Statuses
  BY DEF FinalStatus, Statuses, Terminal
<1>3. CASE LeavePool(j)
  BY <1>3 DEF TypeOK, LeavePool, RunPlaces, jobDoc, tallyVars, cancelVars
<1>4. CASE WriteFinal(j)
  BY <1>1, <1>2, <1>4 DEF TypeOK, WriteFinal, RunPlaces, tallyVars, cancelVars
<1>5. CASE WriteFailed(j)
  BY <1>1, <1>5 DEF TypeOK, WriteFailed, RunPlaces, Statuses, Terminal, tallyVars,
     cancelVars
<1>. QED
  BY <1>3, <1>4, <1>5

LEMMA ClaimTypeOK ==
  ASSUME TypeOK, NEW j \in Jobs, NEW e \in Endpoints, Claim(j, e)
  PROVE  TypeOK'
<1>1. stats' \in [Jobs -> Counters]
  <2>1. [stats[j] EXCEPT !["cancelled"] = @ + 1] \in Counters
    BY CountOneMore DEF TypeOK
  <2>2. stats \in [Jobs -> Counters]
    BY DEF TypeOK
  <2>3. \/ stats' = stats
        \/ stats' = [stats EXCEPT ![j] = [stats[j] EXCEPT !["cancelled"] = @ + 1]]
    BY <2>2 DEF Claim
  <2>. QED
    BY <2>1, <2>2, <2>3
<1>2. worker' \in [Jobs -> [Endpoints -> WorkerPlaces]]
  <2>1. PICK p \in WorkerPlaces : worker' = [worker EXCEPT ![j][e] = p]
    BY DEF Claim, WorkerPlaces
  <2>. QED
    BY <2>1, UpdateEntry DEF TypeOK
<1>3. idle' \in [Jobs -> Nat]
  BY DEF TypeOK, Claim
<1>. QED
  BY <1>1, <1>2, <1>3 DEF TypeOK, Claim, jobDoc, runVars, cancelVars

LEMMA RecordTypeOK ==
  ASSUME TypeOK, NEW j \in Jobs, NEW e \in Endpoints,
         RecordCancelled(j, e) \/ RecordConnecting(j, e)
  PROVE  TypeOK'
<1>1. results' \in [Jobs -> [Endpoints -> ResultStatuses]]
  <2>1. PICK s \in ResultStatuses : results' = [results EXCEPT ![j][e] = s]
    BY DEF RecordCancelled, RecordConnecting, ResultStatuses
  <2>. QED
    BY <2>1, UpdateEntry DEF TypeOK
<1>2. worker' \in [Jobs -> [Endpoints -> WorkerPlaces]]
  <2>1. PICK p \in WorkerPlaces : worker' = [worker EXCEPT ![j][e] = p]
    BY DEF RecordCancelled, RecordConnecting, WorkerPlaces
  <2>. QED
    BY <2>1, UpdateEntry DEF TypeOK
<1>3. CASE RecordCancelled(j, e)
  BY <1>1, <1>2, <1>3 DEF TypeOK, RecordCancelled, jobDoc, runVars, cancelVars
<1>4. CASE RecordConnecting(j, e)
  BY <1>1, <1>2, <1>4 DEF TypeOK, RecordConnecting, jobDoc, runVars, tallyVars,
     cancelVars
<1>. QED
  BY <1>3, <1>4

LEMMA StepTypeOK ==
  ASSUME TypeOK, NEW j \in Jobs, NEW e \in Endpoints,
         ReportStep(j, e) \/ LandStep(j, e)
  PROVE  TypeOK'
<1>1. steps \in [Jobs -> SUBSET (Endpoints \X Steps)]
  BY DEF TypeOK
<1>2. CASE ReportStep(j, e)
  <2>1. <<e, "step">> \in Endpoints \X Steps
    BY DEF Steps
  <2>2. steps' = [steps EXCEPT ![j] = @ \cup {<<e, "step">>}]
    BY <1>2 DEF ReportStep
  <2>3. steps' \in [Jobs -> SUBSET (Endpoints \X Steps)]
    BY <1>1, <2>1, <2>2, AddToEntry
  <2>. QED
    BY <1>2, <2>3 DEF TypeOK, ReportStep, jobDoc, runVars, tallyVars, cancelVars
<1>3. CASE LandStep(j, e)
  <2>1. PICK s \in Steps :
          /\ steps' = [steps EXCEPT ![j] = @ \ {<<e, s>>}]
          /\ results' = [results EXCEPT ![j][e] = s]
    BY <1>3 DEF LandStep
  <2>2. steps' \in [Jobs -> SUBSET (Endpoints \X Steps)]
    BY <1>1, <2>1, RemoveFromEntry
  <2>3. results' \in [Jobs -> [Endpoints -> ResultStatuses]]
    BY <2>1, UpdateEntry DEF TypeOK, ResultStatuses
  <2>. QED
    BY <1>3, <2>2, <2>3 DEF TypeOK, LandStep, jobDoc, runVars, tallyVars, cancelVars
<1>. QED
  BY <1>2, <1>3

LEMMA ConcludeTypeOK ==
  ASSUME TypeOK, NEW j \in Jobs, NEW e \in Endpoints, Conclude(j, e)
  PROVE  TypeOK'
<1>1. PICK v \in Verdicts \ {"unknown"} :
        /\ verdict' = [verdict EXCEPT ![j][e] = v]
        /\ stats' = [stats EXCEPT ![j][v] = @ + 1]
        /\ \/ UNCHANGED steps
           \/ steps' = [steps EXCEPT ![j] = @ \cup {<<e, LastStep(v)>>}]
  BY DEF Conclude
<1>2. [stats[j] EXCEPT ![v] = @ + 1] \in Counters
  BY CountOneMore DEF TypeOK, Verdicts
<1>3. stats' \in [Jobs -> Counters]
  BY <1>1, <1>2 DEF TypeOK
<1>4. steps' \in [Jobs -> SUBSET (Endpoints \X Steps)]
  <2>1. <<e, LastStep(v)>> \in Endpoints \X Steps
    BY DEF Steps, LastStep
  <2>2. steps \in [Jobs -> SUBSET (Endpoints \X Steps)]
    BY DEF TypeOK
  <2>3. CASE UNCHANGED steps
    BY <2>2, <2>3
  <2>4. CASE steps' = [steps EXCEPT ![j] = @ \cup {<<e, LastStep(v)>>}]
    BY <2>1, <2>2, <2>4, AddToEntry
  <2>. QED
    BY <1>1, <2>3, <2>4
<1>. QED
  BY <1>1, <1>3, <1>4 DEF TypeOK, Conclude, WorkerPlaces, Verdicts, jobDoc, runVars,
     cancelVars

LEMMA IssueTypes ==
  ASSUME TypeOK, NEW j \in Jobs, NEW e \in Endpoints, IssueProgress(j, e)
  PROVE  /\ worker' \in [Jobs -> [Endpoints -> WorkerPlaces]]
         /\ done' \in [Jobs -> Nat]
         /\ sent' \in [Jobs -> [Endpoints -> [done : Nat, stats : Counters]]]
         /\ UNCHANGED <<verdict, stats>>
<1>1. [done |-> done[j] + 1, stats |-> stats[j]] \in [done : Nat, stats : Counters]
  BY DEF TypeOK
<1>. QED
  BY <1>1 DEF TypeOK, IssueProgress, WorkerPlaces

LEMMA RecordResultTypeOK ==
  ASSUME TypeOK, VerdictInv, NEW j \in Jobs, NEW e \in Endpoints, RecordResult(j, e)
  PROVE  TypeOK'
<1>1. /\ worker' \in [Jobs -> [Endpoints -> WorkerPlaces]]
      /\ done' \in [Jobs -> Nat]
      /\ sent' \in [Jobs -> [Endpoints -> [done : Nat, stats : Counters]]]
      /\ UNCHANGED <<verdict, stats>>
  <2>1. CASE IssueProgress(j, e)
    BY <2>1, IssueTypes
  <2>2. CASE worker' = [worker EXCEPT ![j][e] = "marking"] /\ UNCHANGED tallyVars
    BY <2>2 DEF TypeOK, WorkerPlaces, tallyVars
  <2>. QED
    BY <2>1, <2>2 DEF RecordResult
<1>2. results' \in [Jobs -> [Endpoints -> ResultStatuses]]
  <2>1. verdict[j][e] \in {"success", "failed", "skipped"}
    BY DEF TypeOK, VerdictInv, RecordResult, Verdicts
  <2>2. ResultOf(verdict[j][e]) \in ResultStatuses
    BY <2>1 DEF ResultOf, ResultStatuses, Steps
  <2>. QED
    BY <2>2 DEF TypeOK, RecordResult
<1>. QED
  BY <1>1, <1>2 DEF TypeOK, RecordResult, jobDoc, runVars, cancelVars

LEMMA MarkRemovedTypeOK ==
  ASSUME TypeOK, NEW j \in Jobs, NEW e \in Endpoints, MarkRemoved(j, e)
  PROVE  TypeOK'
<1>1. IssueProgress(j, e)
  BY DEF MarkRemoved
<1>. QED
  BY <1>1, IssueTypes DEF TypeOK, MarkRemoved, jobDoc, runVars, cancelVars

LEMMA WriteProgressTypeOK ==
  ASSUME TypeOK, NEW j \in Jobs, NEW e \in Endpoints, WriteProgress(j, e)
  PROVE  TypeOK'
<1>1. Nothing \in [done : Nat, stats : Counters]
  BY DEF Nothing, Zero, Counters
<1>2. /\ sent[j][e].done \in Nat
      /\ sent[j][e].stats \in Counters
  BY DEF TypeOK
<1>. QED
  BY <1>1, <1>2 DEF TypeOK, WriteProgress, WorkerPlaces, runVars, cancelVars

LEMMA CancelTypeOK ==
  ASSUME TypeOK, NEW j \in Jobs, AcceptCancel(j) \/ SaveCancelled(j)
  PROVE  TypeOK'
<1>1. {e \in Targets(j) : worker[j][e] = "queued"} \in SUBSET Endpoints
  BY TargetsAreEndpoints
<1>2. CASE AcceptCancel(j)
  BY <1>1, <1>2 DEF TypeOK, AcceptCancel, jobDoc, runVars, tallyVars
<1>3. CASE SaveCancelled(j)
  BY <1>3 DEF TypeOK, SaveCancelled, Statuses, Terminal, runVars, tallyVars
<1>. QED
  BY <1>2, <1>3

LEMMA ErrorsTypeOK ==
  ASSUME TypeOK, NEW j \in Jobs, Errors(j)
  PROVE  TypeOK'
<1>1. faults' \in Nat
  BY DEF Errors, TypeOK, Fault, CreateError, RunError, FailedWriteError, CancelError,
     WorkerError, StepError
<1>2. CASE CreateError(j) \/ RunError(j) \/ FailedWriteError(j) \/ CancelError(j)
  BY <1>1, <1>2 DEF TypeOK, CreateError, RunError, FailedWriteError, CancelError,
     RunPlaces, jobDoc, runVars, tallyVars, cancelVars
<1>3. ASSUME NEW e \in Endpoints, WorkerError(j, e)
      PROVE  TypeOK'
  BY <1>1, <1>3 DEF TypeOK, WorkerError, RunPlaces, WorkerPlaces, jobDoc, tallyVars,
     cancelVars
<1>4. ASSUME NEW e \in Endpoints, StepError(j, e)
      PROVE  TypeOK'
  BY <1>1, <1>4 DEF TypeOK, StepError, jobDoc, runVars, tallyVars, cancelVars
<1>. QED
  BY <1>2, <1>3, <1>4 DEF Errors

LEMMA RestartTypeOK ==
  ASSUME TypeOK, Restart
  PROVE  TypeOK'
BY DEF TypeOK, Restart, RunPlaces, WorkerPlaces, jobDoc, tallyVars

LEMMA StutterTypeOK ==
  ASSUME TypeOK, UNCHANGED vars
  PROVE  TypeOK'
BY DEF TypeOK, vars

-----------------------------------------------------------------------------
(***************************************************************************)
(* What one step does to a run and to a worker, whichever action it is:    *)
(* the invariants follow from these.                                       *)
(***************************************************************************)

SameStatus(k) == status'[k] = status[k]

RunMoves(k) ==
  \/ run'[k] = run[k] /\ SameStatus(k)
  \/ run'[k] = run[k] /\ status'[k] = "cancelled" /\ k \in cancelling
  \/ run[k] = "unborn" /\ run'[k] = "creating" /\ SameStatus(k)
  \/ run[k] = "creating" /\ run'[k] = "logging" /\ status'[k] = "pending"
  \/ /\ run[k] \in {"logging", "scheduled", "loading", "package"}
     /\ run'[k] \in {"scheduled", "loading", "starting", "pool"}
     /\ SameStatus(k)
  \/ run[k] = "starting" /\ run'[k] = "package" /\ status'[k] = "running"
  \/ /\ run[k] = "pool" /\ run'[k] = "closing"
     /\ \A e \in Targets(k) : worker[k][e] = "returned"
     /\ UNCHANGED <<worker, body>> /\ SameStatus(k)
  \/ run[k] = "closing" /\ run'[k] = "settled" /\ status'[k] \in {"completed", "failed"}
  \/ run[k] = "failing" /\ run'[k] = "aborted" /\ status'[k] = "failed"
  \/ /\ run[k] = "failing" /\ run'[k] = "aborted"
     /\ SameStatus(k) /\ faults' = faults + 1
  \/ run[k] \in {"creating", "logging"} /\ run'[k] = "dropped" /\ SameStatus(k)
  \/ /\ run[k] \in {"loading", "starting", "package", "pool", "closing"}
     /\ run'[k] = "failing"
     /\ SameStatus(k) /\ faults' = faults + 1
  \/ /\ run[k] \notin {"unborn", "settled", "aborted", "dropped"}
     /\ run'[k] = "lost" /\ SameStatus(k)

\* "To" is where the worker of f goes, with its verdict unchanged.
To(k, f, place) == worker'[k][f] = place /\ verdict'[k][f] = verdict[k][f]

WorkerMoves(k, f) ==
  \/ To(k, f, worker[k][f])
  \/ /\ run[k] = "creating" /\ run'[k] = "logging"
     /\ IF f \in Targets(k) THEN To(k, f, "queued") ELSE To(k, f, "none")
  \/ worker[k][f] = "queued" /\ To(k, f, "cancelling")
  \/ worker[k][f] = "queued" /\ k \notin cancelFlags' /\ To(k, f, "connecting")
  \/ worker[k][f] = "cancelling" /\ To(k, f, "returned")
  \/ worker[k][f] = "connecting" /\ To(k, f, "remote")
  \/ /\ worker[k][f] = "remote" /\ worker'[k][f] = "recording"
     /\ verdict'[k][f] \in {"success", "failed", "skipped"}
  \/ worker[k][f] = "recording" /\ MarksRemoval(k, f) /\ To(k, f, "marking")
  \/ worker[k][f] = "recording" /\ ~ MarksRemoval(k, f) /\ To(k, f, "reporting")
  \/ worker[k][f] = "marking" /\ agentStatus'[f] = "removed" /\ To(k, f, "reporting")
  \/ worker[k][f] = "reporting" /\ To(k, f, "returned")
  \/ worker[k][f] \in InFlight /\ To(k, f, "threw")
  \/ worker[k][f] \in InFlight /\ To(k, f, "lost")

\* The document a run works from, and what is never taken back.
DocumentMoves(k) ==
  /\ body'[k] = body[k] \/ run[k] = "unborn"
  /\ \A f \in Endpoints : agentStatus[f] = "removed" => agentStatus'[f] = "removed"
  /\ faults' \in {faults, faults + 1}

Moves(k) ==
  /\ RunMoves(k)
  /\ \A f \in Endpoints : WorkerMoves(k, f)
  /\ DocumentMoves(k)

\* Actions that leave the workers alone.
LEMMA RunStepMoves ==
  ASSUME TypeOK, NEW j \in Jobs, NEW k \in Jobs,
         \/ Schedule(j) \/ StartRun(j) \/ LoadJob(j) \/ MarkRunning(j)
         \/ OpenPool(j) \/ LeavePool(j) \/ WriteFinal(j) \/ WriteFailed(j)
  PROVE  Moves(k)
<1>1. UNCHANGED <<worker, verdict, body, agentStatus, faults>>
  BY DEF Schedule, StartRun, LoadJob, MarkRunning, OpenPool, LeavePool, WriteFinal,
     WriteFailed, tallyVars
<1>2. (\A f \in Endpoints : WorkerMoves(k, f)) /\ DocumentMoves(k)
  BY <1>1 DEF WorkerMoves, To, DocumentMoves
<1>3. run \in [Jobs -> RunPlaces] /\ status \in [Jobs -> Statuses]
  BY DEF TypeOK
<1>4. RunMoves(k)
  <2>1. CASE Schedule(j) \/ StartRun(j) \/ LoadJob(j) \/ OpenPool(j)
    <3>1. /\ run[j] \in {"logging", "scheduled", "loading", "package"}
          /\ \E p \in {"scheduled", "loading", "starting", "pool"} :
               run' = [run EXCEPT ![j] = p]
          /\ status' = status
      BY <2>1 DEF Schedule, StartRun, LoadJob, OpenPool, jobDoc
    <3>. QED
      BY <1>3, <3>1 DEF RunMoves, SameStatus
  <2>2. CASE MarkRunning(j)
    BY <1>3, <2>2 DEF RunMoves, SameStatus, MarkRunning
  <2>3. CASE LeavePool(j)
    BY <1>1, <1>3, <2>3 DEF RunMoves, SameStatus, LeavePool, jobDoc
  <2>4. CASE WriteFinal(j)
    BY <1>3, <2>4 DEF RunMoves, SameStatus, WriteFinal, FinalStatus
  <2>5. CASE WriteFailed(j)
    BY <1>3, <2>5 DEF RunMoves, SameStatus, WriteFailed
  <2>. QED
    BY <2>1, <2>2, <2>3, <2>4, <2>5
<1>. QED
  BY <1>2, <1>4 DEF Moves

\* Creating a job, by request or retry.
LEMMA RequestMoves ==
  ASSUME TypeOK, NEW j \in Jobs, NEW b, Request(j, b), NEW k \in Jobs
  PROVE  Moves(k)
<1>1. /\ UNCHANGED <<worker, verdict, agentStatus, faults, status>>
      /\ run[j] = "unborn"
      /\ run' = [run EXCEPT ![j] = "creating"]
      /\ body' = [body EXCEPT ![j] = b]
  BY DEF Request, tallyVars, jobDoc
<1>2. run \in [Jobs -> RunPlaces] /\ DOMAIN body = Jobs
  BY DEF TypeOK
<1>3. RunMoves(k)
  BY <1>1, <1>2 DEF RunMoves, SameStatus
<1>4. (\A f \in Endpoints : WorkerMoves(k, f)) /\ DocumentMoves(k)
  BY <1>1, <1>2 DEF WorkerMoves, To, DocumentMoves
<1>. QED
  BY <1>3, <1>4 DEF Moves

LEMMA InsertMoves ==
  ASSUME TypeOK, NEW j \in Jobs, InsertJob(j), NEW k \in Jobs
  PROVE  Moves(k)
<1>1. /\ UNCHANGED <<body, verdict, agentStatus, faults>>
      /\ run[j] = "creating"
      /\ run' = [run EXCEPT ![j] = "logging"]
      /\ status' = [status EXCEPT ![j] = "pending"]
      /\ worker' = [worker EXCEPT ![j] =
           [e \in Endpoints |-> IF e \in Targets(j) THEN "queued" ELSE "none"]]
  BY DEF InsertJob, tallyVars
<1>2. /\ run \in [Jobs -> RunPlaces] /\ status \in [Jobs -> Statuses]
      /\ DOMAIN worker = Jobs
  BY DEF TypeOK
<1>3. RunMoves(k)
  BY <1>1, <1>2 DEF RunMoves, SameStatus
<1>4. ASSUME NEW f \in Endpoints PROVE WorkerMoves(k, f)
  BY <1>1, <1>2 DEF WorkerMoves, To
<1>5. DocumentMoves(k)
  BY <1>1 DEF DocumentMoves
<1>. QED
  BY <1>3, <1>4, <1>5 DEF Moves

LEMMA CancelMoves ==
  ASSUME TypeOK, NEW j \in Jobs, AcceptCancel(j) \/ SaveCancelled(j), NEW k \in Jobs
  PROVE  Moves(k)
<1>1. /\ UNCHANGED <<body, worker, verdict, agentStatus, faults, run>>
      /\ \/ UNCHANGED status
         \/ j \in cancelling /\ status' = [status EXCEPT ![j] = "cancelled"]
  BY DEF AcceptCancel, SaveCancelled, tallyVars, jobDoc, runVars
<1>2. status \in [Jobs -> Statuses]
  BY DEF TypeOK
<1>3. RunMoves(k)
  BY <1>1, <1>2 DEF RunMoves, SameStatus
<1>4. (\A f \in Endpoints : WorkerMoves(k, f)) /\ DocumentMoves(k)
  BY <1>1 DEF WorkerMoves, To, DocumentMoves
<1>. QED
  BY <1>3, <1>4 DEF Moves

LEMMA StepMoves ==
  ASSUME TypeOK, NEW j \in Jobs, NEW e \in Endpoints, NEW k \in Jobs,
         ReportStep(j, e) \/ LandStep(j, e)
  PROVE  Moves(k)
<1>1. UNCHANGED <<body, worker, verdict, agentStatus, faults, run, status>>
  BY DEF ReportStep, LandStep, tallyVars, jobDoc, runVars
<1>. QED
  BY <1>1 DEF Moves, RunMoves, SameStatus, WorkerMoves, To, DocumentMoves

\* The steps of one worker: the run and the other workers are left alone.
LEMMA WorkerStepMoves ==
  ASSUME TypeOK, NEW j \in Jobs, NEW e \in Endpoints, NEW k \in Jobs, WorkerStep(j, e)
  PROVE  Moves(k)
<1>1. UNCHANGED <<body, faults, run, status>>
  BY DEF WorkerStep, Claim, RecordCancelled, RecordConnecting, Conclude, RecordResult,
     MarkRemoved, WriteProgress, jobDoc, runVars
<1>2. RunMoves(k)
  BY <1>1 DEF RunMoves, SameStatus
<1>3. /\ worker \in [Jobs -> [Endpoints -> WorkerPlaces]]
      /\ verdict \in [Jobs -> [Endpoints -> Verdicts]]
      /\ agentStatus \in [Endpoints -> {"active", "removed"}]
  BY DEF TypeOK
<1>4. DocumentMoves(k)
  BY <1>1, <1>3 DEF DocumentMoves, WorkerStep, Claim, RecordCancelled, RecordConnecting,
     Conclude, RecordResult, MarkRemoved, WriteProgress
<1>5. ASSUME NEW f \in Endpoints PROVE WorkerMoves(k, f)
  <2>1. CASE Claim(j, e)
    BY <1>3, <2>1 DEF Claim, WorkerMoves, To, cancelVars
  <2>2. CASE RecordCancelled(j, e)
    BY <1>3, <2>2 DEF RecordCancelled, WorkerMoves, To
  <2>3. CASE RecordConnecting(j, e)
    BY <1>3, <2>3 DEF RecordConnecting, WorkerMoves, To, tallyVars
  <2>4. CASE Conclude(j, e)
    BY <1>3, <2>4 DEF Conclude, WorkerMoves, To, Verdicts
  <2>5. CASE RecordResult(j, e)
    BY <1>3, <2>5 DEF RecordResult, IssueProgress, WorkerMoves, To, tallyVars
  <2>6. CASE MarkRemoved(j, e)
    BY <1>3, <2>6 DEF MarkRemoved, IssueProgress, WorkerMoves, To
  <2>7. CASE WriteProgress(j, e)
    BY <1>3, <2>7 DEF WriteProgress, WorkerMoves, To
  <2>. QED
    BY <2>1, <2>2, <2>3, <2>4, <2>5, <2>6, <2>7 DEF WorkerStep
<1>. QED
  BY <1>2, <1>4, <1>5 DEF Moves

LEMMA ErrorsMoves ==
  ASSUME TypeOK, NEW j \in Jobs, Errors(j), NEW k \in Jobs
  PROVE  Moves(k)
<1>1. /\ run \in [Jobs -> RunPlaces]
      /\ worker \in [Jobs -> [Endpoints -> WorkerPlaces]]
  BY DEF TypeOK
<1>2. /\ UNCHANGED <<body, verdict, agentStatus, status>>
      /\ faults' = faults + 1
  BY DEF Errors, Fault, CreateError, RunError, FailedWriteError, CancelError, WorkerError,
     StepError, jobDoc, tallyVars
<1>3. DocumentMoves(k)
  BY <1>2 DEF DocumentMoves
<1>4. CASE CreateError(j) \/ RunError(j) \/ FailedWriteError(j) \/ CancelError(j)
  <2>1. RunMoves(k)
    BY <1>1, <1>2, <1>4 DEF RunMoves, SameStatus, CreateError, RunError, FailedWriteError,
       CancelError, runVars
  <2>2. UNCHANGED worker
    BY <1>4 DEF CreateError, RunError, FailedWriteError, CancelError
  <2>. QED
    BY <1>2, <1>3, <2>1, <2>2 DEF Moves, WorkerMoves, To
<1>5. ASSUME NEW e \in Endpoints, WorkerError(j, e)
      PROVE  Moves(k)
  <2>1. RunMoves(k)
    BY <1>1, <1>2, <1>5 DEF RunMoves, SameStatus, WorkerError
  <2>2. ASSUME NEW f \in Endpoints PROVE WorkerMoves(k, f)
    BY <1>1, <1>2, <1>5 DEF WorkerMoves, To, WorkerError
  <2>. QED
    BY <1>3, <2>1, <2>2 DEF Moves
<1>6. ASSUME NEW e \in Endpoints, StepError(j, e)
      PROVE  Moves(k)
  BY <1>2, <1>3, <1>6 DEF Moves, StepError, RunMoves, SameStatus, WorkerMoves, To, runVars
<1>. QED
  BY <1>4, <1>5, <1>6 DEF Errors

LEMMA RestartMoves ==
  ASSUME TypeOK, Restart, NEW k \in Jobs
  PROVE  Moves(k)
<1>1. /\ run \in [Jobs -> RunPlaces]
      /\ worker \in [Jobs -> [Endpoints -> WorkerPlaces]]
  BY DEF TypeOK
<1>2. UNCHANGED <<body, verdict, agentStatus, status, faults>>
  BY DEF Restart, jobDoc, tallyVars
<1>3. RunMoves(k)
  BY <1>1, <1>2 DEF RunMoves, SameStatus, Restart
<1>4. ASSUME NEW f \in Endpoints PROVE WorkerMoves(k, f)
  BY <1>1, <1>2 DEF WorkerMoves, To, Restart
<1>. QED
  BY <1>2, <1>3, <1>4 DEF Moves, DocumentMoves

LEMMA StutterMoves ==
  ASSUME UNCHANGED vars, NEW k \in Jobs
  PROVE  Moves(k)
BY DEF vars, Moves, RunMoves, SameStatus, WorkerMoves, To, DocumentMoves

LEMMA NextMoves ==
  ASSUME TypeOK, [Next]_vars, NEW k \in Jobs
  PROVE  Moves(k)
<1>1. ASSUME NEW j \in Jobs, RunStep(j) PROVE Moves(k)
  BY <1>1, InsertMoves, RunStepMoves DEF RunStep
<1>2. ASSUME NEW j \in Jobs, Submit(j) PROVE Moves(k)
  BY <1>2, RequestMoves DEF Submit
<1>3. ASSUME NEW j \in Jobs, NEW i \in Jobs, RetryFailed(j, i) PROVE Moves(k)
  BY <1>3, RequestMoves DEF RetryFailed
<1>4. ASSUME NEW j \in Jobs, NEW e \in Endpoints,
             WorkerStep(j, e) \/ ReportStep(j, e) \/ LandStep(j, e)
      PROVE  Moves(k)
  BY <1>4, WorkerStepMoves, StepMoves
<1>. QED
  BY <1>1, <1>2, <1>3, <1>4, CancelMoves, ErrorsMoves, RestartMoves, StutterMoves
  DEF Next

\* Where a cancel flag comes from, and what it is to spare.
LEMMA FlagMoves ==
  ASSUME TypeOK, [Next]_vars, NEW k \in Jobs
  PROVE  /\ k \in cancelFlags' \cup cancelling' =>
              \/ k \in cancelFlags \cup cancelling
              \/ status[k] \in {"pending", "running"} /\ UNCHANGED run
         /\ k \in cancelFlags' =>
              \/ k \in cancelFlags /\ spared'[k] = spared[k]
              \/ /\ spared'[k] = {e \in Targets(k) : worker[k][e] = "queued"}
                 /\ UNCHANGED <<worker, verdict>>
<1>1. DOMAIN spared = Jobs
  BY DEF TypeOK
<1>2. CASE UNCHANGED cancelVars
  BY <1>2 DEF cancelVars
<1>3. ASSUME NEW j \in Jobs, AcceptCancel(j) PROVE UNCHANGED <<worker, verdict, run>>
  BY <1>3 DEF AcceptCancel, tallyVars, runVars
<1>4. ASSUME NEW j \in Jobs, AcceptCancel(j)
      PROVE  /\ cancelFlags' = cancelFlags \cup {j}
             /\ cancelling' = cancelling \cup {j}
             /\ status[j] \in {"pending", "running"}
             /\ spared' = [spared EXCEPT ![j] =
                             {e \in Targets(j) : worker[j][e] = "queued"}]
  BY <1>4 DEF AcceptCancel
<1>5. ASSUME NEW j \in Jobs,
             SaveCancelled(j) \/ CancelError(j) \/ StartRun(j)
      PROVE  /\ cancelFlags' \subseteq cancelFlags
             /\ cancelling' \subseteq cancelling
             /\ UNCHANGED spared
  BY <1>5 DEF SaveCancelled, CancelError, StartRun
<1>6. CASE Restart
  BY <1>6 DEF Restart
<1>7. ASSUME NEW j \in Jobs,
             \/ InsertJob(j) \/ Schedule(j) \/ LoadJob(j) \/ MarkRunning(j) \/ OpenPool(j)
             \/ LeavePool(j) \/ WriteFinal(j) \/ WriteFailed(j)
             \/ CreateError(j) \/ RunError(j) \/ FailedWriteError(j)
      PROVE  UNCHANGED cancelVars
  BY <1>7 DEF InsertJob, Schedule, LoadJob, MarkRunning, OpenPool, LeavePool, WriteFinal,
     WriteFailed, CreateError, RunError, FailedWriteError
<1>8. ASSUME NEW j \in Jobs, NEW e \in Endpoints,
             \/ WorkerStep(j, e) \/ ReportStep(j, e) \/ LandStep(j, e)
             \/ WorkerError(j, e) \/ StepError(j, e)
      PROVE  UNCHANGED cancelVars
  BY <1>8 DEF WorkerStep, Claim, RecordCancelled, RecordConnecting, Conclude, RecordResult,
     MarkRemoved, WriteProgress, ReportStep, LandStep, WorkerError, StepError
<1>9. ASSUME NEW j \in Jobs, NEW i \in Jobs, Submit(j) \/ RetryFailed(i, j)
      PROVE  UNCHANGED cancelVars
  BY <1>9 DEF Submit, RetryFailed, Request
<1>10. CASE UNCHANGED vars
  BY <1>10 DEF vars
<1>11. CASE \E j \in Jobs : AcceptCancel(j)
  BY <1>1, <1>3, <1>4, <1>11
<1>12. CASE \E j \in Jobs : SaveCancelled(j) \/ CancelError(j) \/ StartRun(j)
  BY <1>5, <1>12
<1>. QED
  BY <1>2, <1>6, <1>7, <1>8, <1>9, <1>10, <1>11, <1>12 DEF Next, RunStep, Errors

\* Where the word "failed" comes from.
LEMMA FailureMoves ==
  ASSUME TypeOK, [Next]_vars, NEW k \in Jobs, NEW f \in Endpoints
  PROVE  /\ results'[k][f] = "failed" =>
              \/ results[k][f] = "failed" \/ <<f, "failed">> \in steps[k]
              \/ verdict[k][f] = "failed"
         /\ <<f, "failed">> \in steps'[k] =>
              <<f, "failed">> \in steps[k] \/ verdict'[k][f] = "failed"
<1>1. /\ results \in [Jobs -> [Endpoints -> ResultStatuses]]
      /\ verdict \in [Jobs -> [Endpoints -> Verdicts]]
      /\ steps \in [Jobs -> SUBSET (Endpoints \X Steps)]
  BY DEF TypeOK
<1>2. CASE UNCHANGED <<results, steps>>
  BY <1>2
<1>3. ASSUME NEW j \in Jobs,
             \/ Schedule(j) \/ StartRun(j) \/ LoadJob(j) \/ MarkRunning(j) \/ OpenPool(j)
             \/ LeavePool(j) \/ WriteFinal(j) \/ WriteFailed(j)
             \/ AcceptCancel(j) \/ SaveCancelled(j)
             \/ CreateError(j) \/ RunError(j) \/ FailedWriteError(j) \/ CancelError(j)
      PROVE  UNCHANGED <<results, steps>>
  BY <1>3 DEF Schedule, StartRun, LoadJob, MarkRunning, OpenPool, LeavePool, WriteFinal,
     WriteFailed, AcceptCancel, SaveCancelled, CreateError, RunError, FailedWriteError,
     CancelError
<1>4. ASSUME NEW j \in Jobs, NEW i \in Jobs, Submit(j) \/ RetryFailed(i, j)
      PROVE  UNCHANGED <<results, steps>>
  BY <1>4 DEF Submit, RetryFailed, Request
<1>5. ASSUME NEW j \in Jobs, InsertJob(j)
      PROVE  UNCHANGED steps /\ (results'[k][f] = "failed" => results[k][f] = "failed")
  BY <1>1, <1>5 DEF InsertJob
<1>6. ASSUME NEW j \in Jobs, NEW e \in Endpoints,
             \/ Claim(j, e) \/ MarkRemoved(j, e) \/ WriteProgress(j, e) \/ WorkerError(j, e)
      PROVE  UNCHANGED <<results, steps>>
  BY <1>6 DEF Claim, MarkRemoved, WriteProgress, WorkerError
<1>7. ASSUME NEW j \in Jobs, NEW e \in Endpoints,
             RecordCancelled(j, e) \/ RecordConnecting(j, e)
      PROVE  UNCHANGED steps /\ (results'[k][f] = "failed" => results[k][f] = "failed")
  BY <1>1, <1>7 DEF RecordCancelled, RecordConnecting
<1>8. ASSUME NEW j \in Jobs, NEW e \in Endpoints, RecordResult(j, e)
      PROVE  /\ UNCHANGED steps
             /\ results'[k][f] = "failed" =>
                  results[k][f] = "failed" \/ verdict[k][f] = "failed"
  BY <1>1, <1>8 DEF RecordResult, ResultOf
<1>9. ASSUME NEW j \in Jobs, NEW e \in Endpoints, Conclude(j, e)
      PROVE  /\ UNCHANGED results
             /\ <<f, "failed">> \in steps'[k] =>
                  <<f, "failed">> \in steps[k] \/ verdict'[k][f] = "failed"
  BY <1>1, <1>9 DEF Conclude, LastStep
<1>10. ASSUME NEW j \in Jobs, NEW e \in Endpoints, ReportStep(j, e)
       PROVE  /\ UNCHANGED results
              /\ <<f, "failed">> \in steps'[k] => <<f, "failed">> \in steps[k]
  BY <1>1, <1>10 DEF ReportStep
<1>11. ASSUME NEW j \in Jobs, NEW e \in Endpoints, LandStep(j, e) \/ StepError(j, e)
       PROVE  /\ results'[k][f] = "failed" =>
                   results[k][f] = "failed" \/ <<f, "failed">> \in steps[k]
              /\ <<f, "failed">> \in steps'[k] => <<f, "failed">> \in steps[k]
  <2>1. CASE StepError(j, e)
    BY <1>1, <2>1 DEF StepError
  <2>2. CASE LandStep(j, e)
    <3>1. PICK s \in Steps :
            /\ <<e, s>> \in steps[j]
            /\ steps' = [steps EXCEPT ![j] = @ \ {<<e, s>>}]
            /\ results' = [results EXCEPT ![j][e] = s]
      BY <2>2 DEF LandStep
    <3>. QED
      BY <1>1, <3>1
  <2>. QED
    BY <1>11, <2>1, <2>2
<1>12. CASE Restart
  BY <1>12 DEF Restart
<1>13. CASE UNCHANGED vars
  BY <1>13 DEF vars
<1>. QED
  BY <1>2, <1>3, <1>4, <1>5, <1>6, <1>7, <1>8, <1>9, <1>10, <1>11, <1>12, <1>13
  DEF Next, RunStep, Errors, WorkerStep

-----------------------------------------------------------------------------
(* The inductive invariant, part by part.                                  *)

LEMMA NextTypeOK ==
  ASSUME TypeOK, VerdictInv, [Next]_vars
  PROVE  TypeOK'
<1>1. ASSUME NEW j \in Jobs, Submit(j) PROVE TypeOK'
  BY <1>1, SubmitTypeOK
<1>2. ASSUME NEW j \in Jobs, NEW k \in Jobs, RetryFailed(j, k) PROVE TypeOK'
  BY <1>2, RetryTypeOK
<1>3. ASSUME NEW j \in Jobs, RunStep(j) PROVE TypeOK'
  BY <1>3, CreationTypeOK, RunStartTypeOK, OpenPoolTypeOK, RunEndTypeOK DEF RunStep
<1>4. ASSUME NEW j \in Jobs, AcceptCancel(j) \/ SaveCancelled(j) PROVE TypeOK'
  BY <1>4, CancelTypeOK
<1>5. ASSUME NEW j \in Jobs, Errors(j) PROVE TypeOK'
  BY <1>5, ErrorsTypeOK
<1>6. ASSUME NEW j \in Jobs, NEW e \in Endpoints, WorkerStep(j, e) PROVE TypeOK'
  BY <1>6, ClaimTypeOK, RecordTypeOK, ConcludeTypeOK, RecordResultTypeOK,
     MarkRemovedTypeOK, WriteProgressTypeOK DEF WorkerStep
<1>7. ASSUME NEW j \in Jobs, NEW e \in Endpoints, ReportStep(j, e) \/ LandStep(j, e)
      PROVE  TypeOK'
  BY <1>7, StepTypeOK
<1>. QED
  BY <1>1, <1>2, <1>3, <1>4, <1>5, <1>6, <1>7, RestartTypeOK, StutterTypeOK DEF Next

LEMMA NextVerdictInv ==
  ASSUME JobInv, [Next]_vars
  PROVE  VerdictInv'
<1> SUFFICES ASSUME NEW k \in Jobs, NEW f \in Endpoints
    PROVE  /\ worker'[k][f] \in {"none", "queued", "cancelling", "connecting", "remote"} =>
                verdict'[k][f] = "unknown"
           /\ worker'[k][f] \in {"recording", "marking", "reporting"} =>
                verdict'[k][f] # "unknown"
  BY DEF VerdictInv
<1>1. WorkerMoves(k, f)
  BY NextMoves DEF JobInv, Moves
<1>2. run[k] = "creating" => worker[k][f] = "none"
  BY DEF JobInv, PlaceInv
<1>. QED
  BY <1>1, <1>2 DEF JobInv, VerdictInv, WorkerMoves, To

LEMMA NextPlaceInv ==
  ASSUME JobInv, [Next]_vars
  PROVE  PlaceInv'
<1> SUFFICES ASSUME NEW k \in Jobs
    PROVE  /\ run'[k] \in {"unborn", "creating"} =>
                /\ status'[k] = "absent"
                /\ k \notin cancelFlags' \cup cancelling'
                /\ \A e \in Endpoints : worker'[k][e] = "none"
           /\ \A e \in Endpoints : worker'[k][e] # "none" => e \in Targets(k)'
           /\ run'[k] \in {"closing", "settled"} =>
                \A e \in Endpoints : worker'[k][e] \in {"none", "returned"}
           /\ status'[k] = "completed" => run'[k] = "settled"
  BY DEF PlaceInv
<1>1. RunMoves(k) /\ DocumentMoves(k)
  BY NextMoves DEF JobInv, Moves
<1>2. \A f \in Endpoints : WorkerMoves(k, f)
  BY NextMoves DEF JobInv, Moves
<1>3. /\ run[k] \in {"unborn", "creating"} =>
           /\ status[k] = "absent"
           /\ k \notin cancelFlags \cup cancelling
           /\ \A e \in Endpoints : worker[k][e] = "none"
      /\ \A e \in Endpoints : worker[k][e] # "none" => e \in Targets(k)
      /\ run[k] \in {"closing", "settled"} =>
           \A e \in Endpoints : worker[k][e] \in {"none", "returned"}
      /\ status[k] = "completed" => run[k] = "settled"
  BY DEF JobInv, PlaceInv
<1>4. ASSUME run'[k] \in {"unborn", "creating"}
      PROVE  /\ status'[k] = "absent"
             /\ k \notin cancelFlags' \cup cancelling'
             /\ \A e \in Endpoints : worker'[k][e] = "none"
  <2>1. run[k] \in {"unborn", "creating"}
    BY <1>1, <1>4 DEF RunMoves
  <2>2. status'[k] = "absent"
    BY <1>1, <1>3, <1>4, <2>1 DEF RunMoves, SameStatus
  <2>3. k \notin cancelFlags' \cup cancelling'
    BY <1>3, <2>1, FlagMoves DEF JobInv
  <2>4. ASSUME NEW e \in Endpoints PROVE worker'[k][e] = "none"
    BY <1>2, <1>3, <1>4, <2>1 DEF WorkerMoves, To, InFlight
  <2>. QED
    BY <2>2, <2>3, <2>4
<1>5. ASSUME NEW e \in Endpoints, worker'[k][e] # "none"
      PROVE  e \in Targets(k)'
  <2>1. e \in Targets(k) /\ run[k] # "unborn"
    BY <1>2, <1>3, <1>5 DEF WorkerMoves, To, InFlight
  <2>. QED
    BY <1>1, <2>1 DEF DocumentMoves, Targets
<1>6. ASSUME run'[k] \in {"closing", "settled"}, NEW e \in Endpoints
      PROVE  worker'[k][e] \in {"none", "returned"}
  <2>1. CASE run[k] \in {"closing", "settled"}
    BY <1>2, <1>3, <2>1 DEF WorkerMoves, To, InFlight
  <2>2. CASE run[k] \notin {"closing", "settled"}
    <3>1. /\ \A g \in Targets(k) : worker[k][g] = "returned"
          /\ UNCHANGED worker
      BY <1>1, <1>6, <2>2 DEF RunMoves
    <3>. QED
      BY <1>3, <3>1
  <2>. QED
    BY <2>1, <2>2
<1>7. status'[k] = "completed" => run'[k] = "settled"
  BY <1>1, <1>3 DEF RunMoves, SameStatus
<1>. QED
  BY <1>4, <1>5, <1>6, <1>7

LEMMA NextSpares ==
  ASSUME JobInv, [Next]_vars
  PROVE  CancelFlagSparesQueued'
<1> SUFFICES ASSUME NEW k \in Jobs, k \in cancelFlags', NEW e \in Endpoints,
                    e \in spared'[k]
    PROVE  /\ worker'[k][e] \in {"queued", "cancelling", "returned", "threw", "lost"}
           /\ verdict'[k][e] = "unknown"
  <2>1. cancelFlags' \subseteq Jobs /\ \A j \in Jobs : spared'[j] \subseteq Endpoints
    BY NextTypeOK DEF JobInv, TypeOK
  <2>. QED
    BY <2>1 DEF CancelFlagSparesQueued
<1>1. CASE k \in cancelFlags /\ spared'[k] = spared[k]
  <2>1. WorkerMoves(k, e)
    BY NextMoves DEF JobInv, Moves
  <2>2. run[k] # "creating"
    BY <1>1 DEF JobInv, PlaceInv
  <2>3. /\ worker[k][e] \in {"queued", "cancelling", "returned", "threw", "lost"}
        /\ verdict[k][e] = "unknown"
    BY <1>1 DEF JobInv, CancelFlagSparesQueued
  <2>. QED
    BY <2>1, <2>2, <2>3 DEF WorkerMoves, To, InFlight
<1>2. CASE /\ spared'[k] = {f \in Targets(k) : worker[k][f] = "queued"}
           /\ UNCHANGED <<worker, verdict>>
  BY <1>2 DEF JobInv, VerdictInv
<1>. QED
  BY <1>1, <1>2, FlagMoves DEF JobInv

LEMMA NextRemovalInv ==
  ASSUME JobInv, [Next]_vars
  PROVE  RemovalInv'
<1> SUFFICES ASSUME NEW k \in Jobs, NEW f \in Endpoints,
                    worker'[k][f] \in {"reporting", "returned"}, MarksRemoval(k, f)'
             PROVE  agentStatus'[f] = "removed"
  BY DEF RemovalInv
<1>1. WorkerMoves(k, f) /\ DocumentMoves(k)
  BY NextMoves DEF JobInv, Moves
<1>2. worker[k][f] # "none"
  BY <1>1 DEF WorkerMoves, To
<1>3. run[k] # "unborn"
  BY <1>2 DEF JobInv, PlaceInv
<1>4. body'[k] = body[k] /\ verdict'[k][f] = "success"
  BY <1>1, <1>3 DEF DocumentMoves, MarksRemoval
<1>5. CASE worker[k][f] = "cancelling"
  BY <1>1, <1>4, <1>5 DEF JobInv, VerdictInv, WorkerMoves, To
<1>6. CASE worker[k][f] \in {"reporting", "returned"}
  <2>1. verdict[k][f] = "success"
    BY <1>1, <1>4, <1>6 DEF WorkerMoves, To
  <2>2. MarksRemoval(k, f)
    BY <1>4, <2>1 DEF MarksRemoval
  <2>. QED
    BY <1>1, <1>6, <2>2 DEF JobInv, RemovalInv, DocumentMoves
<1>7. CASE worker[k][f] \notin {"cancelling", "reporting", "returned"}
  <2>1. \/ worker[k][f] = "recording" /\ ~ MarksRemoval(k, f) /\ To(k, f, "reporting")
        \/ worker[k][f] = "marking" /\ agentStatus'[f] = "removed"
    BY <1>1, <1>3, <1>7 DEF WorkerMoves, To
  <2>2. verdict[k][f] # "success" \/ body[k].kind # "uninstall_rscd"
        \/ agentStatus'[f] = "removed"
    BY <2>1 DEF MarksRemoval
  <2>. QED
    BY <1>4, <2>1, <2>2 DEF To, MarksRemoval
<1>. QED
  BY <1>5, <1>6, <1>7

LEMMA NextStrandInv ==
  ASSUME JobInv, [Next]_vars
  PROVE  StrandInv'
<1> SUFFICES ASSUME NEW k \in Jobs
    PROVE  /\ run'[k] = "failing" => faults' >= 1
           /\ run'[k] = "aborted" => status'[k] \in Terminal \/ faults' >= 2
           /\ run'[k] = "settled" => status'[k] \in Terminal
  BY DEF StrandInv
<1>1. RunMoves(k) /\ faults' \in {faults, faults + 1} /\ faults \in Nat
  BY NextMoves DEF JobInv, TypeOK, Moves, DocumentMoves
<1>2. /\ run[k] = "failing" => faults >= 1
      /\ run[k] = "aborted" => status[k] \in Terminal \/ faults >= 2
      /\ run[k] = "settled" => status[k] \in Terminal
  BY DEF JobInv, StrandInv
<1>. QED
  BY <1>1, <1>2 DEF RunMoves, SameStatus, Terminal

LEMMA NextFailureInv ==
  ASSUME JobInv, [Next]_vars
  PROVE  FailureInv'
<1> SUFFICES ASSUME NEW k \in Jobs, NEW f \in Endpoints,
                    results'[k][f] = "failed" \/ <<f, "failed">> \in steps'[k]
             PROVE  verdict'[k][f] = "failed"
  BY DEF FailureInv
<1>1. verdict[k][f] = "failed" => verdict'[k][f] = "failed"
  <2>1. WorkerMoves(k, f)
    BY NextMoves DEF JobInv, Moves
  <2>. QED
    BY <2>1 DEF JobInv, VerdictInv, WorkerMoves, To
<1>. QED
  BY <1>1, FailureMoves DEF JobInv, FailureInv

LEMMA InitJobInv == Init => JobInv
<1> SUFFICES ASSUME Init PROVE JobInv
  OBVIOUS
<1>1. TypeOK
  BY InitTypeOK
<1>2. VerdictInv /\ RemovalInv /\ FailureInv
  BY DEF Init, VerdictInv, RemovalInv, FailureInv
<1>3. PlaceInv /\ CancelFlagSparesQueued /\ StrandInv
  BY DEF Init, PlaceInv, CancelFlagSparesQueued, StrandInv
<1>. QED
  BY <1>1, <1>2, <1>3 DEF JobInv

\* The inductive invariant of install and uninstall jobs.
THEOREM JobInvariant == Spec => []JobInv
<1>1. JobInv /\ [Next]_vars => JobInv'
  <2> SUFFICES ASSUME JobInv, [Next]_vars PROVE JobInv'
    OBVIOUS
  <2>1. TypeOK'
    BY NextTypeOK DEF JobInv
  <2>. QED
    BY <2>1, NextVerdictInv, NextPlaceInv, NextSpares, NextRemovalInv, NextStrandInv,
       NextFailureInv DEF JobInv
<1>. QED
  BY <1>1, InitJobInv, PTL DEF Spec

-----------------------------------------------------------------------------
(* What follows from it.                                                   *)

\* Every variable keeps its type: among others, every status written into the
\* result of an endpoint is one that the schema of models/Job.js lists.
THEOREM TypeCorrect == Spec => []TypeOK
<1>1. JobInv => TypeOK
  BY DEF JobInv
<1>. QED
  BY <1>1, JobInvariant, PTL

\* While a cancel flag stands, no endpoint that was queued when it was raised
\* is operated on.
THEOREM CancelFlagIsRespected == Spec => []CancelFlagSparesQueued
<1>1. JobInv => CancelFlagSparesQueued
  BY DEF JobInv
<1>. QED
  BY <1>1, JobInvariant, PTL

\* A job that is shown as completed touches no endpoint any more.
THEOREM CompletedJobsAreQuiet == Spec => []CompletedIsQuiet
<1>1. JobInv => CompletedIsQuiet
  BY DEF JobInv, PlaceInv, CompletedIsQuiet, InFlight
<1>. QED
  BY <1>1, JobInvariant, PTL

\* An RSCD uninstall that succeeded is recorded on the endpoint by the time
\* the run of its job ends.
THEOREM RemovalsAreRecorded == Spec => []RemovalIsRecorded
<1>1. JobInv => RemovalIsRecorded
  <2> SUFFICES ASSUME JobInv, NEW j \in Jobs, run[j] = "settled",
                      NEW e \in Targets(j), MarksRemoval(j, e)
               PROVE  agentStatus[e] = "removed"
    BY DEF RemovalIsRecorded
  <2>1. e \in Endpoints
    BY TargetsAreEndpoints DEF JobInv
  <2>2. worker[j][e] \in {"none", "returned"}
    BY <2>1 DEF JobInv, PlaceInv
  <2>3. worker[j][e] # "none"
    BY <2>1 DEF JobInv, VerdictInv, MarksRemoval
  <2>. QED
    BY <2>1, <2>2, <2>3 DEF JobInv, RemovalInv
<1>. QED
  BY <1>1, JobInvariant, PTL

\* One failed database call never leaves a job that ran without a final status.
THEOREM OneFaultIsSurvived == Spec => []OneFaultNeverStrands
<1>1. JobInv => OneFaultNeverStrands
  BY DEF JobInv, TypeOK, StrandInv, OneFaultNeverStrands
<1>. QED
  BY <1>1, JobInvariant, PTL

-----------------------------------------------------------------------------
(* Retries: a relation between two jobs.                                   *)

RetryInv == RetryRepeatsOnlyFailures /\ ParentInv

\* Where the document of a job comes from.
LEMMA BodyMoves ==
  ASSUME TypeOK, [Next]_vars, NEW k \in Jobs
  PROVE  \/ body'[k] = body[k]
         \/ \E b \in Bodies : Request(k, b)
         \/ \E j \in Jobs : RetryFailed(j, k)
<1>1. DOMAIN body = Jobs
  BY DEF TypeOK
<1>2. ASSUME NEW j \in Jobs, Submit(j)
      PROVE  body'[k] = body[k] \/ \E b \in Bodies : Request(k, b)
  <2>1. CASE j = k
    BY <1>2, <2>1 DEF Submit
  <2>2. CASE j # k
    BY <1>1, <1>2, <2>2 DEF Submit, Request
  <2>. QED
    BY <2>1, <2>2
<1>3. ASSUME NEW j \in Jobs, NEW i \in Jobs, RetryFailed(j, i)
      PROVE  body'[k] = body[k] \/ RetryFailed(j, k)
  <2>1. CASE i = k
    BY <1>3, <2>1
  <2>2. CASE i # k
    BY <1>1, <1>3, <2>2 DEF RetryFailed, Request
  <2>. QED
    BY <2>1, <2>2
<1>4. ASSUME NEW j \in Jobs,
             RunStep(j) \/ AcceptCancel(j) \/ SaveCancelled(j) \/ Errors(j)
      PROVE  UNCHANGED body
  BY <1>4 DEF RunStep, InsertJob, Schedule, StartRun, LoadJob, MarkRunning, OpenPool,
     LeavePool, WriteFinal, WriteFailed, AcceptCancel, SaveCancelled, Errors, CreateError,
     RunError, FailedWriteError, CancelError, WorkerError, StepError
<1>5. ASSUME NEW j \in Jobs, NEW e \in Endpoints,
             WorkerStep(j, e) \/ ReportStep(j, e) \/ LandStep(j, e)
      PROVE  UNCHANGED body
  BY <1>5 DEF WorkerStep, Claim, RecordCancelled, RecordConnecting, Conclude, RecordResult,
     MarkRemoved, WriteProgress, ReportStep, LandStep
<1>6. CASE Restart
  BY <1>6 DEF Restart
<1>7. CASE UNCHANGED vars
  BY <1>7 DEF vars
<1>. QED
  BY <1>2, <1>3, <1>4, <1>5, <1>6, <1>7 DEF Next

\* What has failed in a job that exists stays so.
LEMMA FailuresStay ==
  ASSUME JobInv, [Next]_vars, NEW j \in Jobs, run[j] # "unborn"
  PROVE  Having(j, "failed") \subseteq Having(j, "failed")' /\ run'[j] # "unborn"
<1>1. body'[j] = body[j]
  BY NextMoves DEF JobInv, Moves, DocumentMoves
<1>2. run'[j] # "unborn"
  BY NextMoves DEF JobInv, Moves, RunMoves
<1>3. ASSUME NEW e \in Endpoints, verdict[j][e] = "failed"
      PROVE  verdict'[j][e] = "failed"
  <2>1. WorkerMoves(j, e)
    BY NextMoves DEF JobInv, Moves
  <2>. QED
    BY <1>3, <2>1 DEF JobInv, VerdictInv, WorkerMoves, To
<1>4. Targets(j) \subseteq Endpoints
  BY TargetsAreEndpoints DEF JobInv
<1>. QED
  BY <1>1, <1>2, <1>3, <1>4 DEF Having, Targets

LEMMA NextRetryInv ==
  ASSUME JobInv, RetryInv, [Next]_vars
  PROVE  RetryInv'
<1>1. TypeOK'
  BY NextTypeOK DEF JobInv
<1> SUFFICES ASSUME NEW k \in Jobs, NEW p \in Jobs, body'[k].parent = p, p # NoJob
             PROVE  Targets(k)' \subseteq Having(p, "failed")' /\ run'[p] # "unborn"
  <2>1. \A k \in Jobs : body'[k].parent \in Jobs \cup {NoJob}
    BY <1>1 DEF TypeOK, Requests, NoBody
  <2>. QED
    BY <2>1 DEF RetryInv, RetryRepeatsOnlyFailures, ParentInv, Having, Targets
<1>2. CASE body'[k] = body[k]
  <2>1. run[p] # "unborn" /\ Targets(k) \subseteq Having(p, "failed")
    BY <1>2 DEF RetryInv, ParentInv, RetryRepeatsOnlyFailures
  <2>2. Targets(k)' = Targets(k)
    BY <1>2 DEF Targets
  <2>. QED
    BY <2>1, <2>2, FailuresStay
<1>3. ASSUME NEW b \in Bodies, Request(k, b)
      PROVE  FALSE
  <2>1. body'[k] = b
    BY <1>3 DEF Request, JobInv, TypeOK
  <2>. QED
    BY <2>1, FleetAssumption
<1>4. ASSUME NEW j \in Jobs, RetryFailed(j, k)
      PROVE  Targets(k)' \subseteq Having(p, "failed")' /\ run'[p] # "unborn"
  <2> DEFINE b == [body[j] EXCEPT !.parent = j,
                                  !.endpoints = FailedResults(j),
                                  !.confirmed = (body[j].environment = "prod")]
  <2>1. status[j] # "absent" /\ FailedResults(j) # {} /\ Request(k, b)
    BY <1>4 DEF RetryFailed
  <2>2. body'[k] = b
    BY <2>1 DEF Request, JobInv, TypeOK
  <2>3. body[j] \in Requests
    BY <2>1 DEF JobInv, TypeOK, FailedResults, Targets, NoBody
  <2>4. b.parent = j /\ b.endpoints = FailedResults(j)
    BY <2>3 DEF Requests
  <2>5. p = j /\ Targets(k)' = FailedResults(j)
    BY <2>2, <2>4 DEF Targets
  <2>6. run[j] # "unborn"
    BY <2>1 DEF JobInv, PlaceInv
  <2>7. FailedResults(j) \subseteq Having(j, "failed")
    BY TargetsAreEndpoints DEF JobInv, FailureInv, FailedResults, Having
  <2>. QED
    BY <2>5, <2>6, <2>7, FailuresStay
<1>. QED
  BY <1>2, <1>3, <1>4, BodyMoves DEF JobInv

\* A retry, whenever it is asked for, works only on endpoints on which the
\* operation of its parent had already failed.
THEOREM RetriesRepeatOnlyFailures == Spec => []RetryRepeatsOnlyFailures
<1>1. Init => RetryInv
  BY DEF Init, RetryInv, RetryRepeatsOnlyFailures, ParentInv, NoBody
<1>2. JobInv /\ RetryInv /\ [Next]_vars => RetryInv'
  BY NextRetryInv
<1>3. RetryInv => RetryRepeatsOnlyFailures
  BY DEF RetryInv
<1>. QED
  BY <1>1, <1>2, <1>3, JobInvariant, PTL DEF Spec
-----------------------------------------------------------------------------
(* The counters of a run.                                                  *)

Others(k, e) ==
  \A f \in Endpoints \ {e} : worker'[k][f] = worker[k][f] /\ verdict'[k][f] = verdict[k][f]

CountsNone(k) ==
  /\ stats'[k] = stats[k]
  /\ \A f \in Endpoints : /\ verdict'[k][f] = verdict[k][f]
                          /\ worker[k][f] = "queued" => worker'[k][f] # "cancelling"

CountsCancelled(k) ==
  \E e \in Endpoints :
    /\ worker[k][e] = "queued" /\ worker'[k][e] = "cancelling"
    /\ verdict'[k][e] = verdict[k][e]
    /\ Others(k, e)
    /\ stats'[k] = [stats[k] EXCEPT !["cancelled"] = @ + 1]

CountsVerdict(k) ==
  \E e \in Endpoints, v \in {"success", "failed", "skipped"} :
    /\ worker[k][e] = "remote" /\ worker'[k][e] = "recording"
    /\ verdict'[k][e] = v
    /\ Others(k, e)
    /\ stats'[k] = [stats[k] EXCEPT ![v] = @ + 1]

\* A step counts one endpoint of a job, or none.
LEMMA CountMoves ==
  ASSUME TypeOK, [Next]_vars, NEW k \in Jobs
  PROVE  CountsNone(k) \/ CountsCancelled(k) \/ CountsVerdict(k)
<1>1. /\ worker \in [Jobs -> [Endpoints -> WorkerPlaces]]
      /\ verdict \in [Jobs -> [Endpoints -> Verdicts]]
      /\ stats \in [Jobs -> Counters]
  BY DEF TypeOK
<1>2. CASE UNCHANGED <<worker, verdict, stats>>
  BY <1>1, <1>2 DEF CountsNone
<1>3. ASSUME NEW j \in Jobs, RunStep(j), ~ InsertJob(j)
      PROVE  UNCHANGED <<worker, verdict, stats>>
  BY <1>3 DEF RunStep, Schedule, StartRun, LoadJob, MarkRunning, OpenPool, LeavePool,
     WriteFinal, WriteFailed, tallyVars
<1>4. ASSUME NEW j \in Jobs, InsertJob(j) PROVE CountsNone(k)
  <2>1. CASE k = j
    BY <1>1, <1>4, <2>1 DEF InsertJob, CountsNone, tallyVars
  <2>2. CASE k # j
    BY <1>1, <1>4, <2>2 DEF InsertJob, CountsNone, tallyVars
  <2>. QED
    BY <2>1, <2>2
<1>5. ASSUME NEW j \in Jobs, NEW i \in Jobs, Submit(j) \/ RetryFailed(i, j)
      PROVE  UNCHANGED <<worker, verdict, stats>>
  BY <1>5 DEF Submit, RetryFailed, Request, tallyVars
<1>6. ASSUME NEW j \in Jobs, AcceptCancel(j) \/ SaveCancelled(j)
      PROVE  UNCHANGED <<worker, verdict, stats>>
  BY <1>6 DEF AcceptCancel, SaveCancelled, tallyVars
<1>7. ASSUME NEW j \in Jobs, NEW e \in Endpoints,
             ReportStep(j, e) \/ LandStep(j, e) \/ StepError(j, e)
      PROVE  UNCHANGED <<worker, verdict, stats>>
  BY <1>7 DEF ReportStep, LandStep, StepError, tallyVars
<1>8. ASSUME NEW j \in Jobs,
             CreateError(j) \/ RunError(j) \/ FailedWriteError(j) \/ CancelError(j)
      PROVE  UNCHANGED <<worker, verdict, stats>>
  BY <1>8 DEF CreateError, RunError, FailedWriteError, CancelError, tallyVars
<1>9. ASSUME NEW j \in Jobs, NEW e \in Endpoints,
             \/ RecordCancelled(j, e) \/ RecordConnecting(j, e) \/ RecordResult(j, e)
             \/ MarkRemoved(j, e) \/ WriteProgress(j, e) \/ WorkerError(j, e)
      PROVE  CountsNone(k)
  <2>1. UNCHANGED <<verdict, stats>>
    BY <1>9 DEF RecordCancelled, RecordConnecting, RecordResult, MarkRemoved,
       IssueProgress, WriteProgress, WorkerError, tallyVars
  <2>2. PICK p \in WorkerPlaces \ {"cancelling"} : worker' = [worker EXCEPT ![j][e] = p]
    BY <1>9 DEF RecordCancelled, RecordConnecting, RecordResult, MarkRemoved,
       IssueProgress, WriteProgress, WorkerError, WorkerPlaces
  <2>. QED
    BY <1>1, <2>1, <2>2 DEF CountsNone
<1>10. CASE Restart
  BY <1>1, <1>10 DEF Restart, CountsNone, tallyVars
<1>11. ASSUME NEW j \in Jobs, NEW e \in Endpoints, Claim(j, e)
       PROVE  CountsNone(k) \/ CountsCancelled(k)
  <2>1. worker[j][e] = "queued" /\ UNCHANGED verdict
    BY <1>11 DEF Claim
  <2>2. CASE worker' = [worker EXCEPT ![j][e] = "connecting"] /\ UNCHANGED stats
    BY <1>1, <2>1, <2>2 DEF CountsNone
  <2>3. CASE /\ worker' = [worker EXCEPT ![j][e] = "cancelling"]
             /\ stats' = [stats EXCEPT ![j].cancelled = @ + 1]
    <3>1. CASE j # k
      BY <1>1, <2>1, <2>3, <3>1 DEF CountsNone
    <3>2. CASE j = k
      <4>1. stats'[k] = [stats[k] EXCEPT !["cancelled"] = @ + 1]
        BY <1>1, <2>3, <3>2
      <4>2. worker'[k][e] = "cancelling" /\ Others(k, e)
        BY <1>1, <2>1, <2>3, <3>2 DEF Others
      <4>. QED
        BY <2>1, <3>2, <4>1, <4>2 DEF CountsCancelled
    <3>. QED
      BY <3>1, <3>2
  <2>. QED
    BY <1>11, <2>2, <2>3 DEF Claim
<1>12. ASSUME NEW j \in Jobs, NEW e \in Endpoints, Conclude(j, e)
       PROVE  CountsNone(k) \/ CountsVerdict(k)
  <2>1. PICK v \in {"success", "failed", "skipped"} :
          /\ verdict' = [verdict EXCEPT ![j][e] = v]
          /\ stats' = [stats EXCEPT ![j][v] = @ + 1]
    BY <1>12 DEF Conclude, Verdicts
  <2>2. worker[j][e] = "remote" /\ worker' = [worker EXCEPT ![j][e] = "recording"]
    BY <1>12 DEF Conclude
  <2>3. CASE j # k
    BY <1>1, <2>1, <2>2, <2>3 DEF CountsNone
  <2>4. CASE j = k
    <3>1. stats'[k] = [stats[k] EXCEPT ![v] = @ + 1]
      BY <1>1, <2>1, <2>4
    <3>2. verdict'[k][e] = v /\ worker'[k][e] = "recording" /\ Others(k, e)
      BY <1>1, <2>1, <2>2, <2>4 DEF Others
    <3>. QED
      BY <2>2, <2>4, <3>1, <3>2 DEF CountsVerdict
  <2>. QED
    BY <2>3, <2>4
<1>13. CASE UNCHANGED vars
  BY <1>2, <1>13 DEF vars
<1>. QED
  BY <1>2, <1>3, <1>4, <1>5, <1>6, <1>7, <1>8, <1>9, <1>10, <1>11, <1>12, <1>13
  DEF Next, Errors, WorkerStep

\* Who writes the statistics and the progress of a job.
LEMMA WriteMoves ==
  ASSUME TypeOK, [Next]_vars, NEW k \in Jobs
  PROVE  \/ statistics'[k] = statistics[k] /\ progress'[k] = progress[k]
         \/ run[k] \in {"closing", "failing"}
         \/ \E e \in Endpoints : worker[k][e] = "reporting"
<1>1. /\ statistics \in [Jobs -> Counters]
      /\ progress \in [Jobs -> Nat]
  BY DEF TypeOK
<1>2. CASE UNCHANGED <<statistics, progress>>
  BY <1>2
<1>3. ASSUME NEW j \in Jobs,
             \/ InsertJob(j) \/ Schedule(j) \/ StartRun(j) \/ LoadJob(j) \/ MarkRunning(j)
             \/ OpenPool(j) \/ LeavePool(j) \/ AcceptCancel(j) \/ SaveCancelled(j)
             \/ CreateError(j) \/ RunError(j) \/ FailedWriteError(j) \/ CancelError(j)
      PROVE  UNCHANGED <<statistics, progress>>
  BY <1>3 DEF InsertJob, Schedule, StartRun, LoadJob, MarkRunning, OpenPool, LeavePool,
     AcceptCancel, SaveCancelled, CreateError, RunError, FailedWriteError, CancelError,
     jobDoc
<1>4. ASSUME NEW j \in Jobs, NEW i \in Jobs, Submit(j) \/ RetryFailed(i, j)
      PROVE  UNCHANGED <<statistics, progress>>
  BY <1>4 DEF Submit, RetryFailed, Request, jobDoc
<1>5. ASSUME NEW j \in Jobs, NEW e \in Endpoints,
             \/ Claim(j, e) \/ RecordCancelled(j, e) \/ RecordConnecting(j, e)
             \/ Conclude(j, e) \/ RecordResult(j, e) \/ MarkRemoved(j, e)
             \/ ReportStep(j, e) \/ LandStep(j, e) \/ WorkerError(j, e) \/ StepError(j, e)
      PROVE  UNCHANGED <<statistics, progress>>
  BY <1>5 DEF Claim, RecordCancelled, RecordConnecting, Conclude, RecordResult,
     MarkRemoved, ReportStep, LandStep, WorkerError, StepError, jobDoc
<1>6. ASSUME NEW j \in Jobs, WriteFinal(j) \/ WriteFailed(j)
      PROVE  \/ statistics'[k] = statistics[k] /\ progress'[k] = progress[k]
             \/ run[k] \in {"closing", "failing"}
  BY <1>1, <1>6 DEF WriteFinal, WriteFailed
<1>7. ASSUME NEW j \in Jobs, NEW e \in Endpoints, WriteProgress(j, e)
      PROVE  \/ statistics'[k] = statistics[k] /\ progress'[k] = progress[k]
             \/ worker[k][e] = "reporting"
  BY <1>1, <1>7 DEF WriteProgress
<1>8. CASE Restart \/ UNCHANGED vars
  BY <1>8 DEF Restart, vars, jobDoc
<1>. QED
  BY <1>2, <1>3, <1>4, <1>5, <1>6, <1>7, <1>8 DEF Next, RunStep, Errors, WorkerStep

\* Only its last write settles a run.
LEMMA SettledBy ==
  ASSUME TypeOK, [Next]_vars, NEW k \in Jobs, run[k] # "settled", run'[k] = "settled"
  PROVE  WriteFinal(k)
<1>1. run \in [Jobs -> RunPlaces]
  BY DEF TypeOK
<1>2. ASSUME NEW j \in Jobs, RunStep(j) PROVE WriteFinal(k)
  <2>1. CASE WriteFinal(j)
    BY <1>1, <2>1 DEF WriteFinal
  <2>2. CASE ~ WriteFinal(j)
    BY <1>1, <1>2, <2>2 DEF RunStep, InsertJob, Schedule, StartRun, LoadJob, MarkRunning,
       OpenPool, LeavePool, WriteFailed
  <2>. QED
    BY <2>1, <2>2
<1>3. ASSUME NEW j \in Jobs, NEW i \in Jobs, Submit(j) \/ RetryFailed(i, j)
      PROVE  FALSE
  BY <1>1, <1>3 DEF Submit, RetryFailed, Request
<1>4. ASSUME NEW j \in Jobs, AcceptCancel(j) \/ SaveCancelled(j) \/ CancelError(j)
      PROVE  FALSE
  BY <1>4 DEF AcceptCancel, SaveCancelled, CancelError, runVars
<1>5. ASSUME NEW j \in Jobs, CreateError(j) \/ RunError(j) \/ FailedWriteError(j)
      PROVE  FALSE
  BY <1>1, <1>5 DEF CreateError, RunError, FailedWriteError
<1>6. ASSUME NEW j \in Jobs, NEW e \in Endpoints,
             WorkerStep(j, e) \/ ReportStep(j, e) \/ LandStep(j, e) \/ StepError(j, e)
      PROVE  FALSE
  BY <1>6 DEF WorkerStep, Claim, RecordCancelled, RecordConnecting, Conclude, RecordResult,
     MarkRemoved, WriteProgress, ReportStep, LandStep, StepError, runVars
<1>7. ASSUME NEW j \in Jobs, NEW e \in Endpoints, WorkerError(j, e)
      PROVE  FALSE
  BY <1>1, <1>7 DEF WorkerError
<1>8. CASE Restart
  BY <1>1, <1>8 DEF Restart
<1>9. CASE UNCHANGED vars
  BY <1>9 DEF vars
<1>. QED
  BY <1>2, <1>3, <1>4, <1>5, <1>6, <1>7, <1>8, <1>9 DEF Next, Errors

\* A set of endpoints, and the same with one more, counted.
LEMMA OneMore ==
  ASSUME NEW S \in SUBSET Endpoints, NEW e \in Endpoints, e \notin S
  PROVE  Cardinality(S \cup {e}) = Cardinality(S) + 1
<1>1. IsFiniteSet(S)
  BY FleetAssumption, FS_Subset
<1>. QED
  BY <1>1, FS_AddElement

\* What the counters count follows them.
LEMMA NextCounts ==
  ASSUME JobInv, TallyInv, [Next]_vars, NEW k \in Jobs
  PROVE  /\ stats'[k].success = Cardinality(Known(k, "success")')
         /\ stats'[k].failed = Cardinality(Known(k, "failed")')
         /\ stats'[k].skipped = Cardinality(Known(k, "skipped")')
<1>1. stats[k] \in Counters
  BY DEF JobInv, TypeOK
<1>2. /\ stats[k].success = Cardinality(Known(k, "success"))
      /\ stats[k].failed = Cardinality(Known(k, "failed"))
      /\ stats[k].skipped = Cardinality(Known(k, "skipped"))
  BY DEF TallyInv
<1>3. CASE CountsNone(k)
  <2>1. \A v : Known(k, v)' = Known(k, v)
    BY <1>3 DEF CountsNone, Known
  <2>. QED
    BY <1>2, <1>3, <2>1 DEF CountsNone
<1>4. CASE CountsCancelled(k)
  <2>1. \A v : Known(k, v)' = Known(k, v)
    BY <1>4 DEF CountsCancelled, Others, Known
  <2>2. stats'[k] = [stats[k] EXCEPT !["cancelled"] = @ + 1]
    BY <1>4 DEF CountsCancelled
  <2>3. /\ stats'[k].success = stats[k].success
        /\ stats'[k].failed = stats[k].failed
        /\ stats'[k].skipped = stats[k].skipped
    BY <1>1, <2>2 DEF Counters
  <2>. QED
    BY <1>2, <2>1, <2>3
<1>5. CASE CountsVerdict(k)
  <2>1. PICK e \in Endpoints, v \in {"success", "failed", "skipped"} :
          /\ worker[k][e] = "remote"
          /\ verdict'[k][e] = v
          /\ Others(k, e)
          /\ stats'[k] = [stats[k] EXCEPT ![v] = @ + 1]
    BY <1>5 DEF CountsVerdict
  <2>2. verdict[k][e] = "unknown"
    BY <2>1 DEF JobInv, VerdictInv
  <2>3. /\ \A u \in {"success", "failed", "skipped"} \ {v} : Known(k, u)' = Known(k, u)
        /\ Known(k, v)' = Known(k, v) \cup {e}
        /\ e \notin Known(k, v)
    BY <2>1, <2>2 DEF Others, Known
  <2>4. Cardinality(Known(k, v)') = Cardinality(Known(k, v)) + 1
    BY <2>3, OneMore DEF Known
  <2>5. CASE v = "success"
    BY <1>1, <1>2, <2>1, <2>3, <2>4, <2>5 DEF Counters
  <2>6. CASE v = "failed"
    BY <1>1, <1>2, <2>1, <2>3, <2>4, <2>6 DEF Counters
  <2>7. CASE v = "skipped"
    BY <1>1, <1>2, <2>1, <2>3, <2>4, <2>7 DEF Counters
  <2>. QED
    BY <2>5, <2>6, <2>7
<1>. QED
  BY <1>3, <1>4, <1>5, CountMoves DEF JobInv

LEMMA NextCancelledCount ==
  ASSUME JobInv, TallyInv, [Next]_vars, NEW k \in Jobs,
         \A e \in Endpoints : worker'[k][e] \notin {"threw", "lost"}
  PROVE  stats'[k].cancelled = Cardinality(CancelledIn(k)')
<1>1. stats[k] \in Counters
  BY DEF JobInv, TypeOK
<1>2. ASSUME NEW f \in Endpoints PROVE WorkerMoves(k, f)
  BY NextMoves DEF JobInv, Moves
<1>3. \A f \in Endpoints : worker[k][f] \notin {"threw", "lost"}
  <2> SUFFICES ASSUME NEW f \in Endpoints PROVE worker[k][f] \notin {"threw", "lost"}
    OBVIOUS
  <2>1. run[k] = "creating" => worker[k][f] = "none"
    BY DEF JobInv, PlaceInv
  <2>. QED
    BY <1>2, <2>1 DEF WorkerMoves, To
<1>4. stats[k].cancelled = Cardinality(CancelledIn(k))
  BY <1>3 DEF TallyInv
<1>5. ASSUME NEW f \in Endpoints,
             ~ (worker[k][f] = "queued" /\ worker'[k][f] = "cancelling"),
             verdict'[k][f] = verdict[k][f]
      PROVE  f \in CancelledIn(k)' <=> f \in CancelledIn(k)
  <2>1. run[k] = "creating" => worker[k][f] = "none"
    BY DEF JobInv, PlaceInv
  <2>2. worker[k][f] = "reporting" => verdict[k][f] # "unknown"
    BY DEF JobInv, VerdictInv
  <2>3. worker'[k][f] \notin {"threw", "lost"}
    OBVIOUS
  <2>. QED
    BY <1>2, <1>5, <2>1, <2>2, <2>3 DEF WorkerMoves, To, CancelledIn
<1>6. CASE CountsNone(k)
  <2>1. CancelledIn(k)' = CancelledIn(k)
    <3>1. \A f \in Endpoints : f \in CancelledIn(k)' <=> f \in CancelledIn(k)
      BY <1>5, <1>6 DEF CountsNone
    <3>. QED
      BY <3>1 DEF CancelledIn
  <2>. QED
    BY <1>4, <1>6, <2>1 DEF CountsNone
<1>7. CASE CountsCancelled(k)
  <2>1. PICK e \in Endpoints :
          /\ worker[k][e] = "queued" /\ worker'[k][e] = "cancelling"
          /\ verdict'[k][e] = verdict[k][e]
          /\ Others(k, e)
          /\ stats'[k] = [stats[k] EXCEPT !["cancelled"] = @ + 1]
    BY <1>7 DEF CountsCancelled
  <2>2. verdict[k][e] = "unknown"
    BY <2>1 DEF JobInv, VerdictInv
  <2>3. CancelledIn(k)' = CancelledIn(k) \cup {e} /\ e \notin CancelledIn(k)
    BY <2>1, <2>2 DEF Others, CancelledIn
  <2>4. Cardinality(CancelledIn(k)') = Cardinality(CancelledIn(k)) + 1
    BY <2>3, OneMore DEF CancelledIn
  <2>5. stats'[k].cancelled = stats[k].cancelled + 1
    BY <1>1, <2>1 DEF Counters
  <2>. QED
    BY <1>4, <2>4, <2>5
<1>8. CASE CountsVerdict(k)
  <2>1. PICK e \in Endpoints, v \in {"success", "failed", "skipped"} :
          /\ worker[k][e] = "remote" /\ worker'[k][e] = "recording"
          /\ Others(k, e)
          /\ stats'[k] = [stats[k] EXCEPT ![v] = @ + 1]
    BY <1>8 DEF CountsVerdict
  <2>2. CancelledIn(k)' = CancelledIn(k)
    BY <2>1 DEF Others, CancelledIn
  <2>3. stats'[k].cancelled = stats[k].cancelled
    BY <1>1, <2>1 DEF Counters
  <2>. QED
    BY <1>4, <2>2, <2>3
<1>. QED
  BY <1>6, <1>7, <1>8, CountMoves DEF JobInv

\* A run closes when every endpoint has come back, and nothing is written to its
\* document after that but its last write.
LEMMA NextClosing ==
  ASSUME JobInv, TallyInv, [Next]_vars, NEW k \in Jobs
  PROVE  /\ run'[k] \in {"closing", "settled"} =>
              \A e \in Targets(k)' : worker'[k][e] = "returned"
         /\ run'[k] = "settled" => statistics'[k] = stats'[k] /\ progress'[k] = Total(k)'
<1>1. RunMoves(k) /\ DocumentMoves(k)
  BY NextMoves DEF JobInv, Moves
<1>2. Targets(k) \subseteq Endpoints
  BY TargetsAreEndpoints DEF JobInv
<1>3. ASSUME run'[k] \in {"closing", "settled"}
      PROVE  Targets(k)' = Targets(k) /\ \A e \in Targets(k) : worker'[k][e] = "returned"
  <2>1. CASE run[k] \in {"closing", "settled"}
    <3>1. body'[k] = body[k]
      BY <1>1, <2>1 DEF DocumentMoves
    <3>2. ASSUME NEW e \in Targets(k) PROVE worker'[k][e] = "returned"
      <4>1. worker[k][e] = "returned" /\ e \in Endpoints
        BY <1>2, <2>1 DEF TallyInv
      <4>2. WorkerMoves(k, e)
        BY <4>1, NextMoves DEF JobInv, Moves
      <4>. QED
        BY <2>1, <4>1, <4>2 DEF WorkerMoves, To, InFlight
    <3>. QED
      BY <3>1, <3>2 DEF Targets
  <2>2. CASE run[k] \notin {"closing", "settled"}
    <3>1. /\ \A e \in Targets(k) : worker[k][e] = "returned"
          /\ UNCHANGED <<worker, body>>
      BY <1>1, <1>3, <2>2 DEF RunMoves
    <3>. QED
      BY <3>1 DEF Targets
  <2>. QED
    BY <2>1, <2>2
<1>4. ASSUME run'[k] = "settled"
      PROVE  statistics'[k] = stats'[k] /\ progress'[k] = Total(k)'
  <2>1. Total(k)' = Total(k)
    BY <1>3, <1>4 DEF Total
  <2>2. run[k] \in {"closing", "settled"}
    BY <1>1, <1>4 DEF RunMoves
  <2>3. \A e \in Endpoints : worker[k][e] \in {"none", "returned"}
    BY <2>2 DEF JobInv, PlaceInv
  <2>4. stats'[k] = stats[k]
    <3>1. CountsNone(k)
      BY <2>3, CountMoves DEF JobInv, CountsCancelled, CountsVerdict
    <3>. QED
      BY <3>1 DEF CountsNone
  <2>5. CASE run[k] = "settled"
    <3>1. statistics[k] = stats[k] /\ progress[k] = Total(k)
      BY <2>5 DEF TallyInv
    <3>2. statistics'[k] = statistics[k] /\ progress'[k] = progress[k]
      BY <2>3, <2>5, WriteMoves DEF JobInv
    <3>. QED
      BY <2>1, <2>4, <3>1, <3>2
  <2>6. CASE run[k] = "closing"
    <3>1. WriteFinal(k)
      BY <1>4, <2>6, SettledBy DEF JobInv
    <3>2. statistics'[k] = stats[k] /\ progress'[k] = Total(k)
      BY <3>1 DEF WriteFinal, JobInv, TypeOK
    <3>. QED
      BY <2>1, <2>4, <3>2
  <2>. QED
    BY <2>2, <2>5, <2>6
<1>. QED
  BY <1>3, <1>4

LEMMA NextTallyInv ==
  ASSUME JobInv, TallyInv, [Next]_vars
  PROVE  TallyInv'
BY NextCounts, NextCancelledCount, NextClosing DEF TallyInv

LEMMA InitTallyInv == Init => TallyInv
<1> SUFFICES ASSUME Init, NEW k \in Jobs
    PROVE  /\ stats[k].success = Cardinality(Known(k, "success"))
           /\ stats[k].failed = Cardinality(Known(k, "failed"))
           /\ stats[k].skipped = Cardinality(Known(k, "skipped"))
           /\ stats[k].cancelled = Cardinality(CancelledIn(k))
           /\ run[k] = "unborn"
  BY DEF TallyInv
<1>1. stats[k] = Zero /\ run[k] = "unborn"
  BY DEF Init
<1>2. \A e \in Endpoints : verdict[k][e] = "unknown" /\ worker[k][e] = "none"
  BY DEF Init
<1>3. /\ Known(k, "success") = {} /\ Known(k, "failed") = {} /\ Known(k, "skipped") = {}
      /\ CancelledIn(k) = {}
  BY <1>2 DEF Known, CancelledIn
<1>. QED
  BY <1>1, <1>3, FS_EmptySet DEF Zero

\* A run that ended by itself leaves statistics that count every endpoint once,
\* under what happened on it, and a full progress, however its progress updates
\* overtook one another and whatever else went on: what it wrote last is right
\* and is the last thing written.
THEOREM SettledRunsAreTallied == Spec => []SettledTally
<1>1. JobInv /\ TallyInv /\ [Next]_vars => TallyInv'
  BY NextTallyInv
<1>2. JobInv /\ TallyInv => SettledTally
  <2> SUFFICES ASSUME JobInv, TallyInv, NEW k \in Jobs, run[k] = "settled"
      PROVE  /\ statistics[k] = [success |-> Cardinality(Having(k, "success")),
                                 failed |-> Cardinality(Having(k, "failed")),
                                 skipped |-> Cardinality(Having(k, "skipped")),
                                 cancelled |-> Cardinality(Having(k, "unknown"))]
             /\ progress[k] = Total(k)
    BY DEF SettledTally
  <2>1. Targets(k) \subseteq Endpoints
    BY TargetsAreEndpoints DEF JobInv
  <2>2. /\ \A e \in Targets(k) : worker[k][e] = "returned"
        /\ \A e \in Endpoints \ Targets(k) : worker[k][e] = "none"
    BY <2>1 DEF JobInv, PlaceInv, TallyInv
  <2>3. \A e \in Endpoints : worker[k][e] = "none" => verdict[k][e] = "unknown"
    BY DEF JobInv, VerdictInv
  <2>4. \A v \in {"success", "failed", "skipped"} : Known(k, v) = Having(k, v)
    BY <2>1, <2>2, <2>3 DEF Known, Having
  <2>5. CancelledIn(k) = Having(k, "unknown")
    BY <2>1, <2>2 DEF CancelledIn, Having
  <2>6. \A e \in Endpoints : worker[k][e] \notin {"threw", "lost"}
    BY <2>1, <2>2
  <2>7. /\ stats[k].success = Cardinality(Having(k, "success"))
        /\ stats[k].failed = Cardinality(Having(k, "failed"))
        /\ stats[k].skipped = Cardinality(Having(k, "skipped"))
        /\ stats[k].cancelled = Cardinality(Having(k, "unknown"))
        /\ statistics[k] = stats[k] /\ progress[k] = Total(k)
    BY <2>4, <2>5, <2>6 DEF TallyInv
  <2>8. stats[k] \in Counters
    BY DEF JobInv, TypeOK
  <2>. QED
    BY <2>7, <2>8 DEF Counters
<1>. QED
  BY <1>1, <1>2, InitTallyInv, JobInvariant, PTL DEF Spec

-----------------------------------------------------------------------------
(***************************************************************************)
(* The pool of a run.  A step means one of these to it, whichever action   *)
(* it is.                                                                  *)
(***************************************************************************)

SameWorkers(k) == \A f \in Endpoints : worker'[k][f] = worker[k][f]
SamePool(k) == SameWorkers(k) /\ idle'[k] = idle[k] /\ body'[k] = body[k]
SameRun(k) == run'[k] = run[k] /\ body'[k] = body[k]
OneGoes(k, e, place) ==
  /\ worker'[k][e] = place
  /\ \A f \in Endpoints \ {e} : worker'[k][f] = worker[k][f]

PoolStill(k) == SamePool(k) /\ SameRun(k)

PoolCreated(k) ==
  \/ /\ run[k] = "unborn" /\ run'[k] = "creating"
     /\ SameWorkers(k) /\ idle'[k] = idle[k]
     /\ body'[k] \in Requests
  \/ /\ run[k] = "creating" /\ run'[k] = "logging"
     /\ \A f \in Endpoints : worker'[k][f] \in {"none", "queued"}
     /\ idle'[k] = idle[k] /\ body'[k] = body[k]

\* The run goes on, outside of its pool.
RunTurns(k) ==
  /\ SamePool(k)
  /\ run[k] \notin {"unborn", "pool", "lost"}
  /\ run'[k] \notin {"unborn", "pool", "lost"}
  /\ run'[k] \in BeforePool => run[k] \in BeforePool

PoolOpens(k) ==
  /\ run[k] = "package" /\ run'[k] = "pool"
  /\ SameWorkers(k) /\ body'[k] = body[k]
  /\ idle'[k] \in Nat /\ idle'[k] <= Concurrency(body[k].environment)

PoolCloses(k) ==
  /\ run[k] = "pool" /\ run'[k] = "closing" /\ SamePool(k)
  /\ AllReturned(k)

PoolTakes(k) ==
  /\ SameRun(k)
  /\ idle[k] > 0 /\ idle'[k] = idle[k] - 1
  /\ \E e \in Endpoints, p \in {"cancelling", "connecting"} :
       worker[k][e] = "queued" /\ OneGoes(k, e, p)

PoolWorks(k) ==
  /\ SameRun(k) /\ idle'[k] = idle[k]
  /\ \E e \in Endpoints, p \in InFlight : worker[k][e] \in InFlight /\ OneGoes(k, e, p)

PoolGivesBack(k) ==
  /\ SameRun(k) /\ idle'[k] = idle[k] + 1
  /\ \E e \in Endpoints : worker[k][e] \in InFlight /\ OneGoes(k, e, "returned")

PoolThrows(k) ==
  /\ run'[k] = (IF run[k] = "pool" THEN "failing" ELSE run[k])
  /\ idle'[k] = idle[k] /\ body'[k] = body[k]
  /\ \E e \in Endpoints : worker[k][e] \in InFlight /\ OneGoes(k, e, "threw")

PoolIsLost(k) ==
  /\ body'[k] = body[k]
  /\ idle'[k] = 0
  /\ run'[k] = IF run[k] \in {"unborn", "settled", "aborted", "dropped"}
               THEN run[k] ELSE "lost"
  /\ \A f \in Endpoints :
       worker'[k][f] = IF worker[k][f] \in InFlight THEN "lost" ELSE worker[k][f]

PoolMoves(k) ==
  \/ PoolStill(k) \/ PoolCreated(k) \/ RunTurns(k)
  \/ PoolOpens(k) \/ PoolCloses(k)
  \/ PoolTakes(k) \/ PoolWorks(k) \/ PoolGivesBack(k) \/ PoolThrows(k)
  \/ PoolIsLost(k)

LEMMA PoolTypes ==
  ASSUME TypeOK
  PROVE  /\ run \in [Jobs -> RunPlaces]
         /\ idle \in [Jobs -> Nat]
         /\ worker \in [Jobs -> [Endpoints -> WorkerPlaces]]
         /\ body \in [Jobs -> Requests \cup {NoBody}]
BY DEF TypeOK

LEMMA RequestPoolMoves ==
  ASSUME TypeOK, NEW j \in Jobs, NEW b \in Requests, Request(j, b), NEW k \in Jobs
  PROVE  PoolMoves(k)
<1>1. /\ UNCHANGED <<worker, idle>>
      /\ run[j] = "unborn"
      /\ run' = [run EXCEPT ![j] = "creating"]
      /\ body' = [body EXCEPT ![j] = b]
  BY DEF Request
<1>. QED
  BY <1>1, PoolTypes DEF PoolMoves, PoolCreated, PoolStill, SamePool, SameRun, SameWorkers

LEMMA RetryPoolMoves ==
  ASSUME TypeOK, NEW j \in Jobs, NEW i \in Jobs, RetryFailed(i, j), NEW k \in Jobs
  PROVE  PoolMoves(k)
<1> DEFINE b == [body[i] EXCEPT !.parent = i,
                                !.endpoints = FailedResults(i),
                                !.confirmed = (body[i].environment = "prod")]
<1>1. FailedResults(i) \in (SUBSET Endpoints) \ {{}}
  BY TargetsAreEndpoints DEF RetryFailed, FailedResults
<1>2. body[i] \in Requests
  BY PoolTypes DEF RetryFailed, FailedResults, Targets, NoBody
<1>3. b \in Requests
  BY <1>1, <1>2 DEF Requests
<1>. QED
  BY <1>3, RequestPoolMoves DEF RetryFailed

LEMMA RunStepPoolMoves ==
  ASSUME TypeOK, NEW j \in Jobs, RunStep(j), NEW k \in Jobs
  PROVE  PoolMoves(k)
<1>1. UNCHANGED body
  BY DEF RunStep, InsertJob, Schedule, StartRun, LoadJob, MarkRunning, OpenPool, LeavePool,
     WriteFinal, WriteFailed
<1>2. CASE InsertJob(j)
  <2>1. /\ UNCHANGED idle
        /\ run[j] = "creating"
        /\ run' = [run EXCEPT ![j] = "logging"]
        /\ worker' = [worker EXCEPT ![j] =
             [e \in Endpoints |-> IF e \in Targets(j) THEN "queued" ELSE "none"]]
    BY <1>2 DEF InsertJob
  <2>2. CASE k = j
    BY <1>1, <2>1, <2>2, PoolTypes DEF PoolMoves, PoolCreated
  <2>3. CASE k # j
    BY <1>1, <2>1, <2>3, PoolTypes DEF PoolMoves, PoolStill, SamePool, SameRun, SameWorkers
  <2>. QED
    BY <2>2, <2>3
<1>3. CASE OpenPool(j)
  <2>1. /\ UNCHANGED worker
        /\ run[j] = "package"
        /\ run' = [run EXCEPT ![j] = "pool"]
    BY <1>3 DEF OpenPool
  <2>2. Total(j) \in Nat /\ Concurrency(body[j].environment) \in Nat
    BY TargetsAreEndpoints, BoundsAssumption DEF Concurrency
  <2>3. CASE k = j
    <3>1. idle'[k] \in Nat /\ idle'[k] <= Concurrency(body[k].environment)
      BY <1>3, <2>2, <2>3, PoolTypes DEF OpenPool
    <3>. QED
      BY <1>1, <2>1, <2>3, <3>1, PoolTypes DEF PoolMoves, PoolOpens, SameWorkers
  <2>4. CASE k # j
    BY <1>1, <1>3, <2>1, <2>4, PoolTypes DEF OpenPool, PoolMoves, PoolStill, SamePool,
       SameRun, SameWorkers
  <2>. QED
    BY <2>3, <2>4
<1>4. CASE LeavePool(j)
  <2>1. /\ UNCHANGED <<worker, idle>>
        /\ run[j] = "pool"
        /\ AllReturned(j)
        /\ run' = [run EXCEPT ![j] = "closing"]
    BY <1>4 DEF LeavePool, AllReturned
  <2>. QED
    BY <1>1, <2>1, PoolTypes DEF PoolMoves, PoolCloses, PoolStill, SamePool, SameRun,
       SameWorkers
<1>5. CASE \/ Schedule(j) \/ StartRun(j) \/ LoadJob(j) \/ MarkRunning(j)
           \/ WriteFinal(j) \/ WriteFailed(j)
  <2>1. UNCHANGED <<worker, idle>>
    BY <1>5 DEF Schedule, StartRun, LoadJob, MarkRunning, WriteFinal, WriteFailed
  <2>2. PICK p \in {"scheduled", "loading", "starting", "package", "settled", "aborted"} :
          /\ run' = [run EXCEPT ![j] = p]
          /\ run[j] \notin {"unborn", "pool", "lost"}
          /\ p \in BeforePool => run[j] \in BeforePool
    BY <1>5 DEF Schedule, StartRun, LoadJob, MarkRunning, WriteFinal, WriteFailed,
       BeforePool
  <2>. QED
    BY <1>1, <2>1, <2>2, PoolTypes DEF PoolMoves, RunTurns, PoolStill, SamePool, SameRun,
       SameWorkers
<1>. QED
  BY <1>2, <1>3, <1>4, <1>5 DEF RunStep

LEMMA WorkerStepPoolMoves ==
  ASSUME TypeOK, NEW j \in Jobs, NEW e \in Endpoints, WorkerStep(j, e), NEW k \in Jobs
  PROVE  PoolMoves(k)
<1>1. UNCHANGED <<run, body>>
  BY DEF WorkerStep, Claim, RecordCancelled, RecordConnecting, Conclude, RecordResult,
     MarkRemoved, WriteProgress, runVars
<1>2. CASE Claim(j, e)
  <2>1. idle[j] > 0 /\ idle' = [idle EXCEPT ![j] = @ - 1] /\ worker[j][e] = "queued"
    BY <1>2 DEF Claim
  <2>2. PICK p \in {"cancelling", "connecting"} : worker' = [worker EXCEPT ![j][e] = p]
    BY <1>2 DEF Claim
  <2>3. CASE k = j
    BY <1>1, <2>1, <2>2, <2>3, PoolTypes DEF PoolMoves, PoolTakes, OneGoes, SameRun
  <2>4. CASE k # j
    BY <1>1, <2>1, <2>2, <2>4, PoolTypes DEF PoolMoves, PoolStill, SamePool, SameRun,
       SameWorkers
  <2>. QED
    BY <2>3, <2>4
<1>3. CASE RecordCancelled(j, e) \/ WriteProgress(j, e)
  <2>1. /\ idle' = [idle EXCEPT ![j] = @ + 1]
        /\ worker[j][e] \in InFlight
        /\ worker' = [worker EXCEPT ![j][e] = "returned"]
    BY <1>3 DEF RecordCancelled, WriteProgress, InFlight
  <2>2. CASE k = j
    BY <1>1, <2>1, <2>2, PoolTypes DEF PoolMoves, PoolGivesBack, OneGoes, SameRun
  <2>3. CASE k # j
    BY <1>1, <2>1, <2>3, PoolTypes DEF PoolMoves, PoolStill, SamePool, SameRun,
       SameWorkers
  <2>. QED
    BY <2>2, <2>3
<1>4. CASE RecordConnecting(j, e) \/ Conclude(j, e) \/ RecordResult(j, e) \/ MarkRemoved(j, e)
  <2>1. worker[j][e] \in InFlight /\ UNCHANGED idle
    BY <1>4 DEF RecordConnecting, Conclude, RecordResult, MarkRemoved, InFlight
  <2>2. PICK p \in InFlight : worker' = [worker EXCEPT ![j][e] = p]
    BY <1>4 DEF RecordConnecting, Conclude, RecordResult, MarkRemoved, IssueProgress,
       InFlight
  <2>3. CASE k = j
    BY <1>1, <2>1, <2>2, <2>3, PoolTypes DEF PoolMoves, PoolWorks, OneGoes, SameRun
  <2>4. CASE k # j
    BY <1>1, <2>1, <2>2, <2>4, PoolTypes DEF PoolMoves, PoolStill, SamePool, SameRun,
       SameWorkers
  <2>. QED
    BY <2>3, <2>4
<1>. QED
  BY <1>2, <1>3, <1>4 DEF WorkerStep

LEMMA ErrorsPoolMoves ==
  ASSUME TypeOK, NEW j \in Jobs, Errors(j), NEW k \in Jobs
  PROVE  PoolMoves(k)
<1>1. UNCHANGED <<body, idle>>
  BY DEF Errors, CreateError, RunError, FailedWriteError, CancelError, WorkerError,
     StepError
<1>2. CASE CreateError(j) \/ RunError(j) \/ FailedWriteError(j)
  <2>1. UNCHANGED worker
    BY <1>2 DEF CreateError, RunError, FailedWriteError
  <2>2. PICK p \in {"dropped", "failing", "aborted"} :
          /\ run' = [run EXCEPT ![j] = p]
          /\ run[j] \notin {"unborn", "pool", "lost"}
          /\ p \in BeforePool => run[j] \in BeforePool
    BY <1>2 DEF CreateError, RunError, FailedWriteError, BeforePool
  <2>. QED
    BY <1>1, <2>1, <2>2, PoolTypes DEF PoolMoves, RunTurns, PoolStill, SamePool, SameRun,
       SameWorkers
<1>3. CASE CancelError(j) \/ \E e \in Endpoints : StepError(j, e)
  <2>1. UNCHANGED <<worker, run>>
    BY <1>3 DEF CancelError, StepError, runVars
  <2>. QED
    BY <1>1, <2>1 DEF PoolMoves, PoolStill, SamePool, SameRun, SameWorkers
<1>4. ASSUME NEW e \in Endpoints, WorkerError(j, e) PROVE PoolMoves(k)
  <2>1. /\ worker[j][e] \in InFlight
        /\ worker' = [worker EXCEPT ![j][e] = "threw"]
        /\ run' = [run EXCEPT ![j] = IF @ = "pool" THEN "failing" ELSE @]
    BY <1>4 DEF WorkerError
  <2>2. CASE k = j
    <3>1. run'[k] = (IF run[k] = "pool" THEN "failing" ELSE run[k])
      BY <2>1, <2>2, PoolTypes
    <3>2. OneGoes(k, e, "threw")
      BY <2>1, <2>2, PoolTypes DEF OneGoes
    <3>. QED
      BY <1>1, <2>1, <2>2, <3>1, <3>2 DEF PoolMoves, PoolThrows
  <2>3. CASE k # j
    BY <1>1, <2>1, <2>3, PoolTypes DEF PoolMoves, PoolStill, SamePool, SameRun,
       SameWorkers
  <2>. QED
    BY <2>2, <2>3
<1>. QED
  BY <1>2, <1>3, <1>4 DEF Errors

LEMMA NextPoolMoves ==
  ASSUME TypeOK, [Next]_vars, NEW k \in Jobs
  PROVE  PoolMoves(k)
<1>1. ASSUME NEW j \in Jobs, Submit(j) PROVE PoolMoves(k)
  BY <1>1, RequestPoolMoves, FleetAssumption DEF Submit
<1>2. ASSUME NEW j \in Jobs, NEW e \in Endpoints, ReportStep(j, e) \/ LandStep(j, e)
      PROVE  PoolMoves(k)
  BY <1>2 DEF ReportStep, LandStep, runVars, PoolMoves, PoolStill, SamePool, SameRun,
     SameWorkers
<1>3. ASSUME NEW j \in Jobs, AcceptCancel(j) \/ SaveCancelled(j)
      PROVE  PoolMoves(k)
  BY <1>3 DEF AcceptCancel, SaveCancelled, runVars, PoolMoves, PoolStill, SamePool, SameRun,
     SameWorkers
<1>4. CASE Restart
  BY <1>4, PoolTypes DEF Restart, PoolMoves, PoolIsLost
<1>5. CASE UNCHANGED vars
  BY <1>5 DEF vars, PoolMoves, PoolStill, SamePool, SameRun, SameWorkers
<1>. QED
  BY <1>1, <1>2, <1>3, <1>4, <1>5, RetryPoolMoves, RunStepPoolMoves, WorkerStepPoolMoves,
     ErrorsPoolMoves DEF Next

LEMMA OneLess ==
  ASSUME NEW S \in SUBSET Endpoints, NEW e \in S
  PROVE  Cardinality(S \ {e}) = Cardinality(S) - 1 /\ Cardinality(S) \in Nat
<1>1. IsFiniteSet(S)
  BY FleetAssumption, FS_Subset
<1>. QED
  BY <1>1, FS_RemoveElement, FS_CardinalityType

LEMMA InFlightIsFinite ==
  ASSUME NEW k \in Jobs
  PROVE  /\ InFlightOf(k) \in SUBSET Endpoints
         /\ Cardinality(InFlightOf(k)) \in Nat
<1>1. InFlightOf(k) \in SUBSET Endpoints
  BY DEF InFlightOf
<1>. QED
  BY <1>1, FleetAssumption, FS_Subset, FS_CardinalityType

\* The facts about one pool that its steps preserve.
PoolFacts(k) ==
  /\ run[k] # "unborn" => Targets(k) # {}
  /\ run[k] \in BeforePool =>
       /\ idle[k] = 0
       /\ \A e \in Endpoints : worker[k][e] \in {"none", "queued"}
  /\ idle[k] > 0 => run[k] = "pool" \/ ThrewIn(k) # {} \/ AllReturned(k)
  /\ InFlightOf(k) # {} => run[k] = "pool" \/ ThrewIn(k) # {}
  /\ idle[k] > 0 \/ InFlightOf(k) # {} => \A e \in Endpoints : worker[k][e] # "lost"
  /\ idle[k] + Cardinality(InFlightOf(k)) <= Concurrency(body[k].environment)

\* What the other invariants say of it.
LEMMA PoolContext ==
  ASSUME JobInv, NEW k \in Jobs
  PROVE  /\ idle[k] \in Nat
         /\ Targets(k) \subseteq Endpoints
         /\ \A e \in Endpoints : worker[k][e] # "none" => e \in Targets(k)
         /\ run[k] \in {"unborn", "creating"} => \A e \in Endpoints : worker[k][e] = "none"
         /\ \A b : Concurrency(b) \in Nat /\ Concurrency(b) > 0
BY TargetsAreEndpoints, BoundsAssumption DEF JobInv, TypeOK, PlaceInv, Concurrency

\* Steps that move no worker, or start from an empty pool.
LEMMA RunKeepsPoolFacts ==
  ASSUME NEW k \in Jobs, JobInv, PoolFacts(k),
         PoolStill(k) \/ PoolCreated(k) \/ RunTurns(k) \/ PoolOpens(k) \/ PoolCloses(k)
  PROVE  PoolFacts(k)'
<1>1. CASE PoolStill(k)
  <2>1. /\ Targets(k)' = Targets(k) /\ InFlightOf(k)' = InFlightOf(k)
        /\ ThrewIn(k)' = ThrewIn(k) /\ AllReturned(k)' = AllReturned(k)
    BY <1>1, PoolContext DEF PoolStill, SamePool, SameWorkers, Targets, InFlightOf, ThrewIn,
       AllReturned
  <2>. QED
    BY <1>1, <2>1 DEF PoolFacts, PoolStill, SamePool, SameWorkers, SameRun
<1>2. CASE RunTurns(k)
  <2>1. /\ Targets(k)' = Targets(k) /\ InFlightOf(k)' = InFlightOf(k)
        /\ ThrewIn(k)' = ThrewIn(k) /\ AllReturned(k)' = AllReturned(k)
    BY <1>2, PoolContext DEF RunTurns, SamePool, SameWorkers, Targets, InFlightOf, ThrewIn,
       AllReturned
  <2>. QED
    BY <1>2, <2>1 DEF PoolFacts, RunTurns, SamePool, SameWorkers
<1>3. CASE PoolCreated(k)
  <2>1. run[k] \in BeforePool /\ idle[k] = 0 /\ idle'[k] = 0
    BY <1>3 DEF PoolCreated, BeforePool, PoolFacts
  <2>2. \A e \in Endpoints : worker'[k][e] \in {"none", "queued"}
    BY <1>3, PoolContext DEF PoolCreated, SameWorkers
  <2>3. InFlightOf(k)' = {}
    BY <2>2 DEF InFlightOf, InFlight
  <2>4. Targets(k)' # {}
    BY <1>3 DEF PoolCreated, PoolFacts, Targets, Requests
  <2>5. Cardinality(InFlightOf(k)') = 0
    BY <2>3, FS_EmptySet
  <2>6. run'[k] \in BeforePool
    BY <1>3 DEF PoolCreated, BeforePool
  <2>7. Concurrency(body'[k].environment) \in Nat
    BY PoolContext
  <2>. QED
    BY <2>1, <2>2, <2>3, <2>4, <2>5, <2>6, <2>7 DEF PoolFacts
<1>4. CASE PoolOpens(k)
  <2>1. \A e \in Endpoints : worker'[k][e] \in {"none", "queued"}
    BY <1>4 DEF PoolOpens, BeforePool, PoolFacts, SameWorkers
  <2>2. InFlightOf(k)' = {}
    BY <2>1 DEF InFlightOf, InFlight
  <2>3. Cardinality(InFlightOf(k)') = 0
    BY <2>2, FS_EmptySet
  <2>4. Targets(k)' # {} /\ run'[k] = "pool" /\ body'[k] = body[k]
    BY <1>4 DEF PoolOpens, PoolFacts, Targets
  <2>5. idle'[k] + 0 <= Concurrency(body'[k].environment)
    BY <1>4, PoolContext DEF PoolOpens
  <2>. QED
    BY <2>1, <2>2, <2>3, <2>4, <2>5 DEF PoolFacts, BeforePool
<1>5. CASE PoolCloses(k)
  <2>1. /\ Targets(k)' = Targets(k) /\ InFlightOf(k)' = InFlightOf(k)
        /\ ThrewIn(k)' = ThrewIn(k) /\ AllReturned(k)'
    BY <1>5, PoolContext DEF PoolCloses, SamePool, SameWorkers, Targets, InFlightOf, ThrewIn,
       AllReturned
  <2>2. InFlightOf(k) = {}
    BY <1>5, PoolContext DEF PoolCloses, AllReturned, InFlightOf, InFlight
  <2>. QED
    BY <1>5, <2>1, <2>2 DEF PoolFacts, PoolCloses, SamePool, SameWorkers, BeforePool
<1>. QED
  BY <1>1, <1>2, <1>3, <1>4, <1>5

\* Steps of one worker, and a restart.
LEMMA WorkersKeepPoolFacts ==
  ASSUME NEW k \in Jobs, JobInv, PoolFacts(k),
         \/ PoolTakes(k) \/ PoolWorks(k) \/ PoolGivesBack(k) \/ PoolThrows(k)
         \/ PoolIsLost(k)
  PROVE  PoolFacts(k)'
<1>1. /\ idle[k] \in Nat
      /\ Concurrency(body[k].environment) \in Nat
      /\ Cardinality(InFlightOf(k)) \in Nat
      /\ idle[k] + Cardinality(InFlightOf(k)) <= Concurrency(body[k].environment)
  BY PoolContext, InFlightIsFinite DEF PoolFacts
<1>2. body'[k] = body[k] /\ Targets(k)' = Targets(k)
  BY DEF PoolTakes, PoolWorks, PoolGivesBack, PoolThrows, PoolIsLost, SameRun, Targets
<1>3. CASE PoolTakes(k)
  <2>1. PICK e \in Endpoints, p \in {"cancelling", "connecting"} :
          worker[k][e] = "queued" /\ OneGoes(k, e, p)
    BY <1>3 DEF PoolTakes
  <2>2. e \in Targets(k)
    BY <2>1, PoolContext
  <2>3. run'[k] = run[k] /\ idle[k] > 0 /\ idle'[k] = idle[k] - 1
    BY <1>3 DEF PoolTakes, SameRun
  <2>4. InFlightOf(k)' = InFlightOf(k) \cup {e} /\ e \notin InFlightOf(k)
    BY <2>1 DEF OneGoes, InFlightOf, InFlight
  <2>5. Cardinality(InFlightOf(k)') = Cardinality(InFlightOf(k)) + 1
    BY <2>4, OneMore, InFlightIsFinite
  <2>6. ThrewIn(k)' = ThrewIn(k) /\ ~ AllReturned(k)
    BY <1>2, <2>1, <2>2, PoolContext DEF OneGoes, ThrewIn, AllReturned
  <2>7. run[k] = "pool" \/ ThrewIn(k) # {}
    BY <2>3, <2>6 DEF PoolFacts
  <2>8. \A f \in Endpoints : worker'[k][f] # "lost"
    BY <2>1, <2>3 DEF PoolFacts, OneGoes
  <2>9. run[k] \notin BeforePool
    BY <1>1, <2>3 DEF PoolFacts
  <2>. QED
    BY <1>1, <1>2, <2>2, <2>3, <2>5, <2>6, <2>7, <2>8, <2>9 DEF PoolFacts
<1>4. CASE PoolWorks(k)
  <2>1. PICK e \in Endpoints, p \in InFlight :
          worker[k][e] \in InFlight /\ OneGoes(k, e, p)
    BY <1>4 DEF PoolWorks
  <2>2. run'[k] = run[k] /\ idle'[k] = idle[k]
    BY <1>4 DEF PoolWorks, SameRun
  <2>3. InFlightOf(k)' = InFlightOf(k) /\ e \in InFlightOf(k)
    BY <2>1 DEF OneGoes, InFlightOf
  <2>4. ThrewIn(k)' = ThrewIn(k)
    BY <1>2, <2>1, PoolContext DEF OneGoes, ThrewIn, InFlight
  <2>5. run[k] = "pool" \/ ThrewIn(k) # {}
    BY <2>3 DEF PoolFacts
  <2>6. \A f \in Endpoints : worker'[k][f] # "lost"
    BY <2>1, <2>3 DEF PoolFacts, OneGoes, InFlight
  <2>7. run[k] \notin BeforePool /\ run[k] # "unborn"
    BY <2>1 DEF PoolFacts, InFlight, BeforePool
  <2>8. Targets(k) # {}
    BY <2>7 DEF PoolFacts
  <2>. QED
    BY <1>1, <1>2, <2>2, <2>3, <2>4, <2>5, <2>6, <2>7, <2>8 DEF PoolFacts
<1>5. CASE PoolGivesBack(k)
  <2>1. PICK e \in Endpoints : worker[k][e] \in InFlight /\ OneGoes(k, e, "returned")
    BY <1>5 DEF PoolGivesBack
  <2>2. run'[k] = run[k] /\ idle'[k] = idle[k] + 1
    BY <1>5 DEF PoolGivesBack, SameRun
  <2>3. InFlightOf(k)' = InFlightOf(k) \ {e} /\ e \in InFlightOf(k)
    BY <2>1 DEF OneGoes, InFlightOf, InFlight
  <2>4. Cardinality(InFlightOf(k)') = Cardinality(InFlightOf(k)) - 1
    BY <2>3, OneLess, InFlightIsFinite
  <2>5. ThrewIn(k)' = ThrewIn(k)
    BY <1>2, <2>1, PoolContext DEF OneGoes, ThrewIn, InFlight
  <2>6. run[k] = "pool" \/ ThrewIn(k) # {}
    BY <2>3 DEF PoolFacts
  <2>7. \A f \in Endpoints : worker'[k][f] # "lost"
    BY <2>1, <2>3 DEF PoolFacts, OneGoes
  <2>8. run[k] \notin BeforePool /\ run[k] # "unborn"
    BY <2>1 DEF PoolFacts, InFlight, BeforePool
  <2>9. Targets(k) # {}
    BY <2>8 DEF PoolFacts
  <2>. QED
    BY <1>1, <1>2, <2>2, <2>4, <2>5, <2>6, <2>7, <2>8, <2>9 DEF PoolFacts
<1>6. CASE PoolThrows(k)
  <2>1. PICK e \in Endpoints : worker[k][e] \in InFlight /\ OneGoes(k, e, "threw")
    BY <1>6 DEF PoolThrows
  <2>2. idle'[k] = idle[k] /\ run'[k] = (IF run[k] = "pool" THEN "failing" ELSE run[k])
    BY <1>6 DEF PoolThrows
  <2>3. InFlightOf(k)' = InFlightOf(k) \ {e} /\ e \in InFlightOf(k)
    BY <2>1 DEF OneGoes, InFlightOf, InFlight
  <2>4. Cardinality(InFlightOf(k)') = Cardinality(InFlightOf(k)) - 1
    BY <2>3, OneLess, InFlightIsFinite
  <2>5. e \in Targets(k)
    BY <2>1, PoolContext DEF InFlight
  <2>6. ThrewIn(k)' # {}
    BY <1>2, <2>1, <2>5 DEF OneGoes, ThrewIn
  <2>7. \A f \in Endpoints : worker'[k][f] # "lost"
    BY <2>1, <2>3 DEF PoolFacts, OneGoes
  <2>8. run'[k] \notin BeforePool
    BY <2>1, <2>2 DEF PoolFacts, InFlight, BeforePool
  <2>. QED
    BY <1>1, <1>2, <2>2, <2>4, <2>5, <2>6, <2>7, <2>8 DEF PoolFacts
<1>7. CASE PoolIsLost(k)
  <2>1. InFlightOf(k)' = {} /\ idle'[k] = 0
    BY <1>7 DEF PoolIsLost, InFlightOf, InFlight
  <2>2. Cardinality(InFlightOf(k)') = 0
    BY <2>1, FS_EmptySet
  <2>3. run'[k] \in BeforePool => run'[k] = run[k]
    BY <1>7 DEF PoolIsLost, BeforePool
  <2>4. run'[k] \in BeforePool => \A e \in Endpoints : worker'[k][e] \in {"none", "queued"}
    BY <1>7, <2>3 DEF PoolIsLost, PoolFacts, InFlight
  <2>5. run'[k] # "unborn" => Targets(k) # {}
    BY <1>7 DEF PoolIsLost, PoolFacts
  <2>. QED
    BY <1>1, <1>2, <2>1, <2>2, <2>4, <2>5 DEF PoolFacts
<1>. QED
  BY <1>3, <1>4, <1>5, <1>6, <1>7

LEMMA NextPoolInv ==
  ASSUME JobInv, PoolInv, [Next]_vars
  PROVE  PoolInv'
<1>1. ASSUME NEW k \in Jobs PROVE PoolFacts(k)'
  <2>1. PoolFacts(k) /\ PoolMoves(k)
    BY NextPoolMoves DEF JobInv, PoolInv, PoolFacts
  <2>. QED
    BY <2>1, RunKeepsPoolFacts, WorkersKeepPoolFacts DEF PoolMoves
<1>. QED
  BY <1>1 DEF PoolInv, PoolFacts

LEMMA InitPoolInv == Init => PoolInv
<1> SUFFICES ASSUME Init, NEW k \in Jobs PROVE PoolFacts(k)
  BY DEF PoolInv, PoolFacts
<1>1. /\ run[k] = "unborn" /\ idle[k] = 0 /\ \A e \in Endpoints : worker[k][e] = "none"
  BY DEF Init
<1>2. InFlightOf(k) = {}
  BY <1>1 DEF InFlightOf, InFlight
<1>3. Cardinality(InFlightOf(k)) = 0
  BY <1>2, FS_EmptySet
<1>4. Concurrency(body[k].environment) \in Nat
  BY BoundsAssumption DEF Concurrency
<1>. QED
  BY <1>1, <1>2, <1>3, <1>4 DEF PoolFacts

-----------------------------------------------------------------------------
(* The pool of a run implements the contract of runPool.                   *)

Started(k) == {e \in Targets(k) : worker[k][e] \notin {"none", "queued"}}
Ended(k) == {e \in Targets(k) : worker[k][e] = "returned"}

LEMMA PoolStutters ==
  ASSUME NEW k \in Jobs, body'[k] = body[k], PoolOutcome(k)' = PoolOutcome(k),
         Started(k)' = Started(k), Ended(k)' = Ended(k), ThrewIn(k)' = ThrewIn(k)
  PROVE  UNCHANGED Pool(k)!contractVars
BY DEF Pool!contractVars, Started, Ended, Targets

LEMMA PoolBegins ==
  ASSUME NEW k \in Jobs, Targets(k) = {}, run[k] = "unborn"
  PROVE  Pool(k)!ContractInit
<1>1. PoolOutcome(k) = "idle" /\ ThrewIn(k) = {}
  BY DEF PoolOutcome, ThrewIn
<1>. QED
  BY <1>1 DEF Pool!ContractInit

\* A pool nobody has opened yet looks the same whatever the job is.
LEMMA UnopenedPool ==
  ASSUME NEW k \in Jobs, JobInv, PoolFacts(k), run[k] \in BeforePool
  PROVE  /\ PoolOutcome(k) = "idle"
         /\ Started(k) = {} /\ Ended(k) = {} /\ ThrewIn(k) = {}
<1>1. \A e \in Targets(k) : worker[k][e] \in {"none", "queued"}
  BY PoolContext DEF PoolFacts
<1>2. Started(k) = {} /\ Ended(k) = {} /\ ThrewIn(k) = {}
  BY <1>1 DEF Started, Ended, ThrewIn
<1>3. ~ (Targets(k) # {} /\ AllReturned(k))
  BY <1>1 DEF AllReturned
<1>. QED
  BY <1>2, <1>3 DEF PoolOutcome, BeforePool

\* Where somebody can still be started or come back, the promise is not lost.
LEMMA BusyPool ==
  ASSUME NEW k \in Jobs, JobInv, PoolFacts(k), run[k] = "pool" \/ ThrewIn(k) # {}
  PROVE  PoolOutcome(k) = (IF ThrewIn(k) = {} THEN "pending" ELSE "rejected")
BY DEF PoolOutcome

LEMMA InProgressOf ==
  ASSUME NEW k \in Jobs, JobInv, \A e \in Endpoints : worker[k][e] # "lost"
  PROVE  Started(k) \ (Ended(k) \cup ThrewIn(k)) = InFlightOf(k)
<1>1. Targets(k) \subseteq Endpoints
  BY PoolContext
<1>2. \A e \in Endpoints : worker[k][e] \in WorkerPlaces
  BY DEF JobInv, TypeOK
<1>3. \A e \in Endpoints : worker[k][e] # "none" => e \in Targets(k)
  BY PoolContext
<1>4. ASSUME NEW e \in Endpoints
      PROVE  e \in Started(k) \ (Ended(k) \cup ThrewIn(k)) <=> e \in InFlightOf(k)
  BY <1>2, <1>3, <1>4 DEF Started, Ended, ThrewIn, InFlightOf, InFlight, WorkerPlaces
<1>. QED
  BY <1>1, <1>4 DEF Started, InFlightOf

LEMMA RunStepsContract ==
  ASSUME NEW k \in Jobs, JobInv, PoolFacts(k), PoolFacts(k)', JobInv',
         PoolStill(k) \/ PoolCreated(k) \/ RunTurns(k) \/ PoolOpens(k) \/ PoolCloses(k)
  PROVE  [Pool(k)!ContractNext]_(Pool(k)!contractVars)
<1>1. CASE PoolStill(k) \/ RunTurns(k)
  <2>1. body'[k] = body[k] /\ SameWorkers(k)
    BY <1>1 DEF PoolStill, RunTurns, SamePool
  <2>2. /\ Targets(k)' = Targets(k) /\ Started(k)' = Started(k) /\ Ended(k)' = Ended(k)
        /\ ThrewIn(k)' = ThrewIn(k) /\ AllReturned(k)' = AllReturned(k)
    BY <2>1, PoolContext DEF SameWorkers, Targets, Started, Ended, ThrewIn, AllReturned
  <2>3. PoolOutcome(k)' = PoolOutcome(k)
    BY <1>1, <2>2 DEF PoolOutcome, PoolStill, RunTurns, SameRun
  <2>. QED
    BY <2>1, <2>2, <2>3, PoolStutters
<1>2. CASE PoolCreated(k)
  <2>1. run[k] \in BeforePool /\ run'[k] \in BeforePool
    BY <1>2 DEF PoolCreated, BeforePool
  <2>2. /\ PoolOutcome(k) = "idle"
        /\ Started(k) = {} /\ Ended(k) = {} /\ ThrewIn(k) = {}
    BY <2>1, UnopenedPool
  <2>3. /\ PoolOutcome(k)' = "idle"
        /\ Started(k)' = {} /\ Ended(k)' = {} /\ ThrewIn(k)' = {}
    <3>1. \A e \in Targets(k)' : worker'[k][e] \in {"none", "queued"}
      <4>1. Targets(k)' \subseteq Endpoints
        <5>1. body'[k] \in Requests \cup {NoBody}
          BY DEF JobInv, TypeOK
        <5>. QED
          BY <5>1 DEF Targets, Requests, NoBody
      <4>. QED
        BY <2>1, <4>1 DEF PoolFacts
    <3>2. Started(k)' = {} /\ Ended(k)' = {} /\ ThrewIn(k)' = {}
      BY <3>1 DEF Started, Ended, ThrewIn
    <3>3. ~ (Targets(k)' # {} /\ AllReturned(k)')
      BY <3>1 DEF AllReturned
    <3>. QED
      BY <2>1, <3>2, <3>3 DEF PoolOutcome, BeforePool
  <2>. QED
    BY <2>2, <2>3 DEF Pool!contractVars, Started, Ended
<1>3. CASE PoolOpens(k)
  <2>1. run[k] \in BeforePool /\ run'[k] = "pool" /\ SameWorkers(k) /\ body'[k] = body[k]
    BY <1>3 DEF PoolOpens, BeforePool
  <2>2. PoolOutcome(k) = "idle"
    BY <2>1, UnopenedPool
  <2>3. Started(k)' = {} /\ Ended(k)' = {} /\ ThrewIn(k)' = {}
    <3>1. Started(k)' = Started(k) /\ Ended(k)' = Ended(k) /\ ThrewIn(k)' = ThrewIn(k)
      BY <2>1, PoolContext DEF SameWorkers, Targets, Started, Ended, ThrewIn
    <3>. QED
      BY <2>1, <3>1, UnopenedPool
  <2>4. PoolOutcome(k)' = "pending"
    BY <2>1, <2>3 DEF PoolOutcome
  <2>5. IsFiniteSet(Targets(k)) /\ Targets(k)' = Targets(k)
    BY <2>1, TargetsAreEndpoints DEF JobInv, Targets
  <2>6. /\ Concurrency(body[k].environment) \in Nat \ {0}
        /\ Concurrency(body'[k].environment) = Concurrency(body[k].environment)
    BY <2>1, BoundsAssumption DEF Concurrency
  <2>7. Pool(k)!Open
    BY <2>2, <2>3, <2>4, <2>5, <2>6
    DEF Pool!Open, Pool!IsFiniteSet, IsFiniteSet, Started, Ended
  <2>. QED
    BY <2>7 DEF Pool!ContractNext
<1>4. CASE PoolCloses(k)
  <2>1. /\ run[k] = "pool" /\ run'[k] = "closing" /\ SameWorkers(k) /\ body'[k] = body[k]
        /\ AllReturned(k)
    BY <1>4 DEF PoolCloses, SamePool
  <2>2. /\ Targets(k)' = Targets(k) /\ Started(k)' = Started(k) /\ Ended(k)' = Ended(k)
        /\ ThrewIn(k)' = ThrewIn(k) /\ AllReturned(k)' = AllReturned(k)
    BY <2>1, PoolContext DEF SameWorkers, Targets, Started, Ended, ThrewIn, AllReturned
  <2>3. Ended(k) = Targets(k) /\ ThrewIn(k) = {} /\ Targets(k) # {}
    BY <2>1 DEF AllReturned, Ended, ThrewIn, PoolFacts
  <2>4. PoolOutcome(k) = "pending" /\ PoolOutcome(k)' = "resolved"
    BY <2>1, <2>2, <2>3 DEF PoolOutcome
  <2>5. Pool(k)!Resolve
    BY <2>1, <2>2, <2>3, <2>4 DEF Pool!Resolve, Started, Ended
  <2>. QED
    BY <2>5 DEF Pool!ContractNext
<1>. QED
  BY <1>1, <1>2, <1>3, <1>4

LEMMA WorkerStepsContract ==
  ASSUME NEW k \in Jobs, JobInv, PoolFacts(k),
         PoolTakes(k) \/ PoolWorks(k) \/ PoolGivesBack(k) \/ PoolThrows(k)
  PROVE  [Pool(k)!ContractNext]_(Pool(k)!contractVars)
<1>1. body'[k] = body[k] /\ Targets(k)' = Targets(k)
  BY DEF PoolTakes, PoolWorks, PoolGivesBack, PoolThrows, SameRun, Targets
<1>2. idle[k] > 0 \/ InFlightOf(k) # {}
  BY DEF PoolTakes, PoolWorks, PoolGivesBack, PoolThrows, InFlightOf
<1>3. Started(k) \ (Ended(k) \cup ThrewIn(k)) = InFlightOf(k)
  BY <1>2, InProgressOf DEF PoolFacts
<1>4. CASE PoolTakes(k)
  <2>1. PICK e \in Endpoints, p \in {"cancelling", "connecting"} :
          worker[k][e] = "queued" /\ OneGoes(k, e, p)
    BY <1>4 DEF PoolTakes
  <2>2. run'[k] = run[k] /\ idle[k] > 0
    BY <1>4 DEF PoolTakes, SameRun
  <2>3. e \in Targets(k) \ Started(k)
    BY <2>1, PoolContext DEF Started
  <2>4. /\ Started(k)' = Started(k) \cup {e}
        /\ Ended(k)' = Ended(k) /\ ThrewIn(k)' = ThrewIn(k)
    BY <1>1, <2>1, <2>3, PoolContext DEF OneGoes, Started, Ended, ThrewIn
  <2>5. run[k] = "pool" \/ ThrewIn(k) # {}
    BY <2>1, <2>2, <2>3 DEF PoolFacts, AllReturned
  <2>6. PoolOutcome(k) \in {"pending", "rejected"} /\ PoolOutcome(k)' = PoolOutcome(k)
    BY <2>2, <2>4, <2>5 DEF PoolOutcome
  <2>7. Cardinality(InFlightOf(k)) < Concurrency(body[k].environment)
    BY <2>2, PoolContext, InFlightIsFinite DEF PoolFacts
  <2>8. Pool(k)!Cardinality(Pool(k)!InProgress) < Concurrency(body[k].environment)
    BY <1>3, <2>7 DEF Pool!InProgress, Pool!Cardinality, Cardinality, Started, Ended
  <2>9. Pool(k)!Start
    BY <1>1, <2>3, <2>4, <2>6, <2>8 DEF Pool!Start, Started, Ended
  <2>. QED
    BY <2>9 DEF Pool!ContractNext
<1>5. CASE PoolWorks(k)
  <2>1. PICK e \in Endpoints, p \in InFlight :
          worker[k][e] \in InFlight /\ OneGoes(k, e, p)
    BY <1>5 DEF PoolWorks
  <2>2. run'[k] = run[k]
    BY <1>5 DEF PoolWorks, SameRun
  <2>3. /\ Started(k)' = Started(k) /\ Ended(k)' = Ended(k) /\ ThrewIn(k)' = ThrewIn(k)
        /\ AllReturned(k)' = AllReturned(k)
    BY <1>1, <2>1, PoolContext DEF OneGoes, Started, Ended, ThrewIn, AllReturned, InFlight
  <2>4. PoolOutcome(k)' = PoolOutcome(k)
    BY <1>1, <2>2, <2>3 DEF PoolOutcome
  <2>. QED
    BY <1>1, <2>3, <2>4, PoolStutters
<1>6. CASE PoolGivesBack(k)
  <2>1. PICK e \in Endpoints : worker[k][e] \in InFlight /\ OneGoes(k, e, "returned")
    BY <1>6 DEF PoolGivesBack
  <2>2. run'[k] = run[k]
    BY <1>6 DEF PoolGivesBack, SameRun
  <2>3. e \in InFlightOf(k) /\ e \in Targets(k)
    BY <2>1, PoolContext DEF InFlightOf, InFlight
  <2>4. /\ Started(k)' = Started(k) /\ Ended(k)' = Ended(k) \cup {e}
        /\ ThrewIn(k)' = ThrewIn(k)
    BY <1>1, <2>1, <2>3, PoolContext DEF OneGoes, Started, Ended, ThrewIn, InFlight
  <2>5. PoolOutcome(k) \in {"pending", "rejected"} /\ PoolOutcome(k)' = PoolOutcome(k)
    BY <2>2, <2>3, <2>4 DEF PoolOutcome, PoolFacts
  <2>6. e \in Pool(k)!InProgress
    BY <1>3, <2>3 DEF Pool!InProgress, Started, Ended
  <2>7. Pool(k)!Finish
    BY <1>1, <2>4, <2>5, <2>6 DEF Pool!Finish, Started, Ended
  <2>. QED
    BY <2>7 DEF Pool!ContractNext
<1>7. CASE PoolThrows(k)
  <2>1. PICK e \in Endpoints : worker[k][e] \in InFlight /\ OneGoes(k, e, "threw")
    BY <1>7 DEF PoolThrows
  <2>2. e \in InFlightOf(k) /\ e \in Targets(k)
    BY <2>1, PoolContext DEF InFlightOf, InFlight
  <2>3. /\ Started(k)' = Started(k) /\ Ended(k)' = Ended(k)
        /\ ThrewIn(k)' = ThrewIn(k) \cup {e}
    BY <1>1, <2>1, <2>2, PoolContext DEF OneGoes, Started, Ended, ThrewIn, InFlight
  <2>4. PoolOutcome(k) \in {"pending", "rejected"} /\ PoolOutcome(k)' = "rejected"
    BY <2>2, <2>3 DEF PoolOutcome, PoolFacts
  <2>5. e \in Pool(k)!InProgress
    BY <1>3, <2>2 DEF Pool!InProgress, Started, Ended
  <2>6. Pool(k)!Throw
    BY <1>1, <2>3, <2>4, <2>5 DEF Pool!Throw, Started, Ended
  <2>. QED
    BY <2>6 DEF Pool!ContractNext
<1>. QED
  BY <1>4, <1>5, <1>6, <1>7

LEMMA RestartContract ==
  ASSUME NEW k \in Jobs, JobInv, PoolFacts(k), PoolIsLost(k)
  PROVE  [Pool(k)!ContractNext]_(Pool(k)!contractVars)
<1>1. body'[k] = body[k] /\ Targets(k)' = Targets(k) /\ Targets(k) \subseteq Endpoints
  BY PoolContext DEF PoolIsLost, Targets
<1>2. \A f \in Targets(k) :
        worker'[k][f] = IF worker[k][f] \in InFlight THEN "lost" ELSE worker[k][f]
  BY <1>1 DEF PoolIsLost
<1>3. /\ Started(k)' = Started(k) /\ Ended(k)' = Ended(k) /\ ThrewIn(k)' = ThrewIn(k)
      /\ AllReturned(k)' = AllReturned(k)
  BY <1>1, <1>2 DEF Started, Ended, ThrewIn, AllReturned, InFlight
<1>4. CASE ThrewIn(k) # {} \/ run'[k] = run[k]
  <2>1. PoolOutcome(k)' = PoolOutcome(k)
    BY <1>1, <1>3, <1>4 DEF PoolOutcome
  <2>. QED
    BY <1>1, <1>3, <2>1, PoolStutters
<1>5. CASE ThrewIn(k) = {} /\ run'[k] = "lost"
  <2>1. PoolOutcome(k)' = "lost"
    BY <1>3, <1>5 DEF PoolOutcome
  <2>2. Pool(k)!Lose
    BY <1>3, <2>1 DEF Pool!Lose, Started, Ended
  <2>. QED
    BY <2>2 DEF Pool!ContractNext
<1>. QED
  BY <1>4, <1>5 DEF PoolIsLost

\* Every run uses its pool as runPool promises, whatever fails: it is opened once
\* on the endpoints of the job, no endpoint is started twice, never more of them
\* are in progress than the environment of the job allows, and the run goes on
\* only after all of them came back.
THEOREM RunsKeepPoolContract == Spec => PoolsKeepContract
<1>1. Init => \A j \in Jobs : Pool(j)!ContractInit
  <2>1. Init => \A j \in Jobs : Targets(j) = {} /\ run[j] = "unborn"
    BY DEF Init, Targets, NoBody
  <2>. QED
    BY <2>1, PoolBegins
<1>2. JobInv /\ PoolInv /\ [Next]_vars => PoolInv'
  BY NextPoolInv
<1>3. /\ JobInv /\ PoolInv /\ JobInv' /\ PoolInv' /\ [Next]_vars
      => [\A j \in Jobs : [Pool(j)!ContractNext]_(Pool(j)!contractVars)]_vars
  <2> SUFFICES ASSUME JobInv, PoolInv, JobInv', PoolInv', [Next]_vars, NEW k \in Jobs
               PROVE  [Pool(k)!ContractNext]_(Pool(k)!contractVars)
    OBVIOUS
  <2>1. PoolFacts(k) /\ PoolFacts(k)'
    BY DEF PoolInv, PoolFacts
  <2>2. PoolMoves(k)
    BY NextPoolMoves DEF JobInv
  <2>. QED
    BY <2>1, <2>2, RunStepsContract, WorkerStepsContract, RestartContract DEF PoolMoves
<1>. QED
  BY <1>1, <1>2, <1>3, InitPoolInv, JobInvariant, PTL DEF Spec, PoolsKeepContract
=============================================================================
