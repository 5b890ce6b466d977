---------------------------- MODULE DeploymentJob ----------------------------
(***************************************************************************)
(* Install and uninstall jobs: services/deploymentService.js, with the     *)
(* part of the Job and VM documents it reads and writes.                   *)
(*                                                                         *)
(* The service is one Node process.  Code between two awaits is one step;  *)
(* a database call is a step of its own, taken when the server applies it, *)
(* with the values the code had when it issued the call.  What happens on  *)
(* an endpoint between "connecting" and its result is one step with three  *)
(* possible verdicts (UninstallRscd and the installer are other modules).  *)
(* Endpoints are claimed in any order; a job is given at least one.        *)
(***************************************************************************)
EXTENDS Integers, FiniteSets

CONSTANTS
  Jobs,             \* jobs the database may come to hold
  Endpoints,        \* the fleet
  EnvironmentOf,    \* environment of each endpoint record
  Bodies,           \* requests operators submit
  RndConcurrency,   \* deployConfig.rndConcurrency
  ProdConcurrency,  \* deployConfig.prodConcurrency
  MaxSteps,         \* bound: step updates of one job in flight together
  MaxFaults,        \* bound: database calls that fail
  MayCrash          \* whether the process may be restarted

Environments == {"rnd", "prod"}
Kinds == {"install_package", "uninstall_rscd", "uninstall_program"}

\* The "parent" of a retry is in the name it is given.
NoJob == "none"
Requests == [kind : Kinds, environment : Environments, confirmed : BOOLEAN,
             endpoints : (SUBSET Endpoints) \ {{}}, parent : Jobs \cup {NoJob}]

ASSUME FleetAssumption ==
  /\ IsFiniteSet(Endpoints)
  /\ EnvironmentOf \in [Endpoints -> Environments]
  /\ Bodies \subseteq {b \in Requests : b.parent = NoJob}
ASSUME BoundsAssumption ==
  /\ RndConcurrency \in Nat \ {0}
  /\ ProdConcurrency \in Nat \ {0}
  /\ MaxSteps \in Nat
  /\ MaxFaults \in Nat
  /\ MayCrash \in BOOLEAN

VARIABLES
  \* The database.
  body,         \* what the job document says it is to do
  status,       \* job.status
  progress,     \* job.progress, in endpoints (all of them for 100)
  statistics,   \* job.statistics
  results,      \* job.endpointResults[].status
  agentStatus,  \* vm.agentStatus
  \* The process.
  running,      \* the set "running"
  cancelFlags,  \* the set "cancelFlags"
  run,          \* where the run of each job is
  idle,         \* runners of the job's pool that are free to claim
  worker,       \* where the worker of each endpoint is
  verdict,      \* what the worker learnt of its endpoint
  stats,        \* the local variable "stats" of runJob
  done,         \* the local variable "done" of runJob
  sent,         \* values a progress update in flight carries
  steps,        \* step updates in flight, which nobody awaits
  cancelling,   \* cancel calls between their check and their save
  \* History and bounds.
  spared,       \* endpoints still queued when a cancel was last accepted
  faults        \* database calls that have failed

vars == <<body, status, progress, statistics, results, agentStatus, running,
          cancelFlags, run, idle, worker, verdict, stats, done, sent, steps,
          cancelling, spared, faults>>

jobDoc == <<status, progress, statistics>>
runVars == <<run, running>>
tallyVars == <<verdict, stats, done, sent>>
cancelVars == <<cancelFlags, cancelling, spared>>

Terminal == {"completed", "failed", "cancelled"}
Statuses == {"absent", "pending", "running"} \cup Terminal

RunPlaces == {"unborn", "creating", "logging", "scheduled", "loading", "starting",
              "package", "pool", "closing", "failing", "settled", "aborted",
              "dropped", "lost"}
WorkerPlaces == {"none", "queued", "cancelling", "connecting", "remote", "recording",
                 "marking", "reporting", "returned", "threw", "lost"}
InFlight == {"cancelling", "connecting", "remote", "recording", "marking", "reporting"}
Verdicts == {"unknown", "success", "failed", "skipped"}
Steps == {"step", "done", "failed"}
ResultStatuses == {"none", "queued", "connecting", "skipped", "cancelled"} \cup Steps

Counters == [success : Nat, failed : Nat, skipped : Nat, cancelled : Nat]
Zero == [success |-> 0, failed |-> 0, skipped |-> 0, cancelled |-> 0]

Nothing == [done |-> 0, stats |-> Zero]

NoBody == [kind |-> "install_package", environment |-> "rnd", confirmed |-> FALSE,
           endpoints |-> {}, parent |-> NoJob]

Targets(j) == body[j].endpoints
Total(j) == Cardinality(Targets(j))

Concurrency(environment) ==
  IF environment = "prod" THEN ProdConcurrency ELSE RndConcurrency

-----------------------------------------------------------------------------

Init ==
  /\ body = [j \in Jobs |-> NoBody]
  /\ status = [j \in Jobs |-> "absent"]
  /\ progress = [j \in Jobs |-> 0]
  /\ statistics = [j \in Jobs |-> Zero]
  /\ results = [j \in Jobs |-> [e \in Endpoints |-> "none"]]
  /\ agentStatus = [e \in Endpoints |-> "active"]
  /\ running = {}
  /\ cancelFlags = {}
  /\ run = [j \in Jobs |-> "unborn"]
  /\ idle = [j \in Jobs |-> 0]
  /\ worker = [j \in Jobs |-> [e \in Endpoints |-> "none"]]
  /\ verdict = [j \in Jobs |-> [e \in Endpoints |-> "unknown"]]
  /\ stats = [j \in Jobs |-> Zero]
  /\ done = [j \in Jobs |-> 0]
  /\ sent = [j \in Jobs |-> [e \in Endpoints |-> Nothing]]
  /\ steps = [j \in Jobs |-> {}]
  /\ cancelling = {}
  /\ spared = [j \in Jobs |-> {}]
  /\ faults = 0

-----------------------------------------------------------------------------
(* Creating a job: a request is checked, the document is inserted, the     *)
(* activity log is written, and the run is scheduled.                      *)

\* createInstallJob and createUninstallJob refuse an unconfirmed production
\* job; only the latter compares the endpoints' own environment.
Accepts(b) ==
  /\ b.environment = "prod" => b.confirmed
  /\ b.kind # "install_package" =>
       \A e \in b.endpoints : EnvironmentOf[e] = b.environment

Request(j, b) ==
  /\ run[j] = "unborn"
  /\ Accepts(b)
  /\ body' = [body EXCEPT ![j] = b]
  /\ run' = [run EXCEPT ![j] = "creating"]
  /\ UNCHANGED <<jobDoc, results, agentStatus, running, idle, worker, tallyVars,
                 steps, cancelVars, faults>>

Submit(j) == \E b \in Bodies : Request(j, b)

\* Faulty variant: whatever is not done is taken for a failure.
UndoneResults(j) == {e \in Targets(j) : results[j][e] # "done"}

FailedResults(j) == {e \in Targets(j) : results[j][e] = "failed"}

\* retryFailed: the endpoints whose recorded result is "failed", whatever the
\* job is doing, in a new job that is confirmed on the operator's behalf.
RetryFailed(j, k) ==
  /\ status[j] # "absent"
  /\ FailedResults(j) # {}
  /\ Request(k, [body[j] EXCEPT !.parent = j,
                                !.endpoints = FailedResults(j),
                                !.confirmed = (body[j].environment = "prod")])

InsertJob(j) ==
  /\ run[j] = "creating"
  /\ status' = [status EXCEPT ![j] = "pending"]
  /\ results' = [results EXCEPT ![j] =
                   [e \in Endpoints |-> IF e \in Targets(j) THEN "queued" ELSE "none"]]
  /\ worker' = [worker EXCEPT ![j] =
                  [e \in Endpoints |-> IF e \in Targets(j) THEN "queued" ELSE "none"]]
  /\ run' = [run EXCEPT ![j] = "logging"]
  /\ UNCHANGED <<body, progress, statistics, agentStatus, running, idle, tallyVars,
                 steps, cancelVars, faults>>

\* The activity log answered: setImmediate(runJob).
Schedule(j) ==
  /\ run[j] = "logging"
  /\ run' = [run EXCEPT ![j] = "scheduled"]
  /\ UNCHANGED <<body, jobDoc, results, agentStatus, running, idle, worker,
                 tallyVars, steps, cancelVars, faults>>

-----------------------------------------------------------------------------
(* The run, up to its pool.                                                *)

\* Entering runJob forgets any cancel accepted before.
StartRun(j) ==
  /\ run[j] = "scheduled"
  /\ j \notin running
  /\ running' = running \cup {j}
  /\ cancelFlags' = cancelFlags \ {j}
  /\ run' = [run EXCEPT ![j] = "loading"]
  /\ UNCHANGED <<body, jobDoc, results, agentStatus, idle, worker, tallyVars,
                 steps, cancelling, spared, faults>>

LoadJob(j) ==
  /\ run[j] = "loading"
  /\ run' = [run EXCEPT ![j] = "starting"]
  /\ UNCHANGED <<body, jobDoc, results, agentStatus, running, idle, worker,
                 tallyVars, steps, cancelVars, faults>>

\* status: "running", whatever it was.
MarkRunning(j) ==
  /\ run[j] = "starting"
  /\ status' = [status EXCEPT ![j] = "running"]
  /\ run' = [run EXCEPT ![j] = "package"]
  /\ UNCHANGED <<body, progress, statistics, results, agentStatus, running, idle,
                 worker, tallyVars, steps, cancelVars, faults>>

\* Faulty variant: one runner per endpoint, whatever the environment.
OpenPoolUnbounded(j) ==
  /\ run[j] = "package"
  /\ run' = [run EXCEPT ![j] = "pool"]
  /\ idle' = [idle EXCEPT ![j] = Total(j)]
  /\ UNCHANGED <<body, jobDoc, results, agentStatus, running, worker, tallyVars,
                 steps, cancelVars, faults>>

\* The package is looked up (install jobs), then runPool is called.
OpenPool(j) ==
  LET limit == Concurrency(body[j].environment) IN
  /\ run[j] = "package"
  /\ run' = [run EXCEPT ![j] = "pool"]
  /\ idle' = [idle EXCEPT ![j] = IF limit < Total(j) THEN limit ELSE Total(j)]
  /\ UNCHANGED <<body, jobDoc, results, agentStatus, running, worker, tallyVars,
                 steps, cancelVars, faults>>

-----------------------------------------------------------------------------
(* The worker of one endpoint.                                             *)

\* Faulty variant: the flag is not looked at.
ClaimIgnoringCancel(j, e) ==
  /\ idle[j] > 0
  /\ worker[j][e] = "queued"
  /\ idle' = [idle EXCEPT ![j] = @ - 1]
  /\ worker' = [worker EXCEPT ![j][e] = "connecting"]
  /\ UNCHANGED <<body, jobDoc, results, agentStatus, runVars, tallyVars, steps,
                 cancelVars, faults>>

\* A free runner takes an endpoint and looks at the cancel flag.
Claim(j, e) ==
  /\ idle[j] > 0
  /\ worker[j][e] = "queued"
  /\ idle' = [idle EXCEPT ![j] = @ - 1]
  /\ \/ /\ j \in cancelFlags
        /\ stats' = [stats EXCEPT ![j].cancelled = @ + 1]
        /\ worker' = [worker EXCEPT ![j][e] = "cancelling"]
     \/ /\ j \notin cancelFlags
        /\ worker' = [worker EXCEPT ![j][e] = "connecting"]
        /\ UNCHANGED stats
  /\ UNCHANGED <<body, jobDoc, results, agentStatus, runVars, verdict, done, sent,
                 steps, cancelVars, faults>>

\* A cancelled endpoint is recorded and counted, but not written to progress.
RecordCancelled(j, e) ==
  /\ worker[j][e] = "cancelling"
  /\ results' = [results EXCEPT ![j][e] = "cancelled"]
  /\ done' = [done EXCEPT ![j] = @ + 1]
  /\ worker' = [worker EXCEPT ![j][e] = "returned"]
  /\ idle' = [idle EXCEPT ![j] = @ + 1]
  /\ UNCHANGED <<body, jobDoc, agentStatus, runVars, verdict, stats, sent, steps,
                 cancelVars, faults>>

RecordConnecting(j, e) ==
  /\ worker[j][e] = "connecting"
  /\ results' = [results EXCEPT ![j][e] = "connecting"]
  /\ worker' = [worker EXCEPT ![j][e] = "remote"]
  /\ UNCHANGED <<body, jobDoc, agentStatus, runVars, idle, tallyVars, steps,
                 cancelVars, faults>>

\* hooks.onStatus: the install or uninstall reports a step and goes on without
\* awaiting the update.
ReportStep(j, e) ==
  /\ worker[j][e] = "remote"
  /\ Cardinality(steps[j]) < MaxSteps
  /\ steps' = [steps EXCEPT ![j] = @ \cup {<<e, "step">>}]
  /\ UNCHANGED <<body, jobDoc, results, agentStatus, runVars, idle, worker,
                 tallyVars, cancelVars, faults>>

\* The server applies it: the driver sends each call on any free connection of
\* its pool, so an awaited update issued later may already have been applied.
LandStep(j, e) ==
  /\ \E s \in Steps :
       /\ <<e, s>> \in steps[j]
       /\ steps' = [steps EXCEPT ![j] = @ \ {<<e, s>>}]
       /\ results' = [results EXCEPT ![j][e] = s]
  /\ UNCHANGED <<body, jobDoc, agentStatus, runVars, idle, worker, tallyVars,
                 cancelVars, faults>>

LastStep(v) == IF v = "failed" THEN "failed" ELSE "done"

\* The install or uninstall answered or threw, some branches of it after a last
\* report: exactly one counter moves.
Conclude(j, e) ==
  /\ worker[j][e] = "remote"
  /\ worker' = [worker EXCEPT ![j][e] = "recording"]
  /\ \E v \in Verdicts \ {"unknown"} :
       /\ verdict' = [verdict EXCEPT ![j][e] = v]
       /\ stats' = [stats EXCEPT ![j][v] = @ + 1]
       /\ \/ UNCHANGED steps
          \/ /\ Cardinality(steps[j]) < MaxSteps
             /\ steps' = [steps EXCEPT ![j] = @ \cup {<<e, LastStep(v)>>}]
  /\ UNCHANGED <<body, jobDoc, results, agentStatus, runVars, idle, done, sent,
                 cancelVars, faults>>

ResultOf(v) == IF v = "success" THEN "done" ELSE v

\* done++, and the update of progress and statistics is issued with the values
\* they have at this moment.
IssueProgress(j, e) ==
  /\ worker' = [worker EXCEPT ![j][e] = "reporting"]
  /\ done' = [done EXCEPT ![j] = @ + 1]
  /\ sent' = [sent EXCEPT ![j][e] = [done |-> done[j] + 1, stats |-> stats[j]]]
  /\ UNCHANGED <<verdict, stats>>

MarksRemoval(j, e) == body[j].kind = "uninstall_rscd" /\ verdict[j][e] = "success"

\* Faulty variant: the endpoint record is left to the next check.
RecordResultOnly(j, e) ==
  /\ worker[j][e] = "recording"
  /\ results' = [results EXCEPT ![j][e] = ResultOf(verdict[j][e])]
  /\ IssueProgress(j, e)
  /\ UNCHANGED <<body, jobDoc, agentStatus, runVars, idle, steps, cancelVars, faults>>

RecordResult(j, e) ==
  /\ worker[j][e] = "recording"
  /\ results' = [results EXCEPT ![j][e] = ResultOf(verdict[j][e])]
  /\ \/ /\ MarksRemoval(j, e)
        /\ worker' = [worker EXCEPT ![j][e] = "marking"]
        /\ UNCHANGED tallyVars
     \/ /\ ~ MarksRemoval(j, e)
        /\ IssueProgress(j, e)
  /\ UNCHANGED <<body, jobDoc, agentStatus, runVars, idle, steps, cancelVars, faults>>

\* A removed RSCD agent is recorded on the endpoint itself.
MarkRemoved(j, e) ==
  /\ worker[j][e] = "marking"
  /\ agentStatus' = [agentStatus EXCEPT ![e] = "removed"]
  /\ IssueProgress(j, e)
  /\ UNCHANGED <<body, jobDoc, results, runVars, idle, steps, cancelVars, faults>>

WriteProgress(j, e) ==
  /\ worker[j][e] = "reporting"
  /\ progress' = [progress EXCEPT ![j] = sent[j][e].done]
  /\ statistics' = [statistics EXCEPT ![j] = sent[j][e].stats]
  /\ worker' = [worker EXCEPT ![j][e] = "returned"]
  /\ idle' = [idle EXCEPT ![j] = @ + 1]
  /\ sent' = [sent EXCEPT ![j][e] = Nothing]
  /\ UNCHANGED <<body, status, results, agentStatus, runVars, verdict, stats, done,
                 steps, cancelVars, faults>>

-----------------------------------------------------------------------------
(* The end of the run.                                                     *)

\* Faulty variant: the pool is left when everything has been handed out.
LeavePoolEarly(j) ==
  /\ run[j] = "pool"
  /\ \A e \in Targets(j) : worker[j][e] \in {"reporting", "returned"}
  /\ run' = [run EXCEPT ![j] = "closing"]
  /\ UNCHANGED <<body, jobDoc, results, agentStatus, running, idle, worker,
                 tallyVars, steps, cancelVars, faults>>

\* The await of runPool returns.
LeavePool(j) ==
  /\ run[j] = "pool"
  /\ \A e \in Targets(j) : worker[j][e] = "returned"
  /\ run' = [run EXCEPT ![j] = "closing"]
  /\ UNCHANGED <<body, jobDoc, results, agentStatus, running, idle, worker,
                 tallyVars, steps, cancelVars, faults>>

FinalStatus(s) == IF s.failed > 0 /\ s.success = 0 THEN "failed" ELSE "completed"

\* Faulty variant: the final write is skipped when a cancel has been accepted.
WriteFinalUnlessCancelled(j) ==
  /\ run[j] = "closing"
  /\ j \notin cancelFlags
  /\ status' = [status EXCEPT ![j] = FinalStatus(stats[j])]
  /\ progress' = [progress EXCEPT ![j] = Total(j)]
  /\ statistics' = [statistics EXCEPT ![j] = stats[j]]
  /\ run' = [run EXCEPT ![j] = "settled"]
  /\ running' = running \ {j}
  /\ UNCHANGED <<body, results, agentStatus, idle, worker, tallyVars, steps,
                 cancelVars, faults>>

\* The final write looks at the counters alone, then the run is over.
WriteFinal(j) ==
  /\ run[j] = "closing"
  /\ status' = [status EXCEPT ![j] = FinalStatus(stats[j])]
  /\ progress' = [progress EXCEPT ![j] = Total(j)]
  /\ statistics' = [statistics EXCEPT ![j] = stats[j]]
  /\ run' = [run EXCEPT ![j] = "settled"]
  /\ running' = running \ {j}
  /\ UNCHANGED <<body, results, agentStatus, idle, worker, tallyVars, steps,
                 cancelVars, faults>>

\* Faulty variant: the catch block only logs.
EndWithoutFailing(j) ==
  /\ run[j] = "failing"
  /\ run' = [run EXCEPT ![j] = "aborted"]
  /\ running' = running \ {j}
  /\ UNCHANGED <<body, jobDoc, results, agentStatus, idle, worker, tallyVars,
                 steps, cancelVars, faults>>

\* The catch block: the statistics stay as the last update left them.
WriteFailed(j) ==
  /\ run[j] = "failing"
  /\ status' = [status EXCEPT ![j] = "failed"]
  /\ progress' = [progress EXCEPT ![j] = Total(j)]
  /\ run' = [run EXCEPT ![j] = "aborted"]
  /\ running' = running \ {j}
  /\ UNCHANGED <<body, statistics, results, agentStatus, idle, worker, tallyVars,
                 steps, cancelVars, faults>>

-----------------------------------------------------------------------------
(* cancelJob.                                                              *)

\* The job is read, found not to be over, and flagged.
AcceptCancel(j) ==
  /\ status[j] \in {"pending", "running"}
  /\ j \notin cancelling
  /\ cancelFlags' = cancelFlags \cup {j}
  /\ cancelling' = cancelling \cup {j}
  /\ spared' = [spared EXCEPT ![j] = {e \in Targets(j) : worker[j][e] = "queued"}]
  /\ UNCHANGED <<body, jobDoc, results, agentStatus, runVars, idle, worker,
                 tallyVars, steps, faults>>

\* job.save(): the status is written whatever happened since the read.
SaveCancelled(j) ==
  /\ j \in cancelling
  /\ status' = [status EXCEPT ![j] = "cancelled"]
  /\ cancelling' = cancelling \ {j}
  /\ UNCHANGED <<body, progress, statistics, results, agentStatus, runVars, idle,
                 worker, tallyVars, steps, cancelFlags, spared, faults>>

-----------------------------------------------------------------------------
(* Database calls that fail, and restarts.                                 *)

Fault == faults < MaxFaults /\ faults' = faults + 1

\* Job.create failed: nothing was inserted.  Or the activity log failed: the
\* request is answered with an error, and the inserted job is never scheduled.
CreateError(j) ==
  /\ Fault
  /\ run[j] \in {"creating", "logging"}
  /\ run' = [run EXCEPT ![j] = "dropped"]
  /\ UNCHANGED <<body, jobDoc, results, agentStatus, running, idle, worker,
                 tallyVars, steps, cancelVars>>

\* A call awaited by the run itself throws into its catch block.
RunError(j) ==
  /\ Fault
  /\ \/ run[j] \in {"loading", "starting", "closing"}
     \/ run[j] = "package" /\ body[j].kind = "install_package"
  /\ run' = [run EXCEPT ![j] = "failing"]
  /\ UNCHANGED <<body, jobDoc, results, agentStatus, running, idle, worker,
                 tallyVars, steps, cancelVars>>

\* A call awaited by a worker rejects the worker, its runner and the pool; the
\* other runners go on.
WorkerError(j, e) ==
  /\ Fault
  /\ worker[j][e] \in InFlight \ {"remote"}
  /\ worker' = [worker EXCEPT ![j][e] = "threw"]
  /\ run' = [run EXCEPT ![j] = IF @ = "pool" THEN "failing" ELSE @]
  /\ UNCHANGED <<body, jobDoc, results, agentStatus, running, idle, tallyVars,
                 steps, cancelVars>>

\* The update of the catch block itself fails, and that is ignored.
FailedWriteError(j) ==
  /\ Fault
  /\ run[j] = "failing"
  /\ run' = [run EXCEPT ![j] = "aborted"]
  /\ running' = running \ {j}
  /\ UNCHANGED <<body, jobDoc, results, agentStatus, idle, worker, tallyVars,
                 steps, cancelVars>>

\* job.save() of cancelJob fails: the flag is already set.
CancelError(j) ==
  /\ Fault
  /\ j \in cancelling
  /\ cancelling' = cancelling \ {j}
  /\ UNCHANGED <<body, jobDoc, results, agentStatus, runVars, idle, worker,
                 tallyVars, steps, cancelFlags, spared>>

\* A step update fails; its rejection is only logged.
StepError(j, e) ==
  /\ Fault
  /\ \E s \in Steps :
       /\ <<e, s>> \in steps[j]
       /\ steps' = [steps EXCEPT ![j] = @ \ {<<e, s>>}]
  /\ UNCHANGED <<body, jobDoc, results, agentStatus, runVars, idle, worker,
                 tallyVars, cancelVars>>

\* The process restarts: everything but the database is gone, and nothing
\* at start-up looks for jobs that were under way.
Restart ==
  /\ MayCrash
  /\ running' = {}
  /\ cancelFlags' = {}
  /\ cancelling' = {}
  /\ run' = [j \in Jobs |->
               IF run[j] \in {"unborn", "settled", "aborted", "dropped"}
               THEN run[j] ELSE "lost"]
  /\ idle' = [j \in Jobs |-> 0]
  /\ worker' = [j \in Jobs |-> [e \in Endpoints |->
                  IF worker[j][e] \in InFlight THEN "lost" ELSE worker[j][e]]]
  /\ steps' = [j \in Jobs |-> {}]
  /\ UNCHANGED <<body, jobDoc, results, agentStatus, tallyVars, spared, faults>>

-----------------------------------------------------------------------------

WorkerStep(j, e) ==
  \/ Claim(j, e)
  \/ RecordCancelled(j, e)
  \/ RecordConnecting(j, e)
  \/ Conclude(j, e)
  \/ RecordResult(j, e)
  \/ MarkRemoved(j, e)
  \/ WriteProgress(j, e)

RunStep(j) ==
  \/ InsertJob(j)
  \/ Schedule(j)
  \/ StartRun(j)
  \/ LoadJob(j)
  \/ MarkRunning(j)
  \/ OpenPool(j)
  \/ LeavePool(j)
  \/ WriteFinal(j)
  \/ WriteFailed(j)

Errors(j) ==
  \/ CreateError(j)
  \/ RunError(j)
  \/ FailedWriteError(j)
  \/ CancelError(j)
  \/ \E e \in Endpoints : WorkerError(j, e) \/ StepError(j, e)

Next ==
  \/ \E j \in Jobs :
       \/ Submit(j)
       \/ \E k \in Jobs : RetryFailed(j, k)
       \/ RunStep(j)
       \/ AcceptCancel(j)
       \/ SaveCancelled(j)
       \/ Errors(j)
       \/ \E e \in Endpoints :
            \/ WorkerStep(j, e)
            \/ ReportStep(j, e)
            \/ LandStep(j, e)
  \/ Restart

Spec == Init /\ [][Next]_vars

(***************************************************************************)
(* Fairness: the event loop runs every continuation, the database answers  *)
(* every call, and every remote operation ends (wmiExec.js and winRemote.js *)
(* bound each remote call by a timeout).  Operators owe nothing.           *)
(***************************************************************************)
Fairness ==
  \A j \in Jobs :
    /\ WF_vars(RunStep(j))
    /\ WF_vars(SaveCancelled(j))
    /\ \A e \in Endpoints : WF_vars(WorkerStep(j, e)) /\ WF_vars(LandStep(j, e))

FairSpec == Spec /\ Fairness

-----------------------------------------------------------------------------

TypeOK ==
  /\ body \in [Jobs -> Requests \cup {NoBody}]
  /\ status \in [Jobs -> Statuses]
  /\ progress \in [Jobs -> Nat]
  /\ statistics \in [Jobs -> Counters]
  /\ results \in [Jobs -> [Endpoints -> ResultStatuses]]
  /\ agentStatus \in [Endpoints -> {"active", "removed"}]
  /\ running \subseteq Jobs
  /\ cancelFlags \subseteq Jobs
  /\ run \in [Jobs -> RunPlaces]
  /\ idle \in [Jobs -> Nat]
  /\ worker \in [Jobs -> [Endpoints -> WorkerPlaces]]
  /\ verdict \in [Jobs -> [Endpoints -> Verdicts]]
  /\ stats \in [Jobs -> Counters]
  /\ done \in [Jobs -> Nat]
  /\ sent \in [Jobs -> [Endpoints -> [done : Nat, stats : Counters]]]
  /\ steps \in [Jobs -> SUBSET (Endpoints \X Steps)]
  /\ cancelling \subseteq Jobs
  /\ spared \in [Jobs -> SUBSET Endpoints]
  /\ faults \in Nat

Having(j, v) == {e \in Targets(j) : verdict[j][e] = v}

\* However the progress updates of the endpoints overtook one another, a run
\* that ended by itself leaves statistics that count each endpoint once, under
\* what happened on it, and a full progress; nothing changes them later.
SettledTally ==
  \A j \in Jobs : run[j] = "settled" =>
    /\ statistics[j] = [success |-> Cardinality(Having(j, "success")),
                        failed |-> Cardinality(Having(j, "failed")),
                        skipped |-> Cardinality(Having(j, "skipped")),
                        cancelled |-> Cardinality(Having(j, "unknown"))]
    /\ progress[j] = Total(j)

\* A job shown as completed touches no endpoint any more, even if some of its
\* database calls failed.
CompletedIsQuiet ==
  \A j \in Jobs : status[j] = "completed" =>
    \A e \in Endpoints : worker[j][e] \notin InFlight

\* An RSCD uninstall counted as a success has been recorded on the endpoint
\* itself by the time the job ends.
RemovalIsRecorded ==
  \A j \in Jobs : run[j] = "settled" =>
    \A e \in Targets(j) : MarksRemoval(j, e) => agentStatus[e] = "removed"

\* While a cancel flag stands, none of the endpoints that were queued when it
\* was raised is operated on.
CancelFlagSparesQueued ==
  \A j \in cancelFlags : \A e \in spared[j] :
    worker[j][e] \in {"queued", "cancelling", "returned", "threw", "lost"}
      /\ verdict[j][e] = "unknown"

\* A retry, asked for at any time, works on no endpoint that succeeded, was
\* skipped, was spared by a cancel or is still being worked on in its parent.
RetryRepeatsOnlyFailures ==
  \A k \in Jobs : body[k].parent # NoJob =>
    Targets(k) \subseteq Having(body[k].parent, "failed")

\* One failed database call never leaves a job that ran without a final status.
OneFaultNeverStrands ==
  faults <= 1 =>
    \A j \in Jobs : run[j] \in {"settled", "aborted"} => status[j] \in Terminal

(***************************************************************************)
(* The strengthening that makes the above inductive.                       *)
(***************************************************************************)

\* A verdict is known from the moment the remote operation ended, no sooner.
VerdictInv ==
  \A j \in Jobs, e \in Endpoints :
    /\ worker[j][e] \in {"none", "queued", "cancelling", "connecting", "remote"} =>
         verdict[j][e] = "unknown"
    /\ worker[j][e] \in {"recording", "marking", "reporting"} =>
         verdict[j][e] # "unknown"

\* A job not inserted yet has no worker and cannot have been cancelled; only
\* targets have workers; and all are back when the final write is at hand.
PlaceInv ==
  \A j \in Jobs :
    /\ run[j] \in {"unborn", "creating"} =>
         /\ status[j] = "absent"
         /\ j \notin cancelFlags \cup cancelling
         /\ \A e \in Endpoints : worker[j][e] = "none"
    /\ \A e \in Endpoints : worker[j][e] # "none" => e \in Targets(j)
    /\ run[j] \in {"closing", "settled"} =>
         \A e \in Endpoints : worker[j][e] \in {"none", "returned"}
    /\ status[j] = "completed" => run[j] = "settled"

\* What an endpoint's worker has behind it when it reports.
RemovalInv ==
  \A j \in Jobs, e \in Endpoints :
    worker[j][e] \in {"reporting", "returned"} /\ MarksRemoval(j, e) =>
      agentStatus[e] = "removed"

\* A run that left without its last write has met a second fault.
StrandInv ==
  \A j \in Jobs :
    /\ run[j] = "failing" => faults >= 1
    /\ run[j] = "aborted" => status[j] \in Terminal \/ faults >= 2
    /\ run[j] = "settled" => status[j] \in Terminal

\* "failed" is recorded, or on its way, only where the operation failed.
FailureInv ==
  \A j \in Jobs, e \in Endpoints :
    results[j][e] = "failed" \/ <<e, "failed">> \in steps[j] =>
      verdict[j][e] = "failed"

\* The counters of a run, one endpoint at a time: a verdict is counted when it
\* becomes known, a cancelled endpoint when it is claimed; who threw or was lost
\* may or may not have been counted, and such a run never closes.
Known(j, v) == {e \in Endpoints : verdict[j][e] = v}
CancelledIn(j) ==
  {e \in Endpoints : worker[j][e] \in {"cancelling", "returned"} /\ verdict[j][e] = "unknown"}

TallyInv ==
  \A j \in Jobs :
    /\ stats[j].success = Cardinality(Known(j, "success"))
    /\ stats[j].failed = Cardinality(Known(j, "failed"))
    /\ stats[j].skipped = Cardinality(Known(j, "skipped"))
    /\ (\A e \in Endpoints : worker[j][e] \notin {"threw", "lost"}) =>
         stats[j].cancelled = Cardinality(CancelledIn(j))
    /\ run[j] \in {"closing", "settled"} =>
         \A e \in Targets(j) : worker[j][e] = "returned"
    /\ run[j] = "settled" => statistics[j] = stats[j] /\ progress[j] = Total(j)

JobInv ==
  /\ TypeOK
  /\ VerdictInv
  /\ PlaceInv
  /\ CancelFlagSparesQueued
  /\ RemovalInv
  /\ StrandInv
  /\ FailureInv

\* A job is retried only once it exists.
ParentInv ==
  \A k \in Jobs : body[k].parent # NoJob => run[body[k].parent] # "unborn"

\* The pool of each job, seen through its endpoints.
AllReturned(j) == \A e \in Targets(j) : worker[j][e] = "returned"
ThrewIn(j) == {e \in Targets(j) : worker[j][e] = "threw"}

PoolOutcome(j) ==
  IF ThrewIn(j) # {} THEN "rejected"
  ELSE IF run[j] = "pool" THEN "pending"
  ELSE IF run[j] = "lost" THEN "lost"
  ELSE IF Targets(j) # {} /\ AllReturned(j) THEN "resolved"
  ELSE "idle"

Pool(j) == INSTANCE PoolContract WITH
  items <- IF PoolOutcome(j) = "idle" THEN {} ELSE Targets(j),
  limit <- IF PoolOutcome(j) = "idle" THEN 1 ELSE Concurrency(body[j].environment),
  started <- {e \in Targets(j) : worker[j][e] \notin {"none", "queued"}},
  ended <- {e \in Targets(j) : worker[j][e] = "returned"},
  threw <- ThrewIn(j),
  outcome <- PoolOutcome(j)

\* Where the endpoints of a run are, seen by its pool: nothing is claimed before
\* the pool is open or after a restart, and free runners and busy ones together
\* are never more than the environment of the job allows.
BeforePool == {"unborn", "creating", "logging", "scheduled", "loading", "starting",
               "package", "dropped"}
InFlightOf(j) == {e \in Endpoints : worker[j][e] \in InFlight}

PoolInv ==
  \A j \in Jobs :
    /\ run[j] # "unborn" => Targets(j) # {}
    /\ run[j] \in BeforePool =>
         /\ idle[j] = 0
         /\ \A e \in Endpoints : worker[j][e] \in {"none", "queued"}
    /\ idle[j] > 0 => run[j] = "pool" \/ ThrewIn(j) # {} \/ AllReturned(j)
    /\ InFlightOf(j) # {} => run[j] = "pool" \/ ThrewIn(j) # {}
    /\ idle[j] > 0 \/ InFlightOf(j) # {} => \A e \in Endpoints : worker[j][e] # "lost"
    /\ idle[j] + Cardinality(InFlightOf(j)) <= Concurrency(body[j].environment)

\* Every run uses its pool as runPool promises: no endpoint twice, never more
\* in progress than the environment of the job allows, the end only after all.
PoolsKeepContract ==
  /\ \A j \in Jobs : Pool(j)!ContractInit
  /\ [][\A j \in Jobs : [Pool(j)!ContractNext]_(Pool(j)!contractVars)]_vars

\* Every job that is created and scheduled ends with a final status and keeps
\* one, whenever it is cancelled and though one database call fails.
EveryJobEnds ==
  \A j \in Jobs :
    status[j] = "pending" ~> run[j] = "dropped" \/ faults > 1 \/ [](status[j] \in Terminal)

-----------------------------------------------------------------------------
(* What the documentation says and the code does not do.                   *)

\* "Cancel queued work" (ARCHITECTURE.md): an endpoint still queued when a
\* cancel is accepted is not operated on afterwards.
CancelStopsQueuedWork ==
  \A j \in Jobs : \A e \in spared[j] : worker[j][e] # "remote"

\* "Retry failed endpoints" (ARCHITECTURE.md): when a run has ended by itself,
\* every endpoint that failed is one that retryFailed would pick.
FailedIsRetryable ==
  \A j \in Jobs : run[j] = "settled" => Having(j, "failed") \subseteq FailedResults(j)
=============================================================================
