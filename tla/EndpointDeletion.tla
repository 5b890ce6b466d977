-------------------------- MODULE EndpointDeletion --------------------------
(***************************************************************************)
(* The deletion of endpoints (services/vmCleanup.js) beside the creation   *)
(* of deployment jobs that name them and the runs of those jobs            *)
(* (services/deploymentService.js).  A deletion reads the jobs of its      *)
(* endpoints, takes the endpoints out of each or deletes a job that keeps  *)
(* none, then deletes the endpoints.  A creation finds its endpoints, then *)
(* inserts the job that names them.                                        *)
(*                                                                         *)
(* Mongoose saves a document by the paths that were assigned a new value,  *)
(* and refuses when a list was replaced and the stored version is another  *)
(* than the one that was read.  A run's updates are not versioned and miss *)
(* a job that was deleted.  The status of a job, the results of its        *)
(* endpoints and the order of a run's own writes are in DeploymentJob.     *)
(***************************************************************************)
EXTENDS Fleet

CONSTANTS
  Deleters,  \* requests: the endpoints of each
  Creators   \* requests that create a job, and the jobs they create

ASSUME DeletionAssumption == \A ids \in Deleters : ids # {} /\ ids \subseteq Hosts

VARIABLES
  delHosts,  \* endpoints that exist
  delMake,   \* creation -> where it is and the endpoints it found
  delJobs,   \* job -> its document
  delRun,    \* job -> its run
  delReq,    \* deletion -> where it is
  delTodo,   \* deletion -> jobs it has still to deal with, as it read them
  delRaced,  \* history: endpoints a creation found while a deletion was removing them
  delTorn    \* history: jobs whose percentage a deletion took from a former tally

delVars == <<delHosts, delMake, delJobs, delRun, delReq, delTodo, delRaced, delTorn>>

DelJob(vms) == [vms |-> vms, version |-> 0, total |-> Cardinality(vms), done |-> 0, percent |-> 0]
NoDoc == DelJob({})
DelWork(work) == [at |-> "running", left |-> work, total |-> Cardinality(work),
                  passed |-> 0, done |-> 0]
NoRun == [at |-> "none", left |-> {}, total |-> 0, passed |-> 0, done |-> 0]

DelExists(c) == delJobs[c].vms # {} \* every job names an endpoint

(* Math.min(100, Math.round((done / total) * 100)). *)
DelPercent(done, total) == IF done >= total THEN 100 ELSE (200 * done + total) \div (2 * total)

DelInit ==
  /\ delHosts = Hosts
  /\ delMake = [c \in Creators |-> [at |-> "idle", vms |-> {}]]
  /\ delJobs = [c \in Creators |-> NoDoc]
  /\ delRun = [c \in Creators |-> NoRun]
  /\ delReq = [r \in Deleters |-> "idle"]
  /\ delTodo = [r \in Deleters |-> {}]
  /\ delRaced = [c \in Creators |-> {}]
  /\ delTorn = {}

DelRemoving == {r \in Deleters : delReq[r] = "cleaning"}

-----------------------------------------------------------------------------
(* A creation finds those of its endpoints that exist, then inserts the job. *)
MakeFinds(c) ==
  /\ delMake[c].at = "idle"
  /\ \E found \in (SUBSET delHosts) \ {{}} :
       /\ delMake' = [delMake EXCEPT ![c] = [at |-> "found", vms |-> found]]
       /\ delRaced' = [delRaced EXCEPT ![c] = found \intersect UNION DelRemoving]
  /\ UNCHANGED <<delHosts, delJobs, delRun, delReq, delTodo, delTorn>>

MakeInserts(c) ==
  /\ delMake[c].at = "found"
  /\ delMake' = [delMake EXCEPT ![c].at = "made"]
  /\ delJobs' = [delJobs EXCEPT ![c] = DelJob(delMake[c].vms)]
  /\ UNCHANGED <<delHosts, delRun, delReq, delTodo, delRaced, delTorn>>

-----------------------------------------------------------------------------
(* A run begins with the endpoints of the list that exist (populate), and    *)
(* stops at once when the job is gone.                                       *)
DelRunBegins(c) ==
  /\ DelExists(c) /\ delRun[c].at = "none"
  /\ LET work == delJobs[c].vms \intersect delHosts
     IN delRun' = [delRun EXCEPT ![c] = DelWork(work)]
  /\ UNCHANGED <<delHosts, delMake, delJobs, delReq, delTodo, delRaced, delTorn>>

(* What an update of the run stores of its own tally. *)
DelRunWrites(c, percent) ==
  /\ delJobs' = IF DelExists(c)
                THEN [delJobs EXCEPT ![c].done = delRun'[c].done,
                                     ![c].total = delRun'[c].total, ![c].percent = percent]
                ELSE delJobs
  /\ delTorn' = delTorn \ {c}

(* One endpoint less to go; "counted" is 1 unless it was cancelled.          *)
DelPassed(run, h, counted) ==
  [at |-> run.at, left |-> run.left \ {h}, total |-> run.total,
   passed |-> run.passed + 1, done |-> run.done + counted]

DelRunCounts(c, h) ==
  /\ h \in delRun[c].left
  /\ delRun' = [delRun EXCEPT ![c] = DelPassed(@, h, 1)]
  /\ DelRunWrites(c, DelPercent(delRun'[c].passed, delRun[c].total))
  /\ UNCHANGED <<delHosts, delMake, delReq, delTodo, delRaced>>

(* An endpoint that is cancelled passes uncounted, and nothing of the tally  *)
(* is stored.                                                                *)
DelRunCancels(c, h) ==
  /\ h \in delRun[c].left
  /\ delRun' = [delRun EXCEPT ![c] = DelPassed(@, h, 0)]
  /\ UNCHANGED <<delHosts, delMake, delJobs, delReq, delTodo, delRaced, delTorn>>

(* The end stores the tally once more; a run that failed stores 100 alone,   *)
(* and the workers it left behind go on.                                     *)
DelRunEnds(c) ==
  /\ delRun[c].at = "running"
  /\ delRun' = [delRun EXCEPT ![c].at = "over"]
  /\ \/ delRun[c].left = {} /\ DelRunWrites(c, 100)
     \/ /\ delJobs' = IF DelExists(c) THEN [delJobs EXCEPT ![c].percent = 100] ELSE delJobs
        /\ UNCHANGED delTorn
  /\ UNCHANGED <<delHosts, delMake, delReq, delTodo, delRaced>>

-----------------------------------------------------------------------------
(* deleteVmsWithCleanup goes on when some of the endpoints exist.            *)
DelLists(r) ==
  /\ delReq[r] = "idle" /\ r \intersect delHosts # {}
  /\ delReq' = [delReq EXCEPT ![r] = "listed"]
  /\ UNCHANGED <<delHosts, delMake, delJobs, delRun, delTodo, delRaced, delTorn>>

DelReads(r) ==
  /\ delReq[r] = "listed"
  /\ delReq' = [delReq EXCEPT ![r] = "cleaning"]
  /\ delTodo' = [delTodo EXCEPT ![r] =
       {[job |-> c, doc |-> delJobs[c]] : c \in {d \in Creators : delJobs[d].vms \intersect r # {}}}]
  /\ delRaced' = [c \in Creators |-> IF delMake[c].at = "found"
                                     THEN delRaced[c] \cup (delMake[c].vms \intersect r)
                                     ELSE delRaced[c]]
  /\ UNCHANGED <<delHosts, delMake, delJobs, delRun, delTorn>>

(* The paths that a request assigns to the document it read, written to the  *)
(* stored one: a path whose value stays as it was read is not written.       *)
DelSaved(read, vms, stored) ==
  LET total == Cardinality(vms)
      percent == IF read.percent > 0 THEN DelPercent(read.done, total) ELSE read.percent
  IN [stored EXCEPT !.vms = vms, !.version = @ + 1,
                    !.total = IF total = read.total THEN @ ELSE total,
                    !.percent = IF percent = read.percent THEN @ ELSE percent]

DelTally(doc) == <<doc.total, doc.done, doc.percent>>

DelUpdatesBlindly(r) == \* mutant: the list is stored whatever the version
  /\ delReq[r] = "cleaning"
  /\ \E read \in delTodo[r] :
       LET stored == delJobs[read.job]
           remaining == read.doc.vms \ r
       IN /\ remaining # {}
          /\ DelExists(read.job)
          /\ delJobs' = [delJobs EXCEPT ![read.job] = DelSaved(read.doc, remaining, stored)]
          /\ delTorn' = IF DelTally(stored) = DelTally(read.doc) THEN delTorn
                        ELSE delTorn \cup {read.job}
          /\ delTodo' = [delTodo EXCEPT ![r] = @ \ {read}]
  /\ UNCHANGED <<delHosts, delMake, delRun, delReq, delRaced>>

(* The job keeps endpoints: a save, refused when the list is another by now. *)
DelUpdates(r) ==
  /\ delReq[r] = "cleaning"
  /\ \E read \in delTodo[r] :
       LET stored == delJobs[read.job]
           remaining == read.doc.vms \ r
       IN /\ remaining # {}
          /\ DelExists(read.job) /\ stored.version = read.doc.version
          /\ delJobs' = [delJobs EXCEPT ![read.job] = DelSaved(read.doc, remaining, stored)]
          /\ delTorn' = IF DelTally(stored) = DelTally(read.doc) THEN delTorn
                        ELSE delTorn \cup {read.job}
          /\ delTodo' = [delTodo EXCEPT ![r] = @ \ {read}]
  /\ UNCHANGED <<delHosts, delMake, delRun, delReq, delRaced>>

(* The job keeps none: it is cancelled if it was running, and deleted.       *)
DelRemovesJob(r) ==
  /\ delReq[r] = "cleaning"
  /\ \E read \in delTodo[r] :
       /\ read.doc.vms \subseteq r
       /\ delJobs' = [delJobs EXCEPT ![read.job] = NoDoc]
       /\ delTodo' = [delTodo EXCEPT ![r] = @ \ {read}]
  /\ UNCHANGED <<delHosts, delMake, delRun, delReq, delRaced, delTorn>>

DelDeletes(r) ==
  /\ delReq[r] = "cleaning" /\ delTodo[r] = {}
  /\ delHosts' = delHosts \ r
  /\ delReq' = [delReq EXCEPT ![r] = "done"]
  /\ UNCHANGED <<delMake, delJobs, delRun, delTodo, delRaced, delTorn>>

(* A save that is refused, or any other call that fails, ends the request.   *)
DelFails(r) ==
  /\ delReq[r] \in {"listed", "cleaning"}
  /\ delReq' = [delReq EXCEPT ![r] = "failed"]
  /\ delTodo' = [delTodo EXCEPT ![r] = {}]
  /\ UNCHANGED <<delHosts, delMake, delJobs, delRun, delRaced, delTorn>>

DelMakeStep(c) == MakeFinds(c) \/ MakeInserts(c)
DelRunStep(c) ==
  \/ DelRunBegins(c) \/ DelRunEnds(c)
  \/ \E h \in Hosts : DelRunCounts(c, h) \/ DelRunCancels(c, h)
DelReqStep(r) ==
  DelLists(r) \/ DelReads(r) \/ DelUpdates(r) \/ DelRemovesJob(r) \/ DelDeletes(r) \/ DelFails(r)

DelNext ==
  \/ \E c \in Creators : DelMakeStep(c) \/ DelRunStep(c)
  \/ \E r \in Deleters : DelReqStep(r)

DelSpec == DelInit /\ [][DelNext]_delVars

-----------------------------------------------------------------------------
DelDocs == [vms : SUBSET Hosts, version : Nat, total : 0..Cardinality(Hosts),
            done : 0..Cardinality(Hosts), percent : 0..100]

DelTypeOK ==
  /\ delHosts \subseteq Hosts
  /\ delMake \in [Creators -> [at : {"idle", "found", "made"}, vms : SUBSET Hosts]]
  /\ delReq \in [Deleters -> {"idle", "listed", "cleaning", "done", "failed"}]
  /\ \A c \in Creators : /\ delJobs[c] \in DelDocs
                         /\ delRun[c].at \in {"none", "running", "over"}
                         /\ delRun[c].left \subseteq Hosts
  /\ \A r \in Deleters : \A read \in delTodo[r] : read.job \in Creators /\ read.doc \in DelDocs
  /\ delRaced \in [Creators -> SUBSET Hosts] /\ delTorn \subseteq Creators

(* No job names an endpoint that was deleted, though deletions of different  *)
(* endpoints of one job overlap (vmCleanup.cleanupJobsForVms), unless the    *)
(* job was being created while the endpoint was being deleted: nothing holds *)
(* between VM.find and Job.create (deploymentService.js:126-134).  And what  *)
(* the run counted stays counted; the percentage is that of the tally beside *)
(* it, or 0 at first and 100 at the end, unless a deletion computed it from  *)
(* a tally the run has overtaken, or the run has cancelled endpoints.        *)
JobsFollowDeletions ==
  \A c \in Creators : DelExists(c) =>
    LET job == delJobs[c]
    IN /\ job.vms \ delHosts \subseteq delRaced[c]
       /\ job.done = delRun[c].done
       /\ \/ c \in delTorn \/ delRun[c].passed # delRun[c].done
          \/ job.percent \in {0, 100, DelPercent(job.done, job.total)}
=============================================================================
