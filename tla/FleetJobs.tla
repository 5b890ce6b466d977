------------------------------ MODULE FleetJobs ------------------------------
(***************************************************************************)
(* The three sweeps over the fleet that run as jobs of their own: the VC++ *)
(* runtime (services/vcRedist2015.js), readiness (endpointReadiness.js)    *)
(* and local users (localUserProvision.js).  Each has a flag of its own,   *)
(* each goes over its endpoints with runPool, and the first two write the  *)
(* endpoint's vcRedist2015X64; so do the requests for one endpoint, which  *)
(* no flag guards.                                                         *)
(*                                                                         *)
(* What a host has installed is read, and the record written, in separate  *)
(* steps, for one endpoint: endpoints share nothing but the workers that   *)
(* take them.  Nobody uninstalls the runtime.  Of a job that is "ended" the    *)
(* counts, which choose between completed and failed, are left out.        *)
(***************************************************************************)
EXTENDS Fleet

CONSTANTS
  MaxSweeps,  \* bound: requests for a sweep, for one endpoint, to cancel
  PoolWidth,  \* concurrency of the sweeps
  VmList,     \* the endpoints in the order of the database
  Watched     \* the endpoint whose host and record are followed

ASSUME FleetJobsAssumption ==
  /\ MaxSweeps \in Nat /\ PoolWidth \in Nat \ {0}
  /\ VmList \in Seq(Hosts) /\ Watched \in Hosts

VARIABLES
  fjFlag,    \* the kinds whose in-flight flag is set
  fjPlace,   \* where the sweep of each kind is
  fjMode,    \* what it does on an endpoint
  fjTodo,    \* its endpoints that no worker has taken, in order
  fjLeft,    \* <<kind, endpoints, mode>> that rejected sweeps have left to their workers
  fjJob,     \* status of the kind's latest job
  fjWork,    \* work under way on an endpoint
  fjHas,     \* whether the watched host has the runtime
  fjVc,      \* vcRedist2015X64.status of its record
  fjReady,   \* readiness.allPass of its record: "no", or TRUE and whether the host was "read"
  fjShared,  \* whether two pieces of work have overlapped on it
  fjAsked, fjFaults

fjVars == <<fjFlag, fjPlace, fjMode, fjTodo, fjLeft, fjJob, fjWork, fjHas, fjVc, fjReady,
            fjShared, fjAsked, fjFaults>>
fjHostData == <<fjHas, fjVc, fjReady>>

SweepKinds == {"vcredist", "readiness", "provision"}
SweepModes(k) == CASE k = "vcredist"  -> {"install", "verify"}
                   [] k = "readiness" -> {"assess", "remediate"}
                   [] k = "provision" -> {"users"}
(* Work of a sweep, of a sweep that was rejected and no longer waits for it *)
(* ("late"), or of a request for one endpoint.                              *)
WorkOf(by, h, mode) == [by |-> by, host |-> h, mode |-> mode, late |-> FALSE,
                        step |-> IF mode = "users" \/ h # Watched THEN "done" ELSE "fetch"]
WorkOnWatched == {w \in fjWork : w.host = Watched}
BusyOf(k) == {w \in fjWork : w.by = k /\ ~w.late}
FjFault == fjFaults < MaxFaults /\ fjFaults' = fjFaults + 1

FleetJobsInit ==
  /\ fjFlag = {} /\ fjWork = {} /\ fjLeft = {} /\ fjHas = FALSE /\ fjReady = "no" /\ fjShared = FALSE
  /\ fjPlace = [k \in SweepKinds |-> "idle"]
  /\ fjMode = [k \in SweepKinds |-> "none"]
  /\ fjTodo = [k \in SweepKinds |-> <<>>]
  /\ fjJob = [k \in SweepKinds |-> "none"]
  /\ fjVc = "unknown"
  /\ fjAsked = 0 /\ fjFaults = 0

-----------------------------------------------------------------------------
(* The sweep. *)

(* The flag is tested before the await of VM.find, and set after it. *)
SweepEntersUntested(k) ==
  /\ fjAsked < MaxSweeps /\ fjAsked' = fjAsked + 1
  /\ fjFlag' = fjFlag \cup {k} /\ fjPlace' = [fjPlace EXCEPT ![k] = "creating"]
  /\ \E mode \in SweepModes(k) : fjMode' = [fjMode EXCEPT ![k] = mode]
  /\ UNCHANGED <<fjTodo, fjLeft, fjJob, fjWork, fjHostData, fjShared, fjFaults>>

(* queueFleetEnsure, queueFleetReadiness, queueProvisionOnLogin: a sweep     *)
(* tests and sets its flag as soon as it runs; a request that finds the flag *)
(* set, or that the debounce of provisioning drops, is gone, although the    *)
(* answer said "queued".                                                     *)
SweepEnters(k) ==
  /\ fjAsked < MaxSweeps /\ fjAsked' = fjAsked + 1
  /\ \/ /\ k \notin fjFlag
        /\ fjFlag' = fjFlag \cup {k} /\ fjPlace' = [fjPlace EXCEPT ![k] = "creating"]
        /\ \E mode \in SweepModes(k) : fjMode' = [fjMode EXCEPT ![k] = mode]
     \/ (k \in fjFlag \/ k = "provision") /\ UNCHANGED <<fjFlag, fjPlace, fjMode>>
  /\ UNCHANGED <<fjTodo, fjLeft, fjJob, fjWork, fjHostData, fjShared, fjFaults>>

(* VM.find and Job.create; an endpoint that the query leaves out is the same *)
(* as one whose work ends at once.                                           *)
SweepCreates(k) ==
  /\ fjPlace[k] = "creating" /\ fjPlace' = [fjPlace EXCEPT ![k] = "pool"]
  /\ fjJob' = [fjJob EXCEPT ![k] = "running"]
  /\ fjTodo' = [fjTodo EXCEPT ![k] = VmList]
  /\ UNCHANGED <<fjFlag, fjMode, fjLeft, fjWork, fjHostData, fjShared, fjAsked, fjFaults>>

(* A worker of the pool takes the next endpoint; the workers of a pool that  *)
(* was rejected go on doing so.                                              *)
SweepTakes(k) ==
  \E pool \in {<<k, fjTodo[k], fjMode[k]>>} \cup fjLeft :
    LET late == pool \in fjLeft
        h    == Head(pool[2])
    IN /\ pool[1] = k /\ pool[2] # <<>>
       /\ Cardinality({w \in fjWork : w.by = k /\ w.late = late}) < (IF late THEN PoolWidth - 1 ELSE PoolWidth)
       /\ IF late
            THEN fjLeft' = (fjLeft \ {pool}) \cup {<<k, Tail(pool[2]), pool[3]>>} /\ UNCHANGED fjTodo
            ELSE fjTodo' = [fjTodo EXCEPT ![k] = Tail(@)] /\ UNCHANGED fjLeft
       /\ fjWork' = fjWork \cup {[WorkOf(k, h, pool[3]) EXCEPT !.late = late]}
       /\ fjShared' = (fjShared \/ (h = Watched /\ WorkOnWatched # {}))
       /\ UNCHANGED <<fjFlag, fjPlace, fjMode, fjJob, fjHostData, fjAsked, fjFaults>>

(* The status, then the audit and the activity log, then the finally block. *)
SweepEnds(k) ==
  /\ \/ /\ fjPlace[k] = "pool" /\ fjTodo[k] = <<>> /\ BusyOf(k) = {}
        /\ fjPlace' = [fjPlace EXCEPT ![k] = "reporting"]
        /\ fjJob' = [fjJob EXCEPT ![k] = "ended"]
        /\ UNCHANGED fjFlag
     \/ /\ fjPlace[k] = "reporting" /\ fjPlace' = [fjPlace EXCEPT ![k] = "idle"]
        /\ fjFlag' = fjFlag \ {k} /\ UNCHANGED fjJob
     \/ /\ fjPlace[k] = "failing" /\ fjPlace' = [fjPlace EXCEPT ![k] = "idle"]
        /\ fjFlag' = fjFlag \ {k} /\ fjJob' = [fjJob EXCEPT ![k] = "ended"]
  /\ UNCHANGED <<fjMode, fjTodo, fjLeft, fjWork, fjHostData, fjShared, fjAsked, fjFaults>>

(* The catch of the queueing function does not reset the flag. *)
SweepFailsKeepingFlag(k) ==
  /\ fjPlace[k] \in {"creating", "pool", "reporting", "failing"} /\ FjFault
  /\ fjPlace' = [fjPlace EXCEPT ![k] = "idle"]
  /\ fjFlag' = IF fjPlace[k] = "creating" THEN fjFlag ELSE fjFlag \ {k}
  /\ fjTodo' = [fjTodo EXCEPT ![k] = <<>>]
  /\ UNCHANGED <<fjMode, fjLeft, fjJob, fjWork, fjHostData, fjShared, fjAsked>>

(* A call rejects.  Before the try block the catch of the queueing function  *)
(* resets the flag; in the pool it is a worker's write to the job, and the   *)
(* other workers go on without being waited for.  Only the VC++ sweep has a  *)
(* catch block that marks its job.                                           *)
SweepFails(k) ==
  /\ FjFault
  /\ \/ /\ fjPlace[k] \in {"creating", "reporting", "failing"}
        /\ fjJob' \in IF fjPlace[k] = "creating"
                        THEN {fjJob, [fjJob EXCEPT ![k] = "running"]} ELSE {fjJob}
        /\ UNCHANGED <<fjWork, fjTodo, fjLeft>>
     \/ /\ fjPlace[k] = "pool"
        /\ \/ fjTodo[k] = <<>> /\ BusyOf(k) = {} /\ UNCHANGED <<fjWork, fjTodo, fjLeft>>
           \/ \E w \in BusyOf(k) :
                /\ w.step = "done"
                /\ fjWork' = (fjWork \ BusyOf(k)) \cup {[x EXCEPT !.late = TRUE] : x \in BusyOf(k) \ {w}}
                /\ fjTodo' = [fjTodo EXCEPT ![k] = <<>>]
                /\ fjLeft' = IF BusyOf(k) = {w} THEN fjLeft
                             ELSE fjLeft \cup {<<k, fjTodo[k], fjMode[k]>>}
        /\ UNCHANGED fjJob
  /\ IF k = "vcredist" /\ fjPlace[k] \in {"pool", "reporting"}
       THEN fjPlace' = [fjPlace EXCEPT ![k] = "failing"] /\ UNCHANGED fjFlag
       ELSE fjPlace' = [fjPlace EXCEPT ![k] = "idle"] /\ fjFlag' = fjFlag \ {k}
  /\ UNCHANGED <<fjMode, fjHostData, fjShared, fjAsked>>

(* POST /jobs/:id/cancel writes the status and nothing else. *)
SweepCancelled(k) ==
  /\ fjJob[k] = "running" /\ fjJob' = [fjJob EXCEPT ![k] = "stopped"]
  /\ fjAsked < MaxSweeps /\ fjAsked' = fjAsked + 1
  /\ UNCHANGED <<fjFlag, fjPlace, fjMode, fjTodo, fjLeft, fjWork, fjHostData, fjShared, fjFaults>>

-----------------------------------------------------------------------------
(* One endpoint. *)

(* POST /vcredist-2015/endpoints/:id, GET and POST readiness of an endpoint. *)
(* No route asks whether the endpoint is excluded, as the queries of the     *)
(* sweeps do; ensureOnEndpoint then returns "skipped" before any session.    *)
EndpointRequest(mode, excluded) ==
  /\ fjAsked < MaxSweeps /\ fjAsked' = fjAsked + 1
  /\ fjWork' = fjWork \cup {[WorkOf("operator", Watched, mode) EXCEPT
                              !.step = IF excluded THEN "skipped" ELSE "fetch"]}
  /\ fjShared' = (fjShared \/ WorkOnWatched # {})
  /\ UNCHANGED <<fjFlag, fjPlace, fjMode, fjTodo, fjLeft, fjJob, fjHostData, fjFaults>>

WorkGoes(w, step) == fjWork' = (fjWork \ {w}) \cup {[w EXCEPT !.step = step]}
WorkAssesses(w, step) == \* remediateEndpoint goes on to assess
  fjWork' = (fjWork \ {w}) \cup {[w EXCEPT !.step = step, !.mode = "assess"]}

(* The installer's word is taken for it, without the second reading. *)
EnsureReadsOnce(w) ==
  /\ w \in fjWork
  /\ \/ /\ w.step = "fetch" /\ UNCHANGED fjHas
        /\ WorkGoes(w, CASE fjHas -> "installed"
                         [] ~fjHas /\ w.mode \in {"verify", "assess"} -> "missing"
                         [] OTHER -> "install")
     \/ /\ w.step = "install" /\ WorkGoes(w, "installed")
        /\ fjHas' \in {fjHas, TRUE}
     \/ w.step = "fetch" /\ WorkGoes(w, "unreached") /\ UNCHANGED fjHas
  /\ UNCHANGED <<fjFlag, fjPlace, fjMode, fjTodo, fjLeft, fjJob, fjVc, fjReady, fjShared, fjAsked, fjFaults>>

(* ensureOnEndpoint up to its write: the programs of the host are read, the  *)
(* installer may run (and do nothing), and what counts is a second reading.  *)
(* A call to the host that fails ends in the catch block.                    *)
EnsureReads(w) ==
  /\ w \in fjWork
  /\ \/ /\ w.step = "fetch" /\ UNCHANGED fjHas
        /\ WorkGoes(w, CASE fjHas -> "installed"
                         [] ~fjHas /\ w.mode \in {"verify", "assess"} -> "missing"
                         [] OTHER -> "install")
     \/ /\ w.step = "install"
        /\ fjHas' \in {fjHas, TRUE}
        /\ WorkGoes(w, "failed") \/ (fjHas' /\ WorkGoes(w, "installed"))
     \/ w.step = "fetch" /\ WorkGoes(w, "failed") /\ UNCHANGED fjHas
     \/ w.step = "fetch" /\ WorkGoes(w, "unreached") /\ UNCHANGED fjHas
  /\ UNCHANGED <<fjFlag, fjPlace, fjMode, fjTodo, fjLeft, fjJob, fjVc, fjReady, fjShared, fjAsked, fjFaults>>

(* The outcome is written as it is, a session that failed included. *)
EnsureWritesAll(w) ==
  /\ w \in fjWork /\ w.step \in {"installed", "missing", "failed", "unreached"}
  /\ fjVc' = w.step /\ WorkGoes(w, "done")
  /\ UNCHANGED <<fjFlag, fjPlace, fjMode, fjTodo, fjLeft, fjJob, fjHas, fjReady, fjShared, fjAsked, fjFaults>>

(* updateVmVcRedistFields, and what an assessment makes of the outcome.  The *)
(* runtime of an endpoint that no session could be made to, or that was      *)
(* skipped, is not written; in an assessment the first fails and the second  *)
(* passes.  allPass takes the other two tasks as well.                       *)
EnsureWrites(w) ==
  /\ w \in fjWork
  /\ \/ /\ w.step \in {"installed", "missing", "failed", "unreached"}
        /\ fjVc' = IF w.step = "unreached" THEN fjVc ELSE w.step
        /\ CASE w.mode = "remediate" -> WorkAssesses(w, "fetch")
             [] w.mode = "assess" -> WorkGoes(w, IF w.step = "installed" THEN "pass" ELSE "fail")
             [] OTHER -> WorkGoes(w, "done")
        /\ UNCHANGED fjReady
     \/ /\ w.step = "skipped" /\ UNCHANGED <<fjVc, fjReady>>
        /\ CASE w.mode = "remediate" -> WorkAssesses(w, "skipped")
             [] w.mode = "assess" -> WorkGoes(w, "unread")
             [] OTHER -> WorkGoes(w, "done")
     \/ /\ w.step \in {"pass", "unread", "fail"} /\ WorkGoes(w, "done") /\ UNCHANGED fjVc
        /\ fjReady' \in {"no"} \cup (CASE w.step = "pass" -> {"read"}
                                       [] w.step = "unread" -> {"unread"}
                                       [] w.step = "fail" -> {})
  /\ UNCHANGED <<fjFlag, fjPlace, fjMode, fjTodo, fjLeft, fjJob, fjHas, fjShared, fjAsked, fjFaults>>

(* The counts and the job's progress; an assessment of an endpoint that is   *)
(* offline, or work of the VC++ sweep on one whose agent was removed, gets   *)
(* there without any reading or writing.                                     *)
WorkEnds(w) ==
  /\ w \in fjWork /\ w.step \in {"fetch", "skipped", "done"}
  /\ fjWork' = fjWork \ {w}
  /\ UNCHANGED <<fjFlag, fjPlace, fjMode, fjTodo, fjLeft, fjJob, fjHostData, fjShared, fjAsked, fjFaults>>

(* Nothing at start-up looks for the jobs of these sweeps. *)
SweepRestart ==
  /\ fjFlag' = {} /\ fjWork' = {} /\ fjLeft' = {} /\ FjFault
  /\ fjPlace' = [k \in SweepKinds |-> "idle"]
  /\ fjMode' = [k \in SweepKinds |-> "none"]
  /\ fjTodo' = [k \in SweepKinds |-> <<>>]
  /\ UNCHANGED <<fjJob, fjHostData, fjShared, fjAsked>>

WorkStep == \E w \in fjWork : EnsureReads(w) \/ EnsureWrites(w) \/ WorkEnds(w)
SweepStep(k) == SweepCreates(k) \/ SweepTakes(k) \/ SweepEnds(k)

FleetJobsNext ==
  \/ \E k \in SweepKinds : SweepEnters(k) \/ SweepStep(k) \/ SweepFails(k) \/ SweepCancelled(k)
  \/ \E mode \in {"install", "verify", "assess", "remediate"}, excluded \in BOOLEAN :
       EndpointRequest(mode, excluded)
  \/ WorkStep \/ SweepRestart

FleetJobsSpec == FleetJobsInit /\ [][FleetJobsNext]_fjVars

-----------------------------------------------------------------------------
FleetJobsTypeOK ==
  /\ fjFlag \subseteq SweepKinds
  /\ fjPlace \in [SweepKinds -> {"idle", "creating", "pool", "reporting", "failing"}]
  /\ \A k \in SweepKinds : fjMode[k] \in SweepModes(k) \cup {"none"}
  /\ fjTodo \in [SweepKinds -> Seq(Hosts)]
  /\ \A l \in fjLeft : l[1] \in SweepKinds /\ l[2] \in Seq(Hosts) /\ l[3] \in SweepModes(l[1])
  /\ fjJob \in [SweepKinds -> {"none", "running", "ended", "stopped"}]
  /\ {fjHas, fjShared} \subseteq BOOLEAN /\ fjReady \in {"no", "read", "unread"}
  /\ fjVc \in {"unknown", "installed", "missing", "failed"}
  /\ \A w \in fjWork : w.host \in Hosts /\ w.late \in BOOLEAN
  /\ fjAsked \in 0 .. MaxSweeps /\ fjFaults \in 0 .. MaxFaults

(* A sweep's flag stands exactly while the sweep does, the work it started   *)
(* is over when it is, and its job is not left at running, unless a call     *)
(* failed (endpointReadiness.js:314 and localUserProvision.js:320 have no    *)
(* catch block; vcRedist2015.js:258 logs before the try block).              *)
SweepsAccountedFor ==
  \A k \in SweepKinds :
    /\ k \in fjFlag <=> fjPlace[k] # "idle"
    /\ fjPlace[k] # "pool" /\ fjFaults = 0 =>
         fjTodo[k] = <<>> /\ {w \in fjWork : w.by = k} = {} /\ (fjPlace[k] = "idle" => fjJob[k] # "running")

(* What the records say of the runtime: "installed" is never claimed of a    *)
(* host without it, a passed readiness only when the assessment had skipped  *)
(* the host (endpointReadiness.js:170 takes "skipped" for a pass), and       *)
(* "missing" never of a host that has it unless two pieces of work were      *)
(* under way on the host at once.                                            *)
VcRecordTrue ==
  /\ fjVc = "installed" \/ fjReady = "read" => fjHas
  /\ fjHas /\ fjVc = "missing" /\ ~fjShared /\ fjFaults = 0 => WorkOnWatched # {}

(* A sweep that has started, and whatever failed in it, ends: its flag does  *)
(* not keep the next one out for good.                                       *)
FlagsComeBack == \A k \in SweepKinds : []<>(k \notin fjFlag)
=============================================================================
