-------------------------- MODULE UninstallPipeline --------------------------
(***************************************************************************)
(* The removal of the RSCD agent from one host: winRemote.runUninstall,    *)
(* called by uninstallProgramOnEndpoint, with the detection it rests on    *)
(* (agentProbe.probeOnSession, rscdDetection.detectRscd).                  *)
(*                                                                         *)
(* The queries and the two clean-up scripts are awaited; the commands that *)
(* change the host (net stop, taskkill, msiexec, sc delete, reg delete,    *)
(* rmdir) are only handed to it and run whenever it gets to them, beside   *)
(* the steps that follow.  The start mode of the service is left out.      *)
(***************************************************************************)
EXTENDS Fleet

CONSTANTS
  RootList,   \* the known installation paths, in order of preference
  StartHosts, \* the states in which a host may be found
  MaxPolls    \* bound: looks at the registry before the removal by msiexec times out

Roots == {RootList[i] : i \in DOMAIN RootList}
HostStates == [service : {"none", "running", "stopped"}, \* the RSCD service and its processes
               entry : {"none", "x64", "x86"},           \* the entry of Programs & Features
               blade : BOOLEAN,                          \* the BladeLogic key, with its product code
               dirs : SUBSET Roots]

ASSUME UninstallAssumption ==
  /\ RootList \in Seq(STRING) /\ RootList # <<>>
  /\ StartHosts \subseteq HostStates
  /\ MaxPolls \in Nat

VARIABLES
  upHost,    \* the host
  upPending, \* commands it was handed and has not run
  upRun,     \* the removal: where it is, what it found, how it ended
  upFaults

upVars == <<upHost, upPending, upRun, upFaults>>

Commands == {"net stop", "taskkill", "msiexec", "sc delete", "reg delete"} \union Roots
Queries == {"service", "blade", "x64", "x86", "paths"}
Results == {"none", "removed", "notPresent", "partial", "failed"}

UpTypeOK ==
  /\ upHost \in HostStates
  /\ upPending \subseteq Commands
  /\ upRun.result \in Results
  /\ (upRun.result # "none") <=> (upRun.at = "ended")
  /\ upFaults \in 0..MaxFaults

UpInit ==
  /\ upHost = [service |-> "none", entry |-> "none", blade |-> FALSE, dirs |-> {}]
  /\ upPending = {}
  /\ upRun = [at |-> "idle", result |-> "none"]
  /\ upFaults = 0

-----------------------------------------------------------------------------
UpAt(place) == upRun.at = place
UpGoes(place) == upRun' = [upRun EXCEPT !.at = place]
UpEnds(result) == upRun' = [upRun EXCEPT !.at = "ended", !.result = result]
UpFault == upFaults < MaxFaults /\ upFaults' = upFaults + 1

(* The first of the known paths that exists; resolveInstallRoot prefers the  *)
(* path the record names and falls back on the first known one.              *)
Existing(dirs) == LET here == {i \in DOMAIN RootList : RootList[i] \in dirs}
                  IN IF here = {} THEN RootList[1]
                     ELSE RootList[CHOOSE i \in here : \A j \in here : i <= j]
resolveInstallRoot(found, hint) == IF hint \in Roots THEN hint ELSE found

UpBegins(host, hint) ==
  /\ UpAt("idle")
  /\ upHost' = host
  /\ upRun' = [at |-> "connecting", result |-> "none", hint |-> hint, installed |-> FALSE,
               root |-> RootList[1], roots |-> <<>>, code |-> FALSE, service |-> FALSE,
               status |-> "NotFound", todo |-> <<>>, polls |-> 0, again |-> FALSE]
  /\ UNCHANGED <<upPending, upFaults>>

UpConnects ==
  /\ UpAt("connecting")
  /\ UpGoes("probing") \/ UpEnds("failed")
  /\ UNCHANGED <<upHost, upPending, upFaults>>

(* probeOnSession: a host whose probe fails looks like one without an agent; *)
(* a product code that cannot be read is left out.                           *)
UpProbes ==
  /\ UpAt("probing")
  /\ \E readable \in BOOLEAN :
       /\ upRun' = [upRun EXCEPT
            !.at = "detecting",
            !.installed = upHost.service # "none" \/ upHost.dirs # {} \/ upHost.blade,
            !.root = resolveInstallRoot(Existing(upHost.dirs), upRun.hint),
            !.roots = <<Existing(upHost.dirs)>>,
            !.code = readable /\ upHost.blade]
       /\ IF readable THEN UNCHANGED upFaults ELSE UpFault
  /\ UNCHANGED <<upHost, upPending>>

UpProbeLost ==
  /\ UpAt("probing") /\ UpFault
  /\ upRun' = [upRun EXCEPT !.at = "detecting",
                            !.root = resolveInstallRoot(RootList[1], upRun.hint)]
  /\ UNCHANGED <<upHost, upPending>>

(* detectRscd: five queries, each tried four times; those of an outage are   *)
(* lost.  Each query that answers writes the status, "NotFound" when it did  *)
(* not look at the service, and sc spells it "RUNNING".  When nothing was    *)
(* found and a query was lost, one script looks again.                       *)
Shown(service, style) ==
  CASE service = "none" -> "NotFound"
    [] service = "running" -> IF style = "sc" THEN "RUNNING" ELSE "Running"
    [] OTHER -> IF style = "sc" THEN "STOPPED" ELSE "Stopped"

Detected(lost) ==
  [service |-> "service" \notin lost /\ upHost.service # "none",
   code |-> \/ "blade" \notin lost /\ upHost.blade
            \/ upHost.entry \in Queries \ lost,
   paths |-> "paths" \notin lost /\ upHost.dirs # {},
   status |-> IF lost = Queries \ {"service"} THEN Shown(upHost.service, "sc") ELSE "NotFound"]

DetectedAgain == [service |-> upHost.service # "none",
                  code |-> upHost.blade \/ upHost.entry # "none",
                  status |-> Shown(upHost.service, "Get-Service")]

UpDetects(lost) ==
  /\ UpAt("detecting")
  /\ LET first == Detected(lost)
         nothing == ~first.service /\ ~first.code /\ ~first.paths
     IN \E state \in IF lost = Queries \/ (nothing /\ lost # {})
                     THEN {first, DetectedAgain} ELSE {first} :
          LET code == upRun.code \/ state.code
              known == upRun.installed \/ state.service \/ code
          IN upRun' = [upRun EXCEPT !.at = IF known THEN "stopping" ELSE "already clean",
                                    !.service = state.service, !.code = code,
                                    !.status = state.status]
  /\ IF lost = {} THEN UNCHANGED upFaults ELSE UpFault
  /\ UNCHANGED <<upHost, upPending>>

(* _verifyRemoved: a directory that is left is printed and the script goes   *)
(* on, so that both lines may be printed.                                    *)
VerifyPrints(roots) ==
  LET left == {r \in roots : r \in upHost.dirs} # {}
      listed == upHost.entry # "none" \/ upHost.service # "none"
  IN (IF left \/ listed THEN {"PARTIAL"} ELSE {}) \union (IF listed THEN {} ELSE {"OK"})

parseUninstallOutputOkFirst(lines) == \* mutant: OK is looked for first
  IF "OK" \in lines THEN "removed" ELSE IF "PARTIAL" \in lines THEN "partial" ELSE "failed"

parseUninstallOutput(lines) ==
  IF "PARTIAL" \in lines THEN "partial" ELSE IF "OK" \in lines THEN "removed" ELSE "failed"

SetOfRoots(list) == {list[i] : i \in DOMAIN list}
CleanupRoots == IF upRun.root \in SetOfRoots(upRun.roots) /\ Len(upRun.roots) = 1
                THEN <<upRun.root>> ELSE <<upRun.root>> \o upRun.roots

UpVerifiesAbsent ==
  /\ UpAt("already clean")
  /\ IF parseUninstallOutput(VerifyPrints(SetOfRoots(upRun.roots))) = "removed"
     THEN UpEnds("notPresent") ELSE UpGoes("stopping")
  /\ UNCHANGED <<upHost, upPending, upFaults>>

-----------------------------------------------------------------------------
(* A command is handed to the host, or it is lost and the removal goes on.   *)
Hands(command) ==
  \/ upPending' = upPending \union {command} /\ UNCHANGED upFaults
  \/ UNCHANGED upPending /\ UpFault

UpStops ==
  /\ UpAt("stopping")
  /\ UpGoes("killing")
  /\ IF upRun.status = "Running" THEN Hands("net stop") ELSE UNCHANGED <<upPending, upFaults>>
  /\ UNCHANGED upHost

UpKills ==
  /\ UpAt("killing")
  /\ Hands("taskkill")
  /\ upRun' = [upRun EXCEPT !.at = IF upRun.again THEN "directories" ELSE "msi",
                            !.todo = CleanupRoots]
  /\ UNCHANGED upHost

UpMsi ==
  /\ UpAt("msi")
  /\ IF upRun.code THEN /\ Hands("msiexec")
                        /\ UpGoes(IF upPending' = upPending THEN "service" ELSE "polling")
     ELSE UpGoes("service") /\ UNCHANGED <<upPending, upFaults>>
  /\ UNCHANGED upHost

(* _pollMsiRemoval looks under the key of 64-bit programs; a look that fails *)
(* counts as the end of the entry.                                           *)
UpPolls ==
  /\ UpAt("polling")
  /\ \/ /\ \/ (upHost.entry # "x64" \/ upRun.polls = MaxPolls) /\ UNCHANGED upFaults
           \/ UpFault
        /\ UpGoes("service")
     \/ /\ upHost.entry = "x64" /\ upRun.polls < MaxPolls
        /\ upRun' = [upRun EXCEPT !.polls = @ + 1] /\ UNCHANGED upFaults
  /\ UNCHANGED <<upHost, upPending>>

UpDeletesService ==
  /\ UpAt("service")
  /\ Hands("sc delete") /\ UpGoes("registry")
  /\ UNCHANGED upHost

(* _cleanupRegistry: the keys of BladeLogic by command, the entries of       *)
(* Programs & Features by a script whose failure ends the removal.           *)
UpCleansRegistry ==
  /\ UpAt("registry")
  /\ \/ /\ upHost' = [upHost EXCEPT !.entry = "none"]
        /\ UpGoes(IF upRun.again THEN "verifying" ELSE "directories")
        /\ Hands("reg delete")
     \/ /\ UpFault /\ UpEnds("failed")
        /\ UNCHANGED <<upHost, upPending>>

(* _cleanupDirectories: root after root, until one was there and is gone.    *)
AfterDirectories == IF upRun.again THEN "registry" ELSE "verifying"
NextDirectory == upRun' = [upRun EXCEPT !.at = "directories", !.todo = Tail(@)]

UpRemovesDirectory ==
  /\ UpAt("directories")
  /\ IF upRun.todo = <<>> THEN UpGoes(AfterDirectories) /\ UNCHANGED <<upPending, upFaults>>
     ELSE IF Head(upRun.todo) \notin upHost.dirs
          THEN NextDirectory /\ UNCHANGED <<upPending, upFaults>>
     ELSE /\ Hands(Head(upRun.todo))
          /\ IF upPending' = upPending /\ upFaults' # upFaults
             THEN NextDirectory ELSE UpGoes("directory gone?")
  /\ UNCHANGED upHost

UpLooksAtDirectory ==
  /\ UpAt("directory gone?")
  /\ IF Head(upRun.todo) \in upHost.dirs THEN NextDirectory ELSE UpGoes(AfterDirectories)
  /\ UNCHANGED <<upHost, upPending, upFaults>>

(* The verification; when it fails, the second round of clean-up.            *)
UpVerifies ==
  /\ UpAt("verifying")
  /\ LET seen == parseUninstallOutput(VerifyPrints(SetOfRoots(CleanupRoots)))
     IN IF seen # "removed" /\ ~upRun.again
        THEN upRun' = [upRun EXCEPT !.at = "killing", !.again = TRUE]
        ELSE UpEnds(seen)
  /\ UNCHANGED <<upHost, upPending, upFaults>>

(* An awaited script that fails outside of a try block ends the removal.     *)
UpThrows ==
  /\ upRun.at \in {"already clean", "verifying"}
  /\ UpFault /\ UpEnds("failed")
  /\ UNCHANGED <<upHost, upPending>>

-----------------------------------------------------------------------------
(* The host gets to a command.  Files in use are not removed, a service that *)
(* runs is not deleted, and msiexec may fail or leave directories.           *)
After(command) ==
  CASE command \in {"net stop", "taskkill"} ->
         {[upHost EXCEPT !.service = IF @ = "running" THEN "stopped" ELSE @]}
    [] command = "msiexec" ->
         {upHost} \union {[service |-> "none", entry |-> "none", blade |-> FALSE, dirs |-> left]
                            : left \in SUBSET upHost.dirs}
    [] command = "sc delete" ->
         {[upHost EXCEPT !.service = IF @ = "running" THEN @ ELSE "none"]}
    [] command = "reg delete" -> {[upHost EXCEPT !.blade = FALSE]}
    [] OTHER -> {[upHost EXCEPT !.dirs = IF upHost.service = "running" THEN @ ELSE @ \ {command}]}

UpHostRuns(command) ==
  /\ command \in upPending
  /\ upPending' = upPending \ {command}
  /\ upHost' \in After(command)
  /\ UNCHANGED <<upRun, upFaults>>

UpStep ==
  \/ UpConnects \/ UpProbes \/ UpProbeLost \/ (\E lost \in SUBSET Queries : UpDetects(lost))
  \/ UpVerifiesAbsent \/ UpStops \/ UpKills \/ UpMsi \/ UpPolls \/ UpDeletesService
  \/ UpCleansRegistry \/ UpRemovesDirectory \/ UpLooksAtDirectory \/ UpVerifies \/ UpThrows

UpNext ==
  \/ \E host \in StartHosts, hint \in Roots \union {"none"} : UpBegins(host, hint)
  \/ UpStep
  \/ \E command \in Commands : UpHostRuns(command)

UpSpec == UpInit /\ [][UpNext]_upVars /\ WF_upVars(UpStep)

-----------------------------------------------------------------------------
(* An agent that is reported as removed is removed, whatever of the commands *)
(* was lost, failed or is still running on the host: no service and no entry *)
(* of Programs & Features is left, and none of the directories that were     *)
(* looked at; one that is reported as absent has neither service nor entry.  *)
SuccessMeansClean ==
  /\ upRun.result \in {"removed", "notPresent"} =>
       upHost.service = "none" /\ upHost.entry = "none"
  /\ upRun.result = "removed" => upHost.dirs \intersect SetOfRoots(CleanupRoots) = {}

(* Every removal ends, though the host never gets to a command it was handed. *)
EveryUninstallEnds == []<>(upRun.at \in {"idle", "ended"})
=============================================================================
