--------------------------- MODULE InstallPipeline ---------------------------
(***************************************************************************)
(* The pipelines of the deployment jobs on one host: installOnEndpoint     *)
(* (deployInstall.js) stages the package in a directory of the job, chunk  *)
(* by chunk, and runs it; uninstallProgramOnEndpoint (deployUninstall.js)  *)
(* runs the uninstall command of a program other than the agent.           *)
(*                                                                         *)
(* A script that fails on the host prints an error and its call succeeds   *)
(* (wmiPs looks for refused logins only); a call that is reported as done  *)
(* may still be running.  Any call may also throw, which ends the job.     *)
(***************************************************************************)
EXTENDS Fleet

CONSTANTS
  InstallJobs,  \* jobs that install the package on the host
  RemovalJobs,  \* jobs that uninstall it
  Chunks        \* calls that one package takes

ASSUME InstallAssumption == Chunks \in Nat \ {0} /\ InstallJobs \intersect RemovalJobs = {}

PipeJobs == InstallJobs \union RemovalJobs

VARIABLES
  ipStore,   \* the package in the manager: whether its document and its file exist
  ipHost,    \* programs of the host whose name matches, in the order of the registry
  ipStaged,  \* chunks staged in the directory of each job; <<0>> when there is no directory
  ipLate,    \* chunks whose call is over and whose script is not: <<job, chunk>>
  ipUnder,   \* uninstall commands the host was handed: the program of each
  ipJob,     \* the pipeline of each job
  ipFaults

ipVars == <<ipStore, ipHost, ipStaged, ipLate, ipUnder, ipJob, ipFaults>>

Programs == {"app", "runtime"}  \* isProtectedProduct holds of "runtime"
NoFile == <<0>>
Package == [i \in 1..Chunks |-> i]

IpTypeOK ==
  /\ ipStore \in [doc : BOOLEAN, file : BOOLEAN]
  /\ \A i \in DOMAIN ipHost : ipHost[i] \in Programs
  /\ ipLate \subseteq InstallJobs \X (1..Chunks)
  /\ ipUnder \subseteq Programs
  /\ \A j \in PipeJobs : ipJob[j].result \in {"none", "installed", "uninstalled", "skipped", "failed"}
  /\ ipFaults \in 0..MaxFaults

IpInit ==
  /\ ipStore = [doc |-> FALSE, file |-> FALSE]
  /\ ipHost = <<>>
  /\ ipStaged = [j \in InstallJobs |-> NoFile]
  /\ ipLate = {} /\ ipUnder = {}
  /\ ipJob = [j \in PipeJobs |-> [at |-> "idle", next |-> 1, result |-> "none"]]
  /\ ipFaults = 0

-----------------------------------------------------------------------------
(* packageStore: an upload writes the file, then the document; a removal     *)
(* unlinks the file, then deletes the document.                              *)
IpUploads ==
  /\ ~ipStore.doc
  /\ ipStore' = [doc |-> ipStore.file, file |-> TRUE]
  /\ UNCHANGED <<ipHost, ipStaged, ipLate, ipUnder, ipJob, ipFaults>>

IpRemovesPackage ==
  /\ ipStore.doc
  /\ ipStore' = [doc |-> ipStore.file, file |-> FALSE]
  /\ UNCHANGED <<ipHost, ipStaged, ipLate, ipUnder, ipJob, ipFaults>>

IpGoes(j, place) == ipJob' = [ipJob EXCEPT ![j].at = place]
IpEnds(j, result) == ipJob' = [ipJob EXCEPT ![j].at = "ended", ![j].result = result]
IpFault == ipFaults < MaxFaults /\ ipFaults' = ipFaults + 1
IpHostSame == UNCHANGED <<ipStore, ipHost, ipStaged, ipLate, ipUnder>>

(* The document is found when the job is created; the session is opened.     *)
IpBegins(j) ==
  /\ ipJob[j].at = "idle"
  /\ j \in InstallJobs => ipStore.doc
  /\ IpGoes(j, IF j \in InstallJobs THEN "reading" ELSE "detecting")
  /\ IpHostSame /\ UNCHANGED ipFaults

IpReads(j) == \* readPackageBytes throws when the file is gone
  /\ ipJob[j].at = "reading"
  /\ IF ipStore.file THEN IpGoes(j, "detecting") ELSE IpEnds(j, "failed")
  /\ IpHostSame /\ UNCHANGED ipFaults

(* A call throws: the job fails.  The catch block of an installation names a *)
(* session it cannot see, so what is staged stays.                           *)
IpThrows(j) ==
  /\ ipJob[j].at \notin {"idle", "reading", "ended"}
  /\ IpFault /\ IpEnds(j, "failed")
  /\ IpHostSame

IpDetects(j) ==
  /\ ipJob[j].at = "detecting" /\ j \in InstallJobs
  /\ IF ipHost # <<>> THEN IpEnds(j, "skipped") ELSE IpGoes(j, "staging")
  /\ IpHostSame /\ UNCHANGED ipFaults

(* transferPackage: the directory is made and an older file removed.  That   *)
(* the new, empty file is there or not makes no difference: FileMode.Append  *)
(* creates it.  The directory is this job's alone, as that of a deployment   *)
(* job is.                                                                   *)
IpStages(j) ==
  /\ ipJob[j].at = "staging"
  /\ \/ ipStaged' = [ipStaged EXCEPT ![j] = <<>>] /\ UNCHANGED ipFaults
     \/ UNCHANGED ipStaged /\ IpFault
  /\ IpGoes(j, "appending")
  /\ UNCHANGED <<ipStore, ipHost, ipLate, ipUnder>>

(* A chunk is appended, which fails where there is no directory.             *)
Appended(j, chunk) ==
  ipStaged' = [ipStaged EXCEPT ![j] = IF @ = NoFile THEN @ ELSE Append(@, chunk)]

(* A chunk is appended, or it is not though its call succeeds, or it will be.*)
IpAppends(j) ==
  /\ ipJob[j].at = "appending"
  /\ LET chunk == ipJob[j].next
     IN /\ ipJob' = [ipJob EXCEPT ![j].next = chunk + 1,
                                  ![j].at = IF chunk = Chunks THEN "hashing" ELSE @]
        /\ \/ Appended(j, chunk) /\ UNCHANGED <<ipLate, ipFaults>>
           \/ IpFault /\ UNCHANGED ipStaged
              /\ ipLate' \in {ipLate, ipLate \union {<<j, chunk>>}}
  /\ UNCHANGED <<ipStore, ipHost, ipUnder>>

IpAppendsLate(j, chunk) ==
  /\ <<j, chunk>> \in ipLate
  /\ ipLate' = ipLate \ {<<j, chunk>>}
  /\ Appended(j, chunk)
  /\ UNCHANGED <<ipStore, ipHost, ipUnder, ipJob, ipFaults>>

IpTrustsTransfer(j) == \* mutant: the file is there
  /\ ipJob[j].at = "hashing"
  /\ IF ipStaged[j] # NoFile THEN IpGoes(j, "installing") ELSE IpEnds(j, "failed")
  /\ IpHostSame /\ UNCHANGED ipFaults

(* The SHA-256 of the staged file against the one of the document.           *)
IpHashes(j) ==
  /\ ipJob[j].at = "hashing"
  /\ IF ipStaged[j] = Package THEN IpGoes(j, "installing") ELSE IpEnds(j, "failed")
  /\ IpHostSame /\ UNCHANGED ipFaults

(* The programs of the host but for p, which is listed once at most.         *)
Without(p) ==
  IF \E i \in DOMAIN ipHost : ipHost[i] = p
    THEN LET at == CHOOSE i \in DOMAIN ipHost : ipHost[i] = p
         IN SubSeq(ipHost, 1, at - 1) \o SubSeq(ipHost, at + 1, Len(ipHost))
    ELSE ipHost

(* runInstaller waits for the installer and never learns how it ended.       *)
IpInstalls(j) ==
  /\ ipJob[j].at = "installing"
  /\ ipHost' \in {ipHost, <<"app">> \o Without("app")}
  /\ IpGoes(j, "verifying")
  /\ UNCHANGED <<ipStore, ipStaged, ipLate, ipUnder, ipFaults>>

IpVerifies(j) ==
  /\ ipJob[j].at = "verifying" /\ j \in InstallJobs
  /\ IF ipHost # <<>> THEN IpGoes(j, "cleaning") ELSE IpEnds(j, "failed")
  /\ IpHostSame /\ UNCHANGED ipFaults

IpCleans(j) == \* cleanupStaging
  /\ ipJob[j].at = "cleaning"
  /\ IpEnds(j, "installed")
  /\ ipStaged' = [ipStaged EXCEPT ![j] = NoFile]
  /\ UNCHANGED <<ipStore, ipHost, ipLate, ipUnder, ipFaults>>

-----------------------------------------------------------------------------
(* The first program that matches is uninstalled, unless it is protected.    *)
IpChooses(j) ==
  /\ ipJob[j].at = "detecting" /\ j \in RemovalJobs
  /\ IF ipHost = <<>> THEN IpEnds(j, "skipped") /\ UNCHANGED ipUnder
     ELSE IF Head(ipHost) = "runtime" THEN IpEnds(j, "failed") /\ UNCHANGED ipUnder
     ELSE IpGoes(j, "verifying") /\ ipUnder' = ipUnder \union {Head(ipHost)}
  /\ UNCHANGED <<ipStore, ipHost, ipStaged, ipLate, ipFaults>>

IpLooksAgain(j) == \* at once: the command may not have run
  /\ ipJob[j].at = "verifying" /\ j \in RemovalJobs
  /\ IpEnds(j, IF ipHost = <<>> THEN "uninstalled" ELSE "failed")
  /\ IpHostSame /\ UNCHANGED ipFaults

IpHostUninstalls(p) ==
  /\ p \in ipUnder
  /\ ipUnder' = ipUnder \ {p}
  /\ ipHost' \in {ipHost, Without(p)}
  /\ UNCHANGED <<ipStore, ipStaged, ipLate, ipJob, ipFaults>>

(* Somebody installs a program whose name matches too.                       *)
IpOthersInstall ==
  /\ "runtime" \notin {ipHost[i] : i \in DOMAIN ipHost}
  /\ ipHost' \in {<<"runtime">> \o ipHost, ipHost \o <<"runtime">>}
  /\ UNCHANGED <<ipStore, ipStaged, ipLate, ipUnder, ipJob, ipFaults>>

IpStep(j) ==
  \/ IpBegins(j) \/ IpReads(j) \/ IpThrows(j) \/ IpDetects(j) \/ IpStages(j) \/ IpAppends(j)
  \/ IpHashes(j) \/ IpInstalls(j) \/ IpVerifies(j) \/ IpCleans(j)
  \/ IpChooses(j) \/ IpLooksAgain(j)

IpNext ==
  \/ IpUploads \/ IpRemovesPackage \/ IpOthersInstall
  \/ \E j \in PipeJobs : IpStep(j)
  \/ \E j \in InstallJobs, chunk \in 1..Chunks : IpAppendsLate(j, chunk)
  \/ \E p \in Programs : IpHostUninstalls(p)

IpSpec == IpInit /\ [][IpNext]_ipVars

-----------------------------------------------------------------------------
(* What is run on a host is the package, whole and in order, though calls    *)
(* are lost without an error or come late and other jobs stage the same      *)
(* package: deployInstall.js, transferPackage.                               *)
StagedIsPackage == \A j \in InstallJobs : ipJob[j].at = "installing" => ipStaged[j] = Package
=============================================================================
