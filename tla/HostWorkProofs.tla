--------------------------- MODULE HostWorkProofs ---------------------------
(***************************************************************************)
(* What TLAPS checks of the work that changes hosts: the file that an      *)
(* installation runs is the package, for any number of chunks, of jobs and *)
(* of calls that are lost or come late; a removal that is reported as done *)
(* left a clean host, for any directories, any host it may find and any    *)
(* number of commands that are lost; and the types of all of it.           *)
(***************************************************************************)
EXTENDS MCHostWork, FleetJobsProofs, TLAPS

-----------------------------------------------------------------------------
(* The installation of a program. *)

ChunkIds == 1 .. Chunks
Places == {"idle", "reading", "detecting", "staging", "appending", "hashing", "installing",
           "verifying", "cleaning", "ended"}
Ends == {"none", "installed", "uninstalled", "skipped", "failed"}
JobRecords == [at : Places, next : 1 .. Chunks + 1, result : Ends]
InFile(j, chunk) == \E i \in 1 .. Len(ipStaged[j]) : ipStaged[j][i] = chunk

(* How far a job is, and what its file is made of. *)
FileInv(j) ==
  /\ ipStaged[j] \in Seq(Nat)
  /\ ipJob[j] \in JobRecords
  /\ ipJob[j].at \in {"idle", "reading", "detecting", "staging"} => ipJob[j].next = 1
  /\ ipJob[j].at = "appending" => ipJob[j].next <= Chunks

(* A late chunk is not in the file, and one that was not sent yet is neither *)
(* in the file nor late: a chunk is appended once at most.                   *)
ChunkInv(j) ==
  \A chunk \in ChunkIds :
    /\ <<j, chunk>> \in ipLate => ~InFile(j, chunk)
    /\ chunk >= ipJob[j].next => ~InFile(j, chunk) /\ <<j, chunk>> \notin ipLate

RunInv(j) == ipJob[j].at = "installing" => ipStaged[j] = Package

OneJobInv(j) == FileInv(j) /\ ChunkInv(j) /\ RunInv(j)

(* The inductive invariant. *)
StageInv ==
  /\ DOMAIN ipJob = PipeJobs /\ DOMAIN ipStaged = InstallJobs
  /\ \A j \in InstallJobs : OneJobInv(j)

-----------------------------------------------------------------------------
(* What leaves a job alone. *)
Untouched(j) ==
  /\ ipJob'[j] = ipJob[j] /\ ipStaged'[j] = ipStaged[j]
  /\ \A chunk \in ChunkIds : <<j, chunk>> \in ipLate' <=> <<j, chunk>> \in ipLate

LEMMA UntouchedKeeps ==
  ASSUME NEW j \in InstallJobs, OneJobInv(j), Untouched(j)
  PROVE  OneJobInv(j)'
BY DEF OneJobInv, FileInv, ChunkInv, RunInv, InFile, Untouched, ChunkIds

(* What one more chunk in a file does to it. *)
LEMMA AppendedFile ==
  ASSUME DOMAIN ipStaged = InstallJobs, NEW j \in InstallJobs, ipStaged[j] \in Seq(Nat),
         NEW chunk \in ChunkIds, Appended(j, chunk)
  PROVE  /\ ipStaged'[j] \in Seq(Nat)
         /\ \A d \in ChunkIds : d # chunk /\ InFile(j, d)' => InFile(j, d)
<1>1. chunk \in Nat
  BY InstallAssumption DEF ChunkIds
<1>2. \/ ipStaged'[j] = ipStaged[j]
      \/ ipStaged'[j] = Append(ipStaged[j], chunk)
  BY DEF Appended
<1>3. CASE ipStaged'[j] = ipStaged[j]
  BY <1>3 DEF InFile
<1>4. CASE ipStaged'[j] = Append(ipStaged[j], chunk)
  <2>. DEFINE longer == Append(ipStaged[j], chunk)
  <2>1. /\ longer \in Seq(Nat) /\ Len(longer) = Len(ipStaged[j]) + 1
        /\ \A i \in 1 .. Len(ipStaged[j]) : longer[i] = ipStaged[j][i]
        /\ longer[Len(ipStaged[j]) + 1] = chunk
    BY <1>1
  <2>2. Len(ipStaged[j]) \in Nat
    OBVIOUS
  <2>. HIDE DEF longer
  <2>3. ASSUME NEW d \in ChunkIds, d # chunk, InFile(j, d)'
        PROVE  InFile(j, d)
    <3>1. PICK i \in 1 .. Len(ipStaged[j]) + 1 : longer[i] = d
      BY <1>4, <2>1, <2>3 DEF InFile, longer
    <3>2. i \in 1 .. Len(ipStaged[j])
      BY <2>1, <2>2, <2>3, <3>1
    <3>. QED
      BY <2>1, <3>1, <3>2 DEF InFile
  <2>. QED
    BY <1>4, <2>1, <2>3 DEF longer
<1>. QED
  BY <1>2, <1>3, <1>4

(* A file that is the package has no chunk to come. *)
LEMMA WholeFileIsQuiet ==
  ASSUME NEW j \in InstallJobs, ChunkInv(j), ipStaged[j] = Package, NEW chunk \in ChunkIds
  PROVE  <<j, chunk>> \notin ipLate
<1>1. Chunks \in Nat /\ Len(Package) = Chunks /\ Package[chunk] = chunk
  BY InstallAssumption DEF Package, ChunkIds
<1>2. InFile(j, chunk)
  BY <1>1 DEF InFile, ChunkIds
<1>. QED
  BY <1>2 DEF ChunkInv

(* A step that only moves a job on: the file and the calls are as they were. *)
LEMMA MoveOnKeeps ==
  ASSUME NEW j \in InstallJobs, OneJobInv(j), UNCHANGED <<ipStaged, ipLate>>,
         NEW place \in Places, NEW result \in Ends,
         ipJob'[j] = [ipJob[j] EXCEPT !.at = place, !.result = result],
         place \in {"reading", "detecting", "staging"} =>
           ipJob[j].at \in {"idle", "reading", "detecting", "staging"},
         place \notin {"idle", "appending"},
         place = "installing" => ipStaged[j] = Package
  PROVE  OneJobInv(j)'
<1>1. /\ ipJob'[j] \in JobRecords
      /\ ipJob'[j].at = place /\ ipJob'[j].next = ipJob[j].next
  BY DEF OneJobInv, FileInv, JobRecords
<1>2. FileInv(j)' /\ RunInv(j)'
  BY <1>1 DEF OneJobInv, FileInv, RunInv
<1>3. ChunkInv(j)'
  BY <1>1 DEF OneJobInv, ChunkInv, InFile, ChunkIds
<1>. QED
  BY <1>2, <1>3 DEF OneJobInv

-----------------------------------------------------------------------------
(* transferPackage begins: nothing was sent before. *)
LEMMA StagingKeeps ==
  ASSUME StageInv, NEW j \in InstallJobs, IpStages(j)
  PROVE  OneJobInv(j)'
<1>0. OneJobInv(j) /\ DOMAIN ipStaged = InstallJobs /\ DOMAIN ipJob = PipeJobs /\ j \in PipeJobs
  BY DEF StageInv, PipeJobs
<1>1. ipJob[j].next = 1 /\ ipLate' = ipLate
  BY <1>0 DEF IpStages, OneJobInv, FileInv
<1>2. /\ ipJob'[j] \in JobRecords
      /\ ipJob'[j].at = "appending" /\ ipJob'[j].next = 1
  <2>1. ipJob'[j] = [ipJob[j] EXCEPT !.at = "appending"]
    BY <1>0 DEF IpStages, IpGoes
  <2>. QED
    BY <1>0, <1>1, <2>1 DEF OneJobInv, FileInv, JobRecords, Places
<1>3. \A chunk \in ChunkIds : ~InFile(j, chunk) /\ <<j, chunk>> \notin ipLate
  BY <1>0, <1>1 DEF OneJobInv, ChunkInv, ChunkIds
<1>4. ipStaged'[j] = <<>> \/ ipStaged'[j] = ipStaged[j]
  BY <1>0 DEF IpStages
<1>5. ipStaged'[j] \in Seq(Nat) /\ \A chunk \in ChunkIds : ~InFile(j, chunk)'
  <2>1. CASE ipStaged'[j] = <<>>
    BY <2>1 DEF InFile
  <2>2. CASE ipStaged'[j] = ipStaged[j]
    BY <1>0, <1>3, <2>2 DEF InFile, OneJobInv, FileInv
  <2>. QED
    BY <1>4, <2>1, <2>2
<1>6. FileInv(j)' /\ RunInv(j)'
  BY <1>2, <1>5, InstallAssumption DEF FileInv, RunInv
<1>7. ChunkInv(j)'
  BY <1>1, <1>3, <1>5 DEF ChunkInv
<1>. QED
  BY <1>6, <1>7 DEF OneJobInv

(* The next chunk is sent: it is in the file, or late, or lost. *)
LEMMA AppendingKeeps ==
  ASSUME StageInv, NEW j \in InstallJobs, IpAppends(j)
  PROVE  OneJobInv(j)'
<1>. DEFINE chunk == ipJob[j].next
<1>0. OneJobInv(j) /\ DOMAIN ipStaged = InstallJobs /\ DOMAIN ipJob = PipeJobs /\ j \in PipeJobs
  BY DEF StageInv, PipeJobs
<1>1. chunk \in ChunkIds /\ Chunks \in Nat /\ ipStaged[j] \in Seq(Nat)
  BY <1>0, InstallAssumption DEF IpAppends, OneJobInv, FileInv, ChunkIds, JobRecords
<1>2. /\ ipJob'[j] \in JobRecords
      /\ ipJob'[j].next = chunk + 1
      /\ ipJob'[j].at = IF chunk = Chunks THEN "hashing" ELSE "appending"
  <2>1. ipJob'[j] = [ipJob[j] EXCEPT !.next = chunk + 1,
                                     !.at = IF chunk = Chunks THEN "hashing" ELSE @]
    BY <1>0 DEF IpAppends
  <2>2. chunk + 1 \in 1 .. Chunks + 1 /\ ipJob[j].at = "appending"
    BY <1>1 DEF IpAppends, ChunkIds
  <2>. QED
    BY <1>0, <2>1, <2>2 DEF OneJobInv, FileInv, JobRecords, Places
<1>3. /\ ~InFile(j, chunk) /\ <<j, chunk>> \notin ipLate
      /\ \A d \in ChunkIds : d >= chunk + 1 => ~InFile(j, d) /\ <<j, d>> \notin ipLate
  BY <1>0, <1>1 DEF OneJobInv, ChunkInv, ChunkIds
<1>4. \/ Appended(j, chunk) /\ ipLate' = ipLate
      \/ ipStaged' = ipStaged /\ ipLate' \in {ipLate, ipLate \cup {<<j, chunk>>}}
  BY DEF IpAppends
<1>5. /\ ipStaged'[j] \in Seq(Nat)
      /\ \A d \in ChunkIds : d # chunk /\ InFile(j, d)' => InFile(j, d)
  BY <1>0, <1>1, <1>4, AppendedFile DEF InFile
<1>6. FileInv(j)' /\ RunInv(j)'
  BY <1>1, <1>2, <1>5 DEF FileInv, RunInv, ChunkIds
<1>7. ASSUME NEW d \in ChunkIds
      PROVE  /\ <<j, d>> \in ipLate' => ~InFile(j, d)'
             /\ d >= chunk + 1 => ~InFile(j, d)' /\ <<j, d>> \notin ipLate'
  <2>1. CASE d = chunk
    <3>1. ~(d >= chunk + 1)
      BY <1>1, <2>1 DEF ChunkIds
    <3>2. <<j, d>> \in ipLate' => ipStaged' = ipStaged
      BY <1>3, <1>4, <2>1
    <3>. QED
      BY <1>3, <2>1, <3>1, <3>2 DEF InFile
  <2>2. CASE d # chunk
    <3>1. <<j, d>> \in ipLate' <=> <<j, d>> \in ipLate
      BY <1>4, <2>2
    <3>2. <<j, d>> \in ipLate => ~InFile(j, d)
      BY <1>0 DEF OneJobInv, ChunkInv
    <3>. QED
      BY <1>3, <1>5, <2>2, <3>1, <3>2
  <2>. QED
    BY <2>1, <2>2
<1>8. ChunkInv(j)'
  BY <1>2, <1>7 DEF ChunkInv
<1>. QED
  BY <1>6, <1>8 DEF OneJobInv

(* A late chunk comes: its job has not found the file whole. *)
LEMMA LateKeeps ==
  ASSUME StageInv, NEW j \in InstallJobs, NEW chunk \in ChunkIds, IpAppendsLate(j, chunk)
  PROVE  OneJobInv(j)'
<1>0. /\ OneJobInv(j) /\ DOMAIN ipStaged = InstallJobs
      /\ <<j, chunk>> \in ipLate /\ ipLate' = ipLate \ {<<j, chunk>>}
      /\ Appended(j, chunk) /\ ipJob' = ipJob
  BY DEF StageInv, IpAppendsLate
<1>1. /\ ipStaged'[j] \in Seq(Nat)
      /\ \A d \in ChunkIds : d # chunk /\ InFile(j, d)' => InFile(j, d)
  BY <1>0, AppendedFile DEF OneJobInv, FileInv
<1>2. FileInv(j)'
  BY <1>0, <1>1 DEF OneJobInv, FileInv
<1>3. ChunkInv(j)'
  BY <1>0, <1>1 DEF OneJobInv, ChunkInv, ChunkIds
<1>4. ipJob[j].at # "installing"
  BY <1>0, WholeFileIsQuiet DEF OneJobInv, RunInv
<1>. QED
  BY <1>0, <1>2, <1>3, <1>4 DEF OneJobInv, RunInv

(* The directory of a job that has installed is removed. *)
LEMMA CleaningKeeps ==
  ASSUME StageInv, NEW j \in InstallJobs, IpCleans(j)
  PROVE  OneJobInv(j)'
<1>0. OneJobInv(j) /\ DOMAIN ipStaged = InstallJobs /\ DOMAIN ipJob = PipeJobs /\ j \in PipeJobs
  BY DEF StageInv, PipeJobs
<1>1. /\ ipJob'[j] \in JobRecords
      /\ ipJob'[j].at = "ended" /\ ipJob'[j].next = ipJob[j].next
      /\ ipStaged'[j] = <<0>> /\ ipLate' = ipLate
  <2>1. /\ ipJob'[j] = [ipJob[j] EXCEPT !.at = "ended", !.result = "installed"]
        /\ ipStaged'[j] = <<0>> /\ ipLate' = ipLate
    BY <1>0 DEF IpCleans, IpEnds, NoFile
  <2>. QED
    BY <1>0, <2>1 DEF OneJobInv, FileInv, JobRecords, Places, Ends
<1>2. \A chunk \in ChunkIds : ~InFile(j, chunk)'
  BY <1>1, InstallAssumption DEF InFile, ChunkIds
<1>3. FileInv(j)' /\ RunInv(j)'
  BY <1>1 DEF FileInv, RunInv
<1>4. ChunkInv(j)'
  BY <1>0, <1>1, <1>2 DEF OneJobInv, ChunkInv
<1>. QED
  BY <1>3, <1>4 DEF OneJobInv

(* The other steps of a job move it on. *)
LEMMA StepKeeps ==
  ASSUME StageInv, NEW j \in InstallJobs, IpStep(j)
  PROVE  OneJobInv(j)'
<1>0. /\ OneJobInv(j) /\ DOMAIN ipJob = PipeJobs /\ j \in PipeJobs /\ j \notin RemovalJobs
      /\ ipJob[j] \in JobRecords
  BY InstallAssumption DEF StageInv, PipeJobs, OneJobInv, FileInv
<1>. DEFINE Moved(place, result) ==
       ipJob'[j] = [ipJob[j] EXCEPT !.at = place, !.result = result]
<1>1. ASSUME NEW place, IpGoes(j, place)
      PROVE  Moved(place, ipJob[j].result)
  BY <1>0, <1>1 DEF IpGoes
<1>2. ASSUME NEW result, IpEnds(j, result)
      PROVE  Moved("ended", result)
  BY <1>0, <1>2 DEF IpEnds
<1>. HIDE DEF Moved
<1>3. ipJob[j].result \in Ends
  BY <1>0 DEF JobRecords
<1>4. ASSUME NEW result \in Ends, IpEnds(j, result), IpHostSame
      PROVE  OneJobInv(j)'
  BY <1>0, <1>2, <1>4, MoveOnKeeps DEF Moved, IpHostSame, Places
<1>5. ASSUME NEW place \in Places, IpGoes(j, place), IpHostSame, place \notin {"idle", "appending"},
             place \in {"reading", "detecting", "staging"} =>
               ipJob[j].at \in {"idle", "reading", "detecting", "staging"},
             place = "installing" => ipStaged[j] = Package
      PROVE  OneJobInv(j)'
  BY <1>0, <1>1, <1>3, <1>5, MoveOnKeeps DEF Moved, IpHostSame
<1>6. CASE IpBegins(j)
  BY <1>0, <1>5, <1>6 DEF IpBegins, Places
<1>7. CASE IpReads(j)
  BY <1>4, <1>5, <1>7 DEF IpReads, Places, Ends
<1>8. CASE IpThrows(j)
  BY <1>4, <1>8 DEF IpThrows, Places, Ends
<1>9. CASE IpDetects(j)
  BY <1>4, <1>5, <1>9 DEF IpDetects, Places, Ends
<1>10. CASE IpHashes(j)
  BY <1>4, <1>5, <1>10 DEF IpHashes, Places, Ends
<1>11. CASE IpInstalls(j)
  <2>1. IpGoes(j, "verifying") /\ UNCHANGED <<ipStaged, ipLate>>
    BY <1>11 DEF IpInstalls
  <2>. QED
    BY <1>0, <1>1, <1>3, <2>1, MoveOnKeeps DEF Moved, Places
<1>12. CASE IpVerifies(j)
  BY <1>4, <1>5, <1>12 DEF IpVerifies, Places, Ends
<1>13. ~IpChooses(j) /\ ~IpLooksAgain(j)
  BY <1>0 DEF IpChooses, IpLooksAgain
<1>. QED
  BY <1>6, <1>7, <1>8, <1>9, <1>10, <1>11, <1>12, <1>13, StagingKeeps, AppendingKeeps,
     CleaningKeeps DEF IpStep

(* A step of one job does not touch another: each stages in a directory of   *)
(* its own.                                                                  *)
LEMMA OthersUntouched ==
  ASSUME StageInv, NEW j \in PipeJobs, NEW k \in InstallJobs, k # j,
         IpStep(j) \/ \E chunk \in ChunkIds : IpAppendsLate(j, chunk)
  PROVE  Untouched(k)
<1>1. /\ k \in PipeJobs /\ DOMAIN ipJob = PipeJobs /\ DOMAIN ipStaged = InstallJobs
  BY DEF StageInv, PipeJobs
<1>2. ASSUME NEW chunk, Appended(j, chunk)
      PROVE  ipStaged'[k] = ipStaged[k]
  BY <1>1, <1>2 DEF Appended
<1>3. ipStaged'[k] = ipStaged[k]
  BY <1>1, <1>2 DEF IpStep, IpBegins, IpReads, IpThrows, IpDetects, IpStages, IpAppends, IpHashes,
     IpInstalls, IpVerifies, IpCleans, IpChooses, IpLooksAgain, IpHostSame, IpAppendsLate
<1>4. ipJob'[k] = ipJob[k]
  BY <1>1 DEF IpStep, IpBegins, IpReads, IpThrows, IpDetects, IpStages, IpAppends, IpHashes,
     IpInstalls, IpVerifies, IpCleans, IpChooses, IpLooksAgain, IpAppendsLate, IpGoes, IpEnds
<1>5. ipLate' = ipLate \/ \E chunk : ipLate' \in {ipLate \cup {<<j, chunk>>}, ipLate \ {<<j, chunk>>}}
  BY DEF IpStep, IpBegins, IpReads, IpThrows, IpDetects, IpStages, IpAppends, IpHashes,
     IpInstalls, IpVerifies, IpCleans, IpChooses, IpLooksAgain, IpHostSame, IpAppendsLate
<1>. QED
  BY <1>3, <1>4, <1>5 DEF Untouched

(* The invariant holds initially and is kept. *)
LEMMA StageInductive ==
  /\ IpInit => StageInv
  /\ StageInv /\ [IpNext]_ipVars => StageInv'
<1>1. ASSUME IpInit
      PROVE  StageInv
  <2>1. DOMAIN ipJob = PipeJobs /\ DOMAIN ipStaged = InstallJobs
    BY <1>1 DEF IpInit
  <2>2. ASSUME NEW j \in InstallJobs
        PROVE  OneJobInv(j)
    <3>1. /\ ipStaged[j] = <<0>> /\ ipLate = {}
          /\ ipJob[j] = [at |-> "idle", next |-> 1, result |-> "none"]
      BY <1>1 DEF IpInit, NoFile, PipeJobs
    <3>2. \A chunk \in ChunkIds : ~InFile(j, chunk)
      BY <3>1, InstallAssumption DEF InFile, ChunkIds
    <3>3. FileInv(j) /\ RunInv(j)
      <4>1. 1 \in 1 .. Chunks + 1 /\ <<0>> \in Seq(Nat)
        BY InstallAssumption
      <4>. QED
        BY <3>1, <4>1 DEF FileInv, RunInv, JobRecords, Places, Ends
    <3>. QED
      BY <3>1, <3>2, <3>3 DEF OneJobInv, ChunkInv
  <2>. QED
    BY <2>1, <2>2 DEF StageInv
<1>2. ASSUME StageInv, [IpNext]_ipVars
      PROVE  StageInv'
  <2>1. DOMAIN ipJob' = PipeJobs /\ DOMAIN ipStaged' = InstallJobs
    BY <1>2 DEF StageInv, IpNext, ipVars, IpUploads, IpRemovesPackage, IpOthersInstall,
       IpHostUninstalls, IpStep, IpBegins, IpReads, IpThrows, IpDetects, IpStages, IpAppends,
       IpHashes, IpInstalls, IpVerifies, IpCleans, IpChooses, IpLooksAgain, IpHostSame,
       IpAppendsLate, Appended, IpGoes, IpEnds
  <2>2. ASSUME NEW k \in InstallJobs
        PROVE  OneJobInv(k)'
    <3>0. OneJobInv(k)
      BY <1>2 DEF StageInv
    <3>1. CASE \E j \in PipeJobs : IpStep(j)
      BY <1>2, <3>0, <3>1, StepKeeps, OthersUntouched, UntouchedKeeps
    <3>2. CASE \E j \in InstallJobs, chunk \in 1 .. Chunks : IpAppendsLate(j, chunk)
      BY <1>2, <3>0, <3>2, LateKeeps, OthersUntouched, UntouchedKeeps DEF ChunkIds, PipeJobs
    <3>3. CASE IpUploads \/ IpRemovesPackage \/ IpOthersInstall
               \/ (\E p \in Programs : IpHostUninstalls(p)) \/ UNCHANGED ipVars
      <4>1. Untouched(k)
        BY <3>3 DEF IpUploads, IpRemovesPackage, IpOthersInstall, IpHostUninstalls, ipVars, Untouched
      <4>. QED
        BY <3>0, <4>1, UntouchedKeeps
    <3>. QED
      BY <1>2, <3>1, <3>2, <3>3 DEF IpNext
  <2>. QED
    BY <2>1, <2>2 DEF StageInv
<1>. QED
  BY <1>1, <1>2

(* What is run on a host is the package, whole and in order, whatever calls  *)
(* are lost or come late: a file with the hash of the package has no chunk   *)
(* to come (deployInstall.js, transferPackage).                              *)
THEOREM StagedIsPackageHolds == IpSpec => []StagedIsPackage
<1>1. StageInv => StagedIsPackage
  BY DEF StageInv, OneJobInv, RunInv, StagedIsPackage
<1>. QED
  BY <1>1, StageInductive, PTL DEF IpSpec

-----------------------------------------------------------------------------
(* The removal of the agent. *)

RunFields == {"at", "result", "hint", "installed", "root", "roots", "code", "service", "status",
              "todo", "polls", "again"}

(* The inductive invariant. *)
RemovalInv ==
  /\ upHost \in HostStates /\ upPending \subseteq Commands /\ upFaults \in 0 .. MaxFaults
  /\ DOMAIN upRun = IF upRun.at = "idle" THEN {"at", "result"} ELSE RunFields
  /\ upRun.result \in Results /\ (upRun.result # "none" <=> upRun.at = "ended")
  /\ SuccessMeansClean

(* A command that the host runs adds nothing to it. *)
LEMMA CommandsOnlyRemove ==
  ASSUME upHost \in HostStates, NEW command \in Commands, NEW host \in After(command)
  PROVE  /\ host \in HostStates /\ host.dirs \subseteq upHost.dirs
         /\ upHost.service = "none" => host.service = "none"
         /\ upHost.entry = "none" => host.entry = "none"
<1>1. CASE command \in {"net stop", "taskkill"}
  BY <1>1 DEF After, HostStates
<1>2. CASE command = "msiexec"
  <2>1. host = upHost \/
        \E left \in SUBSET upHost.dirs :
          host = [service |-> "none", entry |-> "none", blade |-> FALSE, dirs |-> left]
    BY <1>2 DEF After
  <2>2. ASSUME NEW left \in SUBSET upHost.dirs,
               host = [service |-> "none", entry |-> "none", blade |-> FALSE, dirs |-> left]
        PROVE  host \in HostStates /\ host.dirs = left /\ host.service = "none" /\ host.entry = "none"
    BY <2>2 DEF HostStates
  <2>. QED
    BY <2>1, <2>2
<1>3. CASE command = "sc delete"
  BY <1>3 DEF After, HostStates
<1>4. CASE command = "reg delete"
  BY <1>4 DEF After, HostStates
<1>5. CASE command \notin {"net stop", "taskkill", "msiexec", "sc delete", "reg delete"}
  <2>1. host = [upHost EXCEPT !.dirs = IF upHost.service = "running" THEN @ ELSE @ \ {command}]
    BY <1>5 DEF After
  <2>. QED
    BY <2>1 DEF HostStates
<1>. QED
  BY <1>1, <1>2, <1>3, <1>4, <1>5

(* What a verification that prints OK has seen. *)
LEMMA VerifiedIsClean ==
  ASSUME NEW roots, parseUninstallOutput(VerifyPrints(roots)) = "removed"
  PROVE  /\ upHost.service = "none" /\ upHost.entry = "none"
         /\ upHost.dirs \intersect roots = {}
<1>1. "PARTIAL" \notin VerifyPrints(roots)
  BY DEF parseUninstallOutput
<1>. QED
  BY <1>1 DEF VerifyPrints

(* A step that does not end the removal. *)
LEMMA RemovalGoesOn ==
  ASSUME RemovalInv, upRun.at \notin {"idle", "ended"},
         DOMAIN upRun' = RunFields, upRun'.at \notin {"idle", "ended"}, upRun'.result = upRun.result,
         upHost' \in HostStates, upPending' \subseteq Commands, upFaults' \in 0 .. MaxFaults
  PROVE  RemovalInv'
<1>1. upRun'.result = "none"
  BY DEF RemovalInv
<1>2. SuccessMeansClean'
  BY <1>1 DEF SuccessMeansClean
<1>. QED
  BY <1>1, <1>2 DEF RemovalInv, Results

(* A step that ends it. *)
LEMMA RemovalEnds ==
  ASSUME RemovalInv, upRun.at \notin {"idle", "ended"}, NEW result \in Results, UpEnds(result),
         result # "none", upHost' = upHost, upPending' = upPending, upFaults' \in 0 .. MaxFaults,
         result \in {"removed", "notPresent"} => upHost.service = "none" /\ upHost.entry = "none",
         result = "removed" => upHost.dirs \intersect SetOfRoots(CleanupRoots) = {}
  PROVE  RemovalInv'
<1>1. DOMAIN upRun = RunFields
  BY DEF RemovalInv
<1>2. /\ DOMAIN upRun' = RunFields /\ upRun'.at = "ended" /\ upRun'.result = result
      /\ upRun'.root = upRun.root /\ upRun'.roots = upRun.roots
  BY <1>1 DEF UpEnds, RunFields
<1>3. CleanupRoots' = CleanupRoots
  BY <1>2 DEF CleanupRoots, SetOfRoots
<1>4. SetOfRoots(CleanupRoots)' = SetOfRoots(CleanupRoots)
  BY <1>3 DEF SetOfRoots
<1>5. SuccessMeansClean'
  BY <1>2, <1>4 DEF SuccessMeansClean
<1>. QED
  BY <1>2, <1>5 DEF RemovalInv

LEMMA FaultIsCounted ==
  ASSUME upFaults \in 0 .. MaxFaults, UpFault \/ UNCHANGED upFaults
  PROVE  upFaults' \in 0 .. MaxFaults
BY FleetAssumption DEF UpFault

LEMMA CommandIsHanded ==
  ASSUME upPending \subseteq Commands, upFaults \in 0 .. MaxFaults,
         NEW command \in Commands, Hands(command)
  PROVE  upPending' \subseteq Commands /\ upFaults' \in 0 .. MaxFaults
BY FaultIsCounted DEF Hands

(* The steps up to the decision what to do. *)
LEMMA RemovalFinds ==
  ASSUME RemovalInv,
         UpConnects \/ UpProbes \/ UpProbeLost \/ (\E lost \in SUBSET Queries : UpDetects(lost))
         \/ UpVerifiesAbsent
  PROVE  RemovalInv'
<1>0. /\ upHost \in HostStates /\ upPending \subseteq Commands /\ upFaults \in 0 .. MaxFaults
      /\ upRun.at # "idle" => DOMAIN upRun = RunFields
  BY DEF RemovalInv
<1>1. CASE UpConnects
  <2>1. CASE UpGoes("probing")
    <3>1. DOMAIN upRun' = RunFields /\ upRun'.at = "probing" /\ upRun'.result = upRun.result
      BY <1>0, <1>1, <2>1 DEF UpConnects, UpAt, UpGoes, RunFields
    <3>. QED
      BY <1>0, <1>1, <3>1, RemovalGoesOn DEF UpConnects, UpAt
  <2>2. CASE UpEnds("failed")
    BY <1>0, <1>1, <2>2, RemovalEnds DEF UpConnects, UpAt, Results
  <2>. QED
    BY <1>1, <2>1, <2>2 DEF UpConnects
<1>2. CASE UpProbes
  <2>1. DOMAIN upRun' = RunFields /\ upRun'.at = "detecting" /\ upRun'.result = upRun.result
    BY <1>0, <1>2 DEF UpProbes, UpAt, RunFields
  <2>2. upFaults' \in 0 .. MaxFaults
    BY <1>0, <1>2, FaultIsCounted DEF UpProbes
  <2>. QED
    BY <1>0, <1>2, <2>1, <2>2, RemovalGoesOn DEF UpProbes, UpAt
<1>3. CASE UpProbeLost
  <2>1. DOMAIN upRun' = RunFields /\ upRun'.at = "detecting" /\ upRun'.result = upRun.result
    BY <1>0, <1>3 DEF UpProbeLost, UpAt, RunFields
  <2>. QED
    BY <1>0, <1>3, <2>1, FaultIsCounted, RemovalGoesOn DEF UpProbeLost, UpAt
<1>4. ASSUME NEW lost \in SUBSET Queries, UpDetects(lost)
      PROVE  RemovalInv'
  <2>1. PICK known, state, code :
          upRun' = [upRun EXCEPT !.at = IF known THEN "stopping" ELSE "already clean",
                                 !.service = state.service, !.code = code,
                                 !.status = state.status]
    BY <1>4 DEF UpDetects
  <2>2. /\ DOMAIN upRun' = RunFields /\ upRun'.at \in {"stopping", "already clean"}
        /\ upRun'.result = upRun.result
    BY <1>0, <1>4, <2>1 DEF UpDetects, UpAt, RunFields
  <2>3. upFaults' \in 0 .. MaxFaults
    BY <1>0, <1>4, FaultIsCounted DEF UpDetects
  <2>. QED
    BY <1>0, <1>4, <2>2, <2>3, RemovalGoesOn DEF UpDetects, UpAt
<1>5. CASE UpVerifiesAbsent
  <2>1. CASE parseUninstallOutput(VerifyPrints(SetOfRoots(upRun.roots))) = "removed"
    BY <1>0, <1>5, <2>1, VerifiedIsClean, RemovalEnds DEF UpVerifiesAbsent, UpAt, Results
  <2>2. CASE UpGoes("stopping")
    <3>1. DOMAIN upRun' = RunFields /\ upRun'.at = "stopping" /\ upRun'.result = upRun.result
      BY <1>0, <1>5, <2>2 DEF UpVerifiesAbsent, UpAt, UpGoes, RunFields
    <3>. QED
      BY <1>0, <1>5, <3>1, RemovalGoesOn DEF UpVerifiesAbsent, UpAt
  <2>. QED
    BY <1>5, <2>1, <2>2 DEF UpVerifiesAbsent
<1>. QED
  BY <1>1, <1>2, <1>3, <1>4, <1>5

(* The steps that hand commands to the host. *)
LEMMA RemovalCommands ==
  ASSUME RemovalInv,
         UpStops \/ UpKills \/ UpMsi \/ UpPolls \/ UpDeletesService \/ UpCleansRegistry
         \/ UpRemovesDirectory \/ UpLooksAtDirectory
  PROVE  RemovalInv'
<1>0. /\ upHost \in HostStates /\ upPending \subseteq Commands /\ upFaults \in 0 .. MaxFaults
      /\ upRun.at # "idle" => DOMAIN upRun = RunFields
  BY DEF RemovalInv
<1>. DEFINE Alive == upRun.at \notin {"idle", "ended"}
            Moved == /\ DOMAIN upRun' = RunFields /\ upRun'.at \notin {"idle", "ended"}
                     /\ upRun'.result = upRun.result
<1>a. ASSUME Alive, NEW place, place \notin {"idle", "ended"}, UpGoes(place)
      PROVE  Moved
  BY <1>0, <1>a DEF UpGoes, RunFields
<1>b. ASSUME Alive, NextDirectory
      PROVE  Moved
  BY <1>0, <1>b DEF NextDirectory, RunFields
<1>1. CASE UpStops
  <2>1. Alive /\ Moved /\ upHost' = upHost
    BY <1>1, <1>a DEF UpStops, UpAt
  <2>2. upPending' \subseteq Commands /\ upFaults' \in 0 .. MaxFaults
    BY <1>0, <1>1, CommandIsHanded DEF UpStops, Commands
  <2>. QED
    BY <1>0, <2>1, <2>2, RemovalGoesOn
<1>2. CASE UpKills
  <2>1. Alive /\ upHost' = upHost
    BY <1>2 DEF UpKills, UpAt
  <2>2. Moved
    BY <1>0, <1>2, <2>1 DEF UpKills, RunFields
  <2>3. upPending' \subseteq Commands /\ upFaults' \in 0 .. MaxFaults
    BY <1>0, <1>2, CommandIsHanded DEF UpKills, Commands
  <2>. QED
    BY <1>0, <2>1, <2>2, <2>3, RemovalGoesOn
<1>3. CASE UpMsi
  <2>1. Alive /\ upHost' = upHost /\ (UpGoes("service") \/ UpGoes("polling"))
    BY <1>3 DEF UpMsi, UpAt
  <2>2. Moved
    BY <1>a, <2>1
  <2>3. upPending' \subseteq Commands /\ upFaults' \in 0 .. MaxFaults
    BY <1>0, <1>3, CommandIsHanded DEF UpMsi, Commands
  <2>. QED
    BY <1>0, <2>1, <2>2, <2>3, RemovalGoesOn
<1>4. CASE UpPolls
  <2>1. Alive /\ upHost' = upHost /\ upPending' = upPending
    BY <1>4 DEF UpPolls, UpAt
  <2>2. CASE UpGoes("service")
    BY <1>0, <1>4, <1>a, <2>1, <2>2, FaultIsCounted, RemovalGoesOn DEF UpPolls
  <2>3. CASE upRun' = [upRun EXCEPT !.polls = @ + 1] /\ UNCHANGED upFaults
    <3>1. Moved
      BY <1>0, <2>1, <2>3 DEF RunFields
    <3>. QED
      BY <1>0, <2>1, <2>3, <3>1, RemovalGoesOn
  <2>. QED
    BY <1>4, <2>2, <2>3 DEF UpPolls
<1>5. CASE UpDeletesService
  <2>1. Alive /\ Moved /\ upHost' = upHost
    BY <1>5, <1>a DEF UpDeletesService, UpAt
  <2>2. upPending' \subseteq Commands /\ upFaults' \in 0 .. MaxFaults
    BY <1>0, <1>5, CommandIsHanded DEF UpDeletesService, Commands
  <2>. QED
    BY <1>0, <2>1, <2>2, RemovalGoesOn
<1>6. CASE UpCleansRegistry
  <2>1. Alive
    BY <1>6 DEF UpCleansRegistry, UpAt
  <2>2. CASE /\ upHost' = [upHost EXCEPT !.entry = "none"]
             /\ UpGoes(IF upRun.again THEN "verifying" ELSE "directories")
             /\ Hands("reg delete")
    <3>1. upHost' \in HostStates
      BY <1>0, <2>2 DEF HostStates
    <3>2. Moved
      BY <1>a, <2>1, <2>2
    <3>3. upPending' \subseteq Commands /\ upFaults' \in 0 .. MaxFaults
      BY <1>0, <2>2, CommandIsHanded DEF Commands
    <3>. QED
      BY <1>0, <2>1, <3>1, <3>2, <3>3, RemovalGoesOn
  <2>3. CASE UpFault /\ UpEnds("failed") /\ UNCHANGED <<upHost, upPending>>
    BY <1>0, <2>1, <2>3, FaultIsCounted, RemovalEnds DEF Results
  <2>. QED
    BY <1>6, <2>2, <2>3 DEF UpCleansRegistry
<1>7. CASE UpRemovesDirectory
  <2>1. Alive /\ upHost' = upHost
    BY <1>7 DEF UpRemovesDirectory, UpAt
  <2>2. UpGoes("registry") \/ UpGoes("verifying") \/ UpGoes("directory gone?") \/ NextDirectory
    BY <1>7 DEF UpRemovesDirectory, AfterDirectories
  <2>3. Moved
    BY <1>a, <1>b, <2>1, <2>2
  <2>4. upHost.dirs \subseteq Commands
    BY <1>0 DEF HostStates, Commands
  <2>5. upPending' \subseteq Commands /\ upFaults' \in 0 .. MaxFaults
    BY <1>0, <1>7, <2>4, CommandIsHanded DEF UpRemovesDirectory
  <2>. QED
    BY <1>0, <2>1, <2>3, <2>5, RemovalGoesOn
<1>8. CASE UpLooksAtDirectory
  <2>1. Alive /\ UNCHANGED <<upHost, upPending, upFaults>>
    BY <1>8 DEF UpLooksAtDirectory, UpAt
  <2>2. UpGoes("registry") \/ UpGoes("verifying") \/ NextDirectory
    BY <1>8 DEF UpLooksAtDirectory, AfterDirectories
  <2>3. Moved
    BY <1>a, <1>b, <2>1, <2>2
  <2>. QED
    BY <1>0, <2>1, <2>3, RemovalGoesOn
<1>. QED
  BY <1>1, <1>2, <1>3, <1>4, <1>5, <1>6, <1>7, <1>8

(* The verification that decides how the removal ended, and its failure. *)
LEMMA RemovalVerifies ==
  ASSUME RemovalInv, UpVerifies \/ UpThrows
  PROVE  RemovalInv'
<1>0. /\ upHost \in HostStates /\ upPending \subseteq Commands /\ upFaults \in 0 .. MaxFaults
      /\ upRun.at # "idle" => DOMAIN upRun = RunFields
  BY DEF RemovalInv
<1>. DEFINE seen == parseUninstallOutput(VerifyPrints(SetOfRoots(CleanupRoots)))
<1>1. CASE UpVerifies
  <2>1. upRun.at = "verifying" /\ UNCHANGED <<upHost, upPending, upFaults>>
    BY <1>1 DEF UpVerifies, UpAt
  <2>2. CASE upRun' = [upRun EXCEPT !.at = "killing", !.again = TRUE]
    <3>1. DOMAIN upRun' = RunFields /\ upRun'.at = "killing" /\ upRun'.result = upRun.result
      BY <1>0, <2>1, <2>2 DEF RunFields
    <3>. QED
      BY <1>0, <2>1, <3>1, RemovalGoesOn
  <2>3. CASE UpEnds(seen)
    <3>1. seen \in {"removed", "partial", "failed"}
      BY DEF parseUninstallOutput
    <3>2. seen = "removed" =>
            /\ upHost.service = "none" /\ upHost.entry = "none"
            /\ upHost.dirs \intersect SetOfRoots(CleanupRoots) = {}
      BY VerifiedIsClean
    <3>. HIDE DEF seen
    <3>. QED
      BY <1>0, <2>1, <2>3, <3>1, <3>2, RemovalEnds DEF Results
  <2>. QED
    BY <1>1, <2>2, <2>3 DEF UpVerifies
<1>2. CASE UpThrows
  BY <1>0, <1>2, FaultIsCounted, RemovalEnds DEF UpThrows, Results
<1>. QED
  BY <1>1, <1>2

LEMMA RemovalInductive ==
  /\ UpInit => RemovalInv
  /\ RemovalInv /\ [UpNext]_upVars => RemovalInv'
<1>1. ASSUME UpInit
      PROVE  RemovalInv
  <2>1. upHost \in HostStates /\ upPending = {} /\ upFaults \in 0 .. MaxFaults
    BY <1>1, FleetAssumption DEF UpInit, HostStates
  <2>2. DOMAIN upRun = {"at", "result"} /\ upRun.at = "idle" /\ upRun.result = "none"
    BY <1>1 DEF UpInit
  <2>. QED
    BY <2>1, <2>2 DEF RemovalInv, Results, SuccessMeansClean
<1>2. ASSUME RemovalInv, [UpNext]_upVars
      PROVE  RemovalInv'
  <2>1. ASSUME NEW host \in StartHosts, NEW hint, UpBegins(host, hint)
        PROVE  RemovalInv'
    <3>1. /\ DOMAIN upRun' = RunFields /\ upRun'.at = "connecting" /\ upRun'.result = "none"
      BY <2>1 DEF UpBegins, RunFields
    <3>2. upHost' \in HostStates /\ UNCHANGED <<upPending, upFaults>>
      BY <2>1, UninstallAssumption DEF UpBegins
    <3>. QED
      BY <1>2, <3>1, <3>2 DEF RemovalInv, Results, SuccessMeansClean
  <2>2. ASSUME NEW command \in Commands, UpHostRuns(command)
        PROVE  RemovalInv'
    <3>1. UNCHANGED <<upRun, upFaults>> /\ upPending' \subseteq upPending /\ upHost' \in After(command)
      BY <2>2 DEF UpHostRuns
    <3>2. /\ upHost' \in HostStates /\ upHost'.dirs \subseteq upHost.dirs
          /\ upHost.service = "none" => upHost'.service = "none"
          /\ upHost.entry = "none" => upHost'.entry = "none"
      BY <1>2, <3>1, CommandsOnlyRemove DEF RemovalInv
    <3>3. SetOfRoots(CleanupRoots)' = SetOfRoots(CleanupRoots)
      BY <3>1 DEF SetOfRoots, CleanupRoots
    <3>4. SuccessMeansClean'
      BY <1>2, <3>1, <3>2, <3>3 DEF RemovalInv, SuccessMeansClean
    <3>. QED
      BY <1>2, <3>1, <3>2, <3>4 DEF RemovalInv
  <2>3. CASE UNCHANGED upVars
    <3>1. UNCHANGED <<upHost, upPending, upRun, upFaults>>
      BY <2>3 DEF upVars
    <3>2. SetOfRoots(CleanupRoots)' = SetOfRoots(CleanupRoots)
      BY <3>1 DEF SetOfRoots, CleanupRoots
    <3>. QED
      BY <1>2, <3>1, <3>2 DEF RemovalInv, SuccessMeansClean
  <2>4. CASE UpStep
    BY <1>2, <2>4, RemovalFinds, RemovalCommands, RemovalVerifies DEF UpStep
  <2>. QED
    BY <1>2, <2>1, <2>2, <2>3, <2>4 DEF UpNext
<1>. QED
  BY <1>1, <1>2

(* A removal that is reported as done left no service, no entry and none of  *)
(* the directories it looked at, and one that reports the agent as absent    *)
(* found neither service nor entry, whichever commands were lost or are run  *)
(* afterwards (winRemote.js:316-332 and 405-477).                            *)
THEOREM SuccessMeansCleanHolds == UpSpec => []SuccessMeansClean
<1>1. RemovalInv => SuccessMeansClean
  BY DEF RemovalInv
<1>. QED
  BY <1>1, RemovalInductive, PTL DEF UpSpec

-----------------------------------------------------------------------------
(* The types. *)

JobFields == {"at", "next", "result"}
JobTyped(j) ==
  /\ DOMAIN ipJob[j] = JobFields /\ ipJob[j].result \in Ends
  /\ j \in RemovalJobs => ipJob[j].at \in {"idle", "detecting", "verifying", "ended"}

IpTypeInv ==
  /\ ipStore \in [doc : BOOLEAN, file : BOOLEAN] /\ ipHost \in Seq(Programs)
  /\ ipLate \subseteq InstallJobs \X ChunkIds /\ ipUnder \subseteq Programs
  /\ \A j \in PipeJobs : JobTyped(j)
  /\ ipFaults \in 0 .. MaxFaults

(* What is left of a list without one of its members. *)
LEMMA WithoutIsList ==
  ASSUME ipHost \in Seq(Programs), NEW p
  PROVE  Without(p) \in Seq(Programs)
<1>1. CASE \E i \in DOMAIN ipHost : ipHost[i] = p
  <2>. DEFINE at == CHOOSE i \in DOMAIN ipHost : ipHost[i] = p
  <2>1. at \in 1 .. Len(ipHost) /\ Len(ipHost) \in Nat
    BY <1>1
  <2>2. Without(p) = SubSeq(ipHost, 1, at - 1) \o SubSeq(ipHost, at + 1, Len(ipHost))
    BY <1>1 DEF Without
  <2>. HIDE DEF at
  <2>3. SubSeq(ipHost, 1, at - 1) \in Seq(Programs)
    BY <2>1
  <2>4. SubSeq(ipHost, at + 1, Len(ipHost)) \in Seq(Programs)
    BY <2>1
  <2>. QED
    BY <2>2, <2>3, <2>4
<1>2. CASE ~\E i \in DOMAIN ipHost : ipHost[i] = p
  BY <1>2 DEF Without
<1>. QED
  BY <1>1, <1>2

(* The job that takes a step stays within its record, the others are as they *)
(* were.                                                                     *)
LEMMA JobsStayTyped ==
  ASSUME DOMAIN ipJob = PipeJobs, NEW j \in PipeJobs, IpStep(j),
         \A i \in PipeJobs : JobTyped(i)
  PROVE  \A i \in PipeJobs : JobTyped(i)'
<1>0. \A i \in PipeJobs \ {j} : ipJob'[i] = ipJob[i]
  BY DEF IpStep, IpBegins, IpReads, IpThrows, IpDetects, IpStages, IpAppends, IpHashes,
     IpInstalls, IpVerifies, IpCleans, IpChooses, IpLooksAgain, IpGoes, IpEnds
<1>. SUFFICES JobTyped(j)'
  BY <1>0 DEF JobTyped
<1>1. ASSUME NEW place, IpGoes(j, place),
             j \in RemovalJobs => place \in {"idle", "detecting", "verifying", "ended"}
      PROVE  JobTyped(j)'
  BY <1>1 DEF IpGoes, JobTyped, JobFields
<1>2. ASSUME NEW result \in Ends, IpEnds(j, result)
      PROVE  JobTyped(j)'
  BY <1>2 DEF IpEnds, JobTyped, JobFields
<1>3. CASE IpAppends(j)
  <2>1. ipJob[j].at = "appending" /\ j \notin RemovalJobs
    BY <1>3 DEF IpAppends, JobTyped
  <2>2. DOMAIN ipJob'[j] = JobFields /\ ipJob'[j].result = ipJob[j].result
    BY <1>3 DEF IpAppends, JobTyped, JobFields
  <2>. QED
    BY <2>1, <2>2 DEF JobTyped
<1>4. j \in RemovalJobs => j \notin InstallJobs
  BY InstallAssumption
<1>5. CASE IpBegins(j)
  BY <1>1, <1>4, <1>5 DEF IpBegins
<1>6. CASE IpStages(j) \/ IpInstalls(j)
  BY <1>1, <1>6 DEF IpStages, IpInstalls, JobTyped
<1>7. CASE IpThrows(j) \/ IpCleans(j) \/ IpLooksAgain(j)
  BY <1>2, <1>7 DEF IpThrows, IpCleans, IpLooksAgain, Ends
<1>8. CASE IpReads(j) \/ IpHashes(j)
  BY <1>1, <1>2, <1>8 DEF IpReads, IpHashes, JobTyped, Ends
<1>9. CASE IpDetects(j) \/ IpVerifies(j)
  BY <1>1, <1>2, <1>4, <1>9 DEF IpDetects, IpVerifies, Ends
<1>10. CASE IpChooses(j)
  BY <1>1, <1>2, <1>10 DEF IpChooses, Ends
<1>. QED
  BY <1>3, <1>5, <1>6, <1>7, <1>8, <1>9, <1>10 DEF IpStep

LEMMA IpTypesKept ==
  ASSUME StageInv, IpTypeInv, [IpNext]_ipVars
  PROVE  IpTypeInv'
<1>0. DOMAIN ipJob = PipeJobs /\ ipHost \in Seq(Programs)
  BY DEF StageInv, IpTypeInv
<1>1. CASE UNCHANGED ipVars
  BY <1>1 DEF ipVars, IpTypeInv, JobTyped
<1>2. CASE IpUploads \/ IpRemovesPackage
  <2>1. PICK file \in BOOLEAN : ipStore' = [doc |-> ipStore.file, file |-> file]
    BY <1>2 DEF IpUploads, IpRemovesPackage
  <2>2. ipStore.file \in BOOLEAN
    BY DEF IpTypeInv
  <2>3. ipStore' \in [doc : BOOLEAN, file : BOOLEAN]
    BY <2>1, <2>2
  <2>4. UNCHANGED <<ipHost, ipLate, ipUnder, ipJob, ipFaults>>
    BY <1>2 DEF IpUploads, IpRemovesPackage
  <2>. QED
    BY <2>3, <2>4 DEF IpTypeInv, JobTyped
<1>3. CASE IpOthersInstall
  <2>1. <<"runtime">> \in Seq(Programs)
    BY DEF Programs
  <2>2. <<"runtime">> \o ipHost \in Seq(Programs) /\ ipHost \o <<"runtime">> \in Seq(Programs)
    BY <1>0, <2>1
  <2>3. ipHost' \in Seq(Programs)
    BY <1>3, <2>2 DEF IpOthersInstall
  <2>4. UNCHANGED <<ipStore, ipLate, ipUnder, ipJob, ipFaults>>
    BY <1>3 DEF IpOthersInstall
  <2>. QED
    BY <2>3, <2>4 DEF IpTypeInv, JobTyped
<1>4. ASSUME NEW p \in Programs, IpHostUninstalls(p)
      PROVE  IpTypeInv'
  <2>1. ipHost' \in Seq(Programs)
    BY <1>0, <1>4, WithoutIsList DEF IpHostUninstalls
  <2>2. ipUnder' \subseteq ipUnder /\ UNCHANGED <<ipStore, ipLate, ipJob, ipFaults>>
    BY <1>4 DEF IpHostUninstalls
  <2>. QED
    BY <2>1, <2>2 DEF IpTypeInv, JobTyped
<1>5. ASSUME NEW j \in InstallJobs, NEW chunk \in ChunkIds, IpAppendsLate(j, chunk)
      PROVE  IpTypeInv'
  <2>1. ipLate' \subseteq ipLate /\ UNCHANGED <<ipStore, ipHost, ipUnder, ipJob, ipFaults>>
    BY <1>5 DEF IpAppendsLate
  <2>. QED
    BY <2>1 DEF IpTypeInv, JobTyped
<1>6. ASSUME NEW j \in PipeJobs, IpStep(j)
      PROVE  IpTypeInv'
  <2>1. \A i \in PipeJobs : JobTyped(i)'
    BY <1>0, <1>6, JobsStayTyped DEF IpTypeInv
  <2>2. ipHost' \in Seq(Programs)
    <3>1. ipHost' = ipHost \/ ipHost' = <<"app">> \o Without("app")
      BY <1>6 DEF IpStep, IpBegins, IpReads, IpThrows, IpDetects, IpStages, IpAppends, IpHashes,
         IpInstalls, IpVerifies, IpCleans, IpChooses, IpLooksAgain, IpHostSame
    <3>2. <<"app">> \in Seq(Programs) /\ Without("app") \in Seq(Programs)
      BY <1>0, WithoutIsList DEF Programs
    <3>3. <<"app">> \o Without("app") \in Seq(Programs)
      BY <3>2
    <3>. QED
      BY <1>0, <3>1, <3>3
  <2>3. ipLate' \subseteq InstallJobs \X ChunkIds
    <3>1. CASE IpAppends(j)
      <4>1. j \in InstallJobs
        BY <3>1 DEF IpAppends, IpTypeInv, JobTyped, PipeJobs
      <4>2. ipJob[j].next \in ChunkIds
        BY <3>1, <4>1, InstallAssumption
           DEF IpAppends, StageInv, OneJobInv, FileInv, ChunkIds, JobRecords
      <4>3. ipLate' \subseteq ipLate \cup {<<j, ipJob[j].next>>}
        BY <3>1 DEF IpAppends
      <4>. QED
        BY <4>1, <4>2, <4>3 DEF IpTypeInv
    <3>2. CASE ipLate' = ipLate
      BY <3>2 DEF IpTypeInv
    <3>. QED
      BY <1>6, <3>1, <3>2 DEF IpStep, IpBegins, IpReads, IpThrows, IpDetects, IpStages, IpHashes,
         IpInstalls, IpVerifies, IpCleans, IpChooses, IpLooksAgain, IpHostSame
  <2>4. ipUnder' \subseteq Programs
    <3>1. CASE IpChooses(j)
      <4>1. ipHost # <<>> => Head(ipHost) \in Programs
        BY <1>0
      <4>. QED
        BY <3>1, <4>1 DEF IpChooses, IpTypeInv
    <3>2. CASE ipUnder' = ipUnder
      BY <3>2 DEF IpTypeInv
    <3>. QED
      BY <1>6, <3>1, <3>2 DEF IpStep, IpBegins, IpReads, IpThrows, IpDetects, IpStages, IpAppends,
         IpHashes, IpInstalls, IpVerifies, IpCleans, IpLooksAgain, IpHostSame
  <2>5. ipFaults' \in 0 .. MaxFaults /\ ipStore' = ipStore
    <3>1. ipFaults' = ipFaults \/ IpFault
      BY <1>6 DEF IpStep, IpBegins, IpReads, IpThrows, IpDetects, IpStages, IpAppends, IpHashes,
         IpInstalls, IpVerifies, IpCleans, IpChooses, IpLooksAgain
    <3>2. ipStore' = ipStore
      BY <1>6 DEF IpStep, IpBegins, IpReads, IpThrows, IpDetects, IpStages, IpAppends, IpHashes,
         IpInstalls, IpVerifies, IpCleans, IpChooses, IpLooksAgain, IpHostSame
    <3>. QED
      BY <3>1, <3>2, FleetAssumption DEF IpFault, IpTypeInv
  <2>. QED
    BY <2>1, <2>2, <2>3, <2>4, <2>5 DEF IpTypeInv
<1>. QED
  BY <1>1, <1>2, <1>3, <1>4, <1>5, <1>6 DEF IpNext, ChunkIds

LEMMA IpTypesInitially ==
  ASSUME IpInit
  PROVE  IpTypeInv
<1>1. \A j \in PipeJobs : ipJob[j] = [at |-> "idle", next |-> 1, result |-> "none"]
  BY DEF IpInit
<1>2. \A j \in PipeJobs : JobTyped(j)
  BY <1>1 DEF JobTyped, JobFields, Ends
<1>. QED
  BY <1>2, FleetAssumption DEF IpInit, IpTypeInv

(* Records, jobs, hosts and packages hold what the code puts into them,      *)
(* whatever order the sweeps, the removals and the installations go in.      *)
THEOREM HostWorkTypesHold == Spec => []HostWorkTypeOK
<1>. DEFINE Inv == RecordInv /\ FjTypeInv /\ RemovalInv /\ StageInv /\ IpTypeInv
<1>1. Init => Inv
  BY RecordInductive, FjTypesInitially, RemovalInductive, StageInductive, IpTypesInitially DEF Init
<1>2. Inv /\ [Next]_vars => Inv'
  <2>. SUFFICES ASSUME Inv, [Next]_vars
                PROVE  Inv'
    OBVIOUS
  <2>1. [FleetJobsNext]_fjVars /\ [UpNext]_upVars /\ [IpNext]_ipVars
    BY DEF Next, vars
  <2>2. RecordInv' /\ FjTypeInv'
    BY <2>1, RecordInductive, FjTypesKept DEF RecordInv
  <2>3. RemovalInv' /\ StageInv' /\ IpTypeInv'
    BY <2>1, RemovalInductive, StageInductive, IpTypesKept
  <2>. QED
    BY <2>2, <2>3
<1>3. Inv => HostWorkTypeOK
  <2>1. RemovalInv => UpTypeOK
    BY DEF RemovalInv, UpTypeOK
  <2>2. IpTypeInv => IpTypeOK
    BY DEF IpTypeInv, IpTypeOK, JobTyped, Ends, ChunkIds
  <2>. QED
    BY <2>1, <2>2 DEF FjTypeInv, HostWorkTypeOK
<1>. QED
  BY <1>1, <1>2, <1>3, PTL DEF Spec

(* What the parts keep, the composition that the run checks keeps: a record  *)
(* that tells the truth about the runtime, sweeps whose work is accounted    *)
(* for, removals that report success only of a clean host, and a staged file *)
(* that is the package that was uploaded.                                    *)
THEOREM HostWorkIsSafe ==
  Spec => [](VcRecordTrue /\ SweepsAccountedFor /\ SuccessMeansClean /\ StagedIsPackage)
<1>. DEFINE Inv == RecordInv /\ SweepInv /\ RemovalInv /\ StageInv
<1>1. Init => Inv
  <2>1. FleetJobsInit => SweepInv
    BY DEF FleetJobsInit, SweepInv
  <2>. QED
    BY <2>1, RecordInductive, RemovalInductive, StageInductive DEF Init
<1>2. Inv /\ [Next]_vars => Inv'
  <2>. SUFFICES ASSUME Inv, [Next]_vars
                PROVE  Inv'
    OBVIOUS
  <2>1. [FleetJobsNext]_fjVars /\ [UpNext]_upVars /\ [IpNext]_ipVars
    BY DEF Next, vars
  <2>. QED
    BY <2>1, RecordInductive, SweepKeeps, RemovalInductive, StageInductive DEF RecordInv
<1>3. Inv => VcRecordTrue /\ SweepsAccountedFor /\ SuccessMeansClean /\ StagedIsPackage
  <2>1. RecordInv => VcRecordTrue
    BY DEF RecordInv, ClaimInv, LoneInv, VcRecordTrue, WorkOnWatched
  <2>2. SweepInv => SweepsAccountedFor
    BY DEF SweepInv, SweepsAccountedFor
  <2>3. RemovalInv => SuccessMeansClean
    BY DEF RemovalInv
  <2>4. StageInv => StagedIsPackage
    BY DEF StageInv, OneJobInv, RunInv, StagedIsPackage
  <2>. QED
    BY <2>1, <2>2, <2>3, <2>4
<1>. QED
  BY <1>1, <1>2, <1>3, PTL DEF Spec
=============================================================================
