--------------------------- MODULE EndpointRecord ---------------------------
(***************************************************************************)
(* What the record of one endpoint says of the agent on its host, and who  *)
(* writes it: the checks of the monitor, of the full synchronisation and   *)
(* of operators (connectivity.checkAndUpdate), what a synchronisation adds *)
(* (syncOneEndpoint), the end of a removal (deploymentService), the edits  *)
(* and the deletion (api/routes/vms.js).                                   *)
(*                                                                         *)
(* A check writes what it found into whatever the record has become, and   *)
(* checks of one kind that overlap share one probe (probeWithDedup).       *)
(***************************************************************************)
EXTENDS Fleet

CONSTANT Installed \* versions of the agent the host may run: of "old", "new"

ASSUME RecordAssumption == Installed \subseteq {"old", "new"} /\ Installed # {}

VARIABLES
  erHost,  \* the agent of the host: "none" or its version
  erRec,   \* the record
  erProbe, \* kind -> the probe in inFlight: the record it began with
  erCheck, \* caller -> its check
  erEdits  \* changes by people so far

erVars == <<erHost, erRec, erProbe, erCheck, erEdits>>

Checkers == {"monitor", "sync", "request"}
Kinds == {"lite", "full"}
NoProbe == {}
Unchecked == [at |-> "idle"]

ErTypeOK ==
  /\ erHost \in Installed \union {"none"}
  /\ erRec \in [exists : BOOLEAN, agent : {"active", "removed"}, excluded : BOOLEAN,
                version : {"unknown", "removed", "old", "new", "True"},
                status : {"online", "offline", "excluded"}]
  /\ \A k \in Kinds : Cardinality(erProbe[k]) <= 1
  /\ \A c \in Checkers : erCheck[c].at \in {"idle", "waiting", "answered", "online"}
  /\ erEdits \in 0..MaxEdits

(* An endpoint that was added or imported: nothing is known of its version.  *)
ErInit ==
  /\ erHost = CHOOSE v \in Installed : v = "new" \/ "new" \notin Installed
  /\ erRec = [exists |-> TRUE, agent |-> "active", excluded |-> FALSE,
              version |-> "unknown", status |-> "offline"]
  /\ erProbe = [k \in Kinds |-> NoProbe]
  /\ erCheck = [c \in Checkers |-> Unchecked]
  /\ erEdits = 0

-----------------------------------------------------------------------------
isAgentRemoved(rec) == rec.agent = "removed" \/ rec.version = "removed"
Monitorable == erRec.exists /\ ~erRec.excluded /\ ~isAgentRemoved(erRec)
Writes(changed) == erRec' = IF erRec.exists THEN changed ELSE erRec

ProbeKeyIdOnly(k) == "lite" \* mutant: the key is the endpoint alone

ProbeKey(k) == k

(* A check reads the record and asks for a probe: one in flight is shared.   *)
ErChecks(c, kind) ==
  /\ erCheck[c].at = "idle" /\ erRec.exists
  /\ CASE c = "monitor" -> kind = "lite" /\ Monitorable
       [] c = "sync" -> kind = "full" /\ ~erRec.excluded
       [] OTHER -> TRUE
  /\ LET key == ProbeKey(kind)
     IN /\ erProbe' = [erProbe EXCEPT ![key] = IF @ = NoProbe THEN {[of |-> kind, rec |-> erRec]}
                                               ELSE @]
        /\ erCheck' = [erCheck EXCEPT ![c] = [at |-> "waiting", key |-> key,
                                              excluded |-> erRec.excluded]]
  /\ UNCHANGED <<erHost, erRec, erEdits>>

(* What a probe finds.  A light one repeats the record it began with; the    *)
(* script of a full one reads the host, though not always a version, and     *)
(* when it fails the record is repeated too.                                 *)
Repeated(rec) == [online |-> TRUE, agent |-> rec.agent,
                  version |-> IF rec.agent = "removed" THEN "removed" ELSE rec.version]
ReadFromHost(version) ==
  [online |-> TRUE, agent |-> IF erHost = "none" THEN "removed" ELSE "active",
   version |-> IF erHost = "none" THEN "removed" ELSE version]
Found(probe) ==
  {[online |-> FALSE], Repeated(probe.rec)}
    \union (IF probe.of = "full" THEN {ReadFromHost(erHost), ReadFromHost("unknown")} ELSE {})

ErProbeAnswers(key, found) ==
  /\ erProbe[key] # NoProbe
  /\ \E probe \in erProbe[key] : found \in Found(probe)
  /\ erProbe' = [erProbe EXCEPT ![key] = NoProbe]
  /\ erCheck' = [c \in Checkers |->
       IF erCheck[c].at = "waiting" /\ erCheck[c].key = key
       THEN [at |-> "answered", found |-> found, excluded |-> erCheck[c].excluded]
       ELSE erCheck[c]]
  /\ UNCHANGED <<erHost, erRec, erEdits>>

(* checkAndUpdate: a probe that failed leaves what is known of the agent.    *)
ErWrites(c) ==
  /\ erCheck[c].at = "answered"
  /\ LET found == erCheck[c].found
         status == IF erCheck[c].excluded THEN "excluded"
                   ELSE IF found.online THEN "online" ELSE "offline"
     IN /\ IF found.online
           THEN Writes([erRec EXCEPT !.status = status, !.agent = found.agent,
                                     !.version = found.version])
           ELSE Writes([erRec EXCEPT !.status = status])
        /\ erCheck' = [erCheck EXCEPT ![c] =
             IF c = "sync" /\ found.online /\ erRec.exists THEN [at |-> "online"] ELSE Unchecked]
  /\ UNCHANGED <<erHost, erProbe, erEdits>>

(* syncOneEndpoint then lists the programs.  The script prints the value of  *)
(* (DisplayVersion -or ""), which is a truth value: its text, not a version, *)
(* is what the agent that is listed brings into the record.                  *)
DisplayVersion == "True"
ErSyncAdds ==
  /\ erCheck["sync"].at = "online"
  /\ erCheck' = [erCheck EXCEPT !["sync"] = Unchecked]
  /\ \/ erHost # "none" /\ Writes([erRec EXCEPT !.agent = "active", !.version = DisplayVersion])
     \/ UNCHANGED erRec
  /\ UNCHANGED <<erHost, erProbe, erEdits>>

-----------------------------------------------------------------------------
(* What people do: agents are installed by hand or removed by a job, which   *)
(* writes the record when it ends; records are excluded, included, deleted.  *)
Edited == erEdits < MaxEdits /\ erEdits' = erEdits + 1

ErHostInstalls ==
  /\ Edited /\ erHost' \in Installed \ {erHost}
  /\ UNCHANGED <<erRec, erProbe, erCheck>>

ErJobRemoves ==
  /\ Edited /\ erHost' = "none"
  /\ Writes([erRec EXCEPT !.agent = "removed", !.version = "removed"])
  /\ UNCHANGED <<erProbe, erCheck>>

ErBulkExclude ==
  /\ Edited
  /\ Writes([erRec EXCEPT !.excluded = TRUE, !.status = "excluded"])
  /\ UNCHANGED <<erHost, erProbe, erCheck>>

ErIncludes == \* PUT with excluded: false
  /\ Edited /\ ~isAgentRemoved(erRec)
  /\ Writes([erRec EXCEPT !.excluded = FALSE,
                          !.status = IF @ = "excluded" THEN "offline" ELSE @])
  /\ UNCHANGED <<erHost, erProbe, erCheck>>

ErDeletes ==
  /\ Edited /\ ~isAgentRemoved(erRec)
  /\ erRec' = [erRec EXCEPT !.exists = FALSE]
  /\ UNCHANGED <<erHost, erProbe, erCheck>>

ErAnswersFromHost == \E key \in Kinds : \E probe \in erProbe[key] :
  probe.of = "full" /\ \E v \in {erHost, "unknown"} : ErProbeAnswers(key, ReadFromHost(v))
ErAnswers(key) ==
  \E probe \in erProbe[key] : \E found \in Found(probe) : ErProbeAnswers(key, found)
ErCheckStep(c) == ErWrites(c) \/ (c = "sync" /\ ErSyncAdds)

ErNext ==
  \/ \E c \in Checkers, kind \in Kinds : ErChecks(c, kind)
  \/ \E key \in Kinds : ErAnswers(key)
  \/ \E c \in Checkers : ErCheckStep(c)
  \/ ErHostInstalls \/ ErJobRemoves \/ ErBulkExclude \/ ErIncludes \/ ErDeletes

ErSpec == ErInit /\ [][ErNext]_erVars

-----------------------------------------------------------------------------
(* However checks, removals and edits overlap, and though a stale write may  *)
(* undo it, the record of an endpoint that is not excluded says again and    *)
(* again what the last look at its host says: the synchronisations see to it *)
(* (agentProbe.probeWithDedup, connectivity.checkAndUpdate).                 *)
RecordComesBack ==
  []<>(\/ ~erRec.exists \/ erRec.excluded
       \/ (erHost = "none") = isAgentRemoved(erRec))

(* JobsPage.jsx:177: "Only uninstall versions below threshold".  The filter  *)
(* of resolveUninstallEndpointIds takes versions that compare below and      *)
(* those that are unknown.                                                   *)
isBelowVersion(version) == version \in {"old", "True"}
FilterSparesNewer ==
  erRec.exists /\ isBelowVersion(erRec.version) /\ erEdits = 0 => erHost # "new"
=============================================================================
