---------------------------- MODULE MonitorImport ----------------------------
(***************************************************************************)
(* Imports of host lists (services/import.js, saveVms), new and renamed    *)
(* endpoints (POST and PUT /api/vms, routes/vms.js) and the connectivity   *)
(* monitor (services/monitor.js) that an import pauses.  The collection is *)
(* a table from ids to names, and nothing in the schema keeps a name       *)
(* unique (models/VM.js:5): each writer looks a name up before it gives it.*)
(*                                                                         *)
(* A file is parsed to a set of names before anything is awaited; a place  *)
(* names the database call that is awaited there.                          *)
(***************************************************************************)
EXTENDS Fleet

CONSTANTS
  HostNames,  \* names in the files, the requests and the database
  NoName,     \* what the table holds where there is no record
  RecordIds,  \* bound: ids the database can give out
  Importers,  \* requests: imports
  Operators   \* requests: POST and PUT of one endpoint

ASSUME ImportAssumption == NoName \notin HostNames

VARIABLES
  impVms,     \* id -> name of the record
  impPlace,   \* where each import is
  impFile,    \* names it has not dealt with yet
  impKnown,   \* names that existed when it read them
  impFound,   \* ids it found and will delete
  impReq,     \* what each POST or PUT awaits
  impContested, \* history: names that two writers were about to give together
  impOverlap, \* whether an import under way began while another was
  impFaults,
  monRunning, \* monitor.running
  monPaused,  \* monitor.paused
  monLeft,    \* records whose check the cycle still waits for
  monListing  \* whether the cycle waits for its list

impOwn == <<impPlace, impFile, impKnown, impFound>>
monVars == <<monRunning, monPaused, monLeft, monListing>>
impVars == <<impVms, impOwn, impReq, impContested, impOverlap, impFaults, monVars>>

ImpBusy == {i \in Importers : impPlace[i] # "idle"}
ImpRecords == {id \in RecordIds : impVms[id] # NoName}
ImpNamed(n) == {id \in RecordIds : impVms[id] = n}
ImpNames == {n \in HostNames : ImpNamed(n) # {}}

ImportInit ==
  /\ impVms = [id \in RecordIds |-> NoName]
  /\ impPlace = [i \in Importers |-> "idle"]
  /\ impFile = [i \in Importers |-> {}]
  /\ impKnown = [i \in Importers |-> {}]
  /\ impFound = [i \in Importers |-> {}]
  /\ impReq = [q \in Operators |-> [at |-> "idle"]]
  /\ impContested = {} /\ impOverlap = FALSE /\ impFaults = 0
  /\ monRunning = FALSE /\ monPaused = FALSE /\ monLeft = {} /\ monListing = FALSE

-----------------------------------------------------------------------------
(* The writers that have looked a name up and are about to give it.          *)
ImportGives(i, n) == impPlace[i] \in {"deleting", "saving"} /\ n \in impFile[i] \ impKnown[i]
RequestGives(q, n) == impReq[q].at \in {"creating", "saving"} /\ impReq[q].name = n
Giving(n) == {i \in Importers : ImportGives(i, n)} \cup {q \in Operators : RequestGives(q, n)}

(* A writer whose look-up ends joins those that are about to give the names. *)
AboutToGive(names) ==
  impContested' = impContested \cup {n \in names : Giving(n) # {}}

(* An id that no record has and no request remembers: ids never come again.  *)
RenameAt == {"found", "saving"}
ImpUsed == ImpRecords \cup UNION {impFound[i] : i \in Importers}
             \cup {impReq[q].id : q \in {p \in Operators : impReq[p].at \in RenameAt}}
FreeIds == RecordIds \ ImpUsed
InsertRecord(n) ==
  /\ FreeIds # {}
  /\ impVms' = [impVms EXCEPT ![CHOOSE id \in FreeIds : TRUE] = n]

-----------------------------------------------------------------------------
(* saveVms pauses the monitor and reads what there is: the records to delete *)
(* when it replaces them, the names to update when it does not.              *)
ImportStart(i, file, replace) ==
  /\ impPlace[i] = "idle"
  /\ impPlace' = [impPlace EXCEPT ![i] = IF replace THEN "finding" ELSE "reading"]
  /\ impFile' = [impFile EXCEPT ![i] = file]
  /\ monPaused' = TRUE
  /\ impOverlap' = (ImpBusy # {})
  /\ UNCHANGED <<impVms, impKnown, impFound, impReq, impContested, impFaults,
                 monRunning, monLeft, monListing>>

(* An import that replaces the records knows no name after it deleted them.  *)
ImportFinds(i) ==
  /\ impPlace[i] = "finding"
  /\ impPlace' = [impPlace EXCEPT ![i] = "deleting"]
  /\ impFound' = [impFound EXCEPT ![i] = ImpRecords]
  /\ AboutToGive(impFile[i])
  /\ UNCHANGED <<impVms, impFile, impKnown, impReq, impOverlap, impFaults, monVars>>

(* deleteVmsWithCleanup deletes the records found before, and only those.    *)
ImportDeletes(i) ==
  /\ impPlace[i] = "deleting"
  /\ impPlace' = [impPlace EXCEPT ![i] = "saving"]
  /\ impVms' = [id \in RecordIds |-> IF id \in impFound[i] THEN NoName ELSE impVms[id]]
  /\ impFound' = [impFound EXCEPT ![i] = {}]
  /\ UNCHANGED <<impFile, impKnown, impReq, impContested, impOverlap, impFaults, monVars>>

ImportReads(i) ==
  /\ impPlace[i] = "reading"
  /\ impPlace' = [impPlace EXCEPT ![i] = "saving"]
  /\ impKnown' = [impKnown EXCEPT ![i] = ImpNames]
  /\ AboutToGive(impFile[i] \ ImpNames)
  /\ UNCHANGED <<impVms, impFile, impFound, impReq, impOverlap, impFaults, monVars>>

(* A name the import knows is updated in place (findOneAndUpdate, no upsert),*)
(* one at a time; what the update writes is in EndpointRecord.               *)
ImportUpdates(i, n) ==
  /\ impPlace[i] = "saving" /\ n \in impFile[i] \cap impKnown[i]
  /\ impFile' = [impFile EXCEPT ![i] = @ \ {n}]
  /\ UNCHANGED <<impVms, impPlace, impKnown, impFound, impReq, impContested, impOverlap,
                 impFaults, monVars>>

ImportInsertsAny(i, n) == \* mutant: a name is inserted whether it is known or not
  /\ impPlace[i] = "saving" /\ n \in impFile[i]
  /\ InsertRecord(n)
  /\ impFile' = [impFile EXCEPT ![i] = @ \ {n}]
  /\ UNCHANGED <<impPlace, impKnown, impFound, impReq, impContested, impOverlap, impFaults, monVars>>

(* The other names are collected and inserted (insertMany, batches of 500);  *)
(* the server inserts the records of a batch one after another, and keeps    *)
(* those it inserted when the call fails.                                    *)
ImportInserts(i, n) ==
  /\ impPlace[i] = "saving" /\ n \in impFile[i] \ impKnown[i]
  /\ InsertRecord(n)
  /\ impFile' = [impFile EXCEPT ![i] = @ \ {n}]
  /\ UNCHANGED <<impPlace, impKnown, impFound, impReq, impContested, impOverlap, impFaults, monVars>>

ImportOver(i) ==
  /\ impPlace' = [impPlace EXCEPT ![i] = "idle"]
  /\ impFile' = [impFile EXCEPT ![i] = {}]
  /\ impKnown' = [impKnown EXCEPT ![i] = {}]
  /\ impFound' = [impFound EXCEPT ![i] = {}]
  /\ UNCHANGED <<impVms, impReq, impContested, impOverlap, monRunning, monLeft, monListing>>

(* The monitor is resumed after the activity log only, not in a finally. *)
ImportEndsUnguarded(i) ==
  /\ impPlace[i] # "idle"
  /\ \/ impPlace[i] = "saving" /\ impFile[i] = {} /\ monPaused' = FALSE /\ UNCHANGED impFaults
     \/ impFaults < MaxFaults /\ impFaults' = impFaults + 1 /\ UNCHANGED monPaused
  /\ ImportOver(i)

(* The end of the import, after its log entry, or after a call that failed   *)
(* at any of its places: the finally block resumes the monitor, whoever else *)
(* is importing.                                                             *)
ImportEnds(i) ==
  /\ impPlace[i] # "idle"
  /\ \/ impPlace[i] = "saving" /\ impFile[i] = {} /\ UNCHANGED impFaults
     \/ impFaults < MaxFaults /\ impFaults' = impFaults + 1
  /\ monPaused' = FALSE
  /\ ImportOver(i)

-----------------------------------------------------------------------------
(* POST /api/vms: VM.findOne finds nobody of that name, VM.create.           *)
CreateFindsNone(q, n) ==
  /\ impReq[q].at = "idle" /\ n \notin ImpNames
  /\ impReq' = [impReq EXCEPT ![q] = [at |-> "creating", name |-> n]]
  /\ AboutToGive({n})
  /\ UNCHANGED <<impVms, impOwn, impOverlap, impFaults, monVars>>

CreateInserts(q) ==
  /\ impReq[q].at = "creating"
  /\ InsertRecord(impReq[q].name)
  /\ impReq' = [impReq EXCEPT ![q] = [at |-> "idle"]]
  /\ UNCHANGED <<impOwn, impContested, impOverlap, impFaults, monVars>>

(* PUT /api/vms/:id that changes the name: the record is read, a look-up     *)
(* finds no other of the new name, the record is saved if it still exists.   *)
RenameReads(q, id, n) ==
  /\ impReq[q].at = "idle" /\ id \in ImpRecords /\ n # impVms[id]
  /\ impReq' = [impReq EXCEPT ![q] = [at |-> "found", id |-> id, name |-> n]]
  /\ UNCHANGED <<impVms, impOwn, impContested, impOverlap, impFaults, monVars>>

RenameFindsNone(q) ==
  /\ impReq[q].at = "found" /\ ImpNamed(impReq[q].name) \subseteq {impReq[q].id}
  /\ impReq' = [impReq EXCEPT ![q].at = "saving"]
  /\ AboutToGive({impReq[q].name})
  /\ UNCHANGED <<impVms, impOwn, impOverlap, impFaults, monVars>>

RenameSaves(q) ==
  /\ impReq[q].at = "saving"
  /\ impVms' = [impVms EXCEPT ![impReq[q].id] = IF @ = NoName THEN @ ELSE impReq[q].name]
  /\ impReq' = [impReq EXCEPT ![q] = [at |-> "idle"]]
  /\ UNCHANGED <<impOwn, impContested, impOverlap, impFaults, monVars>>

(* The name is taken, or a call fails: the request writes nothing.           *)
RequestRefused(q) ==
  /\ impReq[q].at # "idle"
  /\ impReq' = [impReq EXCEPT ![q] = [at |-> "idle"]]
  /\ UNCHANGED <<impVms, impOwn, impContested, impOverlap, impFaults, monVars>>

(* DELETE and bulk-delete. *)
ImportDelete(id) ==
  /\ id \in ImpRecords /\ impVms' = [impVms EXCEPT ![id] = NoName]
  /\ UNCHANGED <<impOwn, impReq, impContested, impOverlap, impFaults, monVars>>

-----------------------------------------------------------------------------
(* run(): the timer, POST /check-all and the start-up sweep call it. *)
MonitorRun ==
  /\ ~monRunning /\ ~monPaused
  /\ monRunning' = TRUE /\ monListing' = TRUE
  /\ UNCHANGED <<impVms, impOwn, impReq, impContested, impOverlap, impFaults, monPaused, monLeft>>

(* Only some are probed, the others backed off (shouldSkipProbe), unless the *)
(* sweep of start-up forces it; an empty list ends the cycle.                *)
MonitorLists ==
  /\ monListing /\ monListing' = FALSE
  /\ monLeft' \in SUBSET ImpRecords
  /\ monRunning' = (monLeft' # {})
  /\ UNCHANGED <<impVms, impOwn, impReq, impContested, impOverlap, impFaults, monPaused>>

(* A check ends, whether it succeeded or not; with the last one the cycle. *)
MonitorChecked(id) ==
  /\ id \in monLeft /\ monLeft' = monLeft \ {id}
  /\ monRunning' = (monLeft' # {})
  /\ UNCHANGED <<impVms, impOwn, impReq, impContested, impOverlap, impFaults, monPaused, monListing>>

(* VM.find rejects: the finally block ends the cycle, nobody catches. *)
MonitorListFails ==
  /\ monListing /\ monListing' = FALSE /\ monRunning' = FALSE
  /\ impFaults < MaxFaults /\ impFaults' = impFaults + 1
  /\ UNCHANGED <<impVms, impOwn, impReq, impContested, impOverlap, monPaused, monLeft>>

ImportStep(i) ==
  \/ ImportFinds(i) \/ ImportDeletes(i) \/ ImportReads(i)
  \/ \E n \in HostNames : ImportUpdates(i, n) \/ ImportInserts(i, n)
  \/ ImportEnds(i)
RequestStep(q) ==
  \/ \E n \in HostNames : CreateFindsNone(q, n) \/ \E id \in RecordIds : RenameReads(q, id, n)
  \/ CreateInserts(q) \/ RenameFindsNone(q) \/ RenameSaves(q) \/ RequestRefused(q)
MonitorStep == MonitorLists \/ \E id \in RecordIds : MonitorChecked(id)

ImportNext ==
  \/ \E i \in Importers :
       \/ \E file \in SUBSET HostNames, replace \in BOOLEAN : ImportStart(i, file, replace)
       \/ ImportStep(i)
  \/ \E q \in Operators : RequestStep(q)
  \/ \E id \in RecordIds : ImportDelete(id)
  \/ MonitorRun \/ MonitorStep \/ MonitorListFails

ImportSpec == ImportInit /\ [][ImportNext]_impVars

-----------------------------------------------------------------------------
ImpRequests ==
  [at : {"idle"}] \cup [at : {"creating"}, name : HostNames]
    \cup [at : RenameAt, id : RecordIds, name : HostNames]

ImportTypeOK ==
  /\ impVms \in [RecordIds -> HostNames \cup {NoName}]
  /\ impPlace \in [Importers -> {"idle", "finding", "deleting", "reading", "saving"}]
  /\ impFile \in [Importers -> SUBSET HostNames]
  /\ impKnown \in [Importers -> SUBSET HostNames]
  /\ impFound \in [Importers -> SUBSET RecordIds]
  /\ impReq \in [Operators -> ImpRequests]
  /\ impContested \subseteq HostNames /\ impFaults \in 0 .. MaxFaults
  /\ {impOverlap, monRunning, monPaused, monListing} \subseteq BOOLEAN
  /\ monLeft \subseteq RecordIds

(* "VM with this hostname already exists" (vms.js:155): no two records have  *)
(* one name, whatever imports, replacements, new and renamed endpoints,      *)
(* deletions and failures interleave, unless two writers had both looked     *)
(* that name up before either gave it: nothing holds in between.             *)
NamesUnique ==
  \A n \in HostNames \ impContested : Cardinality(ImpNamed(n)) <= 1

(* The monitor is paused for the sake of an import only, and throughout an   *)
(* import that no other one overlaps; a cycle is under way exactly while the *)
(* flag that keeps a second one out is set.                                  *)
PauseFollowsImports ==
  /\ monPaused => ImpBusy # {}
  /\ ImpBusy # {} /\ ~impOverlap => monPaused
  /\ monRunning <=> monListing \/ monLeft # {}

(* The monitor goes on for good once imports cease, however they ended. *)
MonitorComesBack == []<>(ImpBusy # {}) \/ []<>monListing
=============================================================================
