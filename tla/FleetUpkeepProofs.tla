------------------------- MODULE FleetUpkeepProofs -------------------------
(***************************************************************************)
(* What TLAPS checks of the work that keeps the fleet's records: imports   *)
(* beside the monitor, deletions, the activity log, the view of a          *)
(* synchronisation, the query hook of a page, and all of them side by side *)
(* as the run has them.  FullSyncProofs has the synchronisation itself.    *)
(***************************************************************************)
EXTENDS MCFleetUpkeep, FullSyncProofs, FiniteSetTheorems, TLAPS

-----------------------------------------------------------------------------
(* Imports, requests and the monitor: for every set of importers, operators, *)
(* names and ids.                                                            *)

Busy(i) == impPlace[i] # "idle"

(* The types of what imports and requests keep. *)
ImpPlaces == {"idle", "finding", "deleting", "reading", "saving"}
RecordTypes ==
  /\ impVms \in [RecordIds -> HostNames \cup {NoName}]
  /\ impReq \in [Operators -> ImpRequests]
  /\ impContested \subseteq HostNames
OwnTypes ==
  /\ impPlace \in [Importers -> ImpPlaces]
  /\ impFile \in [Importers -> SUBSET HostNames]
  /\ impKnown \in [Importers -> SUBSET HostNames]
  /\ impFound \in [Importers -> SUBSET RecordIds]
CheckTypes == monLeft \subseteq RecordIds
FaultTypes == impFaults \in 0 .. MaxFaults

(* Every step that inserts a record takes an id of the table.                *)
LEMMA RecordInserted ==
  ASSUME NEW n, InsertRecord(n)
  PROVE  \E new \in RecordIds : impVms' = [impVms EXCEPT ![new] = n]
BY DEF InsertRecord, FreeIds

LEMMA ContestedTyped ==
  ASSUME NEW names \in SUBSET HostNames, AboutToGive(names), impContested \subseteq HostNames
  PROVE  impContested' \subseteq HostNames
BY DEF AboutToGive

LEMMA ImportStepTypes ==
  ASSUME RecordTypes, OwnTypes, NEW i \in Importers, ImportStep(i)
  PROVE  RecordTypes' /\ OwnTypes'
<1>1. CASE ImportFinds(i)
  <2>1. impFile[i] \in SUBSET HostNames /\ ImpRecords \in SUBSET RecordIds
    BY DEF OwnTypes, ImpRecords
  <2>2. impContested' \subseteq HostNames
    BY <1>1, <2>1, ContestedTyped DEF ImportFinds, RecordTypes
  <2>. QED
    BY <1>1, <2>1, <2>2 DEF ImportFinds, RecordTypes, OwnTypes, ImpPlaces
<1>2. CASE ImportDeletes(i)
  BY <1>2 DEF ImportDeletes, RecordTypes, OwnTypes, ImpPlaces
<1>3. CASE ImportReads(i)
  <2>1. (impFile[i] \ ImpNames) \in SUBSET HostNames /\ ImpNames \in SUBSET HostNames
    BY DEF OwnTypes, ImpNames
  <2>2. impContested' \subseteq HostNames
    BY <1>3, <2>1, ContestedTyped DEF ImportReads, RecordTypes
  <2>. QED
    BY <1>3, <2>1, <2>2 DEF ImportReads, RecordTypes, OwnTypes, ImpPlaces
<1>4. ASSUME NEW n \in HostNames, ImportUpdates(i, n)
      PROVE  RecordTypes' /\ OwnTypes'
  BY <1>4 DEF ImportUpdates, RecordTypes, OwnTypes
<1>5. ASSUME NEW n \in HostNames, ImportInserts(i, n)
      PROVE  RecordTypes' /\ OwnTypes'
  <2>1. PICK new \in RecordIds : impVms' = [impVms EXCEPT ![new] = n]
    BY <1>5, RecordInserted DEF ImportInserts
  <2>. QED
    BY <1>5, <2>1 DEF ImportInserts, RecordTypes, OwnTypes
<1>6. CASE ImportEnds(i)
  BY <1>6 DEF ImportEnds, ImportOver, RecordTypes, OwnTypes, ImpPlaces
<1>. QED
  BY <1>1, <1>2, <1>3, <1>4, <1>5, <1>6 DEF ImportStep

LEMMA RequestStepTypes ==
  ASSUME RecordTypes, OwnTypes, NEW q \in Operators, RequestStep(q)
  PROVE  RecordTypes' /\ OwnTypes'
<1>0. OwnTypes'
  BY DEF RequestStep, CreateFindsNone, CreateInserts, RenameReads, RenameFindsNone, RenameSaves,
     RequestRefused, impOwn, OwnTypes
<1>1. ASSUME NEW n \in HostNames, CreateFindsNone(q, n)
      PROVE  RecordTypes'
  <2>1. impContested' \subseteq HostNames
    BY <1>1, ContestedTyped DEF CreateFindsNone, RecordTypes
  <2>2. [at |-> "creating", name |-> n] \in ImpRequests
    BY DEF ImpRequests
  <2>. QED
    BY <1>1, <2>1, <2>2 DEF CreateFindsNone, RecordTypes
<1>2. ASSUME NEW n \in HostNames, NEW id \in RecordIds, RenameReads(q, id, n)
      PROVE  RecordTypes'
  <2>1. [at |-> "found", id |-> id, name |-> n] \in ImpRequests
    BY DEF ImpRequests, RenameAt
  <2>. QED
    BY <1>2, <2>1 DEF RenameReads, RecordTypes
<1>3. [at |-> "idle"] \in ImpRequests
  BY DEF ImpRequests
<1>4. CASE CreateInserts(q)
  <2>1. impReq[q].name \in HostNames
    BY <1>4 DEF CreateInserts, RecordTypes, ImpRequests, RenameAt
  <2>2. PICK new \in RecordIds : impVms' = [impVms EXCEPT ![new] = impReq[q].name]
    BY <1>4, RecordInserted DEF CreateInserts
  <2>. QED
    BY <1>0, <1>3, <1>4, <2>1, <2>2 DEF CreateInserts, RecordTypes
<1>5. CASE RenameFindsNone(q)
  <2>1. impReq[q] \in [at : RenameAt, id : RecordIds, name : HostNames]
    BY <1>5 DEF RenameFindsNone, RecordTypes, ImpRequests
  <2>2. impReq'[q] \in [at : RenameAt, id : RecordIds, name : HostNames]
    BY <1>5, <2>1 DEF RenameFindsNone, RecordTypes, RenameAt
  <2>3. impReq' \in [Operators -> ImpRequests]
    BY <1>5, <2>2 DEF RenameFindsNone, RecordTypes, ImpRequests
  <2>4. {impReq[q].name} \in SUBSET HostNames
    BY <2>1
  <2>5. impContested' \subseteq HostNames
    BY <1>5, <2>4, ContestedTyped DEF RenameFindsNone, RecordTypes
  <2>. QED
    BY <1>0, <1>5, <2>3, <2>5 DEF RenameFindsNone, RecordTypes
<1>6. CASE RenameSaves(q)
  <2>1. impReq[q] \in [at : RenameAt, id : RecordIds, name : HostNames]
    BY <1>6 DEF RenameSaves, RecordTypes, ImpRequests
  <2>. QED
    BY <1>0, <1>3, <1>6, <2>1 DEF RenameSaves, RecordTypes
<1>7. CASE RequestRefused(q)
  BY <1>0, <1>3, <1>7 DEF RequestRefused, RecordTypes
<1>. QED
  BY <1>0, <1>1, <1>2, <1>4, <1>5, <1>6, <1>7 DEF RequestStep

LEMMA ImportTypesKept ==
  ASSUME RecordTypes, OwnTypes, [ImportNext]_impVars
  PROVE  RecordTypes' /\ OwnTypes'
<1>1. ASSUME NEW i \in Importers, NEW file \in SUBSET HostNames, NEW replace \in BOOLEAN,
             ImportStart(i, file, replace)
      PROVE  RecordTypes' /\ OwnTypes'
  BY <1>1 DEF ImportStart, RecordTypes, OwnTypes, ImpPlaces
<1>2. ASSUME NEW id \in RecordIds, ImportDelete(id)
      PROVE  RecordTypes' /\ OwnTypes'
  BY <1>2 DEF ImportDelete, RecordTypes, OwnTypes, impOwn
<1>3. CASE MonitorRun \/ MonitorStep \/ MonitorListFails \/ UNCHANGED impVars
  <2>1. UNCHANGED <<impVms, impReq, impContested, impPlace, impFile, impKnown, impFound>>
    BY <1>3 DEF MonitorRun, MonitorStep, MonitorLists, MonitorChecked, MonitorListFails, impVars,
       impOwn
  <2>. QED
    BY <2>1 DEF RecordTypes, OwnTypes
<1>. QED
  BY <1>1, <1>2, <1>3, ImportStepTypes, RequestStepTypes DEF ImportNext

LEMMA CheckTypesKept ==
  ASSUME CheckTypes, FaultTypes, [ImportNext]_impVars
  PROVE  CheckTypes' /\ FaultTypes'
<1>1. impFaults < MaxFaults /\ impFaults' = impFaults + 1 => FaultTypes'
  BY FleetAssumption DEF FaultTypes
<1>2. ASSUME NEW i \in Importers, ImportEnds(i)
      PROVE  CheckTypes' /\ FaultTypes'
  BY <1>1, <1>2 DEF ImportEnds, ImportOver, CheckTypes, FaultTypes
<1>3. CASE MonitorStep
  BY <1>3 DEF MonitorStep, MonitorLists, MonitorChecked, CheckTypes, FaultTypes, ImpRecords
<1>4. CASE MonitorListFails
  BY <1>1, <1>4 DEF MonitorListFails, CheckTypes
<1>5. ASSUME NEW i \in Importers,
             \/ \E file \in SUBSET HostNames, replace \in BOOLEAN : ImportStart(i, file, replace)
             \/ ImportFinds(i) \/ ImportDeletes(i) \/ ImportReads(i)
             \/ \E n \in HostNames : ImportUpdates(i, n) \/ ImportInserts(i, n)
      PROVE  UNCHANGED <<monLeft, impFaults>>
  BY <1>5 DEF ImportStart, ImportFinds, ImportDeletes, ImportReads, ImportUpdates, ImportInserts,
     monVars
<1>6. ASSUME \/ \E q \in Operators : RequestStep(q)
             \/ \E id \in RecordIds : ImportDelete(id)
             \/ MonitorRun
             \/ UNCHANGED impVars
      PROVE  UNCHANGED <<monLeft, impFaults>>
  BY <1>6 DEF RequestStep, CreateFindsNone, CreateInserts, RenameReads, RenameFindsNone,
     RenameSaves, RequestRefused, ImportDelete, MonitorRun, impVars, monVars
<1>7. UNCHANGED <<monLeft, impFaults>> => CheckTypes' /\ FaultTypes'
  BY DEF CheckTypes, FaultTypes
<1>. QED
  BY <1>2, <1>3, <1>4, <1>5, <1>6, <1>7 DEF ImportNext, ImportStep

(* The pause without the cardinality of the set of busy imports; of two      *)
(* imports that are busy together the later began in an overlap, so that the *)
(* one which resumes the monitor was either alone or has been counted.       *)
PauseInv ==
  /\ DOMAIN impPlace = Importers
  /\ impOverlap \in BOOLEAN /\ monPaused \in BOOLEAN
  /\ monPaused => \E i \in Importers : Busy(i)
  /\ ~impOverlap => \A i, j \in Importers : Busy(i) /\ Busy(j) => i = j
  /\ ~impOverlap => \A i \in Importers : Busy(i) => monPaused

(* The list and the checks of a cycle are never awaited together. *)
CycleInv ==
  /\ monRunning \in BOOLEAN /\ monListing \in BOOLEAN
  /\ monRunning <=> monListing \/ monLeft # {}
  /\ monListing => monLeft = {}

(* No step lets an import end without its resuming the monitor, and none     *)
(* starts one without pausing it (import.js:51, 105).                         *)
LEMMA PauseKept ==
  ASSUME PauseInv, [ImportNext]_impVars
  PROVE  PauseInv'
<1>. DEFINE Quiet == /\ DOMAIN impPlace' = Importers
                     /\ \A i \in Importers : impPlace'[i] = "idle" <=> impPlace[i] = "idle"
                     /\ monPaused' = monPaused
                     /\ impOverlap' = impOverlap
<1>1. Quiet => PauseInv'
  BY DEF PauseInv, Busy
<1>2. ASSUME NEW i \in Importers, NEW file, NEW replace \in BOOLEAN, ImportStart(i, file, replace)
      PROVE  PauseInv'
  <2>1. /\ DOMAIN impPlace' = Importers
        /\ impPlace'[i] # "idle"
        /\ \A j \in Importers \ {i} : impPlace'[j] = impPlace[j]
    BY <1>2 DEF ImportStart, PauseInv
  <2>2. monPaused' = TRUE /\ impOverlap' = (ImpBusy # {})
    BY <1>2 DEF ImportStart
  <2>3. ~impOverlap' => \A j \in Importers : ~Busy(j)
    BY <2>2 DEF ImpBusy, Busy
  <2>4. impOverlap' \in BOOLEAN
    BY <2>2
  <2>. QED
    BY <2>1, <2>2, <2>3, <2>4 DEF PauseInv, Busy
<1>3. ASSUME NEW i \in Importers, ImportFinds(i) \/ ImportDeletes(i) \/ ImportReads(i)
      PROVE  Quiet
  BY <1>3 DEF ImportFinds, ImportDeletes, ImportReads, PauseInv, monVars
<1>4. ASSUME NEW i \in Importers, ImportEnds(i)
      PROVE  PauseInv'
  <2>1. /\ DOMAIN impPlace' = Importers /\ Busy(i)
        /\ impPlace'[i] = "idle"
        /\ \A j \in Importers \ {i} : impPlace'[j] = impPlace[j]
        /\ monPaused' = FALSE /\ impOverlap' = impOverlap
    BY <1>4 DEF ImportEnds, ImportOver, PauseInv, Busy
  <2>2. ~impOverlap => \A j \in Importers : ~Busy(j)'
    BY <2>1 DEF PauseInv, Busy
  <2>. QED
    BY <2>1, <2>2 DEF PauseInv, Busy
<1>5. ASSUME NEW i \in Importers, NEW n \in HostNames, ImportUpdates(i, n) \/ ImportInserts(i, n)
      PROVE  Quiet
  BY <1>5 DEF ImportUpdates, ImportInserts, PauseInv, monVars
<1>6. ASSUME \/ \E q \in Operators : RequestStep(q)
             \/ \E id \in RecordIds : ImportDelete(id)
             \/ MonitorRun \/ MonitorStep \/ MonitorListFails
             \/ UNCHANGED impVars
      PROVE  Quiet
  <2>1. UNCHANGED <<impPlace, monPaused, impOverlap>>
    BY <1>6 DEF RequestStep, CreateFindsNone, CreateInserts, RenameReads, RenameFindsNone,
       RenameSaves, RequestRefused, ImportDelete, MonitorRun, MonitorStep, MonitorLists,
       MonitorChecked, MonitorListFails, impVars, impOwn, monVars
  <2>. QED
    BY <2>1 DEF PauseInv
<1>. QED
  BY <1>1, <1>2, <1>3, <1>4, <1>5, <1>6 DEF ImportNext, ImportStep

(* A cycle is entered by the flag and left with it. *)
LEMMA CycleKept ==
  ASSUME CycleInv, [ImportNext]_impVars
  PROVE  CycleInv'
<1>1. CASE MonitorRun
  BY <1>1 DEF MonitorRun, CycleInv
<1>2. CASE MonitorStep
  <2>1. monRunning' = (monLeft' # {}) /\ ~monListing'
    BY <1>2 DEF MonitorStep, MonitorLists, MonitorChecked, CycleInv
  <2>2. monRunning' \in BOOLEAN /\ monListing' \in BOOLEAN
    BY <1>2, <2>1 DEF MonitorStep, MonitorLists, MonitorChecked, CycleInv
  <2>. QED
    BY <2>1, <2>2 DEF CycleInv
<1>3. CASE MonitorListFails
  BY <1>3 DEF MonitorListFails, CycleInv
<1>4. CASE UNCHANGED <<monRunning, monLeft, monListing>>
  BY <1>4 DEF CycleInv
<1>5. ASSUME NEW i \in Importers,
             (\E file \in SUBSET HostNames, replace \in BOOLEAN : ImportStart(i, file, replace))
               \/ ImportStep(i)
      PROVE  UNCHANGED <<monRunning, monLeft, monListing>>
  BY <1>5 DEF ImportStart, ImportStep, ImportFinds, ImportDeletes, ImportReads, ImportUpdates,
     ImportInserts, ImportEnds, ImportOver, monVars
<1>6. ASSUME \/ \E q \in Operators : RequestStep(q)
             \/ \E id \in RecordIds : ImportDelete(id)
             \/ UNCHANGED impVars
      PROVE  UNCHANGED <<monRunning, monLeft, monListing>>
  BY <1>6 DEF RequestStep, CreateFindsNone, CreateInserts, RenameReads, RenameFindsNone,
     RenameSaves, RequestRefused, ImportDelete, impVars, monVars
<1>. QED
  BY <1>1, <1>2, <1>3, <1>4, <1>5, <1>6 DEF ImportNext

(* The monitor is paused only while an import is busy, throughout an import  *)
(* that overlaps no other, and runs one cycle at a time (import.js:51-105,   *)
(* monitor.js:69-116), whatever calls fail.                                  *)
THEOREM PauseFollowsImportsHolds == ImportSpec => []PauseFollowsImports
<1>1. ImportInit => PauseInv /\ CycleInv
  BY DEF ImportInit, PauseInv, CycleInv, Busy
<1>2. PauseInv /\ CycleInv /\ [ImportNext]_impVars => PauseInv' /\ CycleInv'
  BY PauseKept, CycleKept
<1>3. PauseInv /\ CycleInv => PauseFollowsImports
  BY DEF PauseInv, CycleInv, PauseFollowsImports, ImpBusy, Busy
<1>. QED
  BY <1>1, <1>2, <1>3, PTL DEF ImportSpec

(* Imports, requests and the monitor keep the types of what they store, and  *)
(* a cycle only checks records of the inventory (import.js, vms.js,          *)
(* monitor.js).                                                              *)
THEOREM ImportTypesHold == ImportSpec => []ImportTypeOK
<1>. DEFINE Types == RecordTypes /\ OwnTypes /\ CheckTypes /\ FaultTypes
<1>1. ImportInit => PauseInv /\ CycleInv
  BY DEF ImportInit, PauseInv, CycleInv, Busy
<1>2. ImportInit => Types
  BY FleetAssumption DEF ImportInit, RecordTypes, OwnTypes, CheckTypes, FaultTypes, ImpPlaces,
     ImpRequests
<1>3. PauseInv /\ CycleInv /\ Types /\ [ImportNext]_impVars => PauseInv' /\ CycleInv' /\ Types'
  BY PauseKept, CycleKept, ImportTypesKept, CheckTypesKept
<1>4. PauseInv /\ CycleInv /\ Types => ImportTypeOK
  BY DEF PauseInv, CycleInv, RecordTypes, OwnTypes, CheckTypes, FaultTypes, ImpPlaces, ImportTypeOK
<1>. QED
  BY <1>1, <1>2, <1>3, <1>4, PTL DEF ImportSpec

(* A name that is not contested: one record has it, one writer at most is    *)
(* about to give it, and no record but those which that writer will delete   *)
(* or rename has it meanwhile.                                               *)
Fresh(i) == impFile[i] \ impKnown[i]
OneRecord(n) == \A a, b \in RecordIds : impVms[a] = n /\ impVms[b] = n => a = b
OneWriter(n) ==
  /\ \A i, j \in Importers : ImportGives(i, n) /\ ImportGives(j, n) => i = j
  /\ \A p, q \in Operators : RequestGives(p, n) /\ RequestGives(q, n) => p = q
  /\ \A i \in Importers, q \in Operators : ~(ImportGives(i, n) /\ RequestGives(q, n))
NoOthers(n) ==
  /\ \A i \in Importers : ImportGives(i, n) =>
       \A id \in RecordIds : impVms[id] = n => impPlace[i] = "deleting" /\ id \in impFound[i]
  /\ \A q \in Operators : RequestGives(q, n) =>
       \A id \in RecordIds : impVms[id] = n => impReq[q].at = "saving" /\ id = impReq[q].id
NameInv(n) == n \notin impContested => OneRecord(n) /\ OneWriter(n) /\ NoOthers(n)
NamesInv == \A n \in HostNames : NameInv(n)

(* A step that gives the name to no record and begins to give it for nobody. *)
SameImport(i) == impPlace'[i] = impPlace[i] /\ impFound'[i] = impFound[i]
Calm(n) ==
  /\ impContested \subseteq impContested'
  /\ \A id \in RecordIds : impVms'[id] = n => impVms[id] = n
  /\ \A i \in Importers : ImportGives(i, n)' => ImportGives(i, n) /\ SameImport(i)
  /\ \A q \in Operators : RequestGives(q, n)' => RequestGives(q, n) /\ impReq'[q] = impReq[q]

LEMMA CalmKeeps ==
  ASSUME NEW n \in HostNames, NameInv(n), Calm(n)
  PROVE  NameInv(n)'
<1>. SUFFICES ASSUME n \notin impContested'
              PROVE  (OneRecord(n) /\ OneWriter(n) /\ NoOthers(n))'
  BY DEF NameInv
<1>1. OneRecord(n) /\ OneWriter(n) /\ NoOthers(n)
  BY DEF NameInv, Calm
<1>. DEFINE G(i) == ImportGives(i, n)
            R(q) == RequestGives(q, n)
<1>2. /\ \A i \in Importers : G(i)' => G(i) /\ SameImport(i)
      /\ \A q \in Operators : R(q)' => R(q) /\ impReq'[q] = impReq[q]
      /\ \A id \in RecordIds : impVms'[id] = n => impVms[id] = n
  BY DEF Calm
<1>3. OneRecord(n)'
  BY <1>1, <1>2 DEF OneRecord
<1>4. OneWriter(n)'
  <2>1. /\ \A i, j \in Importers : G(i) /\ G(j) => i = j
        /\ \A p, q \in Operators : R(p) /\ R(q) => p = q
        /\ \A i \in Importers, q \in Operators : ~(G(i) /\ R(q))
    BY <1>1 DEF OneWriter
  <2>2. /\ \A i, j \in Importers : G(i)' /\ G(j)' => i = j
        /\ \A p, q \in Operators : R(p)' /\ R(q)' => p = q
        /\ \A i \in Importers, q \in Operators : ~(G(i)' /\ R(q)')
    BY <1>2, <2>1
  <2>. QED
    BY <2>2 DEF OneWriter
<1>5. NoOthers(n)'
  <2>1. /\ \A i \in Importers : G(i) =>
             \A id \in RecordIds : impVms[id] = n => impPlace[i] = "deleting" /\ id \in impFound[i]
        /\ \A q \in Operators : R(q) =>
             \A id \in RecordIds : impVms[id] = n => impReq[q].at = "saving" /\ id = impReq[q].id
    BY <1>1 DEF NoOthers
  <2>2. /\ \A i \in Importers : G(i)' =>
             \A id \in RecordIds : impVms'[id] = n => impPlace'[i] = "deleting" /\ id \in impFound'[i]
        /\ \A q \in Operators : R(q)' =>
             \A id \in RecordIds : impVms'[id] = n => impReq'[q].at = "saving" /\ id = impReq'[q].id
    BY <1>2, <2>1 DEF SameImport
  <2>. QED
    BY <2>2 DEF NoOthers
<1>. QED
  BY <1>3, <1>4, <1>5

(* A look-up ends: the writer becomes the only one to give the name, since   *)
(* the name is contested otherwise.                                          *)
LEMMA OthersAreSilent ==
  ASSUME NEW names, AboutToGive(names), NEW n \in names, n \in HostNames, n \notin impContested'
  PROVE  /\ \A i \in Importers : ~ImportGives(i, n)
         /\ \A q \in Operators : ~RequestGives(q, n)
         /\ n \notin impContested
BY DEF AboutToGive, Giving

LEMMA ImportFindsNames ==
  ASSUME RecordTypes, OwnTypes, NEW n \in HostNames, NameInv(n), NEW i \in Importers, ImportFinds(i)
  PROVE  NameInv(n)'
<1>1. /\ impPlace' = [impPlace EXCEPT ![i] = "deleting"]
      /\ impFound' = [impFound EXCEPT ![i] = ImpRecords]
      /\ AboutToGive(impFile[i])
      /\ UNCHANGED <<impVms, impFile, impKnown, impReq>>
      /\ impContested \subseteq impContested'
  BY DEF ImportFinds, AboutToGive
<1>2. /\ impPlace'[i] = "deleting" /\ impFound'[i] = ImpRecords
      /\ \A j \in Importers \ {i} : SameImport(j)
  BY <1>1 DEF OwnTypes, SameImport
<1>3. CASE n \notin impFile[i] \ impKnown[i]
  <2>1. Calm(n)
    BY <1>1, <1>2, <1>3 DEF Calm, ImportGives, RequestGives, SameImport
  <2>. QED
    BY <2>1, CalmKeeps
<1>4. CASE n \in impFile[i]
  <2>. SUFFICES ASSUME n \notin impContested'
                PROVE  (OneRecord(n) /\ OneWriter(n) /\ NoOthers(n))'
    BY DEF NameInv
  <2>1. /\ \A j \in Importers : ~ImportGives(j, n)
        /\ \A q \in Operators : ~RequestGives(q, n)
        /\ n \notin impContested
    BY <1>1, <1>4, OthersAreSilent
  <2>2. /\ \A j \in Importers : ImportGives(j, n)' => j = i
        /\ \A q \in Operators : ~RequestGives(q, n)'
    BY <1>1, <1>2, <2>1 DEF ImportGives, RequestGives, SameImport
  <2>3. OneRecord(n)'
    BY <1>1, <2>1 DEF NameInv, OneRecord
  <2>4. \A id \in RecordIds : impVms'[id] = n => id \in impFound'[i]
    BY <1>1, <1>2, ImportAssumption DEF ImpRecords
  <2>. QED
    BY <1>2, <2>2, <2>3, <2>4 DEF OneWriter, NoOthers
<1>. QED
  BY <1>3, <1>4

LEMMA ImportDeletesNames ==
  ASSUME RecordTypes, OwnTypes, NEW n \in HostNames, NameInv(n), NEW i \in Importers,
         ImportDeletes(i)
  PROVE  NameInv(n)'
<1>1. /\ impPlace[i] = "deleting"
      /\ impPlace' = [impPlace EXCEPT ![i] = "saving"]
      /\ impVms' = [id \in RecordIds |-> IF id \in impFound[i] THEN NoName ELSE impVms[id]]
      /\ impFound' = [impFound EXCEPT ![i] = {}]
      /\ UNCHANGED <<impFile, impKnown, impReq, impContested>>
  BY DEF ImportDeletes
<1>2. /\ impPlace'[i] = "saving"
      /\ \A j \in Importers \ {i} : SameImport(j)
      /\ \A id \in RecordIds : impVms'[id] = n => impVms[id] = n /\ id \notin impFound[i]
  BY <1>1, ImportAssumption DEF OwnTypes, SameImport
<1>3. CASE n \notin Fresh(i)
  <2>1. Calm(n)
    BY <1>1, <1>2, <1>3 DEF Calm, ImportGives, RequestGives, SameImport, Fresh
  <2>. QED
    BY <2>1, CalmKeeps
<1>4. CASE n \in Fresh(i)
  <2>. SUFFICES ASSUME n \notin impContested
                PROVE  (OneRecord(n) /\ OneWriter(n) /\ NoOthers(n))'
    BY <1>1 DEF NameInv
  <2>1. ImportGives(i, n) /\ OneRecord(n) /\ OneWriter(n) /\ NoOthers(n)
    BY <1>1, <1>4 DEF ImportGives, Fresh, NameInv
  <2>2. \A id \in RecordIds : impVms'[id] # n
    BY <1>2, <2>1 DEF NoOthers
  <2>3. /\ \A j \in Importers : ImportGives(j, n)' => ImportGives(j, n)
        /\ \A q \in Operators : RequestGives(q, n)' => RequestGives(q, n)
    BY <1>1, <1>2, <2>1 DEF ImportGives, RequestGives, SameImport
  <2>4. /\ \A j \in Importers : ImportGives(j, n)' => j = i
        /\ \A q \in Operators : ~RequestGives(q, n)'
    BY <2>1, <2>3 DEF OneWriter
  <2>. QED
    BY <2>2, <2>4 DEF OneRecord, OneWriter, NoOthers
<1>. QED
  BY <1>3, <1>4

LEMMA ImportReadsNames ==
  ASSUME RecordTypes, OwnTypes, NEW n \in HostNames, NameInv(n), NEW i \in Importers, ImportReads(i)
  PROVE  NameInv(n)'
<1>1. /\ impPlace' = [impPlace EXCEPT ![i] = "saving"]
      /\ impKnown' = [impKnown EXCEPT ![i] = ImpNames]
      /\ AboutToGive(impFile[i] \ ImpNames)
      /\ UNCHANGED <<impVms, impFile, impFound, impReq>>
      /\ impContested \subseteq impContested'
      /\ impPlace[i] = "reading"
  BY DEF ImportReads, AboutToGive
<1>2. /\ impPlace'[i] = "saving" /\ impKnown'[i] = ImpNames
      /\ \A j \in Importers \ {i} : SameImport(j) /\ impKnown'[j] = impKnown[j]
  BY <1>1 DEF OwnTypes, SameImport
<1>3. CASE n \notin impFile[i] \ ImpNames
  <2>1. Calm(n)
    BY <1>1, <1>2, <1>3 DEF Calm, ImportGives, RequestGives, SameImport
  <2>. QED
    BY <2>1, CalmKeeps
<1>4. CASE n \in impFile[i] \ ImpNames
  <2>. SUFFICES ASSUME n \notin impContested'
                PROVE  (OneRecord(n) /\ OneWriter(n) /\ NoOthers(n))'
    BY DEF NameInv
  <2>1. /\ \A j \in Importers : ~ImportGives(j, n)
        /\ \A q \in Operators : ~RequestGives(q, n)
    BY <1>1, <1>4, OthersAreSilent
  <2>2. /\ \A j \in Importers : ImportGives(j, n)' => j = i
        /\ \A q \in Operators : ~RequestGives(q, n)'
    BY <1>1, <1>2, <2>1 DEF ImportGives, RequestGives, SameImport
  <2>3. \A id \in RecordIds : impVms'[id] # n
    BY <1>1, <1>4 DEF ImpNames, ImpNamed
  <2>. QED
    BY <2>2, <2>3 DEF OneRecord, OneWriter, NoOthers
<1>. QED
  BY <1>3, <1>4

(* A record gets the name, from the only writer that was about to give it,   *)
(* and which no longer is; of another name there are only fewer.             *)
LEMMA NameGiven ==
  ASSUME NEW n \in HostNames, NameInv(n), UNCHANGED impContested,
         NEW new \in RecordIds, impVms' = [impVms EXCEPT ![new] = n],
         RecordTypes,
         n \notin impContested =>
           /\ \A id \in RecordIds : impVms[id] = n => id = new
           /\ \A i \in Importers : ~ImportGives(i, n)'
           /\ \A q \in Operators : ~RequestGives(q, n)'
  PROVE  NameInv(n)'
<1>1. \A id \in RecordIds : impVms'[id] = n => impVms[id] = n \/ id = new
  BY DEF RecordTypes
<1>. QED
  BY <1>1 DEF NameInv, OneRecord, OneWriter, NoOthers

LEMMA ImportInsertsNames ==
  ASSUME RecordTypes, OwnTypes, NEW n \in HostNames, NameInv(n), NEW i \in Importers,
         NEW m \in HostNames, ImportInserts(i, m)
  PROVE  NameInv(n)'
<1>1. PICK new \in RecordIds : impVms' = [impVms EXCEPT ![new] = m]
  BY RecordInserted DEF ImportInserts
<1>2. /\ impPlace[i] = "saving" /\ m \in Fresh(i)
      /\ impFile' = [impFile EXCEPT ![i] = @ \ {m}]
      /\ UNCHANGED <<impPlace, impKnown, impFound, impReq, impContested>>
  BY DEF ImportInserts, Fresh
<1>3. /\ impFile'[i] = impFile[i] \ {m}
      /\ \A j \in Importers \ {i} : impFile'[j] = impFile[j]
  BY <1>2 DEF OwnTypes
<1>4. CASE n # m
  <2>1. \A id \in RecordIds : impVms'[id] = n => impVms[id] = n
    BY <1>1, <1>4 DEF RecordTypes
  <2>2. Calm(n)
    BY <1>2, <1>3, <2>1 DEF Calm, ImportGives, RequestGives, SameImport
  <2>. QED
    BY <2>2, CalmKeeps
<1>5. CASE n = m
  <2>1. ASSUME n \notin impContested
        PROVE  /\ \A id \in RecordIds : impVms[id] # n
               /\ \A j \in Importers : ~ImportGives(j, n)'
               /\ \A q \in Operators : ~RequestGives(q, n)'
    <3>1. ImportGives(i, n) /\ OneWriter(n) /\ NoOthers(n)
      BY <1>2, <1>5, <2>1 DEF ImportGives, Fresh, NameInv
    <3>2. \A id \in RecordIds : impVms[id] # n
      BY <1>2, <3>1 DEF NoOthers
    <3>3. /\ \A j \in Importers : ImportGives(j, n)' => ImportGives(j, n) /\ j # i
          /\ \A q \in Operators : RequestGives(q, n)' => RequestGives(q, n)
      BY <1>2, <1>3, <1>5 DEF ImportGives, RequestGives
    <3>. QED
      BY <3>1, <3>2, <3>3 DEF OneWriter
  <2>. QED
    BY <1>1, <1>2, <1>5, <2>1, NameGiven
<1>. QED
  BY <1>4, <1>5

LEMMA RequestStepNames ==
  ASSUME RecordTypes, OwnTypes, NEW n \in HostNames, NameInv(n), NEW q \in Operators, RequestStep(q)
  PROVE  NameInv(n)'
<1>1. UNCHANGED <<impPlace, impFile, impKnown, impFound>>
  BY DEF RequestStep, CreateFindsNone, CreateInserts, RenameReads, RenameFindsNone, RenameSaves,
     RequestRefused, impOwn
<1>2. \A i \in Importers : (ImportGives(i, n)' <=> ImportGives(i, n)) /\ SameImport(i)
  BY <1>1 DEF ImportGives, SameImport
(* A request that begins to give a name. *)
<1>3. ASSUME NEW m \in HostNames, AboutToGive({m}), UNCHANGED impVms,
             impReq'[q].name = m, impReq'[q].at \in {"creating", "saving"},
             \A p \in Operators \ {q} : impReq'[p] = impReq[p],
             \A id \in RecordIds : impVms[id] = m => impReq'[q].at = "saving" /\ id = impReq'[q].id
      PROVE  NameInv(n)'
  <2>0. impContested \subseteq impContested'
    BY <1>3 DEF AboutToGive
  <2>1. CASE n # m
    <3>1. Calm(n)
      BY <1>2, <1>3, <2>0, <2>1 DEF Calm, RequestGives
    <3>. QED
      BY <3>1, CalmKeeps
  <2>2. CASE n = m
    <3>. SUFFICES ASSUME n \notin impContested'
                  PROVE  (OneRecord(n) /\ OneWriter(n) /\ NoOthers(n))'
      BY DEF NameInv
    <3>1. /\ \A i \in Importers : ~ImportGives(i, n)
          /\ \A p \in Operators : ~RequestGives(p, n)
          /\ n \notin impContested
      BY <1>3, <2>2, OthersAreSilent
    <3>2. /\ \A i \in Importers : ~ImportGives(i, n)'
          /\ \A p \in Operators : RequestGives(p, n)' => p = q
      BY <1>2, <1>3, <3>1 DEF RequestGives
    <3>3. OneRecord(n)'
      BY <1>3, <3>1 DEF NameInv, OneRecord
    <3>4. \A id \in RecordIds : impVms'[id] = n => impReq'[q].at = "saving" /\ id = impReq'[q].id
      BY <1>3, <2>2
    <3>. QED
      BY <3>2, <3>3, <3>4 DEF OneWriter, NoOthers
  <2>. QED
    BY <2>1, <2>2
(* A request that gives its name and is over. *)
<1>4. ASSUME RequestGives(q, impReq[q].name), impReq[q].name \in HostNames,
             impReq' = [impReq EXCEPT ![q] = [at |-> "idle"]],
             UNCHANGED impContested,
             NEW new \in RecordIds, impVms' = [impVms EXCEPT ![new] = impReq[q].name],
             impReq[q].at = "saving" => new = impReq[q].id
      PROVE  NameInv(n)'
  <2>1. impReq'[q].at = "idle" /\ \A p \in Operators \ {q} : impReq'[p] = impReq[p]
    BY <1>4 DEF RecordTypes
  <2>2. CASE n # impReq[q].name
    <3>1. \A id \in RecordIds : impVms'[id] = n => impVms[id] = n
      BY <1>4, <2>2 DEF RecordTypes
    <3>2. Calm(n)
      BY <1>2, <1>4, <2>1, <3>1 DEF Calm, RequestGives
    <3>. QED
      BY <3>2, CalmKeeps
  <2>3. CASE n = impReq[q].name
    <3>1. ASSUME n \notin impContested
          PROVE  /\ \A id \in RecordIds : impVms[id] = n => id = new
                 /\ \A i \in Importers : ~ImportGives(i, n)'
                 /\ \A p \in Operators : ~RequestGives(p, n)'
      <4>1. RequestGives(q, n) /\ OneWriter(n) /\ NoOthers(n)
        BY <1>4, <2>3, <3>1 DEF NameInv
      <4>2. \A id \in RecordIds : impVms[id] = n => id = new
        BY <1>4, <4>1 DEF NoOthers
      <4>3. \A p \in Operators : RequestGives(p, n)' => RequestGives(p, n) /\ p # q
        BY <2>1 DEF RequestGives
      <4>. QED
        BY <1>2, <4>1, <4>2, <4>3 DEF OneWriter
    <3>. QED
      BY <1>4, <2>3, <3>1, NameGiven
  <2>. QED
    BY <2>2, <2>3
(* A request that gives nothing. *)
<1>5. ASSUME UNCHANGED <<impVms, impContested>>, impReq'[q].at \in {"idle", "found"},
             \A p \in Operators \ {q} : impReq'[p] = impReq[p]
      PROVE  NameInv(n)'
  <2>1. Calm(n)
    BY <1>2, <1>5 DEF Calm, RequestGives
  <2>. QED
    BY <2>1, CalmKeeps
<1>6. ASSUME NEW m \in HostNames, CreateFindsNone(q, m)
      PROVE  NameInv(n)'
  <2>1. /\ impReq'[q] = [at |-> "creating", name |-> m]
        /\ \A p \in Operators \ {q} : impReq'[p] = impReq[p]
        /\ UNCHANGED impVms /\ AboutToGive({m})
    BY <1>6 DEF CreateFindsNone, RecordTypes
  <2>2. \A id \in RecordIds : impVms[id] # m
    BY <1>6 DEF CreateFindsNone, ImpNames, ImpNamed
  <2>. QED
    BY <1>3, <2>1, <2>2
<1>7. CASE RenameFindsNone(q)
  <2>1. impReq[q].name \in HostNames /\ impReq[q] \in [at : RenameAt, id : RecordIds, name : HostNames]
    BY <1>7 DEF RenameFindsNone, RecordTypes, ImpRequests
  <2>2. /\ impReq'[q].name = impReq[q].name /\ impReq'[q].id = impReq[q].id
        /\ impReq'[q].at = "saving"
        /\ \A p \in Operators \ {q} : impReq'[p] = impReq[p]
        /\ UNCHANGED impVms /\ AboutToGive({impReq[q].name})
    BY <1>7, <2>1 DEF RenameFindsNone, RecordTypes
  <2>3. \A id \in RecordIds : impVms[id] = impReq[q].name => id = impReq[q].id
    BY <1>7 DEF RenameFindsNone, ImpNamed
  <2>. QED
    BY <1>3, <2>1, <2>2, <2>3
<1>8. CASE CreateInserts(q)
  <2>1. impReq[q].name \in HostNames /\ impReq[q].at = "creating"
    BY <1>8 DEF CreateInserts, RecordTypes, ImpRequests, RenameAt
  <2>2. PICK new \in RecordIds : impVms' = [impVms EXCEPT ![new] = impReq[q].name]
    BY <1>8, RecordInserted DEF CreateInserts
  <2>. QED
    BY <1>4, <1>8, <2>1, <2>2 DEF CreateInserts, RequestGives
<1>9. CASE RenameSaves(q)
  <2>1. /\ impReq[q].name \in HostNames /\ impReq[q].id \in RecordIds /\ impReq[q].at = "saving"
        /\ impReq' = [impReq EXCEPT ![q] = [at |-> "idle"]] /\ UNCHANGED impContested
    BY <1>9 DEF RenameSaves, RecordTypes, ImpRequests
  <2>2. CASE impVms[impReq[q].id] = NoName
    <3>1. UNCHANGED impVms
      BY <1>9, <2>1, <2>2 DEF RenameSaves, RecordTypes
    <3>2. impReq'[q].at = "idle" /\ \A p \in Operators \ {q} : impReq'[p] = impReq[p]
      BY <2>1 DEF RecordTypes
    <3>. QED
      BY <1>5, <2>1, <3>1, <3>2
  <2>3. CASE impVms[impReq[q].id] # NoName
    <3>1. impVms' = [impVms EXCEPT ![impReq[q].id] = impReq[q].name]
      BY <1>9, <2>1, <2>3 DEF RenameSaves, RecordTypes
    <3>. QED
      BY <1>4, <2>1, <3>1 DEF RequestGives
  <2>. QED
    BY <2>2, <2>3
<1>10. ASSUME RequestRefused(q) \/ \E m \in HostNames, id \in RecordIds : RenameReads(q, id, m)
      PROVE  NameInv(n)'
  <2>1. /\ UNCHANGED <<impVms, impContested>> /\ impReq'[q].at \in {"idle", "found"}
        /\ \A p \in Operators \ {q} : impReq'[p] = impReq[p]
    BY <1>10 DEF RequestRefused, RenameReads, RecordTypes
  <2>. QED
    BY <1>5, <2>1
<1>. QED
  BY <1>6, <1>7, <1>8, <1>9, <1>10 DEF RequestStep

(* The other steps give no name and begin to give none.                      *)
LEMMA QuietStepNames ==
  ASSUME RecordTypes, OwnTypes, NEW n \in HostNames, NameInv(n),
         \/ \E i \in Importers :
              \/ \E file \in SUBSET HostNames, replace \in BOOLEAN : ImportStart(i, file, replace)
              \/ \E m \in HostNames : ImportUpdates(i, m)
              \/ ImportEnds(i)
         \/ \E id \in RecordIds : ImportDelete(id)
         \/ MonitorRun \/ MonitorStep \/ MonitorListFails
         \/ UNCHANGED impVars
  PROVE  NameInv(n)'
<1>1. ASSUME NEW i \in Importers,
             UNCHANGED <<impVms, impReq, impContested>>,
             \A j \in Importers \ {i} : /\ SameImport(j) /\ impFile'[j] = impFile[j]
                                        /\ impKnown'[j] = impKnown[j],
             \/ impPlace'[i] \in {"idle", "finding", "reading"}
             \/ SameImport(i) /\ impFile'[i] \subseteq impFile[i] /\ impKnown'[i] = impKnown[i]
      PROVE  NameInv(n)'
  <2>1. Calm(n)
    BY <1>1 DEF Calm, ImportGives, RequestGives, SameImport
  <2>. QED
    BY <2>1, CalmKeeps
<1>2. ASSUME NEW i \in Importers, NEW file \in SUBSET HostNames, NEW replace \in BOOLEAN,
             ImportStart(i, file, replace)
      PROVE  NameInv(n)'
  BY <1>1, <1>2 DEF ImportStart, OwnTypes, SameImport
<1>3. ASSUME NEW i \in Importers, NEW m \in HostNames, ImportUpdates(i, m)
      PROVE  NameInv(n)'
  BY <1>1, <1>3 DEF ImportUpdates, OwnTypes, SameImport
<1>4. ASSUME NEW i \in Importers, ImportEnds(i)
      PROVE  NameInv(n)'
  BY <1>1, <1>4 DEF ImportEnds, ImportOver, OwnTypes, SameImport
<1>5. ASSUME NEW id \in RecordIds, ImportDelete(id)
      PROVE  NameInv(n)'
  <2>1. \A a \in RecordIds : impVms'[a] = n => impVms[a] = n
    BY <1>5, ImportAssumption DEF ImportDelete, RecordTypes
  <2>2. Calm(n)
    BY <1>5, <2>1 DEF ImportDelete, impOwn, Calm, ImportGives, RequestGives, SameImport
  <2>. QED
    BY <2>2, CalmKeeps
<1>6. CASE MonitorRun \/ MonitorStep \/ MonitorListFails \/ UNCHANGED impVars
  <2>1. UNCHANGED <<impVms, impReq, impContested, impPlace, impFile, impKnown, impFound>>
    BY <1>6 DEF MonitorRun, MonitorStep, MonitorLists, MonitorChecked, MonitorListFails, impVars,
       impOwn
  <2>2. Calm(n)
    BY <2>1 DEF Calm, ImportGives, RequestGives, SameImport
  <2>. QED
    BY <2>2, CalmKeeps
<1>. QED
  BY <1>2, <1>3, <1>4, <1>5, <1>6

LEMMA NamesKept ==
  ASSUME RecordTypes, OwnTypes, NamesInv, [ImportNext]_impVars
  PROVE  NamesInv'
<1>. SUFFICES ASSUME NEW n \in HostNames PROVE NameInv(n)'
  BY DEF NamesInv
<1>. NameInv(n)
  BY DEF NamesInv
<1>. QED
  BY ImportFindsNames, ImportDeletesNames, ImportReadsNames, ImportInsertsNames, RequestStepNames,
     QuietStepNames DEF ImportNext, ImportStep

(* No two records have one name, whatever imports, replacements, new and     *)
(* renamed endpoints, deletions and failures interleave, unless two writers  *)
(* had both looked the name up before either gave it (import.js:46-105,      *)
(* vms.js:152-160, 196-232).                                                 *)
THEOREM NamesUniqueHolds == ImportSpec => []NamesUnique
<1>1. ImportInit => RecordTypes /\ OwnTypes /\ NamesInv
  <2> SUFFICES ASSUME ImportInit PROVE RecordTypes /\ OwnTypes /\ NamesInv
    OBVIOUS
  <2>1. RecordTypes /\ OwnTypes
    BY DEF ImportInit, RecordTypes, OwnTypes, ImpPlaces, ImpRequests
  <2>2. /\ \A id \in RecordIds : impVms[id] \notin HostNames
        /\ \A n \in HostNames, i \in Importers : ~ImportGives(i, n)
        /\ \A n \in HostNames, q \in Operators : ~RequestGives(q, n)
    BY ImportAssumption DEF ImportInit, ImportGives, RequestGives
  <2>3. NamesInv
    BY <2>2 DEF NamesInv, NameInv, OneRecord, OneWriter, NoOthers
  <2>. QED
    BY <2>1, <2>3
<1>2. RecordTypes /\ OwnTypes /\ NamesInv /\ [ImportNext]_impVars
        => RecordTypes' /\ OwnTypes' /\ NamesInv'
  BY ImportTypesKept, NamesKept
<1>3. NamesInv => NamesUnique
  <2> SUFFICES ASSUME NamesInv, NEW n \in HostNames, n \notin impContested
               PROVE  Cardinality(ImpNamed(n)) <= 1
    BY DEF NamesUnique
  <2>1. \A a, b \in ImpNamed(n) : a = b
    BY DEF NamesInv, NameInv, OneRecord, ImpNamed
  <2>2. CASE ImpNamed(n) = {}
    BY <2>2, FS_EmptySet
  <2>3. ASSUME NEW id \in ImpNamed(n)
        PROVE  Cardinality(ImpNamed(n)) <= 1
    <3>1. ImpNamed(n) = {id}
      BY <2>1
    <3>2. Cardinality({id}) = 1
      BY FS_Singleton
    <3>. QED
      BY <3>1, <3>2
  <2>. QED
    BY <2>2, <2>3
<1>. QED
  BY <1>1, <1>2, <1>3, PTL DEF ImportSpec

-----------------------------------------------------------------------------
(* Deletions beside creations and runs of jobs, for every fleet and any      *)
(* requests.                                                                 *)

DelRuns == [at : {"none", "running", "over"}, left : SUBSET Hosts, total : 0..Cardinality(Hosts),
            passed : 0..Cardinality(Hosts), done : 0..Cardinality(Hosts)]
DelCopies == [job : Creators, doc : DelDocs]

(* The types, and the shares of a run: it passes each endpoint once.         *)
DocTypes ==
  /\ delHosts \subseteq Hosts
  /\ delMake \in [Creators -> [at : {"idle", "found", "made"}, vms : SUBSET Hosts]]
  /\ delJobs \in [Creators -> DelDocs]
  /\ delReq \in [Deleters -> {"idle", "listed", "cleaning", "done", "failed"}]
  /\ delTodo \in [Deleters -> SUBSET DelCopies]
  /\ delRaced \in [Creators -> SUBSET Hosts] /\ delTorn \subseteq Creators
RunTypes ==
  /\ delRun \in [Creators -> DelRuns]
  /\ \A c \in Creators : /\ delRun[c].passed + Cardinality(delRun[c].left) <= delRun[c].total
                         /\ delRun[c].done <= delRun[c].passed

LEMMA FleetSize ==
  /\ Cardinality(Hosts) \in Nat
  /\ \A S \in SUBSET Hosts : Cardinality(S) \in 0..Cardinality(Hosts)
<1>1. Cardinality(Hosts) \in Nat
  BY FleetAssumption, FS_CardinalityType
<1>2. ASSUME NEW S \in SUBSET Hosts
      PROVE  Cardinality(S) \in Nat /\ Cardinality(S) <= Cardinality(Hosts)
  BY FleetAssumption, FS_Subset, FS_CardinalityType
<1>. QED
  BY <1>1, <1>2

LEMMA PercentRange ==
  ASSUME NEW done \in Nat, NEW total \in Nat
  PROVE  DelPercent(done, total) \in 0..100
<1>1. CASE done >= total
  BY <1>1 DEF DelPercent
<1>2. CASE done < total
  <2>. DEFINE n == 200 * done + total
              d == 2 * total
              q == n \div d
  <2>1. n \in Nat /\ d \in Nat /\ d > 0 /\ n > 0 /\ n < 101 * d
    BY <1>2
  <2>2. q \in Int /\ d * q <= n /\ n < d * (q + 1)
    <3>. HIDE DEF n, d
    <3>. QED
      BY <2>1
  <2>3. q >= 0 /\ q <= 100
    <3>. HIDE DEF n, d, q
    <3>1. ASSUME q < 0 PROVE FALSE
      <4>1. q + 1 <= 0
        BY <2>2, <3>1
      <4>2. d * (q + 1) <= 0
        BY <2>1, <2>2, <4>1
      <4>. QED
        BY <2>1, <2>2, <4>2
    <3>2. ASSUME q > 100 PROVE FALSE
      <4>1. q >= 101
        BY <2>2, <3>2
      <4>2. d * q >= d * 101
        BY <2>1, <2>2, <4>1
      <4>. QED
        BY <2>1, <2>2, <4>2
    <3>. QED
      BY <2>2, <3>1, <3>2
  <2>4. DelPercent(done, total) = q
    BY <1>2 DEF DelPercent
  <2>. HIDE DEF q
  <2>. QED
    BY <2>2, <2>3, <2>4
<1>. QED
  BY <1>1, <1>2

(* What a save and an update of the run store is a document again.           *)
LEMMA DocSaved ==
  ASSUME NEW read \in DelDocs, NEW stored \in DelDocs, NEW vms \in SUBSET Hosts
  PROVE  LET saved == DelSaved(read, vms, stored)
         IN /\ saved \in DelDocs
            /\ saved.vms = vms /\ saved.version = stored.version + 1 /\ saved.done = stored.done
            /\ DelTally(stored) = DelTally(read) =>
                 saved.percent = 0 \/ saved.percent = DelPercent(saved.done, saved.total)
<1>. DEFINE total == Cardinality(vms)
            percent == IF read.percent > 0 THEN DelPercent(read.done, total) ELSE read.percent
<1>1. total \in 0..Cardinality(Hosts) /\ Cardinality(Hosts) \in Nat
  BY FleetSize
<1>2. percent \in 0..100
  <2>1. read.done \in Nat /\ total \in Nat /\ read.percent \in 0..100
    BY <1>1 DEF DelDocs
  <2>2. DelPercent(read.done, total) \in 0..100
    BY <2>1, PercentRange
  <2>. QED
    BY <2>1, <2>2
<1>. HIDE DEF total, percent
<1>3. DelSaved(read, vms, stored) =
        [stored EXCEPT !.vms = vms, !.version = @ + 1,
                       !.total = IF total = read.total THEN @ ELSE total,
                       !.percent = IF percent = read.percent THEN @ ELSE percent]
  BY DEF DelSaved, total, percent
<1>. DEFINE saved == DelSaved(read, vms, stored)
<1>4. /\ saved.vms = vms /\ saved.version = stored.version + 1 /\ saved.done = stored.done
      /\ saved.total = IF total = read.total THEN stored.total ELSE total
      /\ saved.percent = IF percent = read.percent THEN stored.percent ELSE percent
      /\ saved \in DelDocs
  <2>1. stored \in DelDocs /\ stored.version + 1 \in Nat
    BY DEF DelDocs
  <2>2. DelSaved(read, vms, stored) =
          [vms |-> vms, version |-> stored.version + 1,
           total |-> IF total = read.total THEN stored.total ELSE total,
           done |-> stored.done,
           percent |-> IF percent = read.percent THEN stored.percent ELSE percent]
    BY <1>3 DEF DelDocs
  <2>3. /\ (IF total = read.total THEN stored.total ELSE total) \in 0..Cardinality(Hosts)
        /\ (IF percent = read.percent THEN stored.percent ELSE percent) \in 0..100
        /\ stored.done \in 0..Cardinality(Hosts)
    BY <1>1, <1>2 DEF DelDocs
  <2>. QED
    BY <2>1, <2>2, <2>3 DEF DelDocs
<1>5. ASSUME DelTally(stored) = DelTally(read)
      PROVE  saved.percent = 0 \/ saved.percent = DelPercent(saved.done, saved.total)
  <2>1. stored.total = read.total /\ stored.done = read.done /\ stored.percent = read.percent
    BY <1>5 DEF DelTally
  <2>2. saved.total = total /\ saved.percent = percent /\ saved.done = read.done
    BY <1>4, <2>1
  <2>3. percent = IF read.percent > 0 THEN DelPercent(read.done, total) ELSE read.percent
    BY DEF percent
  <2>4. read.percent \in 0..100
    BY DEF DelDocs
  <2>. QED
    BY <2>2, <2>3, <2>4
<1>. QED
  BY <1>4, <1>5

LEMMA RunWritten ==
  ASSUME DocTypes, NEW c \in Creators, NEW percent \in 0..100, DelRunWrites(c, percent),
         delRun'[c].done \in 0..Cardinality(Hosts), delRun'[c].total \in 0..Cardinality(Hosts)
  PROVE  /\ delJobs' \in [Creators -> DelDocs] /\ delTorn' \subseteq Creators
         /\ \A d \in Creators \ {c} : delJobs'[d] = delJobs[d]
         /\ delJobs'[c].vms = delJobs[c].vms /\ delJobs'[c].version = delJobs[c].version
         /\ DelExists(c) => /\ delJobs'[c].done = delRun'[c].done
                            /\ delJobs'[c].total = delRun'[c].total
                            /\ delJobs'[c].percent = percent
<1>1. delJobs[c] \in DelDocs
  BY DEF DocTypes
<1>2. CASE DelExists(c)
  <2>1. delJobs' = [delJobs EXCEPT ![c].done = delRun'[c].done, ![c].total = delRun'[c].total,
                                   ![c].percent = percent]
    BY <1>2 DEF DelRunWrites
  <2>2. delJobs' = [delJobs EXCEPT ![c] = [delJobs[c] EXCEPT !.done = delRun'[c].done,
                                             !.total = delRun'[c].total, !.percent = percent]]
    BY <2>1 DEF DocTypes
  <2>3. [delJobs[c] EXCEPT !.done = delRun'[c].done, !.total = delRun'[c].total,
                           !.percent = percent] \in DelDocs
    BY <1>1 DEF DelDocs
  <2>4. delJobs' \in [Creators -> DelDocs]
    BY <2>2, <2>3 DEF DocTypes
  <2>5. delJobs'[c] = [delJobs[c] EXCEPT !.done = delRun'[c].done,
                                         !.total = delRun'[c].total, !.percent = percent]
    BY <2>2 DEF DocTypes
  <2>6. /\ delJobs'[c].done = delRun'[c].done /\ delJobs'[c].total = delRun'[c].total
        /\ delJobs'[c].percent = percent
        /\ delJobs'[c].vms = delJobs[c].vms /\ delJobs'[c].version = delJobs[c].version
    BY <1>1, <2>5 DEF DelDocs
  <2>7. \A d \in Creators \ {c} : delJobs'[d] = delJobs[d]
    BY <2>2 DEF DocTypes
  <2>. QED
    BY <2>4, <2>6, <2>7 DEF DelRunWrites, DocTypes
<1>3. CASE ~DelExists(c)
  BY <1>3 DEF DelRunWrites, DocTypes
<1>. QED
  BY <1>2, <1>3

(* What one endpoint more makes of the share of a run.                       *)
LEMMA RunPasses ==
  ASSUME RunTypes, NEW c \in Creators, NEW h \in delRun[c].left
  PROVE  /\ delRun[c].passed + 1 <= delRun[c].total
         /\ delRun[c].passed + 1 + Cardinality(delRun[c].left \ {h}) <= delRun[c].total
         /\ delRun[c].total \in 0..Cardinality(Hosts) /\ Cardinality(Hosts) \in Nat
         /\ delRun[c].passed \in Nat /\ delRun[c].done \in Nat /\ delRun[c].done <= delRun[c].passed
<1>1. delRun[c] \in DelRuns /\ delRun[c].left \in SUBSET Hosts
  BY DEF RunTypes, DelRuns
<1>2. IsFiniteSet(delRun[c].left)
  BY <1>1, FleetAssumption, FS_Subset
<1>3. /\ Cardinality(delRun[c].left \ {h}) = Cardinality(delRun[c].left) - 1
      /\ Cardinality(delRun[c].left) \in Nat
  BY <1>2, FS_RemoveElement, FS_CardinalityType
<1>4. Cardinality(delRun[c].left \ {h}) \in Nat
  BY <1>2, FS_CardinalityType, FS_RemoveElement
<1>. QED
  BY <1>1, <1>3, <1>4, FleetSize DEF RunTypes, DelRuns

LEMMA RunPut ==
  ASSUME NEW run \in DelRuns, NEW h, NEW counted,
         run.passed + 1 \in 0..Cardinality(Hosts), run.done + counted \in 0..Cardinality(Hosts)
  PROVE  LET new == DelPassed(run, h, counted)
         IN /\ new \in DelRuns /\ new.left = run.left \ {h} /\ new.total = run.total
            /\ new.passed = run.passed + 1 /\ new.done = run.done + counted
<1>1. /\ run.at \in {"none", "running", "over"} /\ run.total \in 0..Cardinality(Hosts)
      /\ run.left \in SUBSET Hosts
  BY DEF DelRuns
<1>2. run.left \ {h} \in SUBSET Hosts
  BY <1>1
<1>. QED
  BY <1>1, <1>2 DEF DelRuns, DelPassed

LEMMA RunnerStepTypes ==
  ASSUME DocTypes, RunTypes, NEW c \in Creators, DelRunStep(c)
  PROVE  DocTypes' /\ RunTypes'
<1>. DEFINE run == delRun[c]
<1>0. run \in DelRuns /\ Cardinality(Hosts) \in Nat
  BY FleetSize DEF RunTypes
(* A new value of the run of c alone.                                        *)
<1>1. ASSUME NEW new \in DelRuns, delRun' = [delRun EXCEPT ![c] = new],
             new.passed + Cardinality(new.left) <= new.total, new.done <= new.passed
      PROVE  RunTypes' /\ delRun'[c] = new
  BY <1>1 DEF RunTypes
<1>2. CASE DelRunBegins(c)
  <2>. DEFINE work == delJobs[c].vms \intersect delHosts
              new == DelWork(work)
  <2>1. work \in SUBSET Hosts
    BY DEF DocTypes
  <2>2. Cardinality(work) \in 0..Cardinality(Hosts)
    BY <2>1, FleetSize
  <2>3. /\ new.at = "running" /\ new.left = work /\ new.total = Cardinality(work)
        /\ new.passed = 0 /\ new.done = 0 /\ new \in DelRuns
    <3>1. 0 \in 0..Cardinality(Hosts)
      BY <1>0
    <3>. QED
      BY <2>1, <2>2, <3>1 DEF DelWork, DelRuns
  <2>4. delRun' = [delRun EXCEPT ![c] = new]
    BY <1>2 DEF DelRunBegins
  <2>5. RunTypes'
    <3>. HIDE DEF new, work
    <3>1. new.passed + Cardinality(new.left) <= new.total /\ new.done <= new.passed
      BY <1>0, <2>2, <2>3
    <3>. QED
      BY <1>1, <2>3, <2>4, <3>1
  <2>. QED
    BY <1>2, <2>5 DEF DelRunBegins, DocTypes
<1>3. ASSUME NEW h \in Hosts, DelRunCounts(c, h)
      PROVE  DocTypes' /\ RunTypes'
  <2>. DEFINE new == DelPassed(run, h, 1)
  <2>1. h \in run.left /\ delRun' = [delRun EXCEPT ![c] = new]
    BY <1>3 DEF DelRunCounts, RunTypes
  <2>2. /\ new \in DelRuns /\ new.left = run.left \ {h} /\ new.passed = run.passed + 1
        /\ new.done = run.done + 1 /\ new.total = run.total
    <3>1. /\ run.passed + 1 <= run.total /\ run.total \in 0..Cardinality(Hosts)
          /\ run.passed \in Nat /\ run.done \in Nat /\ run.done <= run.passed
      BY <2>1, RunPasses
    <3>2. /\ run.passed + 1 \in 0..Cardinality(Hosts) /\ run.done + 1 \in 0..Cardinality(Hosts)
          /\ run.done + 0 = run.done
      BY <1>0, <3>1
    <3>. QED
      BY <1>0, <3>2, RunPut
  <2>3. new.passed + Cardinality(new.left) <= new.total /\ new.done <= new.passed
    <3>1. /\ run.passed + 1 + Cardinality(run.left \ {h}) <= run.total
          /\ run.passed \in Nat /\ run.done \in Nat /\ run.done <= run.passed
      BY <2>1, RunPasses
    <3>. HIDE DEF new
    <3>. QED
      BY <2>2, <3>1
  <2>4. RunTypes' /\ delRun'[c] = new
    <3>. HIDE DEF new
    <3>. QED
      BY <1>1, <2>1, <2>2, <2>3
  <2>5. /\ delRun'[c].done \in 0..Cardinality(Hosts) /\ delRun'[c].total \in 0..Cardinality(Hosts)
        /\ delRun'[c].passed \in Nat /\ run.total \in Nat
    <3>. HIDE DEF new
    <3>. QED
      BY <1>0, <2>2, <2>4 DEF DelRuns
  <2>6. DelPercent(delRun'[c].passed, run.total) \in 0..100
    BY <2>5, PercentRange
  <2>7. DelRunWrites(c, DelPercent(delRun'[c].passed, run.total))
    BY <1>3 DEF DelRunCounts
  <2>8. delJobs' \in [Creators -> DelDocs] /\ delTorn' \subseteq Creators
    BY <2>5, <2>6, <2>7, RunWritten
  <2>. QED
    BY <1>3, <2>4, <2>8 DEF DelRunCounts, DocTypes
<1>4. ASSUME NEW h \in Hosts, DelRunCancels(c, h)
      PROVE  DocTypes' /\ RunTypes'
  <2>. DEFINE new == DelPassed(run, h, 0)
  <2>1. h \in run.left /\ delRun' = [delRun EXCEPT ![c] = new]
    BY <1>4 DEF DelRunCancels, RunTypes
  <2>2. /\ new \in DelRuns /\ new.left = run.left \ {h} /\ new.passed = run.passed + 1
        /\ new.done = run.done /\ new.total = run.total
    <3>1. /\ run.passed + 1 <= run.total /\ run.total \in 0..Cardinality(Hosts)
          /\ run.passed \in Nat /\ run.done \in Nat /\ run.done <= run.passed
      BY <2>1, RunPasses
    <3>2. /\ run.passed + 1 \in 0..Cardinality(Hosts) /\ run.done + 0 \in 0..Cardinality(Hosts)
          /\ run.done + 0 = run.done
      BY <1>0, <3>1
    <3>. QED
      BY <1>0, <3>2, RunPut
  <2>3. new.passed + Cardinality(new.left) <= new.total /\ new.done <= new.passed
    <3>1. /\ run.passed + 1 + Cardinality(run.left \ {h}) <= run.total
          /\ run.passed \in Nat /\ run.done \in Nat /\ run.done <= run.passed
      BY <2>1, RunPasses
    <3>. HIDE DEF new
    <3>. QED
      BY <2>2, <3>1
  <2>4. RunTypes'
    <3>. HIDE DEF new
    <3>. QED
      BY <1>1, <2>1, <2>2, <2>3
  <2>. QED
    BY <1>4, <2>4 DEF DelRunCancels, DocTypes
<1>5. CASE DelRunEnds(c)
  <2>. DEFINE new == [run EXCEPT !.at = "over"]
  <2>1. delRun' = [delRun EXCEPT ![c] = new]
    BY <1>5 DEF DelRunEnds, RunTypes
  <2>2. /\ new \in DelRuns /\ new.left = run.left /\ new.passed = run.passed
        /\ new.done = run.done /\ new.total = run.total
    BY <1>0 DEF DelRuns
  <2>3. new.passed + Cardinality(new.left) <= new.total /\ new.done <= new.passed
    BY <2>2 DEF RunTypes
  <2>4. RunTypes' /\ delRun'[c] = new
    <3>. HIDE DEF new
    <3>. QED
      BY <1>1, <2>1, <2>2, <2>3
  <2>5. delRun'[c].done \in 0..Cardinality(Hosts) /\ delRun'[c].total \in 0..Cardinality(Hosts)
    BY <1>0, <2>2, <2>4 DEF DelRuns
  <2>6. delJobs' \in [Creators -> DelDocs] /\ delTorn' \subseteq Creators
    <3>1. CASE DelRunWrites(c, 100)
      <4>1. 100 \in 0..100
        OBVIOUS
      <4>. QED
        BY <2>5, <3>1, <4>1, RunWritten
    <3>2. CASE /\ delJobs' = IF DelExists(c) THEN [delJobs EXCEPT ![c].percent = 100] ELSE delJobs
               /\ UNCHANGED delTorn
      <4>1. delJobs[c] \in DelDocs
        BY DEF DocTypes
      <4>2. [delJobs[c] EXCEPT !.percent = 100] \in DelDocs
        BY <4>1 DEF DelDocs
      <4>3. delJobs' = delJobs \/ delJobs' = [delJobs EXCEPT ![c] = [delJobs[c] EXCEPT !.percent = 100]]
        BY <3>2 DEF DocTypes
      <4>. QED
        BY <3>2, <4>2, <4>3 DEF DocTypes
    <3>. QED
      BY <1>5, <3>1, <3>2 DEF DelRunEnds
  <2>. QED
    BY <1>5, <2>4, <2>6 DEF DelRunEnds, DocTypes
<1>. QED
  BY <1>2, <1>3, <1>4, <1>5 DEF DelRunStep

LEMMA JobTyped ==
  ASSUME NEW vms \in SUBSET Hosts
  PROVE  DelJob(vms) \in DelDocs
<1>1. /\ Cardinality(vms) \in 0..Cardinality(Hosts) /\ 0 \in 0..Cardinality(Hosts)
      /\ 0 \in 0..100 /\ 0 \in Nat
  BY FleetSize
<1>. QED
  BY <1>1 DEF DelJob, DelDocs

LEMMA NoDocTyped == NoDoc \in DelDocs
BY JobTyped DEF NoDoc

LEMMA MakeStepTypes ==
  ASSUME DocTypes, NEW c \in Creators, DelMakeStep(c)
  PROVE  DocTypes'
<1>1. CASE MakeFinds(c)
  <2>1. PICK found \in (SUBSET delHosts) \ {{}} :
          /\ delMake' = [delMake EXCEPT ![c] = [at |-> "found", vms |-> found]]
          /\ delRaced' = [delRaced EXCEPT ![c] = found \intersect UNION DelRemoving]
    BY <1>1 DEF MakeFinds
  <2>2. found \in SUBSET Hosts /\ found \intersect UNION DelRemoving \in SUBSET Hosts
    BY DEF DocTypes
  <2>3. [at |-> "found", vms |-> found] \in [at : {"idle", "found", "made"}, vms : SUBSET Hosts]
    BY <2>2
  <2>. QED
    BY <1>1, <2>1, <2>2, <2>3 DEF MakeFinds, DocTypes
<1>2. CASE MakeInserts(c)
  <2>. DEFINE doc == DelJob(delMake[c].vms)
  <2>1. delMake[c] \in [at : {"idle", "found", "made"}, vms : SUBSET Hosts]
    BY DEF DocTypes
  <2>2. delMake[c].vms \in SUBSET Hosts
    BY <2>1
  <2>3. doc \in DelDocs
    BY <2>2, JobTyped
  <2>4. [delMake[c] EXCEPT !.at = "made"] \in [at : {"idle", "found", "made"}, vms : SUBSET Hosts]
    BY <2>1
  <2>5. delMake' = [delMake EXCEPT ![c] = [delMake[c] EXCEPT !.at = "made"]]
    BY <1>2 DEF MakeInserts, DocTypes
  <2>. QED
    BY <1>2, <2>3, <2>4, <2>5 DEF MakeInserts, DocTypes
<1>. QED
  BY <1>1, <1>2 DEF DelMakeStep

LEMMA ReqStepTypes ==
  ASSUME DocTypes, NEW r \in Deleters, DelReqStep(r)
  PROVE  DocTypes'
<1>1. CASE DelLists(r) \/ DelDeletes(r) \/ DelFails(r)
  BY <1>1 DEF DelLists, DelDeletes, DelFails, DocTypes
<1>2. CASE DelReads(r)
  <2>. DEFINE copies == {[job |-> c, doc |-> delJobs[c]] :
                           c \in {d \in Creators : delJobs[d].vms \intersect r # {}}}
  <2>1. copies \in SUBSET DelCopies
    BY DEF DocTypes, DelCopies
  <2>2. delRaced' \in [Creators -> SUBSET Hosts]
    <3>1. \A c \in Creators : delMake[c].vms \in SUBSET Hosts /\ delRaced[c] \in SUBSET Hosts
      BY DEF DocTypes
    <3>2. \A c \in Creators : (IF delMake[c].at = "found"
                               THEN delRaced[c] \cup (delMake[c].vms \intersect r)
                               ELSE delRaced[c]) \in SUBSET Hosts
      BY <3>1
    <3>. QED
      BY <1>2, <3>2 DEF DelReads
  <2>3. delTodo' = [delTodo EXCEPT ![r] = copies]
    BY <1>2 DEF DelReads
  <2>. HIDE DEF copies
  <2>4. delTodo' \in [Deleters -> SUBSET DelCopies]
    BY <2>1, <2>3 DEF DocTypes
  <2>. QED
    BY <1>2, <2>2, <2>4 DEF DelReads, DocTypes
<1>3. ASSUME NEW read \in delTodo[r], NEW doc \in DelDocs,
             delJobs' = [delJobs EXCEPT ![read.job] = doc],
             delTodo' = [delTodo EXCEPT ![r] = @ \ {read}],
             delTorn' \in {delTorn, delTorn \cup {read.job}},
             UNCHANGED <<delHosts, delMake, delReq, delRaced>>
      PROVE  DocTypes'
  <2>1. read \in DelCopies /\ delTodo[r] \subseteq DelCopies
    BY DEF DocTypes
  <2>2. read.job \in Creators
    BY <2>1 DEF DelCopies
  <2>3. delJobs' \in [Creators -> DelDocs] /\ delTodo' \in [Deleters -> SUBSET DelCopies]
    BY <1>3, <2>1, <2>2 DEF DocTypes
  <2>4. delTorn' \subseteq Creators
    BY <1>3, <2>2 DEF DocTypes
  <2>. QED
    BY <1>3, <2>3, <2>4 DEF DocTypes
<1>4. CASE DelUpdates(r)
  <2>1. PICK read \in delTodo[r] :
          /\ delJobs' = [delJobs EXCEPT ![read.job] =
                           DelSaved(read.doc, read.doc.vms \ r, delJobs[read.job])]
          /\ delTodo' = [delTodo EXCEPT ![r] = @ \ {read}]
          /\ delTorn' \in {delTorn, delTorn \cup {read.job}}
    BY <1>4 DEF DelUpdates
  <2>2. read \in DelCopies
    BY DEF DocTypes
  <2>3. read.doc \in DelDocs /\ read.job \in Creators
    BY <2>2 DEF DelCopies
  <2>4. delJobs[read.job] \in DelDocs /\ (read.doc.vms \ r) \in SUBSET Hosts
    BY <2>3 DEF DocTypes, DelDocs
  <2>5. DelSaved(read.doc, read.doc.vms \ r, delJobs[read.job]) \in DelDocs
    BY <2>3, <2>4, DocSaved
  <2>. QED
    BY <1>3, <1>4, <2>1, <2>5 DEF DelUpdates
<1>5. CASE DelRemovesJob(r)
  BY <1>3, <1>5, NoDocTyped DEF DelRemovesJob
<1>. QED
  BY <1>1, <1>2, <1>4, <1>5 DEF DelReqStep

LEMMA DelTypesKept ==
  ASSUME DocTypes, RunTypes, [DelNext]_delVars
  PROVE  DocTypes' /\ RunTypes'
<1>1. ASSUME NEW c \in Creators, DelMakeStep(c)
      PROVE  DocTypes' /\ RunTypes'
  <2>1. UNCHANGED delRun
    BY <1>1 DEF DelMakeStep, MakeFinds, MakeInserts
  <2>. QED
    BY <1>1, <2>1, MakeStepTypes DEF RunTypes
<1>2. ASSUME NEW r \in Deleters, DelReqStep(r)
      PROVE  DocTypes' /\ RunTypes'
  <2>1. UNCHANGED delRun
    BY <1>2 DEF DelReqStep, DelLists, DelReads, DelUpdates, DelRemovesJob, DelDeletes, DelFails
  <2>. QED
    BY <1>2, <2>1, ReqStepTypes DEF RunTypes
<1>3. CASE UNCHANGED delVars
  BY <1>3 DEF delVars, DocTypes, RunTypes
<1>. QED
  BY <1>1, <1>2, <1>3, RunnerStepTypes DEF DelNext

LEMMA DelTypesBegin ==
  ASSUME DelInit
  PROVE  DocTypes /\ RunTypes
<1>1. NoRun \in DelRuns /\ NoRun.left = {} /\ NoRun.passed = 0 /\ NoRun.done = 0 /\ NoRun.total = 0
  BY FleetSize DEF NoRun, DelRuns
<1>2. Cardinality({}) = 0
  BY FS_EmptySet
<1>3. \A c \in Creators : delRun[c] = NoRun
  BY DEF DelInit
<1>4. delRun \in [Creators -> DelRuns]
  BY <1>1 DEF DelInit
<1>5. RunTypes
  BY <1>1, <1>2, <1>3, <1>4 DEF RunTypes
<1>6. DocTypes
  BY NoDocTyped DEF DelInit, DocTypes
<1>. QED
  BY <1>5, <1>6

(* A run passes each endpoint once and never counts more than it passed, and *)
(* a document keeps its shape and a percentage between 0 and 100, whatever   *)
(* requests rewrite or delete it meanwhile (vmCleanup.js:10-45).             *)
THEOREM DeletionTypesHold == DelSpec => []DelTypeOK
<1>1. DelInit => DocTypes /\ RunTypes
  BY DelTypesBegin
<1>2. DocTypes /\ RunTypes /\ [DelNext]_delVars => DocTypes' /\ RunTypes'
  BY DelTypesKept
<1>3. DocTypes /\ RunTypes => DelTypeOK
  BY DEF DocTypes, RunTypes, DelRuns, DelCopies, DelTypeOK
<1>. QED
  BY <1>1, <1>2, <1>3, PTL DEF DelSpec

(* Versions and lists: a document exists only of a job that was made, and a  *)
(* copy with the version of the stored document has its list.                *)
CopyInv ==
  /\ \A c \in Creators : delMake[c].at # "made" => ~DelExists(c) /\ delRun[c].at = "none"
  /\ \A r \in Deleters : \A read \in delTodo[r] :
       /\ delMake[read.job].at = "made"
       /\ DelExists(read.job) => /\ read.doc.version <= delJobs[read.job].version
                                 /\ read.doc.version = delJobs[read.job].version
                                      => read.doc.vms = delJobs[read.job].vms

(* What a creation found, or a job names, is there, or was found while it    *)
(* was being removed; of what a deletion is removing the same holds, unless  *)
(* the deletion has still to deal with the job.                              *)
FoundInv(c) ==
  delMake[c].at = "found" =>
    /\ delMake[c].vms # {} /\ delMake[c].vms \ delHosts \subseteq delRaced[c]
    /\ \A r \in DelRemoving : delMake[c].vms \cap r \subseteq delRaced[c]
NamedInv(c) ==
  /\ delJobs[c].vms \ delHosts \subseteq delRaced[c]
  /\ \A r \in DelRemoving : \/ delJobs[c].vms \cap r \subseteq delRaced[c]
                            \/ \E read \in delTodo[r] : read.job = c

(* A run that has not begun counted nothing; the tally is the run's.         *)
TallyInv(c) ==
  /\ delRun[c].at = "none" => /\ delRun[c].done = 0 /\ delRun[c].passed = 0
                              /\ delRun[c].left = {}
  /\ DelExists(c) =>
       /\ delJobs[c].done = delRun[c].done
       /\ \/ c \in delTorn \/ delRun[c].passed # delRun[c].done
          \/ delJobs[c].percent \in {0, 100, DelPercent(delJobs[c].done, delJobs[c].total)}

DelInv ==
  /\ CopyInv
  /\ \A c \in Creators : FoundInv(c) /\ NamedInv(c) /\ TallyInv(c)

LEMMA MakeKeeps ==
  ASSUME DocTypes, RunTypes, DelInv, NEW c \in Creators, DelMakeStep(c)
  PROVE  DelInv'
<1>0. /\ UNCHANGED <<delHosts, delRun, delReq, delTodo, delTorn>> /\ DelRemoving' = DelRemoving
      /\ \A r \in Deleters : \A read \in delTodo[r] : read.job \in Creators
  BY DEF DelMakeStep, MakeFinds, MakeInserts, DelRemoving, DocTypes, DelCopies
<1>1. CASE MakeFinds(c)
  <2>1. PICK found \in (SUBSET delHosts) \ {{}} :
          /\ delMake' = [delMake EXCEPT ![c] = [at |-> "found", vms |-> found]]
          /\ delRaced' = [delRaced EXCEPT ![c] = found \intersect UNION DelRemoving]
    BY <1>1 DEF MakeFinds
  <2>2. /\ delMake[c].at = "idle" /\ UNCHANGED delJobs
        /\ delMake'[c].at = "found" /\ delMake'[c].vms = found
        /\ delRaced'[c] = found \intersect UNION DelRemoving
        /\ \A d \in Creators \ {c} : delMake'[d] = delMake[d] /\ delRaced'[d] = delRaced[d]
    BY <1>1, <2>1 DEF MakeFinds, DocTypes
  <2>3. CopyInv'
    BY <1>0, <2>2 DEF DelInv, CopyInv, DelExists
  <2>4. FoundInv(c)'
    BY <1>0, <2>1, <2>2 DEF FoundInv
  <2>5. NamedInv(c)'
    <3>1. delJobs[c].vms = {}
      BY <2>2 DEF DelInv, CopyInv, DelExists
    <3>. QED
      BY <1>0, <2>2, <3>1 DEF NamedInv
  <2>6. \A d \in Creators \ {c} : FoundInv(d)' /\ NamedInv(d)'
    BY <1>0, <2>2 DEF DelInv, FoundInv, NamedInv
  <2>7. \A d \in Creators : TallyInv(d)'
    BY <1>0, <2>2 DEF DelInv, TallyInv, DelExists
  <2>. QED
    BY <2>3, <2>4, <2>5, <2>6, <2>7 DEF DelInv
<1>2. CASE MakeInserts(c)
  <2>1. /\ delMake[c].at = "found" /\ UNCHANGED delRaced
        /\ delMake'[c].at = "made"
        /\ delJobs'[c] = DelJob(delMake[c].vms)
        /\ \A d \in Creators \ {c} : delMake'[d] = delMake[d] /\ delJobs'[d] = delJobs[d]
    BY <1>2 DEF MakeInserts, DocTypes
  <2>2. delJobs'[c].vms = delMake[c].vms /\ delJobs'[c].done = 0 /\ delJobs'[c].percent = 0
    BY <2>1 DEF DelJob
  <2>3. CopyInv'
    <3>1. ASSUME NEW r \in Deleters, NEW read \in delTodo[r]
          PROVE  read.job \in Creators \ {c}
      <4>1. delMake[read.job].at = "made"
        BY DEF DelInv, CopyInv
      <4>2. delMake[c].at = "found"
        BY <2>1
      <4>3. read.job # c
        BY <4>1, <4>2
      <4>. QED
        BY <1>0, <4>3
    <3>2. ASSUME NEW d \in Creators, delMake'[d].at # "made"
          PROVE  ~DelExists(d)' /\ delRun'[d].at = "none"
      <4>1. d # c
        BY <2>1, <3>2
      <4>. QED
        BY <1>0, <2>1, <3>2, <4>1 DEF DelInv, CopyInv, DelExists
    <3>3. ASSUME NEW r \in Deleters, NEW read \in delTodo[r]
          PROVE  /\ delMake'[read.job].at = "made"
                 /\ DelExists(read.job)' =>
                      /\ read.doc.version <= delJobs'[read.job].version
                      /\ read.doc.version = delJobs'[read.job].version
                           => read.doc.vms = delJobs'[read.job].vms
      <4>1. delJobs'[read.job] = delJobs[read.job] /\ delMake'[read.job] = delMake[read.job]
        BY <2>1, <3>1
      <4>. QED
        BY <4>1 DEF DelInv, CopyInv, DelExists
    <3>. QED
      BY <1>0, <3>2, <3>3 DEF CopyInv
  <2>4. FoundInv(c)' /\ NamedInv(c)'
    BY <1>0, <2>1, <2>2 DEF DelInv, FoundInv, NamedInv
  <2>5. TallyInv(c)'
    BY <1>0, <2>1, <2>2 DEF DelInv, CopyInv, TallyInv
  <2>6. \A d \in Creators \ {c} : FoundInv(d)' /\ NamedInv(d)' /\ TallyInv(d)'
    BY <1>0, <2>1 DEF DelInv, FoundInv, NamedInv, TallyInv, DelExists
  <2>. QED
    BY <2>3, <2>4, <2>5, <2>6 DEF DelInv
<1>. QED
  BY <1>1, <1>2 DEF DelMakeStep

(* A run keeps the lists and the versions of the documents.                  *)
LEMMA RunKeepsLists ==
  ASSUME DocTypes, RunTypes, DocTypes', DelInv, NEW c \in Creators, DelRunStep(c),
         \A d \in Creators : /\ delJobs'[d].vms = delJobs[d].vms
                             /\ delJobs'[d].version = delJobs[d].version
                             /\ d # c => delJobs'[d] = delJobs[d] /\ delRun'[d] = delRun[d]
                                           /\ (d \in delTorn => d \in delTorn'),
         delMake[c].at = "made", TallyInv(c)'
  PROVE  DelInv'
<1>1. UNCHANGED <<delHosts, delMake, delReq, delTodo, delRaced>> /\ DelRemoving' = DelRemoving
  BY DEF DelRunStep, DelRunBegins, DelRunCounts, DelRunCancels, DelRunEnds, DelRemoving
<1>2. \A r \in Deleters : \A read \in delTodo[r] : read.job \in Creators
  BY DEF DocTypes, DelCopies
<1>3. CopyInv'
  BY <1>1, <1>2 DEF DelInv, CopyInv, DelExists
<1>4. \A d \in Creators : FoundInv(d)' /\ NamedInv(d)'
  BY <1>1 DEF DelInv, FoundInv, NamedInv
<1>5. \A d \in Creators \ {c} : TallyInv(d)'
  BY DEF DelInv, TallyInv, DelExists
<1>. QED
  BY <1>3, <1>4, <1>5 DEF DelInv

LEMMA RunKeeps ==
  ASSUME DocTypes, RunTypes, DelInv, NEW c \in Creators, DelRunStep(c)
  PROVE  DelInv'
<1>. DEFINE run == delRun[c]
            Lists == \A d \in Creators :
                       /\ delJobs'[d].vms = delJobs[d].vms
                       /\ delJobs'[d].version = delJobs[d].version
                       /\ d # c => delJobs'[d] = delJobs[d] /\ delRun'[d] = delRun[d]
                                     /\ (d \in delTorn => d \in delTorn')
<1>0. /\ run \in DelRuns /\ run.done <= run.passed /\ DocTypes'
      /\ run.passed \in Nat /\ run.done \in Nat
  BY RunnerStepTypes, FleetSize DEF RunTypes, DelRuns
<1>1. CASE DelRunBegins(c)
  <2>1. /\ UNCHANGED <<delJobs, delTorn>> /\ DelExists(c) /\ run.at = "none"
        /\ delRun'[c] = DelWork(delJobs[c].vms \intersect delHosts)
        /\ \A d \in Creators \ {c} : delRun'[d] = delRun[d]
    BY <1>1 DEF DelRunBegins, RunTypes
  <2>2. delRun'[c].at = "running" /\ delRun'[c].done = 0 /\ delRun'[c].passed = 0
    BY <2>1 DEF DelWork
  <2>3. TallyInv(c)'
    BY <2>1, <2>2 DEF DelInv, TallyInv, DelExists
  <2>4. Lists /\ delMake[c].at = "made"
    BY <2>1 DEF DelInv, CopyInv
  <2>. QED
    BY <1>0, <2>3, <2>4, RunKeepsLists
<1>2. ASSUME NEW h \in Hosts, NEW counted \in {0, 1}, h \in run.left,
             delRun' = [delRun EXCEPT ![c] = DelPassed(@, h, counted)]
      PROVE  /\ delMake[c].at = "made"
             /\ delRun'[c].at # "none" /\ delRun'[c].total = run.total
             /\ delRun'[c].passed = run.passed + 1 /\ delRun'[c].done = run.done + counted
             /\ \A d \in Creators \ {c} : delRun'[d] = delRun[d]
  <2>1. /\ delRun'[c] = DelPassed(run, h, counted)
        /\ \A d \in Creators \ {c} : delRun'[d] = delRun[d]
    BY <1>2 DEF RunTypes
  <2>3. run.at # "none"
    BY <1>2 DEF DelInv, TallyInv
  <2>4. delMake[c].at = "made"
    BY <2>3 DEF DelInv, CopyInv
  <2>. QED
    BY <2>1, <2>3, <2>4 DEF DelPassed
<1>3. ASSUME NEW h \in Hosts, DelRunCounts(c, h)
      PROVE  DelInv'
  <2>. DEFINE percent == DelPercent(delRun'[c].passed, run.total)
  <2>1. h \in run.left /\ delRun' = [delRun EXCEPT ![c] = DelPassed(@, h, 1)]
        /\ DelRunWrites(c, percent)
    BY <1>3 DEF DelRunCounts
  <2>2. /\ delMake[c].at = "made" /\ delRun'[c].at # "none" /\ delRun'[c].total = run.total
        /\ delRun'[c].passed = run.passed + 1 /\ delRun'[c].done = run.done + 1
        /\ \A d \in Creators \ {c} : delRun'[d] = delRun[d]
    BY <1>2, <2>1
  <2>3. /\ run.passed + 1 <= run.total /\ run.total \in 0..Cardinality(Hosts)
        /\ Cardinality(Hosts) \in Nat
    BY <2>1, RunPasses
  <2>4. /\ delRun'[c].passed \in Nat /\ run.total \in Nat
        /\ delRun'[c].done \in 0..Cardinality(Hosts)
        /\ delRun'[c].total \in 0..Cardinality(Hosts)
    BY <1>0, <2>2, <2>3
  <2>5. percent \in 0..100
    BY <2>4, PercentRange
  <2>. HIDE DEF percent
  <2>6. /\ \A d \in Creators \ {c} : delJobs'[d] = delJobs[d]
        /\ delJobs'[c].vms = delJobs[c].vms /\ delJobs'[c].version = delJobs[c].version
        /\ DelExists(c) => /\ delJobs'[c].done = delRun'[c].done
                           /\ delJobs'[c].total = delRun'[c].total
                           /\ delJobs'[c].percent = percent
    BY <2>1, <2>4, <2>5, RunWritten
  <2>7. TallyInv(c)'
    <3>1. percent = DelPercent(delRun'[c].passed, delRun'[c].total)
      BY <2>2 DEF percent
    <3>2. delRun'[c].passed = delRun'[c].done => percent = DelPercent(delRun'[c].done, delRun'[c].total)
      BY <3>1
    <3>. QED
      BY <2>2, <2>6, <3>2 DEF TallyInv, DelExists
  <2>8. Lists
    BY <2>1, <2>2, <2>6 DEF DelRunWrites
  <2>. QED
    BY <1>0, <2>2, <2>7, <2>8, RunKeepsLists
<1>4. ASSUME NEW h \in Hosts, DelRunCancels(c, h)
      PROVE  DelInv'
  <2>1. h \in run.left /\ delRun' = [delRun EXCEPT ![c] = DelPassed(@, h, 0)]
        /\ UNCHANGED <<delJobs, delTorn>>
    BY <1>4 DEF DelRunCancels
  <2>2. /\ delMake[c].at = "made" /\ delRun'[c].at # "none"
        /\ delRun'[c].passed = run.passed + 1 /\ delRun'[c].done = run.done + 0
        /\ \A d \in Creators \ {c} : delRun'[d] = delRun[d]
    BY <1>2, <2>1
  <2>3. delRun'[c].done = run.done /\ delRun'[c].passed # delRun'[c].done
    BY <1>0, <2>2
  <2>4. TallyInv(c)'
    BY <2>1, <2>2, <2>3 DEF DelInv, TallyInv, DelExists
  <2>5. Lists
    BY <2>1, <2>2
  <2>. QED
    BY <1>0, <2>2, <2>4, <2>5, RunKeepsLists
<1>5. CASE DelRunEnds(c)
  <2>1. /\ run.at = "running" /\ delRun' = [delRun EXCEPT ![c] = [run EXCEPT !.at = "over"]]
    BY <1>5 DEF DelRunEnds, RunTypes
  <2>2. /\ delRun'[c] = [run EXCEPT !.at = "over"]
        /\ \A d \in Creators \ {c} : delRun'[d] = delRun[d]
    BY <2>1 DEF RunTypes
  <2>3. /\ delRun'[c].at = "over" /\ delRun'[c].done = run.done
        /\ delRun'[c].passed = run.passed /\ delRun'[c].total = run.total
    BY <1>0, <2>2 DEF DelRuns
  <2>4. delMake[c].at = "made"
    BY <2>1 DEF DelInv, CopyInv
  <2>5. CASE DelRunWrites(c, 100)
    <3>1. /\ delRun'[c].done \in 0..Cardinality(Hosts) /\ delRun'[c].total \in 0..Cardinality(Hosts)
          /\ 100 \in 0..100
      BY <1>0, <2>3 DEF DelRuns
    <3>2. /\ \A d \in Creators \ {c} : delJobs'[d] = delJobs[d]
          /\ delJobs'[c].vms = delJobs[c].vms /\ delJobs'[c].version = delJobs[c].version
          /\ DelExists(c) => delJobs'[c].done = delRun'[c].done /\ delJobs'[c].percent = 100
      BY <2>5, <3>1, RunWritten
    <3>3. TallyInv(c)'
      BY <2>3, <3>2 DEF TallyInv, DelExists
    <3>4. Lists
      BY <2>2, <2>5, <3>2 DEF DelRunWrites
    <3>. QED
      BY <1>0, <2>4, <3>3, <3>4, RunKeepsLists
  <2>6. CASE /\ delJobs' = IF DelExists(c) THEN [delJobs EXCEPT ![c].percent = 100] ELSE delJobs
             /\ UNCHANGED delTorn
    <3>0. delJobs[c] \in DelDocs
      BY DEF DocTypes
    <3>1. /\ \A d \in Creators \ {c} : delJobs'[d] = delJobs[d]
          /\ delJobs'[c].vms = delJobs[c].vms /\ delJobs'[c].version = delJobs[c].version
          /\ delJobs'[c].done = delJobs[c].done
          /\ DelExists(c) => delJobs'[c].percent = 100
      <4>1. CASE DelExists(c)
        <5>1. delJobs'[c] = [delJobs[c] EXCEPT !.percent = 100]
              /\ \A d \in Creators \ {c} : delJobs'[d] = delJobs[d]
          BY <2>6, <4>1 DEF DocTypes
        <5>. QED
          BY <3>0, <5>1 DEF DelDocs
      <4>2. CASE ~DelExists(c)
        BY <2>6, <4>2
      <4>. QED
        BY <4>1, <4>2
    <3>2. TallyInv(c)'
      BY <2>3, <3>1 DEF DelInv, TallyInv, DelExists
    <3>3. Lists
      BY <2>2, <2>6, <3>1
    <3>. QED
      BY <1>0, <2>4, <3>2, <3>3, RunKeepsLists
  <2>. QED
    BY <1>5, <2>5, <2>6 DEF DelRunEnds
<1>. QED
  BY <1>1, <1>3, <1>4, <1>5 DEF DelRunStep

(* A request deals with the copy of a job: what it stores there.             *)
LEMMA DealtWith ==
  ASSUME DocTypes, DelInv, NEW r \in DelRemoving, NEW read \in delTodo[r], NEW doc \in DelDocs,
         delJobs' = [delJobs EXCEPT ![read.job] = doc],
         delTodo' = [delTodo EXCEPT ![r] = @ \ {read}],
         UNCHANGED <<delHosts, delMake, delRun, delReq, delRaced>>,
         \A c \in Creators : c # read.job /\ c \in delTorn => c \in delTorn',
         doc.vms \subseteq delJobs[read.job].vms \ r,
         doc.vms # {} => DelExists(read.job) /\ doc.version > delJobs[read.job].version,
         TallyInv(read.job)'
  PROVE  DelInv'
<1>0. r \in Deleters /\ DelRemoving' = DelRemoving
  BY DEF DelRemoving
<1>1. /\ \A q \in Deleters : \A copy \in delTodo[q] : copy \in DelCopies
      /\ \A q \in Deleters : delTodo'[q] \subseteq delTodo[q]
      /\ \A q \in Deleters : \A copy \in delTodo[q] : copy.job # read.job => copy \in delTodo'[q]
      /\ \A q \in Deleters \ {r} : delTodo'[q] = delTodo[q]
  BY <1>0 DEF DocTypes
<1>2. \A q \in Deleters : \A copy \in delTodo[q] : copy.job \in Creators /\ copy.doc \in DelDocs
  BY <1>1 DEF DelCopies
<1>3. read.job \in Creators /\ delJobs'[read.job] = doc
      /\ \A c \in Creators \ {read.job} : delJobs'[c] = delJobs[c]
  BY <1>0, <1>2 DEF DocTypes
<1>4. CopyInv'
  <2>1. delMake[read.job].at = "made"
    BY <1>0 DEF DelInv, CopyInv
  <2>2. \A c \in Creators : delMake'[c].at # "made" => ~DelExists(c)' /\ delRun'[c].at = "none"
    BY <1>3, <2>1 DEF DelInv, CopyInv, DelExists
  <2>3. ASSUME NEW q \in Deleters, NEW copy \in delTodo'[q]
        PROVE  /\ delMake'[copy.job].at = "made"
               /\ DelExists(copy.job)' =>
                    /\ copy.doc.version <= delJobs'[copy.job].version
                    /\ copy.doc.version = delJobs'[copy.job].version
                         => copy.doc.vms = delJobs'[copy.job].vms
    <3>1. copy \in delTodo[q] /\ copy.job \in Creators /\ copy.doc \in DelDocs
      BY <1>1, <1>2, <2>3
    <3>2. /\ delMake[copy.job].at = "made"
          /\ DelExists(copy.job) => /\ copy.doc.version <= delJobs[copy.job].version
                                    /\ copy.doc.version = delJobs[copy.job].version
                                         => copy.doc.vms = delJobs[copy.job].vms
      BY <3>1 DEF DelInv, CopyInv
    <3>3. CASE copy.job # read.job
      BY <1>3, <3>1, <3>2, <3>3 DEF DelExists
    <3>4. CASE copy.job = read.job
      <4>1. delJobs[read.job] \in DelDocs
        BY <1>3 DEF DocTypes
      <4>2. copy.doc.version \in Nat /\ doc.version \in Nat /\ delJobs[read.job].version \in Nat
        BY <3>1, <4>1 DEF DelDocs
      <4>3. DelExists(copy.job)' => doc.vms # {}
        BY <1>3, <3>4 DEF DelExists
      <4>4. DelExists(copy.job)' => copy.doc.version < delJobs'[copy.job].version
        BY <1>3, <3>2, <3>4, <4>2, <4>3
      <4>. QED
        BY <1>3, <3>2, <3>4, <4>2, <4>4
    <3>. QED
      BY <3>3, <3>4
  <2>. QED
    BY <2>2, <2>3 DEF CopyInv
<1>5. \A c \in Creators : FoundInv(c)'
  BY <1>0 DEF DelInv, FoundInv
<1>6. ASSUME NEW c \in Creators
      PROVE  NamedInv(c)'
  <2>1. CASE c # read.job
    BY <1>0, <1>1, <1>3, <2>1 DEF DelInv, NamedInv, DelRemoving
  <2>2. CASE c = read.job
    <3>1. delJobs'[c].vms \subseteq delJobs[c].vms \ r
      BY <1>3, <2>2
    <3>2. NamedInv(c)
      BY DEF DelInv
    <3>3. \A q \in DelRemoving : \/ delJobs'[c].vms \cap q \subseteq delRaced[c]
                                 \/ \E copy \in delTodo'[q] : copy.job = c
      BY <1>1, <3>1, <3>2 DEF NamedInv, DelRemoving
    <3>. QED
      BY <1>0, <3>1, <3>2, <3>3 DEF NamedInv
  <2>. QED
    BY <2>1, <2>2
<1>7. \A c \in Creators \ {read.job} : TallyInv(c)'
  BY <1>3 DEF DelInv, TallyInv, DelExists
<1>. QED
  BY <1>4, <1>5, <1>6, <1>7 DEF DelInv

LEMMA ReqKeeps ==
  ASSUME DocTypes, RunTypes, DelInv, NEW r \in Deleters, DelReqStep(r)
  PROVE  DelInv'
<1>1. CASE DelLists(r)
  <2>1. /\ UNCHANGED <<delHosts, delMake, delJobs, delRun, delTodo, delRaced, delTorn>>
        /\ DelRemoving' = DelRemoving
    BY <1>1 DEF DelLists, DelRemoving, DocTypes
  <2>. QED
    BY <2>1 DEF DelInv, CopyInv, FoundInv, NamedInv, TallyInv, DelExists
<1>2. CASE DelReads(r)
  <2>. DEFINE copies == {[job |-> c, doc |-> delJobs[c]] :
                           c \in {d \in Creators : delJobs[d].vms \intersect r # {}}}
  <2>1. /\ delTodo'[r] = copies /\ \A q \in Deleters \ {r} : delTodo'[q] = delTodo[q]
        /\ UNCHANGED <<delHosts, delMake, delJobs, delRun, delTorn>>
        /\ DelRemoving' = DelRemoving \cup {r}
    BY <1>2 DEF DelReads, DelRemoving, DocTypes
  <2>2. /\ \A c \in Creators : delRaced[c] \subseteq delRaced'[c]
        /\ \A c \in Creators : delMake[c].at = "found" => delMake[c].vms \intersect r \subseteq delRaced'[c]
    BY <1>2 DEF DelReads
  <2>3. \A copy \in copies : /\ copy.job \in Creators /\ copy.doc = delJobs[copy.job]
                              /\ DelExists(copy.job)
    BY DEF DelExists
  <2>4. \A c \in Creators : delJobs[c].vms \intersect r # {} => \E copy \in copies : copy.job = c
    <3>1. ASSUME NEW c \in Creators, delJobs[c].vms \intersect r # {}
          PROVE  \E copy \in copies : copy.job = c
      <4>1. [job |-> c, doc |-> delJobs[c]] \in copies
        BY <3>1
      <4>. QED
        BY <4>1
    <3>. QED
      BY <3>1
  <2>. HIDE DEF copies
  <2>5. CopyInv'
    <3>1. \A copy \in copies : /\ delMake[copy.job].at = "made"
                                /\ copy.doc.version <= delJobs[copy.job].version
                                /\ copy.doc.vms = delJobs[copy.job].vms
      <4>1. \A c \in Creators : delJobs[c].version \in Nat
        BY DEF DocTypes, DelDocs
      <4>. QED
        BY <2>3, <4>1 DEF DelInv, CopyInv
    <3>2. \A q \in Deleters \ {r} : \A copy \in delTodo[q] :
            /\ delMake[copy.job].at = "made"
            /\ DelExists(copy.job) => /\ copy.doc.version <= delJobs[copy.job].version
                                      /\ copy.doc.version = delJobs[copy.job].version
                                           => copy.doc.vms = delJobs[copy.job].vms
      BY DEF DelInv, CopyInv
    <3>3. \A q \in Deleters : \A copy \in delTodo'[q] :
            /\ delMake'[copy.job].at = "made"
            /\ DelExists(copy.job)' => /\ copy.doc.version <= delJobs'[copy.job].version
                                       /\ copy.doc.version = delJobs'[copy.job].version
                                            => copy.doc.vms = delJobs'[copy.job].vms
      BY <2>1, <3>1, <3>2 DEF DelExists
    <3>4. \A c \in Creators : delMake'[c].at # "made" => ~DelExists(c)' /\ delRun'[c].at = "none"
      BY <2>1 DEF DelInv, CopyInv, DelExists
    <3>. QED
      BY <3>3, <3>4 DEF CopyInv
  <2>6. \A c \in Creators : FoundInv(c)'
    BY <2>1, <2>2 DEF DelInv, FoundInv
  <2>7. ASSUME NEW c \in Creators
        PROVE  NamedInv(c)'
    <3>1. NamedInv(c)
      BY DEF DelInv
    <3>2. \A q \in DelRemoving \ {r} : \/ delJobs[c].vms \cap q \subseteq delRaced'[c]
                                       \/ \E copy \in delTodo'[q] : copy.job = c
      BY <2>1, <2>2, <3>1 DEF NamedInv, DelRemoving
    <3>3. \/ delJobs[c].vms \cap r \subseteq delRaced'[c]
          \/ \E copy \in delTodo'[r] : copy.job = c
      BY <2>1, <2>4
    <3>4. delJobs'[c].vms \ delHosts' \subseteq delRaced'[c]
      BY <2>1, <2>2, <3>1 DEF NamedInv
    <3>. QED
      BY <2>1, <3>2, <3>3, <3>4 DEF NamedInv
  <2>8. \A c \in Creators : TallyInv(c)'
    BY <2>1 DEF DelInv, TallyInv, DelExists
  <2>. QED
    BY <2>5, <2>6, <2>7, <2>8 DEF DelInv
<1>3. CASE DelUpdates(r)
  <2>1. PICK read \in delTodo[r] :
          /\ DelExists(read.job) /\ delJobs[read.job].version = read.doc.version
          /\ delJobs' = [delJobs EXCEPT ![read.job] =
                           DelSaved(read.doc, read.doc.vms \ r, delJobs[read.job])]
          /\ delTorn' = IF DelTally(delJobs[read.job]) = DelTally(read.doc) THEN delTorn
                        ELSE delTorn \cup {read.job}
          /\ delTodo' = [delTodo EXCEPT ![r] = @ \ {read}]
    BY <1>3 DEF DelUpdates
  <2>. DEFINE stored == delJobs[read.job]
              saved == DelSaved(read.doc, read.doc.vms \ r, stored)
  <2>2. read \in DelCopies
    BY DEF DocTypes
  <2>3. read.job \in Creators /\ read.doc \in DelDocs
    BY <2>2 DEF DelCopies
  <2>4. stored \in DelDocs /\ (read.doc.vms \ r) \in SUBSET Hosts
    BY <2>3 DEF DocTypes, DelDocs
  <2>5. /\ saved \in DelDocs /\ saved.vms = read.doc.vms \ r
        /\ saved.version = stored.version + 1 /\ saved.done = stored.done
        /\ DelTally(stored) = DelTally(read.doc) =>
             saved.percent = 0 \/ saved.percent = DelPercent(saved.done, saved.total)
    BY <2>3, <2>4, DocSaved
  <2>6. read.doc.vms = stored.vms
    BY <2>1 DEF DelInv, CopyInv
  <2>7. delJobs'[read.job] = saved
    BY <2>1, <2>3 DEF DocTypes
  <2>8. stored.version \in Nat
    BY <2>4 DEF DelDocs
  <2>9. /\ r \in DelRemoving
        /\ UNCHANGED <<delHosts, delMake, delRun, delReq, delRaced>>
    BY <1>3 DEF DelUpdates, DelRemoving
  <2>10. delJobs' = [delJobs EXCEPT ![read.job] = saved]
    BY <2>1
  <2>. HIDE DEF saved
  <2>11. TallyInv(read.job)'
    <3>1. TallyInv(read.job)
      BY <2>3 DEF DelInv
    <3>2. DelTally(stored) # DelTally(read.doc) => read.job \in delTorn'
      BY <2>1
    <3>. HIDE DEF stored
    <3>3. stored = delJobs[read.job]
      BY DEF stored
    <3>. QED
      BY <2>1, <2>5, <2>7, <2>9, <3>1, <3>2, <3>3 DEF TallyInv, DelExists
  <2>12. /\ saved.vms \subseteq delJobs[read.job].vms \ r
         /\ saved.version > delJobs[read.job].version
    BY <2>5, <2>6, <2>8
  <2>13. \A c \in Creators : c # read.job /\ c \in delTorn => c \in delTorn'
    BY <2>1
  <2>. QED
    BY <2>1, <2>5, <2>9, <2>10, <2>11, <2>12, <2>13, DealtWith
<1>4. CASE DelRemovesJob(r)
  <2>1. PICK read \in delTodo[r] :
          /\ delJobs' = [delJobs EXCEPT ![read.job] = NoDoc]
          /\ delTodo' = [delTodo EXCEPT ![r] = @ \ {read}]
    BY <1>4 DEF DelRemovesJob
  <2>2. read \in DelCopies
    BY DEF DocTypes
  <2>3. /\ read.job \in Creators /\ NoDoc \in DelDocs /\ NoDoc.vms = {} /\ r \in DelRemoving
        /\ UNCHANGED <<delHosts, delMake, delRun, delReq, delRaced, delTorn>>
    BY <1>4, <2>2, NoDocTyped DEF DelRemovesJob, DelCopies, NoDoc, DelJob, DelRemoving
  <2>4. TallyInv(read.job)'
    <3>1. delJobs'[read.job] = NoDoc
      BY <2>1, <2>3 DEF DocTypes
    <3>. QED
      BY <2>3, <3>1 DEF DelInv, TallyInv, DelExists
  <2>. QED
    BY <2>1, <2>3, <2>4, DealtWith
<1>5. CASE DelDeletes(r)
  <2>1. /\ UNCHANGED <<delMake, delJobs, delRun, delTodo, delRaced, delTorn>>
        /\ delHosts' = delHosts \ r /\ delTodo[r] = {} /\ r \in DelRemoving
        /\ DelRemoving' \subseteq DelRemoving
    BY <1>5 DEF DelDeletes, DelRemoving, DocTypes
  <2>2. CopyInv' /\ \A c \in Creators : TallyInv(c)'
    BY <2>1 DEF DelInv, CopyInv, TallyInv, DelExists
  <2>3. ASSUME NEW c \in Creators
        PROVE  FoundInv(c)' /\ NamedInv(c)'
    <3>1. FoundInv(c) /\ NamedInv(c)
      BY DEF DelInv
    <3>2. FoundInv(c)'
      BY <2>1, <3>1 DEF FoundInv
    <3>3. delJobs[c].vms \cap r \subseteq delRaced[c]
      BY <2>1, <3>1 DEF NamedInv
    <3>4. NamedInv(c)'
      BY <2>1, <3>1, <3>3 DEF NamedInv
    <3>. QED
      BY <3>2, <3>4
  <2>. QED
    BY <2>2, <2>3 DEF DelInv
<1>6. CASE DelFails(r)
  <2>1. /\ UNCHANGED <<delHosts, delMake, delJobs, delRun, delRaced, delTorn>>
        /\ delTodo'[r] = {} /\ \A q \in Deleters \ {r} : delTodo'[q] = delTodo[q]
        /\ DelRemoving' = DelRemoving \ {r}
    BY <1>6 DEF DelFails, DelRemoving, DocTypes
  <2>2. CopyInv'
    BY <2>1 DEF DelInv, CopyInv, DelExists
  <2>3. \A c \in Creators : TallyInv(c)' /\ FoundInv(c)'
    BY <2>1 DEF DelInv, TallyInv, FoundInv, DelExists
  <2>4. \A c \in Creators : NamedInv(c)'
    <3>1. DelRemoving \ {r} \subseteq Deleters \ {r}
      BY DEF DelRemoving
    <3>. QED
      BY <2>1, <3>1 DEF DelInv, NamedInv
  <2>. QED
    BY <2>2, <2>3, <2>4 DEF DelInv
<1>. QED
  BY <1>1, <1>2, <1>3, <1>4, <1>5, <1>6 DEF DelReqStep

(* No job names an endpoint that was deleted, unless it was created while    *)
(* the endpoint was being deleted; what the run counted stays counted; and   *)
(* the percentage goes with the tally, unless a deletion computed it from    *)
(* one the run has overtaken or endpoints were cancelled (vmCleanup.js:6-60, *)
(* deploymentService.js:61-78, 126-145), for every fleet, any creations and  *)
(* any deletions, however they overlap.                                      *)
THEOREM JobsFollowDeletionsHolds == DelSpec => []JobsFollowDeletions
<1>. DEFINE Inv == DocTypes /\ RunTypes /\ DelInv
<1>1. DelInit => Inv
  <2>1. SUFFICES ASSUME DelInit PROVE DelInv
    BY DelTypesBegin
  <2>2. NoRun.at = "none" /\ NoRun.left = {} /\ NoRun.done = 0 /\ NoRun.passed = 0
    BY DEF NoRun
  <2>3. NoDoc.vms = {}
    BY DEF NoDoc, DelJob
  <2>4. \A c \in Creators : delMake[c].at = "idle" /\ delJobs[c] = NoDoc /\ delRun[c] = NoRun
    BY <2>1 DEF DelInit
  <2>5. \A r \in Deleters : delTodo[r] = {}
    BY <2>1 DEF DelInit
  <2>6. DelRemoving = {}
    BY <2>1 DEF DelInit, DelRemoving
  <2>7. CopyInv
    BY <2>2, <2>3, <2>4, <2>5 DEF CopyInv, DelExists
  <2>8. \A c \in Creators : FoundInv(c) /\ NamedInv(c) /\ TallyInv(c)
    BY <2>2, <2>3, <2>4, <2>6 DEF FoundInv, NamedInv, TallyInv, DelExists
  <2>. QED
    BY <2>7, <2>8 DEF DelInv
<1>2. Inv /\ [DelNext]_delVars => Inv'
  <2>1. ASSUME Inv, UNCHANGED delVars PROVE DelInv'
    <3>1. DelRemoving' = DelRemoving
      BY <2>1 DEF delVars, DelRemoving
    <3>. QED
      BY <2>1, <3>1 DEF delVars, DelInv, CopyInv, FoundInv, NamedInv, TallyInv, DelExists
  <2>2. ASSUME Inv, DelNext PROVE DelInv'
    BY <2>2, MakeKeeps, RunKeeps, ReqKeeps DEF DelNext
  <2>. QED
    BY <2>1, <2>2, DelTypesKept
<1>3. Inv => JobsFollowDeletions
  BY DEF DelInv, NamedInv, TallyInv, JobsFollowDeletions
<1>. QED
  BY <1>1, <1>2, <1>3, PTL DEF DelSpec

-----------------------------------------------------------------------------
(* The activity log: for every limit, and any number of writes and of        *)
(* requests that end the session.                                            *)

Excess == Cardinality(trLog) - MaxLogs

(* A write that will take the log back to its limit by itself: it is still to *)
(* count, has counted enough, or is about to delete enough of what is there. *)
Covers(w) ==
  \/ w.at = "counting"
  \/ w.at = "looking" /\ w.trim \in Nat /\ Excess <= w.trim
  \/ w.at = "deleting" /\ Excess <= Cardinality(w.old \cap trLog)

TrailInv ==
  /\ IsFiniteSet(trLog)
  /\ Excess > 0 => \E w \in trWriters : Covers(w)

(* The session is gone once a request has written that it ended. *)
EndsInv ==
  /\ trEnds # {} => trSessions = "gone"
  /\ SessionEndsOnce

LEMMA LogIsCounted ==
  ASSUME TrailInv
  PROVE  Cardinality(trLog) \in Nat /\ Excess \in Int /\ MaxLogs \in Nat
BY TrailAssumption, FS_CardinalityType DEF TrailInv, Excess

LEMMA TrStoresKeeps ==
  ASSUME TrailInv, TrStores
  PROVE  TrailInv'
<1>1. trLog' = trLog \cup {trNext} /\ [entry |-> trNext, at |-> "counting"] \in trWriters'
  BY DEF TrStores
<1>2. IsFiniteSet(trLog')
  BY <1>1, FS_AddElement DEF TrailInv
<1>3. \E w \in trWriters' : Covers(w)'
  BY <1>1 DEF Covers
<1>. QED
  BY <1>2, <1>3 DEF TrailInv

(* Another write takes entries away: who covered the excess still does. *)
LEMMA DeletionSparesCover ==
  ASSUME TrailInv, NEW w, Covers(w), NEW old, trLog' = trLog \ old
  PROVE  Covers(w)'
<1>1. /\ IsFiniteSet(trLog') /\ IsFiniteSet(trLog \cap old)
      /\ Cardinality(trLog') = Cardinality(trLog) - Cardinality(trLog \cap old)
      /\ Cardinality(trLog \cap old) \in Nat /\ Cardinality(trLog') \in Nat
  BY FS_Difference, FS_Subset, FS_CardinalityType DEF TrailInv
<1>2. Excess' = Excess - Cardinality(trLog \cap old) /\ Excess' \in Int /\ Excess \in Int
  BY <1>1, LogIsCounted DEF Excess
<1>3. CASE w.at = "deleting" /\ Excess <= Cardinality(w.old \cap trLog)
  <2>. DEFINE mine == w.old \cap trLog
              left == w.old \cap trLog'
  <2>1. IsFiniteSet(mine) /\ left = mine \ old
    BY FS_Subset DEF TrailInv
  <2>2. /\ Cardinality(left) = Cardinality(mine) - Cardinality(mine \cap old)
        /\ Cardinality(mine) \in Nat /\ Cardinality(mine \cap old) \in Nat
    BY <2>1, FS_Difference, FS_Subset, FS_CardinalityType
  <2>3. Cardinality(mine \cap old) <= Cardinality(trLog \cap old)
    BY <1>1, FS_Subset
  <2>4. Excess <= Cardinality(mine)
    BY <1>3
  <2>. HIDE DEF mine, left
  <2>5. Excess' <= Cardinality(left)
    BY <1>1, <1>2, <2>2, <2>3, <2>4
  <2>. QED
    BY <1>3, <2>5 DEF Covers, left
<1>4. CASE w.at = "looking" /\ w.trim \in Nat /\ Excess <= w.trim
  BY <1>1, <1>2, <1>4 DEF Covers
<1>5. CASE w.at = "counting"
  BY <1>5 DEF Covers
<1>. QED
  BY <1>3, <1>4, <1>5 DEF Covers

LEMMA TrCountsKeeps ==
  ASSUME TrailInv, NEW w \in trWriters, TrCounts(w)
  PROVE  TrailInv'
<1>1. UNCHANGED trLog
  BY DEF TrCounts
<1>2. Excess' = Excess /\ \A v : Covers(v)' = Covers(v)
  BY <1>1 DEF Excess, Covers
<1>3. CASE Excess <= 0
  BY <1>1, <1>2, <1>3, LogIsCounted DEF TrailInv
<1>4. CASE Excess > 0
  <2>. DEFINE v == [entry |-> w.entry, at |-> "looking", trim |-> Cardinality(trLog) - MaxLogs]
  <2>1. ~ (Cardinality(trLog) <= MaxLogs)
    BY <1>4, LogIsCounted DEF Excess
  <2>2. v \in trWriters'
    BY <2>1 DEF TrCounts, TrMoves
  <2>3. v.at = "looking" /\ v.trim = Excess
    BY DEF Excess
  <2>4. Excess \in Nat
    BY <1>4, LogIsCounted
  <2>. HIDE DEF v
  <2>5. Covers(v)
    BY <2>3, <2>4 DEF Covers
  <2>. QED
    BY <1>1, <1>2, <2>2, <2>5 DEF TrailInv
<1>. QED
  BY <1>3, <1>4, LogIsCounted

LEMMA TrLooksKeeps ==
  ASSUME TrailInv, NEW w \in trWriters, TrLooks(w)
  PROVE  TrailInv'
<1>1. UNCHANGED trLog
  BY DEF TrLooks
<1>2. Excess' = Excess /\ \A v : Covers(v)' = Covers(v)
  BY <1>1 DEF Excess, Covers
<1>3. PICK old \in TrOldest(w.trim) :
        TrMoves(w, {[entry |-> w.entry, at |-> "deleting", old |-> old]})
  BY DEF TrLooks
<1>. DEFINE new == [entry |-> w.entry, at |-> "deleting", old |-> old]
<1>4. new \in trWriters' /\ \A v \in trWriters \ {w} : v \in trWriters'
  BY <1>3 DEF TrMoves
<1>5. new.at = "deleting" /\ new.old = old
  OBVIOUS
<1>6. ASSUME Covers(w) PROVE Covers(new)
  <2>1. w.trim \in Nat /\ Excess <= w.trim
    BY <1>6 DEF Covers, TrLooks
  <2>2. /\ old \cap trLog = old
        /\ Cardinality(old) = IF w.trim < Cardinality(trLog) THEN w.trim ELSE Cardinality(trLog)
    BY <1>3 DEF TrOldest
  <2>3. Excess <= Cardinality(old)
    BY <2>1, <2>2, LogIsCounted DEF Excess
  <2>. HIDE DEF new
  <2>. QED
    BY <1>5, <2>2, <2>3 DEF Covers
<1>. HIDE DEF new
<1>. QED
  BY <1>1, <1>2, <1>4, <1>6 DEF TrailInv

LEMMA TrDeletesKeeps ==
  ASSUME TrailInv, NEW w \in trWriters, TrDeletes(w)
  PROVE  TrailInv'
<1>1. /\ trLog' = trLog \ w.old /\ w.at = "deleting"
      /\ \A v \in trWriters \ {w} : v \in trWriters'
  BY DEF TrDeletes, TrMoves
<1>2. /\ IsFiniteSet(trLog')
      /\ Cardinality(trLog') = Cardinality(trLog) - Cardinality(trLog \cap w.old)
      /\ Cardinality(trLog \cap w.old) \in Nat
  BY <1>1, FS_Difference, FS_Subset, FS_CardinalityType DEF TrailInv
<1>3. Excess' = Excess - Cardinality(trLog \cap w.old)
  BY <1>2, LogIsCounted DEF Excess
<1>4. CASE Excess <= 0
  BY <1>2, <1>3, <1>4, LogIsCounted DEF TrailInv
<1>5. CASE Excess > 0
  <2>1. PICK v \in trWriters : Covers(v)
    BY <1>5 DEF TrailInv
  <2>2. CASE v = w
    <3>1. Excess <= Cardinality(trLog \cap w.old)
      <4>1. w.old \cap trLog = trLog \cap w.old
        OBVIOUS
      <4>. QED
        BY <1>1, <2>1, <2>2, <4>1 DEF Covers
    <3>. QED
      BY <1>2, <1>3, <3>1, LogIsCounted DEF TrailInv
  <2>3. CASE v # w
    BY <1>1, <1>2, <2>1, <2>3, DeletionSparesCover DEF TrailInv
  <2>. QED
    BY <2>2, <2>3
<1>. QED
  BY <1>4, <1>5, LogIsCounted

LEMMA TrailKeeps ==
  ASSUME TrailInv, [TrNextStep]_trVars
  PROVE  TrailInv'
<1>1. CASE UNCHANGED <<trLog, trWriters>>
  BY <1>1 DEF TrailInv, Excess, Covers
<1>2. TrLaunches => TrStores
  BY DEF TrLaunches
<1>3. TrSessionTimesOut => UNCHANGED <<trLog, trWriters>>
  BY DEF TrSessionTimesOut
<1>4. ASSUME NEW e \in Enders, TrEndsSession(e)
      PROVE  UNCHANGED <<trLog, trWriters>> \/ TrStores
  BY <1>4 DEF TrEndsSession
<1>5. UNCHANGED trVars => UNCHANGED <<trLog, trWriters>>
  BY DEF trVars
<1>. QED
  BY <1>1, <1>2, <1>3, <1>4, <1>5, TrStoresKeeps, TrCountsKeeps, TrLooksKeeps, TrDeletesKeeps
  DEF TrNextStep

LEMMA EndsKept ==
  ASSUME EndsInv, [TrNextStep]_trVars
  PROVE  EndsInv'
<1>1. CASE UNCHANGED <<trSessions, trEnds>>
  BY <1>1 DEF EndsInv, SessionEndsOnce
<1>2. CASE TrLaunches \/ TrSessionTimesOut
  BY <1>2 DEF TrLaunches, TrSessionTimesOut, EndsInv, SessionEndsOnce
<1>3. ASSUME NEW e \in Enders, TrEndsSession(e)
      PROVE  EndsInv'
  <2>1. CASE trSessions = "gone"
    BY <1>3, <2>1 DEF TrEndsSession, EndsInv, SessionEndsOnce
  <2>2. CASE trSessions # "gone"
    <3>1. trEnds' = {e} /\ trSessions' = "gone"
      BY <1>3, <2>2 DEF TrEndsSession, EndsInv
    <3>2. Cardinality(trEnds') = 1
      BY <3>1, FS_Singleton
    <3>. QED
      BY <3>1, <3>2 DEF EndsInv, SessionEndsOnce
  <2>. QED
    BY <2>1, <2>2
<1>4. ASSUME NEW w \in trWriters, TrCounts(w) \/ TrLooks(w) \/ TrDeletes(w)
      PROVE  UNCHANGED <<trSessions, trEnds>>
  BY <1>4 DEF TrCounts, TrLooks, TrDeletes, trDesktop
<1>. QED
  BY <1>1, <1>2, <1>3, <1>4 DEF TrNextStep, trVars, trDesktop

(* When no write is under way the log is within its limit, although writes   *)
(* store, count and trim at the same time (activityLog.js:5-34); and one     *)
(* request at most writes that a desktop session ended (remoteDesktop.js).   *)
THEOREM TrailKeptHolds == TrSpec => []TrailKept
<1>1. TrInit => TrailInv /\ EndsInv
  BY FS_EmptySet, TrailAssumption DEF TrInit, TrailInv, EndsInv, Excess, SessionEndsOnce
<1>2. TrailInv /\ EndsInv /\ [TrNextStep]_trVars => TrailInv' /\ EndsInv'
  BY TrailKeeps, EndsKept
<1>3. TrailInv /\ EndsInv => TrailKept
  BY LogIsCounted DEF TrailInv, EndsInv, TrailKept, TrailIsTrimmed, Excess
<1>. QED
  BY <1>1, <1>2, <1>3, PTL DEF TrSpec

(* Numbers are given out in order, and a write is at one of its three calls. *)
TrailTypes ==
  /\ trNext \in Nat \ {0} /\ trLog \subseteq 1 .. (trNext - 1)
  /\ \A w \in trWriters : w.at \in {"counting", "looking", "deleting"}
  /\ trSessions \in {"new", "open", "gone"} /\ trEnds \subseteq Enders

LEMMA TrailTypesKept ==
  ASSUME TrailTypes, [TrNextStep]_trVars
  PROVE  TrailTypes'
<1>. DEFINE Log == /\ trNext' \in Nat \ {0} /\ trLog' \subseteq 1 .. (trNext' - 1)
                   /\ \A w \in trWriters' : w.at \in {"counting", "looking", "deleting"}
            Ends == trSessions' \in {"new", "open", "gone"} /\ trEnds' \subseteq Enders
<1>1. ASSUME TrStores
      PROVE  Log
  <2>1. [entry |-> trNext, at |-> "counting"].at = "counting"
    OBVIOUS
  <2>. QED
    BY <1>1, <2>1 DEF TrStores, TrailTypes
<1>2. UNCHANGED <<trLog, trNext, trWriters>> => Log
  BY DEF TrailTypes
<1>3. UNCHANGED trDesktop => Ends
  BY DEF trDesktop, TrailTypes
<1>4. ASSUME NEW w \in trWriters, TrCounts(w)
      PROVE  Log /\ Ends
  <2>1. \A v \in trWriters' : v \in trWriters \/ v.at = "looking"
    BY <1>4 DEF TrCounts, TrMoves
  <2>. QED
    BY <1>3, <1>4, <2>1 DEF TrCounts, TrailTypes
<1>5. ASSUME NEW w \in trWriters, TrLooks(w)
      PROVE  Log /\ Ends
  <2>1. \A v \in trWriters' : v \in trWriters \/ v.at = "deleting"
    BY <1>5 DEF TrLooks, TrMoves
  <2>. QED
    BY <1>3, <1>5, <2>1 DEF TrLooks, TrailTypes
<1>6. ASSUME NEW w \in trWriters, TrDeletes(w)
      PROVE  Log /\ Ends
  BY <1>3, <1>6 DEF TrDeletes, TrMoves, TrailTypes
<1>7. CASE TrLaunches \/ TrSessionTimesOut
  <2>1. Ends
    BY <1>7 DEF TrLaunches, TrSessionTimesOut, TrailTypes
  <2>2. Log
    BY <1>1, <1>2, <1>7 DEF TrLaunches, TrSessionTimesOut
  <2>. QED
    BY <2>1, <2>2 DEF TrailTypes
<1>8. ASSUME NEW e \in Enders, TrEndsSession(e)
      PROVE  Log /\ Ends
  <2>1. Ends
    BY <1>8 DEF TrEndsSession, TrailTypes
  <2>2. Log
    BY <1>1, <1>2, <1>8 DEF TrEndsSession
  <2>. QED
    BY <2>1, <2>2
<1>9. UNCHANGED trVars => Log /\ Ends
  BY <1>2, <1>3 DEF trVars, trDesktop
<1>10. Log /\ Ends => TrailTypes'
  BY DEF TrailTypes
<1>. QED
  BY <1>1, <1>3, <1>4, <1>5, <1>6, <1>7, <1>8, <1>9, <1>10 DEF TrNextStep

(* Entries of the log are entries that were written, and who wrote that a    *)
(* session ended had asked to end it (activityLog.js, remoteDesktop.js).     *)
THEOREM TrailTypesHold == TrSpec => []TrTypeOK
<1>1. TrInit => TrailTypes
  BY DEF TrInit, TrailTypes
<1>2. TrailTypes /\ [TrNextStep]_trVars => TrailTypes'
  BY TrailTypesKept
<1>3. TrailTypes => TrTypeOK
  BY DEF TrailTypes, TrTypeOK
<1>. QED
  BY <1>1, <1>2, <1>3, PTL DEF TrSpec

-----------------------------------------------------------------------------
(* What the portal shows of a synchronisation: for every number of runs, of  *)
(* clicks and of lost events.                                                *)
Events == {"sync:start", "sync:progress", "sync:complete"}

ServerTypes ==
  /\ viewRun \in {"none", "shown", "quiet"} /\ viewPhase \in Phases
  /\ viewPost \in {"none", "sent", "done"} /\ viewStamp \in Nat
PageTypes == viewSyncing \in BOOLEAN /\ viewManual \in BOOLEAN
EventTypes == viewNews \in Seq(Events) /\ viewUnheard \in BOOLEAN

(* An answer tells of a run exactly when it has a figure of one, and never   *)
(* of more successes than there were: lastSyncAt only grows.                 *)
AnswerTypes ==
  \A s \in viewAnswers : /\ s.running = (s.figure # "none")
                         /\ s.stamp \in Nat /\ s.stamp <= viewStamp

LEMMA StatusTyped ==
  ASSUME ServerTypes, NEW by
  PROVE  /\ Status(by).running = (Status(by).figure # "none")
         /\ Status(by).stamp = viewStamp
BY DEF Status, Running, ServerTypes, Phases

LEMMA EmitsTyped ==
  ASSUME EventTypes, NEW event \in Events, NEW failed \in BOOLEAN, Emits(event, failed)
  PROVE  EventTypes'
<1>1. viewNews' \in {viewNews, Append(viewNews, event), <<>>}
  BY DEF Emits
<1>2. Append(viewNews, event) \in Seq(Events) /\ <<>> \in Seq(Events)
  BY DEF EventTypes
<1>3. viewNews' \in Seq(Events)
  BY <1>1, <1>2 DEF EventTypes
<1>4. viewUnheard' = viewUnheard \/ viewUnheard' = (viewUnheard \/ failed)
  BY DEF Emits
<1>5. viewUnheard' \in BOOLEAN
  BY <1>4 DEF EventTypes
<1>. QED
  BY <1>3, <1>5 DEF EventTypes

(* The backend's steps. *)
LEMMA ServerKeepsTypes ==
  ASSUME ServerTypes, EventTypes, AnswerTypes,
         ViewStarts \/ ViewOvertaken \/ ViewRunStep \/ ViewRunFails \/ ViewAccepts
  PROVE  ServerTypes' /\ EventTypes' /\ AnswerTypes' /\ UNCHANGED viewPage
<1>1. ServerTypes'
  <2>1. CASE ViewStarts \/ ViewOvertaken
    <3>1. viewPhase' = "opening" /\ viewRun' \in {"quiet", viewRun}
      BY <2>1 DEF ViewStarts, ViewOvertaken
    <3>2. viewPost' = viewPost /\ viewStamp' = viewStamp
      BY <2>1 DEF ViewStarts, ViewOvertaken, viewRequest
    <3>. QED
      BY <3>1, <3>2 DEF ServerTypes, Phases
  <2>2. CASE ViewRunStep
    <3>1. /\ viewPhase' \in {"working", "stamped", "told", "idle"}
          /\ viewStamp' \in {viewStamp, viewStamp + 1}
      BY <2>2 DEF ViewRunStep
    <3>2. viewRun' \in {"none", viewRun} /\ viewPost' = viewPost
      BY <2>2 DEF ViewRunStep, viewRequest
    <3>. QED
      BY <3>1, <3>2 DEF ServerTypes, Phases
  <2>3. CASE ViewRunFails
    BY <2>3 DEF ServerTypes, Phases, ViewRunFails, viewRequest
  <2>4. CASE ViewAccepts
    BY <2>4 DEF ServerTypes, Phases, ViewAccepts
  <2>. QED
    BY <2>1, <2>2, <2>3, <2>4
<1>2. AnswerTypes'
  <2>1. viewAnswers' = viewAnswers /\ viewStamp' \in {viewStamp, viewStamp + 1}
    BY DEF ViewStarts, ViewOvertaken, ViewRunStep, ViewRunFails, ViewAccepts, viewWire
  <2>. QED
    BY <2>1 DEF AnswerTypes, ServerTypes
<1>3. UNCHANGED viewPage
  BY DEF ViewStarts, ViewOvertaken, ViewRunStep, ViewRunFails, ViewAccepts
<1>4. EventTypes'
  <2>1. \/ \E event \in Events, failed \in BOOLEAN : Emits(event, failed)
        \/ UNCHANGED <<viewNews, viewUnheard>>
    BY DEF ViewStarts, ViewOvertaken, ViewRunStep, ViewRunFails, ViewAccepts, viewWire, Events
  <2>. QED
    BY <2>1, EmitsTyped DEF EventTypes
<1>. QED
  BY <1>1, <1>2, <1>3, <1>4

(* The page's steps. *)
LEMMA PageKeepsTypes ==
  ASSUME ServerTypes, PageTypes, EventTypes, AnswerTypes,
         syncNow \/ ViewPostReturns \/ ViewPolls \/ ViewApplies \/ ViewHears
  PROVE  ServerTypes' /\ PageTypes' /\ EventTypes' /\ AnswerTypes'
<1>1. ServerTypes'
  BY DEF ServerTypes, syncNow, ViewPostReturns, ViewPolls, ViewApplies, ViewHears, viewServer,
     viewRequest
<1>2. viewStamp' = viewStamp
  BY DEF syncNow, ViewPostReturns, ViewPolls, ViewApplies, ViewHears, viewServer
<1>3. AnswerTypes'
  <2>1. \A s \in viewAnswers' : s \in viewAnswers \/ s = Status("poll")
    BY DEF syncNow, ViewPostReturns, ViewPolls, ViewApplies, ViewHears, viewWire
  <2>. QED
    BY <1>2, <2>1, StatusTyped DEF AnswerTypes, ServerTypes
<1>4. EventTypes'
  <2>1. viewUnheard' = viewUnheard
    BY DEF syncNow, ViewPostReturns, ViewPolls, ViewApplies, ViewHears
  <2>2. viewNews' = viewNews \/ (viewNews # <<>> /\ viewNews' = Tail(viewNews))
    BY DEF syncNow, ViewPostReturns, ViewPolls, ViewApplies, ViewHears, viewWire
  <2>3. viewNews' \in Seq(Events)
    BY <2>2 DEF EventTypes
  <2>. QED
    BY <2>1, <2>3 DEF EventTypes
<1>5. PageTypes'
  <2>1. CASE ViewHears
    <3>1. viewSyncing' \in BOOLEAN
      BY <2>1 DEF ViewHears
    <3>. QED
      BY <2>1, <3>1 DEF ViewHears, PageTypes
  <2>2. ASSUME NEW s \in viewAnswers, applyStatus(s)
        PROVE  PageTypes'
    <3>1. UNCHANGED viewPage => PageTypes'
      BY DEF viewPage, PageTypes
    <3>2. ASSUME viewSyncing' = (s.running /\ (s.ui \/ viewManual)),
                 viewManual' = (s.running /\ viewManual)
          PROVE  PageTypes'
      BY <3>2 DEF PageTypes
    <3>. QED
      BY <2>2, <3>1, <3>2 DEF applyStatus
  <2>3. CASE syncNow
    BY <2>3 DEF syncNow, PageTypes
  <2>4. CASE ViewPostReturns
    BY <2>4 DEF ViewPostReturns, PageTypes, viewPage
  <2>5. CASE ViewPolls
    BY <2>5 DEF ViewPolls, PageTypes, viewPage
  <2>6. CASE ViewApplies
    <3>1. UNCHANGED viewPage \/ \E s \in viewAnswers : applyStatus(s)
      BY <2>6 DEF ViewApplies
    <3>. QED
      BY <2>2, <3>1 DEF viewPage, PageTypes
  <2>. QED
    BY <2>1, <2>3, <2>4, <2>5, <2>6
<1>. QED
  BY <1>1, <1>3, <1>4, <1>5

(* An answer on its way to the page tells of a run exactly when it has its   *)
(* figures and is never ahead of the backend, however polls, events and runs *)
(* overtake each other (SyncContext.jsx:46-156).                             *)
THEOREM ViewTypesHold == ViewSpec => []ViewTypeOK
<1>. DEFINE Types == ServerTypes /\ PageTypes /\ EventTypes /\ AnswerTypes
<1>1. ViewInit => Types
  <2> SUFFICES ASSUME ViewInit PROVE Types
    OBVIOUS
  <2>1. ServerTypes /\ PageTypes
    BY DEF ViewInit, ServerTypes, PageTypes, Phases
  <2>2. <<>> \in Seq(Events)
    OBVIOUS
  <2>3. EventTypes
    BY <2>2 DEF ViewInit, EventTypes
  <2>4. AnswerTypes
    BY <2>1, StatusTyped DEF ViewInit, AnswerTypes, ServerTypes
  <2>. QED
    BY <2>1, <2>3, <2>4
<1>2. Types /\ [ViewNext]_viewVars => Types'
  <2> SUFFICES ASSUME Types, [ViewNext]_viewVars PROVE Types'
    OBVIOUS
  <2>1. UNCHANGED viewPage => PageTypes'
    BY DEF viewPage, PageTypes
  <2>2. CASE UNCHANGED viewVars
    BY <2>2 DEF viewVars, viewServer, viewWire, viewRequest, viewPage, ServerTypes, PageTypes,
       EventTypes, AnswerTypes
  <2>. QED
    BY <2>1, <2>2, ServerKeepsTypes, PageKeepsTypes DEF ViewNext
<1>3. Types => ViewTypeOK
  <2> SUFFICES ASSUME Types PROVE ViewTypeOK
    OBVIOUS
  <2>1. \A i \in DOMAIN viewNews : viewNews[i] \in Events
    BY DEF EventTypes
  <2>. QED
    BY <2>1 DEF ServerTypes, PageTypes, EventTypes, AnswerTypes, Events, ViewTypeOK
<1>. QED
  BY <1>1, <1>2, <1>3, PTL DEF ViewSpec

-----------------------------------------------------------------------------
(* The query hook: for every number of retries, of reloads and of changes.   *)

CallRecords == [id : Nat, key : Nat, at : {"asking", "sleeping"}, tries : Nat, dead : BOOLEAN]
DataRecords == [key : Nat, call : Nat, full : BOOLEAN]

(* No call is newer than the counter. *)
CountInv ==
  /\ qEnabled \in BOOLEAN /\ qError \in BOOLEAN
  /\ qKey \in Nat /\ qRun \in Nat
  /\ qData \in DataRecords
  /\ \A c \in qCalls : c \in CallRecords /\ c.id <= qRun

(* A call with the number of the counter is alive and asks for what is       *)
(* wanted, and the answer of that number is awaited, shown, or an error.     *)
CurrentInv ==
  qEnabled =>
    /\ \A c \in qCalls : c.id = qRun => ~c.dead /\ c.key = qKey
    /\ qError \/ (\E c \in qCalls : c.id = qRun) \/ (qData.key = qKey /\ qData.call = qRun)

QueryInv == CountInv /\ CurrentInv

(* What reload does: every call there was is older than the new one. *)
LEMMA ReloadKeeps ==
  ASSUME QueryInv, NEW silent \in BOOLEAN, NEW key \in Nat, Reload(silent, key),
         qKey' = key, qEnabled' = TRUE
  PROVE  QueryInv'
<1>. DEFINE fresh == Call(qRun + 1, key)
<1>1. qRun' = qRun + 1 /\ qCalls' = Aborted \cup {fresh} /\ qError' = FALSE /\ qData' = qData
  BY DEF Reload
<1>2. \A c \in Aborted : c \in CallRecords /\ c.id <= qRun
  BY DEF Aborted, QueryInv, CountInv, CallRecords
<1>3. fresh \in CallRecords /\ fresh.id = qRun + 1 /\ ~fresh.dead /\ fresh.key = key
  BY DEF Call, CallRecords, QueryInv, CountInv
<1>. HIDE DEF fresh
<1>4. CountInv'
  <2>1. qRun \in Nat /\ qRun + 1 \in Nat
    BY DEF QueryInv, CountInv
  <2>2. \A c \in qCalls' : c \in CallRecords /\ c.id <= qRun + 1
    BY <1>1, <1>2, <1>3, <2>1 DEF CallRecords
  <2>. QED
    BY <1>1, <2>1, <2>2 DEF QueryInv, CountInv
<1>5. \A c \in qCalls' : c.id = qRun' => c = fresh
  BY <1>1, <1>2 DEF QueryInv, CountInv, CallRecords
<1>6. CurrentInv'
  BY <1>1, <1>3, <1>5 DEF CurrentInv
<1>. QED
  BY <1>4, <1>6 DEF QueryInv

(* The steps of a call: the call that is current stays, answers, or tells an *)
(* error; the others leave no trace.                                         *)
LEMMA CallStepKeeps ==
  ASSUME QueryInv, NEW c \in qCalls, QCallStep(c)
  PROVE  QueryInv'
<1>. DEFINE Rest == qCalls \ {c}
<1>0. UNCHANGED <<qEnabled, qKey, qRun>>
  BY DEF QCallStep, QTakes, QFails, QWakes
<1>1. c \in CallRecords /\ c.id <= qRun
  BY DEF QueryInv, CountInv
<1>2. ASSUME NEW next \in CallRecords, next.id = c.id, next.key = c.key, next.dead = c.dead,
             qCalls' = Rest \cup {next}, UNCHANGED <<qData, qError>>
      PROVE  QueryInv'
  <2>1. CountInv'
    BY <1>0, <1>1, <1>2 DEF QueryInv, CountInv
  <2>2. CurrentInv'
    BY <1>0, <1>1, <1>2 DEF QueryInv, CurrentInv
  <2>. QED
    BY <2>1, <2>2 DEF QueryInv
<1>3. ASSUME ~Current(c) \/ c.dead, qCalls' = Rest, UNCHANGED <<qData, qError>>
      PROVE  QueryInv'
  <2>1. CountInv'
    BY <1>0, <1>3 DEF QueryInv, CountInv
  <2>2. qEnabled => c.id # qRun
    BY <1>3 DEF QueryInv, CurrentInv, Current
  <2>3. CurrentInv'
    BY <1>0, <1>3, <2>2 DEF QueryInv, CurrentInv
  <2>. QED
    BY <2>1, <2>3 DEF QueryInv
<1>4. CASE QTakes(c)
  <2>1. qCalls' = Rest /\ qError' = qError
    BY <1>4 DEF QTakes
  <2>2. CASE ~Current(c) \/ c.dead
    BY <1>3, <1>4, <2>1, <2>2 DEF QTakes
  <2>3. CASE Current(c) /\ ~c.dead
    <3>1. PICK full \in BOOLEAN : qData' = [Results(c) EXCEPT !.full = full]
      BY <1>4, <2>3 DEF QTakes
    <3>2. qData' \in DataRecords /\ qData'.key = c.key /\ qData'.call = c.id
      BY <1>1, <3>1 DEF Results, DataRecords, CallRecords
    <3>3. CountInv'
      BY <1>0, <2>1, <3>2 DEF QueryInv, CountInv
    <3>4. CurrentInv'
      BY <1>0, <2>1, <2>3, <3>2 DEF QueryInv, CurrentInv, Current
    <3>. QED
      BY <3>3, <3>4 DEF QueryInv
  <2>. QED
    BY <2>2, <2>3
<1>5. CASE QFails(c)
  <2>1. qData' = qData
    BY <1>5 DEF QFails
  <2>2. CASE c.dead /\ ~Current(c) /\ qCalls' = Rest /\ UNCHANGED <<qError, qStatus>>
    BY <1>3, <2>1, <2>2
  <2>3. CASE qCalls' = Rest \cup {[c EXCEPT !.at = "sleeping"]} /\ UNCHANGED <<qError, qStatus>>
    <3>1. [c EXCEPT !.at = "sleeping"] \in CallRecords
      BY <1>1 DEF CallRecords
    <3>. DEFINE next == [c EXCEPT !.at = "sleeping"]
    <3>2. next.id = c.id /\ next.key = c.key /\ next.dead = c.dead
      BY <1>1 DEF CallRecords
    <3>. HIDE DEF next
    <3>. QED
      BY <1>2, <2>1, <2>3, <3>1, <3>2 DEF next
  <2>4. CASE QEndsInError(c)
    <3>1. qCalls' = Rest /\ qError' = (qError \/ Current(c))
      BY <2>4 DEF QEndsInError
    <3>2. qError' \in BOOLEAN
      BY <3>1
    <3>3. CountInv'
      BY <1>0, <2>1, <3>1, <3>2 DEF QueryInv, CountInv
    <3>4. CASE Current(c)
      <4>1. qError' = TRUE
        BY <3>1, <3>4
      <4>2. CurrentInv'
        BY <1>0, <2>1, <3>1, <4>1 DEF QueryInv, CurrentInv
      <4>. QED
        BY <3>3, <4>2 DEF QueryInv
    <3>5. CASE ~Current(c)
      <4>1. qError' = qError
        BY <3>1, <3>5 DEF QueryInv, CountInv
      <4>. QED
        BY <1>3, <2>1, <3>1, <3>5, <4>1
    <3>. QED
      BY <3>4, <3>5
  <2>. QED
    BY <1>5, <2>2, <2>3, <2>4 DEF QFails
<1>6. CASE QWakes(c)
  <2>1. UNCHANGED <<qData, qError>>
    BY <1>6 DEF QWakes
  <2>2. CASE c.dead
    BY <1>3, <1>6, <2>1, <2>2 DEF QWakes
  <2>3. CASE ~c.dead
    <3>. DEFINE next == [c EXCEPT !.at = "asking", !.tries = @ + 1]
    <3>1. next \in CallRecords /\ next.id = c.id /\ next.key = c.key /\ next.dead = c.dead
      <4>1. c.tries + 1 \in Nat
        BY <1>1 DEF CallRecords
      <4>2. next = [[c EXCEPT !.at = "asking"] EXCEPT !.tries = c.tries + 1]
        BY <1>1 DEF CallRecords
      <4>. QED
        BY <1>1, <4>1, <4>2 DEF CallRecords
    <3>2. qCalls' = Rest \cup {next}
      BY <1>6, <2>3 DEF QWakes
    <3>. HIDE DEF next
    <3>. QED
      BY <1>2, <2>1, <3>1, <3>2
  <2>. QED
    BY <2>2, <2>3
<1>. QED
  BY <1>4, <1>5, <1>6 DEF QCallStep

(* Whoever answers last, the newest call is awaited, shown or in error. *)
THEOREM QueryInvariant == QSpec => []QueryInv
<1>1. QInit => QueryInv
  <2>. SUFFICES ASSUME QInit PROVE QueryInv
    OBVIOUS
  <2>1. qData \in DataRecords
    <3>1. NoData \in DataRecords /\ [NoData EXCEPT !.full = TRUE] \in DataRecords
      BY DEF NoData, DataRecords
    <3>. QED
      BY <3>1 DEF QInit
  <2>2. \A i \in Nat : Call(i, 0) \in CallRecords /\ Call(i, 0).id = i /\ ~Call(i, 0).dead
                       /\ Call(i, 0).key = 0
    BY DEF Call, CallRecords
  <2>3. /\ qEnabled \in BOOLEAN /\ qError = FALSE /\ qKey = 0 /\ qRun \in Nat
        /\ qEnabled => qRun = 1
        /\ qCalls = {Call(i, 0) : i \in 1 .. qRun}
    BY DEF QInit
  <2>4. CountInv
    <3>1. \A i \in 1 .. qRun : i \in Nat /\ i <= qRun
      BY <2>3
    <3>2. \A c \in qCalls : c \in CallRecords /\ c.id <= qRun
      BY <2>2, <2>3, <3>1
    <3>. QED
      BY <2>1, <2>3, <3>2 DEF CountInv
  <2>5. CurrentInv
    BY <2>2, <2>3 DEF CurrentInv
  <2>. QED
    BY <2>4, <2>5 DEF QueryInv
<1>2. QueryInv /\ [QNext]_qVars => QueryInv'
  <2>. SUFFICES ASSUME QueryInv, [QNext]_qVars PROVE QueryInv'
    OBVIOUS
  <2>1. CASE QReload
    <3>1. qEnabled' = TRUE /\ qKey' = qKey /\ qKey \in Nat
      BY <2>1 DEF QReload, QueryInv, CountInv
    <3>. QED
      BY <2>1, <3>1, ReloadKeeps DEF QReload
  <2>2. CASE QKeyChanges
    <3>1. qKey' \in Nat /\ qEnabled' = qEnabled /\ qEnabled \in BOOLEAN /\ hasLoadedData \in BOOLEAN
      BY <2>2 DEF QKeyChanges, QueryInv, CountInv, hasLoadedData, DataRecords
    <3>2. CASE qEnabled
      BY <2>2, <3>1, <3>2, ReloadKeeps DEF QKeyChanges
    <3>3. CASE ~qEnabled
      <4>1. qError' = FALSE /\ UNCHANGED <<qRun, qCalls, qData>>
        BY <2>2, <3>3 DEF QKeyChanges
      <4>. QED
        BY <3>1, <3>3, <4>1 DEF QueryInv, CountInv, CurrentInv
    <3>. QED
      BY <3>2, <3>3
  <2>3. CASE QDisables
    <3>1. \A c \in Aborted : c \in CallRecords /\ c.id <= qRun
      BY DEF Aborted, QueryInv, CountInv, CallRecords
    <3>. QED
      BY <2>3, <3>1 DEF QDisables, QueryInv, CountInv, CurrentInv
  <2>4. CASE QEnables
    <3>1. qEnabled' = TRUE /\ qKey' = qKey /\ qKey \in Nat /\ hasLoadedData \in BOOLEAN
      BY <2>4 DEF QEnables, QueryInv, CountInv, hasLoadedData, DataRecords
    <3>. QED
      BY <2>4, <3>1, ReloadKeeps DEF QEnables
  <2>5. CASE QPatches
    <3>1. UNCHANGED <<qEnabled, qKey, qError, qRun, qCalls>>
      BY <2>5 DEF QPatches
    <3>2. qData' \in DataRecords /\ qData'.key = qData.key /\ qData'.call = qData.call
      BY <2>5 DEF QPatches, QueryInv, CountInv, DataRecords
    <3>3. CountInv'
      BY <3>1, <3>2 DEF QueryInv, CountInv
    <3>4. CurrentInv'
      BY <3>1, <3>2 DEF QueryInv, CurrentInv
    <3>. QED
      BY <3>3, <3>4 DEF QueryInv
  <2>6. CASE \E c \in qCalls : QCallStep(c)
    BY <2>6, CallStepKeeps
  <2>7. CASE UNCHANGED qVars
    BY <2>7 DEF qVars, QueryInv, CountInv, CurrentInv
  <2>. QED
    BY <2>1, <2>2, <2>3, <2>4, <2>5, <2>6, <2>7 DEF QNext
<1>. QED
  BY <1>1, <1>2, PTL DEF QSpec

(* An enabled query with no call under way and no error shows what its       *)
(* newest call fetched, for the dependencies that hold now                   *)
(* (useApiQuery.js:49-64).                                                   *)
THEOREM NewestShownHolds == QSpec => []NewestShown
<1>1. QueryInv => NewestShown
  BY DEF QueryInv, CurrentInv, NewestShown
<1>. QED
  BY <1>1, QueryInvariant, PTL

(* The numbers a query runs through: a call that waits to be made again has  *)
(* a retry left, and every call has a number that was given out.             *)
BoundInv ==
  /\ qKey <= MaxEdits /\ qRun <= MaxReloads
  /\ qData.key <= MaxEdits /\ qData.call <= MaxReloads
  /\ \A c \in qCalls : /\ 1 <= c.id /\ c.key <= MaxEdits /\ c.tries <= Retries
                       /\ c.at = "sleeping" => c.tries < Retries
StatusInv == qStatus \in {"idle", "loading", "success", "empty", "error"}

(* The numbers of a call. *)
LEMMA CallNumbers ==
  ASSUME NEW c \in CallRecords
  PROVE  c.id \in Nat /\ c.key \in Nat /\ c.tries \in Nat
BY DEF CallRecords

(* A call that is bound stays so when it is aborted. *)
LEMMA AbortedBound ==
  ASSUME QueryInv, BoundInv
  PROVE  \A c \in Aborted : /\ 1 <= c.id /\ c.key <= MaxEdits /\ c.tries <= Retries
                            /\ c.at = "sleeping" => c.tries < Retries
<1>1. ASSUME NEW c \in Aborted
      PROVE  \E d \in qCalls : c.id = d.id /\ c.key = d.key /\ c.tries = d.tries /\ c.at = d.at
  <2>1. PICK d \in qCalls : c = [d EXCEPT !.dead = TRUE]
    BY DEF Aborted
  <2>2. d \in CallRecords
    BY DEF QueryInv, CountInv
  <2>. QED
    BY <2>1, <2>2 DEF CallRecords
<1>. QED
  BY <1>1 DEF BoundInv

LEMMA ReloadBound ==
  ASSUME QueryInv, BoundInv, StatusInv, NEW silent \in BOOLEAN, NEW key \in 0 .. MaxEdits,
         Reload(silent, key), qKey' = key
  PROVE  BoundInv' /\ StatusInv'
<1>. DEFINE fresh == Call(qRun + 1, key)
<1>1. /\ qRun < MaxReloads /\ qRun' = qRun + 1
      /\ qCalls' = Aborted \cup {fresh} /\ qData' = qData
      /\ qStatus' \in {qStatus, "loading"}
  BY DEF Reload
<1>2. /\ fresh.id = qRun + 1 /\ fresh.key = key /\ fresh.tries = 0 /\ fresh.at = "asking"
  BY DEF Call
<1>3. qRun \in Nat /\ MaxReloads \in Nat /\ Retries \in Nat /\ MaxEdits \in Nat
  BY QueryAssumption, FleetAssumption DEF QueryInv, CountInv
<1>. HIDE DEF fresh
<1>4. \A c \in qCalls' : /\ 1 <= c.id /\ c.key <= MaxEdits /\ c.tries <= Retries
                         /\ c.at = "sleeping" => c.tries < Retries
  BY <1>1, <1>2, <1>3, AbortedBound
<1>. QED
  BY <1>1, <1>3, <1>4 DEF BoundInv, StatusInv

LEMMA CallStepBound ==
  ASSUME QueryInv, BoundInv, StatusInv, NEW c \in qCalls, QCallStep(c)
  PROVE  BoundInv' /\ StatusInv'
<1>. DEFINE Rest == qCalls \ {c}
<1>1. UNCHANGED <<qKey, qRun>>
  BY DEF QCallStep, QTakes, QFails, QWakes
<1>2. c \in CallRecords /\ c.id <= qRun /\ qRun \in Nat /\ MaxReloads \in Nat /\ Retries \in Nat
  BY QueryAssumption DEF QueryInv, CountInv
<1>. c.id \in Nat /\ c.tries \in Nat
  BY <1>2, CallNumbers
<1>3. CASE QTakes(c)
  <2>1. qCalls' = Rest
    BY <1>3 DEF QTakes
  <2>2. CASE UNCHANGED <<qData, qStatus>>
    BY <1>1, <2>1, <2>2 DEF BoundInv, StatusInv
  <2>3. ASSUME NEW full \in BOOLEAN, qData' = [Results(c) EXCEPT !.full = full],
               qStatus' \in {"success", "empty"}
        PROVE  BoundInv' /\ StatusInv'
    <3>1. qData'.key = c.key /\ qData'.call = c.id
      BY <2>3 DEF Results
    <3>2. c.key <= MaxEdits /\ c.id <= MaxReloads
      BY <1>2 DEF BoundInv
    <3>. QED
      BY <1>1, <2>1, <2>3, <3>1, <3>2 DEF BoundInv, StatusInv
  <2>. QED
    BY <1>3, <2>2, <2>3 DEF QTakes
<1>4. CASE QFails(c)
  <2>1. qData' = qData
    BY <1>4 DEF QFails
  <2>2. CASE qCalls' = Rest /\ UNCHANGED qStatus
    BY <1>1, <2>1, <2>2 DEF BoundInv, StatusInv
  <2>3. CASE /\ c.tries < Retries /\ qCalls' = Rest \cup {[c EXCEPT !.at = "sleeping"]}
             /\ UNCHANGED qStatus
    <3>. DEFINE next == [c EXCEPT !.at = "sleeping"]
    <3>1. next.id = c.id /\ next.key = c.key /\ next.tries = c.tries
      BY <1>2 DEF CallRecords
    <3>. HIDE DEF next
    <3>. QED
      BY <1>1, <1>2, <2>1, <2>3, <3>1 DEF BoundInv, StatusInv, next
  <2>4. CASE QEndsInError(c)
    <3>1. qCalls' = Rest /\ qStatus' \in {qStatus, "success", "error"}
      BY <2>4 DEF QEndsInError
    <3>. QED
      BY <1>1, <2>1, <3>1 DEF BoundInv, StatusInv
  <2>. QED
    BY <1>4, <2>2, <2>3, <2>4 DEF QFails
<1>5. CASE QWakes(c)
  <2>1. UNCHANGED <<qData, qStatus>> /\ c.at = "sleeping"
    BY <1>5 DEF QWakes
  <2>2. CASE qCalls' = Rest
    BY <1>1, <2>1, <2>2 DEF BoundInv, StatusInv
  <2>3. CASE qCalls' = Rest \cup {[c EXCEPT !.at = "asking", !.tries = @ + 1]}
    <3>. DEFINE next == [c EXCEPT !.at = "asking", !.tries = @ + 1]
    <3>1. next.id = c.id /\ next.key = c.key /\ next.tries = c.tries + 1 /\ next.at = "asking"
      BY <1>2 DEF CallRecords
    <3>2. c.tries + 1 <= Retries
      BY <1>2, <2>1 DEF BoundInv
    <3>. HIDE DEF next
    <3>. QED
      BY <1>1, <2>1, <2>3, <3>1, <3>2 DEF BoundInv, StatusInv, next
  <2>. QED
    BY <1>5, <2>2, <2>3 DEF QWakes
<1>. QED
  BY <1>3, <1>4, <1>5 DEF QCallStep

LEMMA QueryBoundKept ==
  ASSUME QueryInv, BoundInv, StatusInv, [QNext]_qVars
  PROVE  BoundInv' /\ StatusInv'
<1>1. qKey \in 0 .. MaxEdits /\ MaxEdits \in Nat /\ hasLoadedData \in BOOLEAN
  BY FleetAssumption DEF QueryInv, CountInv, BoundInv, hasLoadedData, DataRecords
<1>2. CASE QReload
  BY <1>1, <1>2, ReloadBound DEF QReload
<1>3. CASE QKeyChanges
  <2>1. qKey' = qKey + 1 /\ qKey' \in 0 .. MaxEdits
    BY <1>1, <1>3 DEF QKeyChanges
  <2>2. CASE qEnabled
    BY <1>1, <1>3, <2>1, <2>2, ReloadBound DEF QKeyChanges
  <2>3. CASE ~qEnabled
    BY <1>3, <2>1, <2>3 DEF QKeyChanges, BoundInv, StatusInv
  <2>. QED
    BY <2>2, <2>3
<1>4. CASE QDisables
  BY <1>4, AbortedBound DEF QDisables, BoundInv, StatusInv
<1>5. CASE QEnables
  BY <1>1, <1>5, ReloadBound DEF QEnables
<1>6. CASE QPatches
  <2>1. UNCHANGED <<qKey, qStatus, qRun, qCalls>>
    BY <1>6 DEF QPatches
  <2>2. qData'.key = qData.key /\ qData'.call = qData.call
    BY <1>6 DEF QPatches, QueryInv, CountInv, DataRecords
  <2>. QED
    BY <2>1, <2>2 DEF BoundInv, StatusInv
<1>7. CASE UNCHANGED qVars
  BY <1>7 DEF qVars, BoundInv, StatusInv
<1>. QED
  BY <1>2, <1>3, <1>4, <1>5, <1>6, <1>7, CallStepBound DEF QNext

(* No call is tried more often than its retries allow, and a query has       *)
(* always one of its five states, whatever is aborted, superseded and        *)
(* answered late (useApiQuery.js:45-89).                                     *)
THEOREM QueryTypesHold == QSpec => []QTypeOK
<1>1. QInit => BoundInv /\ StatusInv
  <2> SUFFICES ASSUME QInit PROVE BoundInv /\ StatusInv
    OBVIOUS
  <2>1. \A i \in Nat : /\ Call(i, 0).id = i /\ Call(i, 0).key = 0 /\ Call(i, 0).tries = 0
                       /\ Call(i, 0).at = "asking"
    BY DEF Call
  <2>2. \A c \in qCalls : /\ c.id \in 1 .. qRun /\ c.key = 0 /\ c.tries = 0 /\ c.at = "asking"
    BY <2>1 DEF QInit
  <2>3. qData.key = 0 /\ qData.call = 0
    BY DEF QInit, NoData
  <2>4. qKey = 0 /\ qRun \in {0, 1} /\ StatusInv
    BY DEF QInit, StatusInv
  <2>. QED
    BY <2>2, <2>3, <2>4, QueryAssumption, FleetAssumption DEF BoundInv
<1>2. QueryInv /\ BoundInv /\ StatusInv /\ [QNext]_qVars => BoundInv' /\ StatusInv'
  BY QueryBoundKept
<1>3. QueryInv /\ BoundInv /\ StatusInv => QTypeOK
  <2> SUFFICES ASSUME QueryInv, BoundInv, StatusInv PROVE QTypeOK
    OBVIOUS
  <2>1. MaxEdits \in Nat /\ MaxReloads \in Nat /\ Retries \in Nat
    BY QueryAssumption, FleetAssumption
  <2>2. qData \in [key : 0 .. MaxEdits, call : 0 .. MaxReloads, full : BOOLEAN]
    BY <2>1 DEF QueryInv, CountInv, BoundInv, DataRecords
  <2>3. \A c \in qCalls : c.id \in 1 .. qRun /\ c.tries \in 0 .. Retries
    BY <2>1, CallNumbers DEF QueryInv, CountInv, BoundInv
  <2>4. /\ {qEnabled, qError} \subseteq BOOLEAN /\ qKey \in 0 .. MaxEdits
        /\ qRun \in 0 .. MaxReloads
    BY <2>1 DEF QueryInv, CountInv, BoundInv
  <2>. QED
    BY <2>2, <2>3, <2>4 DEF StatusInv, QTypeOK
<1>. QED
  BY <1>1, <1>2, <1>3, QueryInvariant, PTL DEF QSpec

-----------------------------------------------------------------------------
(* The parts side by side, as the run checks them.                           *)

(* A behaviour of the whole is one of each part: what is proved of a part    *)
(* holds of it.                                                              *)
THEOREM UpkeepIsEachPart ==
  Spec => SyncSpec /\ ImportSpec /\ DelSpec /\ TrSpec /\ ViewSpec /\ QSpec
<1>1. Init => SyncInit /\ ImportInit /\ DelInit /\ TrInit /\ ViewInit /\ QInit
  BY DEF Init
<1>2. [Next]_vars => /\ [SyncNext]_syncVars /\ [ImportNext]_impVars /\ [DelNext]_delVars
                     /\ [TrNextStep]_trVars /\ [ViewNext]_viewVars /\ [QNext]_qVars
  BY DEF Next, Others, vars
<1>. QED
  BY <1>1, <1>2, PTL DEF Spec, SyncSpec, ImportSpec, DelSpec, TrSpec, ViewSpec, QSpec

(* Every part keeps its types (FleetUpkeepTypeOK).                           *)
THEOREM FleetUpkeepTypesHold == Spec => []FleetUpkeepTypeOK
<1>1. /\ SyncTypeOK /\ ImportTypeOK /\ DelTypeOK /\ TrTypeOK /\ ViewTypeOK /\ QTypeOK
        => FleetUpkeepTypeOK
  BY DEF FleetUpkeepTypeOK
<1>. QED
  BY <1>1, UpkeepIsEachPart, SyncTypesHold, ImportTypesHold, DeletionTypesHold, TrailTypesHold,
     ViewTypesHold, QueryTypesHold, PTL

(* What the parts keep, the whole keeps: one synchronisation at a time,      *)
(* unique names, a pause that follows the imports, jobs that follow          *)
(* deletions, a log within its limit and the newest answer shown.            *)
THEOREM FleetUpkeepIsSafe ==
  Spec => [](/\ SyncAlone /\ NamesUnique /\ PauseFollowsImports
             /\ JobsFollowDeletions /\ TrailKept /\ NewestShown)
BY UpkeepIsEachPart, SyncAloneHolds, NamesUniqueHolds, PauseFollowsImportsHolds,
   JobsFollowDeletionsHolds, TrailKeptHolds, NewestShownHolds, PTL
=============================================================================
