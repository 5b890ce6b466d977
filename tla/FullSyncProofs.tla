--------------------------- MODULE FullSyncProofs ---------------------------
(***************************************************************************)
(* Proof that two full synchronisations are never under way together       *)
(* (FullSync, SyncAlone), for every fleet, every failure and any number of *)
(* restarts, and that its variables keep their types (SyncTypeOK).         *)
(***************************************************************************)
EXTENDS FullSync, FiniteSetTheorems, TLAPS

(* A caller holds the flag from the moment it enters runFullSync, or for     *)
(* good when SyncRun.create failed.                                          *)
Holds(c) == syncCall[c] \notin {"idle", "due"}
HolderPlaces == SyncPlaces \ {"idle", "due"}

FlagInv ==
  /\ syncCall \in [SyncCallers -> SyncPlaces]
  /\ syncing \in BOOLEAN
  /\ \A c, d \in SyncCallers : Holds(c) /\ Holds(d) => c = d
  /\ syncing <=> \E c \in SyncCallers : Holds(c)

(* Nobody has asked for the initial run before start-up does. *)
BootInv == syncBoot \notin {"scheduled", "failed"} => syncCall["initial"] = "idle"

(* Endpoints are left to themselves by a run in which a call failed. *)
LateInv ==
  /\ syncFaults \in Nat
  /\ syncLate # {} => syncFaults > 0

(* The inductive invariant. *)
AloneInv == FlagInv /\ BootInv /\ LateInv

-----------------------------------------------------------------------------
(* What a step of a run does to the flag and to its caller: nothing; it      *)
(* enters, or finds the flag set; it goes on; it leaves.                     *)
Enters(c) ==
  /\ syncCall[c] = "due" /\ syncing' = TRUE
  /\ syncCall' = [syncCall EXCEPT ![c] = IF syncing THEN "idle" ELSE "creating"]
GoesOn(c) ==
  /\ Holds(c) /\ syncing' = syncing
  /\ \E p \in HolderPlaces : syncCall' = [syncCall EXCEPT ![c] = p]
Leaves(c) ==
  /\ Holds(c) /\ syncing' = FALSE
  /\ syncCall' = [syncCall EXCEPT ![c] = "idle"]
Stays == UNCHANGED <<syncCall, syncing>>

RunMove(c) == Stays \/ Enters(c) \/ GoesOn(c) \/ Leaves(c)

(* What the others do: a caller is scheduled, or the process restarts. *)
IsScheduled(c) ==
  /\ syncCall[c] = "idle" /\ syncing' = syncing
  /\ syncCall' = [syncCall EXCEPT ![c] = "due"]
AllForgotten == syncCall' = [c \in SyncCallers |-> "idle"] /\ syncing' = FALSE

Move == AllForgotten \/ \E c \in SyncCallers : RunMove(c) \/ IsScheduled(c)

(* Each of these keeps the flag with its one holder. *)
LEMMA MoveKeepsFlag ==
  ASSUME FlagInv, Move
  PROVE  FlagInv'
<1>1. CASE Stays
  BY <1>1 DEF Stays, FlagInv, Holds
<1>2. ASSUME NEW c \in SyncCallers, Enters(c)
      PROVE  FlagInv'
  <2>1. CASE syncing
    BY <1>2, <2>1 DEF Enters, FlagInv, Holds, SyncPlaces
  <2>2. CASE ~syncing
    BY <1>2, <2>2 DEF Enters, FlagInv, Holds, SyncPlaces
  <2>. QED
    BY <2>1, <2>2
<1>3. ASSUME NEW c \in SyncCallers, GoesOn(c)
      PROVE  FlagInv'
  <2>1. PICK p \in HolderPlaces : syncCall' = [syncCall EXCEPT ![c] = p]
    BY <1>3 DEF GoesOn
  <2>. QED
    BY <1>3, <2>1 DEF GoesOn, FlagInv, Holds, HolderPlaces
<1>4. ASSUME NEW c \in SyncCallers, Leaves(c)
      PROVE  FlagInv'
  BY <1>4 DEF Leaves, FlagInv, Holds, SyncPlaces
<1>5. ASSUME NEW c \in SyncCallers, IsScheduled(c)
      PROVE  FlagInv'
  BY <1>5 DEF IsScheduled, FlagInv, Holds, SyncPlaces
<1>6. CASE AllForgotten
  BY <1>6 DEF AllForgotten, FlagInv, Holds, SyncPlaces
<1>. QED
  BY <1>1, <1>2, <1>3, <1>4, <1>5, <1>6 DEF Move, RunMove

-----------------------------------------------------------------------------
(* The head of the loop over batches leaves the caller in its run. *)
LEMMA NextBatchMoves ==
  ASSUME NEW c \in SyncCallers, NEW rest, Holds(c), UNCHANGED syncing, SyncNextBatch(c, rest)
  PROVE  GoesOn(c)
<1>1. \E p \in HolderPlaces : syncCall' = [syncCall EXCEPT ![c] = p]
  BY DEF SyncNextBatch, SyncGo, SyncPlaces, HolderPlaces
<1>. QED
  BY <1>1 DEF GoesOn

(* Every step of a run is one of these moves of its caller, and leaves       *)
(* start-up alone.                                                           *)
LEMMA RunMoves ==
  ASSUME NEW c \in SyncCallers, SyncRunStep(c) \/ SyncFails(c)
  PROVE  RunMove(c) /\ syncBoot' = syncBoot
<1>1. CASE SyncEnter(c)
  BY <1>1 DEF SyncEnter, SyncGo, RunMove, Enters
<1>2. CASE SyncCreate(c)
  <2>1. \E p \in HolderPlaces : syncCall' = [syncCall EXCEPT ![c] = p]
    BY <1>2 DEF SyncCreate, SyncGo, SyncPlaces, HolderPlaces
  <2>. QED
    BY <1>2, <2>1 DEF SyncCreate, Holds, RunMove, GoesOn
<1>3. CASE SyncOpen(c)
  <2>1. \E p \in HolderPlaces : syncCall' = [syncCall EXCEPT ![c] = p]
    BY <1>3 DEF SyncOpen, SyncGo, SyncPlaces, HolderPlaces
  <2>. QED
    BY <1>3, <2>1 DEF SyncOpen, Holds, RunMove, GoesOn
<1>4. CASE SyncList(c)
  <2>1. Holds(c) /\ UNCHANGED syncing /\ SyncNextBatch(c, syncFleet) /\ syncBoot' = syncBoot
    BY <1>4 DEF SyncList, Holds
  <2>. QED
    BY <2>1, NextBatchMoves DEF RunMove
<1>5. ASSUME NEW h \in Hosts, NEW w \in BOOLEAN, SyncEndpoint(c, h, w)
      PROVE  RunMove(c) /\ syncBoot' = syncBoot
  <2>1. Holds(c) /\ UNCHANGED syncing /\ syncBoot' = syncBoot
    BY <1>5 DEF SyncEndpoint, Holds
  <2>2. SyncNextBatch(c, syncTodo) \/ UNCHANGED syncCall
    BY <1>5 DEF SyncEndpoint
  <2>3. CASE UNCHANGED syncCall
    BY <2>1, <2>3 DEF RunMove, Stays
  <2>. QED
    BY <2>1, <2>2, <2>3, NextBatchMoves DEF RunMove
<1>6. CASE SyncConclude(c)
  <2>1. Holds(c) /\ syncBoot' = syncBoot
    BY <1>6 DEF SyncConclude, Holds
  <2>2. \/ syncing' = syncing /\ SyncGo(c, "reporting")
        \/ syncing' = syncing /\ SyncGo(c, "closing")
        \/ syncing' = FALSE /\ SyncGo(c, "idle")
    BY <1>6 DEF SyncConclude
  <2>3. {"reporting", "closing"} \subseteq HolderPlaces
    BY DEF HolderPlaces, SyncPlaces
  <2>. QED
    BY <2>1, <2>2, <2>3 DEF SyncGo, RunMove, GoesOn, Leaves
<1>7. CASE SyncGivesUp(c)
  BY <1>7 DEF SyncGivesUp, SyncGo, Holds, RunMove, Leaves
<1>8. CASE SyncFails(c)
  <2>1. "failing" \in HolderPlaces
    BY DEF HolderPlaces, SyncPlaces
  <2>. QED
    BY <1>8, <2>1 DEF SyncFails, SyncGo, Holds, RunMove, GoesOn
<1>. QED
  BY <1>1, <1>2, <1>3, <1>4, <1>5, <1>6, <1>7, <1>8 DEF SyncRunStep

(* Every step of the system is one of these moves, and BootInv is kept. *)
LEMMA NextMoves ==
  ASSUME BootInv, FlagInv, [SyncNext]_syncVars
  PROVE  Move /\ BootInv'
<1>. DEFINE Same == syncCall' = syncCall /\ syncing' = syncing /\ syncBoot' = syncBoot
<1>1. ASSUME NEW c \in SyncCallers, SyncRunStep(c) \/ SyncFails(c)
      PROVE  Move /\ BootInv'
  <2>1. RunMove(c) /\ syncBoot' = syncBoot
    BY <1>1, RunMoves
  <2>2. syncCall["initial"] = "idle" => syncCall'["initial"] = "idle"
    BY <2>1 DEF RunMove, Stays, Enters, GoesOn, Leaves, Holds, FlagInv, SyncCallers
  <2>. QED
    BY <2>1, <2>2 DEF Move, BootInv
<1>2. CASE SyncRequest
  BY <1>2 DEF SyncRequest, SyncGo, Move, IsScheduled, SyncCallers, BootInv, FlagInv
<1>3. CASE SyncTimer
  BY <1>3 DEF SyncTimer, SyncGo, Move, IsScheduled, SyncCallers, BootInv
<1>4. CASE SyncBootStep
  <2>1. CASE UNCHANGED syncCall
    <3>1. Move
      BY <1>4, <2>1 DEF SyncBootStep, Move, RunMove, Stays, SyncCallers
    <3>2. syncBoot \notin {"scheduled", "failed"}
      BY <1>4 DEF SyncBootStep
    <3>. QED
      BY <2>1, <3>1, <3>2 DEF BootInv
  <2>2. CASE SyncGo("initial", "due") /\ syncBoot = "comparing" /\ syncBoot' = "scheduled"
    BY <1>4, <2>2 DEF SyncBootStep, SyncGo, Move, IsScheduled, SyncCallers, BootInv
  <2>. QED
    BY <1>4, <2>1, <2>2 DEF SyncBootStep
<1>5. CASE SyncBootFails
  BY <1>5 DEF SyncBootFails, Move, RunMove, Stays, SyncCallers, BootInv
<1>6. CASE SyncRestart
  BY <1>6 DEF SyncRestart, Move, AllForgotten, BootInv, SyncCallers
<1>7. CASE Same
  BY <1>7 DEF Move, RunMove, Stays, SyncCallers, BootInv
<1>8. (\E h \in Hosts : SyncLateEndpoint(h)) \/ SyncFleetChanges \/ UNCHANGED syncVars => Same
  BY DEF SyncLateEndpoint, SyncFleetChanges, syncVars
<1>. QED
  BY <1>1, <1>2, <1>3, <1>4, <1>5, <1>6, <1>7, <1>8 DEF SyncNext

(* Endpoints are left to themselves only where a call fails. *)
LEMMA LateKept ==
  ASSUME LateInv, [SyncNext]_syncVars
  PROVE  LateInv'
<1>1. ASSUME NEW c \in SyncCallers, SyncFails(c)
      PROVE  LateInv'
  BY <1>1 DEF SyncFails, SyncFault, LateInv
<1>2. ASSUME NEW c \in SyncCallers, SyncRunStep(c)
      PROVE  LateInv'
  <2>1. syncLate' = syncLate /\ (syncFaults' = syncFaults \/ syncFaults' = syncFaults + 1)
    BY <1>2 DEF SyncRunStep, SyncEnter, SyncCreate, SyncFault, SyncOpen, SyncList, SyncEndpoint,
       SyncConclude, SyncGivesUp, syncWork
  <2>. QED
    BY <2>1 DEF LateInv
<1>3. CASE SyncBootFails
  BY <1>3 DEF SyncBootFails, SyncFault, LateInv, syncWork
<1>4. ASSUME NEW h \in Hosts, SyncLateEndpoint(h)
      PROVE  LateInv'
  BY <1>4 DEF SyncLateEndpoint, LateInv
<1>5. CASE SyncRestart
  BY <1>5 DEF SyncRestart, LateInv
<1>6. CASE SyncRequest \/ SyncTimer \/ SyncBootStep \/ SyncFleetChanges \/ UNCHANGED syncVars
  BY <1>6 DEF SyncRequest, SyncTimer, SyncBootStep, SyncFleetChanges, syncVars, syncWork, LateInv
<1>. QED
  BY <1>1, <1>2, <1>3, <1>4, <1>5, <1>6 DEF SyncNext

(* The invariant: the flag of endpointSync.js has at most one holder, and is *)
(* set exactly when it has one.                                              *)
THEOREM AloneInvariant == SyncSpec => []AloneInv
<1>1. SyncInit => AloneInv
  <2>. SUFFICES ASSUME SyncInit PROVE AloneInv
    OBVIOUS
  <2>1. syncCall \in [SyncCallers -> SyncPlaces]
    BY DEF SyncInit, SyncPlaces
  <2>2. \A c \in SyncCallers : ~Holds(c)
    BY DEF SyncInit, Holds
  <2>3. FlagInv
    BY <2>1, <2>2 DEF SyncInit, FlagInv
  <2>4. BootInv /\ LateInv
    BY DEF SyncInit, BootInv, LateInv, SyncCallers
  <2>. QED
    BY <2>3, <2>4 DEF AloneInv
<1>2. AloneInv /\ [SyncNext]_syncVars => AloneInv'
  BY NextMoves, MoveKeepsFlag, LateKept DEF AloneInv
<1>. QED
  BY <1>1, <1>2, PTL DEF SyncSpec

(* Two full synchronisations are never under way together, the flag stands   *)
(* exactly while one is or after SyncRun.create failed, and no endpoint is   *)
(* worked on outside a run unless a call failed (endpointSync.js:142-261).   *)
THEOREM SyncAloneHolds == SyncSpec => []SyncAlone
<1>1. AloneInv => SyncAlone
  <2>. SUFFICES ASSUME AloneInv PROVE SyncAlone
    OBVIOUS
  <2>. DEFINE entered == {c \in SyncCallers : syncCall[c] \in SyncEntered}
  <2>1. \A c \in SyncCallers : Holds(c) <=> c \in entered \/ syncCall[c] = "stuck"
    BY DEF AloneInv, FlagInv, Holds, SyncEntered, SyncPlaces
  <2>2. Cardinality(entered) <= 1
    <3>1. CASE entered = {}
      BY <3>1, FS_EmptySet
    <3>2. ASSUME NEW c \in entered
          PROVE  Cardinality(entered) <= 1
      <4>1. entered = {c}
        BY <2>1, <3>2 DEF AloneInv, FlagInv
      <4>. QED
        BY <4>1, FS_Singleton
    <3>. QED
      BY <3>1, <3>2
  <2>3. syncing <=> entered # {} \/ SyncStuck
    BY <2>1 DEF AloneInv, FlagInv, SyncStuck
  <2>. QED
    BY <2>2, <2>3 DEF SyncAlone, AloneInv, LateInv
<1>. QED
  BY <1>1, AloneInvariant, PTL

-----------------------------------------------------------------------------
(* The types, one group of variables at a time.                              *)
SetTypes ==
  /\ syncFleet \subseteq Hosts /\ syncSnapshot \subseteq syncFleet
  /\ syncTodo \subseteq Hosts /\ syncBusy \subseteq Hosts /\ syncLate \subseteq Hosts
FlagTypes == syncSaved \in BOOLEAN /\ syncDone \in BOOLEAN
BootTypes == syncBoot \in SyncBootPlaces /\ syncTotal \in 0 .. Cardinality(Hosts)
BoundTypes == syncFaults \in 0 .. MaxFaults /\ syncStarts \in 0 .. MaxEdits

(* Each batch is taken from what the run has left. *)
LEMMA BatchTypes ==
  ASSUME NEW c, NEW rest \in SUBSET Hosts, SyncNextBatch(c, rest), syncDone \in BOOLEAN
  PROVE  syncTodo' \subseteq Hosts /\ syncBusy' \subseteq Hosts /\ syncDone' \in BOOLEAN
BY DEF SyncNextBatch

LEMMA RunStepTypes ==
  ASSUME SetTypes, FlagTypes, NEW c \in SyncCallers, SyncRunStep(c) \/ SyncFails(c)
  PROVE  SetTypes' /\ FlagTypes'
<1>1. CASE SyncEnter(c)
  BY <1>1 DEF SyncEnter, SetTypes, FlagTypes, syncDb, syncWork
<1>2. CASE SyncCreate(c)
  BY <1>2 DEF SyncCreate, SetTypes, FlagTypes, syncDb, syncWork
<1>3. CASE SyncOpen(c)
  BY <1>3 DEF SyncOpen, SetTypes, FlagTypes, syncDb, syncWork
<1>4. CASE SyncList(c)
  <2>1. SyncNextBatch(c, syncFleet) /\ syncFleet \in SUBSET Hosts /\ UNCHANGED <<syncDb, syncLate>>
    BY <1>4 DEF SyncList, SetTypes
  <2>. QED
    BY <2>1, BatchTypes DEF SetTypes, FlagTypes, syncDb
<1>5. ASSUME NEW h \in Hosts, NEW w \in BOOLEAN, SyncEndpoint(c, h, w)
      PROVE  SetTypes' /\ FlagTypes'
  <2>1. /\ UNCHANGED <<syncFleet, syncSaved, syncLate>>
        /\ syncSnapshot' \subseteq syncFleet
    BY <1>5 DEF SyncEndpoint, SetTypes
  <2>2. CASE SyncNextBatch(c, syncTodo)
    <3>1. syncTodo \in SUBSET Hosts
      BY DEF SetTypes
    <3>. QED
      BY <2>1, <2>2, <3>1, BatchTypes DEF SetTypes, FlagTypes
  <2>3. CASE syncBusy' = syncBusy \ {h} /\ UNCHANGED <<syncCall, syncTodo, syncDone>>
    BY <2>1, <2>3 DEF SetTypes, FlagTypes
  <2>. QED
    BY <1>5, <2>2, <2>3 DEF SyncEndpoint
<1>6. CASE SyncConclude(c)
  <2>1. UNCHANGED <<syncFleet, syncSnapshot, syncDone, syncWork>>
        /\ (syncSaved' = TRUE \/ syncSaved' = syncSaved)
    BY <1>6 DEF SyncConclude
  <2>. QED
    BY <2>1 DEF SetTypes, FlagTypes, syncWork
<1>7. CASE SyncGivesUp(c)
  BY <1>7 DEF SyncGivesUp, SetTypes, FlagTypes, syncDb, syncWork
<1>8. CASE SyncFails(c)
  BY <1>8 DEF SyncFails, SetTypes, FlagTypes, syncDb
<1>. QED
  BY <1>1, <1>2, <1>3, <1>4, <1>5, <1>6, <1>7, <1>8 DEF SyncRunStep

LEMMA StateTypesKept ==
  ASSUME SetTypes, FlagTypes, [SyncNext]_syncVars
  PROVE  SetTypes' /\ FlagTypes'
<1>1. CASE SyncBootStep
  <2>1. /\ UNCHANGED <<syncFleet, syncSnapshot, syncWork>>
        /\ syncSaved' = TRUE \/ syncSaved' = syncSaved
        /\ syncDone' = TRUE \/ syncDone' = syncDone \/ syncDone' = syncSaved
    BY <1>1 DEF SyncBootStep
  <2>. QED
    BY <2>1 DEF SetTypes, FlagTypes, syncWork
<1>2. CASE SyncRequest \/ SyncTimer \/ SyncBootFails \/ UNCHANGED syncVars
  BY <1>2 DEF SyncRequest, SyncTimer, SyncBootFails, syncVars, syncDb, syncWork, SetTypes, FlagTypes
<1>3. ASSUME NEW h \in Hosts, SyncLateEndpoint(h)
      PROVE  SetTypes' /\ FlagTypes'
  BY <1>3 DEF SyncLateEndpoint, SetTypes, FlagTypes
<1>4. CASE SyncFleetChanges
  BY <1>4 DEF SyncFleetChanges, SetTypes, FlagTypes, syncWork
<1>5. CASE SyncRestart
  BY <1>5 DEF SyncRestart, SetTypes, FlagTypes, syncDb
<1>. QED
  BY <1>1, <1>2, <1>3, <1>4, <1>5, RunStepTypes DEF SyncNext

(* Start-up counts the fleet as it is at that moment. *)
LEMMA BootTypesKept ==
  ASSUME SetTypes, BootTypes, [SyncNext]_syncVars
  PROVE  BootTypes'
<1>1. 0 \in 0 .. Cardinality(Hosts) /\ Cardinality(syncFleet) \in 0 .. Cardinality(Hosts)
  BY FleetAssumption, FS_Subset, FS_CardinalityType DEF SetTypes
<1>2. CASE SyncBootStep
  <2>1. syncTotal' \in {syncTotal, 0, Cardinality(syncFleet)}
    BY <1>2 DEF SyncBootStep
  <2>2. syncBoot' \in SyncBootPlaces
    BY <1>2 DEF SyncBootStep, SyncBootPlaces
  <2>. QED
    BY <1>1, <2>1, <2>2 DEF BootTypes
<1>3. CASE SyncBootFails \/ SyncRestart
  BY <1>1, <1>3 DEF SyncBootFails, SyncRestart, SyncBootPlaces, BootTypes
<1>4. CASE UNCHANGED <<syncBoot, syncTotal>>
  BY <1>4 DEF BootTypes
<1>5. ASSUME NEW c \in SyncCallers, SyncRunStep(c) \/ SyncFails(c)
      PROVE  UNCHANGED <<syncBoot, syncTotal>>
  BY <1>5 DEF SyncRunStep, SyncEnter, SyncCreate, SyncOpen, SyncList, SyncEndpoint, SyncConclude,
     SyncGivesUp, SyncFails
<1>6. ASSUME \/ SyncRequest \/ SyncTimer \/ SyncFleetChanges \/ UNCHANGED syncVars
             \/ \E h \in Hosts : SyncLateEndpoint(h)
      PROVE  UNCHANGED <<syncBoot, syncTotal>>
  BY <1>6 DEF SyncRequest, SyncTimer, SyncFleetChanges, SyncLateEndpoint, syncVars
<1>. QED
  BY <1>2, <1>3, <1>4, <1>5, <1>6 DEF SyncNext

LEMMA BoundTypesKept ==
  ASSUME BoundTypes, [SyncNext]_syncVars
  PROVE  BoundTypes'
<1>. DEFINE Failed == SyncFault /\ syncStarts' = syncStarts
            Same == UNCHANGED <<syncFaults, syncStarts>>
<1>1. Failed \/ Same => BoundTypes'
  BY FleetAssumption DEF SyncFault, BoundTypes
<1>2. CASE SyncRestart
  BY <1>2, FleetAssumption DEF SyncRestart, BoundTypes
<1>3. ASSUME NEW c \in SyncCallers, SyncRunStep(c) \/ SyncFails(c)
      PROVE  Failed \/ Same
  BY <1>3 DEF SyncRunStep, SyncEnter, SyncCreate, SyncOpen, SyncList, SyncEndpoint, SyncConclude,
     SyncGivesUp, SyncFails
<1>4. SyncBootFails => Failed
  BY DEF SyncBootFails
<1>5. ASSUME \/ SyncRequest \/ SyncTimer \/ SyncBootStep \/ SyncFleetChanges \/ UNCHANGED syncVars
             \/ \E h \in Hosts : SyncLateEndpoint(h)
      PROVE  Same
  BY <1>5 DEF SyncRequest, SyncTimer, SyncBootStep, SyncFleetChanges, SyncLateEndpoint, syncVars
<1>. QED
  BY <1>1, <1>2, <1>3, <1>4, <1>5 DEF SyncNext

(* Every variable of a synchronisation keeps its type; in particular only    *)
(* endpoints of the fleet have a snapshot, though an endpoint can leave it   *)
(* while a run or a batch given up is at work on it (endpointSync.js:54-140).*)
THEOREM SyncTypesHold == SyncSpec => []SyncTypeOK
<1>. DEFINE Types == SetTypes /\ FlagTypes /\ BootTypes /\ BoundTypes
<1>1. SyncInit => Types
  <2>1. 0 \in 0 .. Cardinality(Hosts)
    BY FleetAssumption, FS_CardinalityType
  <2>2. SyncInit => SetTypes /\ FlagTypes
    BY DEF SyncInit, SetTypes, FlagTypes
  <2>3. SyncInit => BootTypes /\ BoundTypes
    BY <2>1, FleetAssumption DEF SyncInit, BootTypes, BoundTypes, SyncBootPlaces
  <2>. QED
    BY <2>2, <2>3
<1>2. Types /\ [SyncNext]_syncVars => Types'
  BY StateTypesKept, BootTypesKept, BoundTypesKept
<1>3. Types /\ AloneInv => SyncTypeOK
  BY DEF SetTypes, FlagTypes, BootTypes, BoundTypes, AloneInv, FlagInv, SyncTypeOK
<1>. QED
  BY <1>1, <1>2, <1>3, AloneInvariant, PTL DEF SyncSpec
=============================================================================
