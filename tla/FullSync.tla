------------------------------ MODULE FullSync ------------------------------
(***************************************************************************)
(* The full synchronisation of services/endpointSync.js: one run at a time *)
(* over all endpoints that are not excluded, in batches.  It is asked for  *)
(* at start-up (once for a fleet without a snapshot), by a timer, and by   *)
(* the operator (api/routes/sync.js).  Of an endpoint's record only        *)
(* lastFullSyncAt is kept here; EndpointRecord has the rest.               *)
(*                                                                         *)
(* A place of a call names the database call that is awaited there.        *)
(***************************************************************************)
EXTENDS Fleet

CONSTANT SyncConcurrency  \* SYNC_CONCURRENCY, endpoints of a batch

ASSUME SyncAssumption == SyncConcurrency \in Nat \ {0}

VARIABLES
  syncFleet,    \* endpoints in the database, not excluded
  syncSnapshot, \* those of them with a lastFullSyncAt
  syncSaved,    \* system_state.initialSyncDone
  syncDone,     \* state.initialSyncDone
  syncing,      \* state.running
  syncCall,     \* where each caller's runFullSync is
  syncTodo,     \* endpoints of the run not in a batch yet
  syncBusy,     \* endpoints of the batch under way
  syncLate,     \* endpoints of a rejected batch that are still being worked on
  syncBoot,     \* where bootstrap and maybeStartInitialSync are
  syncTotal,    \* the number of endpoints fleetNeedsInitialSync has counted
  syncFaults,   \* calls that failed
  syncStarts    \* starts of the process

syncVars == <<syncFleet, syncSnapshot, syncSaved, syncDone, syncing, syncCall, syncTodo,
              syncBusy, syncLate, syncBoot, syncTotal, syncFaults, syncStarts>>
syncDb == <<syncFleet, syncSnapshot, syncSaved>>
syncWork == <<syncTodo, syncBusy, syncLate>>

SyncCallers == {"initial", "manual", "scheduled"}
SyncPlaces == {"idle", "due", "creating", "opening", "listing", "batch", "persisting",
               "reporting", "closing", "failing", "stuck"}
SyncEntered == SyncPlaces \ {"idle", "due", "stuck"}
SyncBootPlaces == {"reading", "asking", "counting", "comparing", "marking", "scheduled", "failed"}

SyncInit ==
  /\ syncFleet = {} /\ syncSnapshot = {} /\ syncSaved = FALSE
  /\ syncDone = TRUE /\ syncing = FALSE
  /\ syncCall = [c \in SyncCallers |-> "idle"]
  /\ syncTodo = {} /\ syncBusy = {} /\ syncLate = {}
  /\ syncBoot = "reading" /\ syncTotal = 0 /\ syncFaults = 0 /\ syncStarts = 0

SyncGo(c, place) == syncCall' = [syncCall EXCEPT ![c] = place]
SyncFault == syncFaults < MaxFaults /\ syncFaults' = syncFaults + 1

-----------------------------------------------------------------------------
(* Who asks for a run. *)

(* POST /api/sync/full: the flag is tested in the request, the run is        *)
(* scheduled with setImmediate.                                              *)
SyncRequest ==
  /\ ~syncing /\ syncCall["manual"] = "idle"
  /\ SyncGo("manual", "due")
  /\ UNCHANGED <<syncDb, syncDone, syncing, syncWork, syncBoot, syncTotal, syncFaults, syncStarts>>

(* The interval timer of startScheduledSync. *)
SyncTimer ==
  /\ syncBoot = "scheduled" /\ syncCall["scheduled"] = "idle"
  /\ SyncGo("scheduled", "due")
  /\ UNCHANGED <<syncDb, syncDone, syncing, syncWork, syncBoot, syncTotal, syncFaults, syncStarts>>

(* bootstrap, maybeStartInitialSync with fleetNeedsInitialSync, and the      *)
(* chain of app.js that calls them: nothing is scheduled when one rejects.   *)
SyncBootStep ==
  /\ \/ /\ syncBoot = "reading" /\ syncBoot' = "asking"
        /\ syncDone' = syncSaved /\ UNCHANGED <<syncSaved, syncCall, syncTotal>>
     \/ /\ syncBoot = "asking"
        /\ syncBoot' = IF syncing \/ syncDone THEN "scheduled" ELSE "counting"
        /\ UNCHANGED <<syncDone, syncSaved, syncCall, syncTotal>>
     \/ /\ syncBoot = "counting"
        /\ syncBoot' = IF syncFleet = {} THEN "marking" ELSE "comparing"
        /\ syncTotal' = Cardinality(syncFleet)
        /\ UNCHANGED <<syncDone, syncSaved, syncCall>>
     \/ /\ syncBoot = "comparing" /\ Cardinality(syncSnapshot) < syncTotal
        /\ SyncGo("initial", "due") /\ syncBoot' = "scheduled"
        /\ syncTotal' = 0 /\ UNCHANGED <<syncDone, syncSaved>>
     \/ /\ syncBoot = "comparing" /\ Cardinality(syncSnapshot) >= syncTotal
        /\ syncBoot' = IF syncDone THEN "scheduled" ELSE "marking"
        /\ syncTotal' = 0 /\ UNCHANGED <<syncDone, syncSaved, syncCall>>
     \/ /\ syncBoot = "marking" /\ syncBoot' = "scheduled"
        /\ syncSaved' = TRUE /\ syncDone' = TRUE /\ syncTotal' = 0 /\ UNCHANGED syncCall
  /\ UNCHANGED <<syncFleet, syncSnapshot, syncing, syncWork, syncFaults, syncStarts>>

SyncBootFails ==
  /\ syncBoot \in {"reading", "counting", "comparing", "marking"}
  /\ syncBoot' = "failed" /\ syncTotal' = 0 /\ SyncFault
  /\ UNCHANGED <<syncDb, syncDone, syncing, syncCall, syncWork, syncStarts>>

-----------------------------------------------------------------------------
(* The run. *)

(* The flag is tested where the request is accepted, no longer here. *)
SyncEnterUntested(c) ==
  /\ syncCall[c] = "due"
  /\ syncing' = TRUE /\ SyncGo(c, "creating")
  /\ UNCHANGED <<syncDb, syncDone, syncWork, syncBoot, syncTotal, syncFaults, syncStarts>>

(* Entering runFullSync: the flag is tested and set with no await between. *)
SyncEnter(c) ==
  /\ syncCall[c] = "due"
  /\ syncing' = TRUE
  /\ SyncGo(c, IF syncing THEN "idle" ELSE "creating")
  /\ UNCHANGED <<syncDb, syncDone, syncWork, syncBoot, syncTotal, syncFaults, syncStarts>>

(* SyncRun.create is outside the try block: when it fails the flag stays,    *)
(* which the place "stuck" of a call that is no more remembers.              *)
SyncCreate(c) ==
  /\ syncCall[c] = "creating"
  /\ \/ SyncGo(c, "opening") /\ UNCHANGED syncFaults
     \/ SyncGo(c, "stuck") /\ SyncFault
  /\ UNCHANGED <<syncDb, syncDone, syncing, syncWork, syncBoot, syncTotal, syncStarts>>

(* audit.log of the start. *)
SyncOpen(c) ==
  /\ syncCall[c] = "opening" /\ SyncGo(c, "listing")
  /\ UNCHANGED <<syncDb, syncDone, syncing, syncWork, syncBoot, syncTotal, syncFaults, syncStarts>>

(* The head of the loop over batches: the next one, or the summary. *)
SyncNextBatch(c, rest) ==
  IF rest = {}
    THEN /\ syncDone' = TRUE /\ SyncGo(c, "persisting")
         /\ syncTodo' = {} /\ syncBusy' = {}
    ELSE \E B \in SUBSET rest :
           /\ Cardinality(B) = IF Cardinality(rest) < SyncConcurrency
                                 THEN Cardinality(rest) ELSE SyncConcurrency
           /\ syncBusy' = B /\ syncTodo' = rest \ B
           /\ SyncGo(c, "batch") /\ UNCHANGED syncDone

SyncList(c) ==
  /\ syncCall[c] = "listing" /\ SyncNextBatch(c, syncFleet)
  /\ UNCHANGED <<syncDb, syncing, syncLate, syncBoot, syncTotal, syncFaults, syncStarts>>

(* syncOneEndpoint ends: its snapshot was written (online or not), or it     *)
(* failed, as it does when the endpoint was deleted meanwhile.  The last one *)
(* of a batch moves the run on.                                              *)
SyncEndpoint(c, h, written) ==
  /\ syncCall[c] = "batch" /\ h \in syncBusy
  /\ written => h \in syncFleet
  /\ syncSnapshot' = IF written THEN syncSnapshot \cup {h} ELSE syncSnapshot
  /\ IF syncBusy = {h}
       THEN SyncNextBatch(c, syncTodo)
       ELSE syncBusy' = syncBusy \ {h} /\ UNCHANGED <<syncCall, syncTodo, syncDone>>
  /\ UNCHANGED <<syncFleet, syncSaved, syncing, syncLate, syncBoot, syncTotal, syncFaults, syncStarts>>

(* An endpoint of a batch that was rejected ends: nobody waits for it. *)
SyncLateEndpoint(h) ==
  /\ h \in syncLate
  /\ syncLate' = syncLate \ {h}
  /\ syncSnapshot' \in {syncSnapshot, syncSnapshot \cup ({h} \cap syncFleet)}
  /\ UNCHANGED <<syncFleet, syncSaved, syncDone, syncing, syncCall, syncTodo, syncBusy,
                 syncBoot, syncTotal, syncFaults, syncStarts>>

(* systemState.setState, the audit of the success, SyncRun's end. *)
SyncConclude(c) ==
  /\ \/ /\ syncCall[c] = "persisting" /\ SyncGo(c, "reporting")
        /\ syncSaved' = TRUE /\ UNCHANGED syncing
     \/ /\ syncCall[c] = "reporting" /\ SyncGo(c, "closing")
        /\ UNCHANGED <<syncSaved, syncing>>
     \/ /\ syncCall[c] = "closing" /\ SyncGo(c, "idle")
        /\ syncing' = FALSE /\ UNCHANGED syncSaved
  /\ UNCHANGED <<syncFleet, syncSnapshot, syncDone, syncWork, syncBoot, syncTotal, syncFaults, syncStarts>>

(* A call of the try block rejects; in a batch this is the audit of a failed *)
(* endpoint, and Promise.all does not wait for the others.                   *)
SyncFails(c) ==
  /\ syncCall[c] \in {"opening", "listing", "batch", "persisting", "reporting", "closing"}
  /\ \/ syncCall[c] # "batch" /\ UNCHANGED <<syncBusy, syncLate>>
     \/ /\ syncCall[c] = "batch"
        /\ \E h \in syncBusy : syncLate' = syncLate \cup (syncBusy \ {h})
        /\ syncBusy' = {}
  /\ SyncGo(c, "failing") /\ syncTodo' = {} /\ SyncFault
  /\ UNCHANGED <<syncDb, syncDone, syncing, syncBoot, syncTotal, syncStarts>>

(* The flag is only reset on the way of success. *)
SyncGivesUpKeepingFlag(c) ==
  /\ syncCall[c] = "failing" /\ SyncGo(c, "idle")
  /\ UNCHANGED <<syncDb, syncDone, syncing, syncWork, syncBoot, syncTotal, syncFaults, syncStarts>>

(* The catch block, whose audit may fail too, and the finally block. *)
SyncGivesUp(c) ==
  /\ syncCall[c] = "failing" /\ SyncGo(c, "idle")
  /\ syncing' = FALSE
  /\ UNCHANGED <<syncDb, syncDone, syncWork, syncBoot, syncTotal, syncFaults, syncStarts>>

-----------------------------------------------------------------------------
(* Imports, exclusions and deletions change the fleet; a new record has no   *)
(* snapshot.                                                                 *)
SyncFleetChanges ==
  /\ \E h \in Hosts :
       \/ h \notin syncFleet /\ syncFleet' = syncFleet \cup {h} /\ UNCHANGED syncSnapshot
       \/ h \in syncFleet /\ syncFleet' = syncFleet \ {h} /\ syncSnapshot' = syncSnapshot \ {h}
  /\ UNCHANGED <<syncSaved, syncDone, syncing, syncCall, syncWork, syncBoot, syncTotal, syncFaults, syncStarts>>

SyncRestart ==
  /\ syncStarts < MaxEdits /\ syncStarts' = syncStarts + 1
  /\ syncDone' = TRUE /\ syncing' = FALSE /\ syncBoot' = "reading" /\ syncTotal' = 0
  /\ syncCall' = [c \in SyncCallers |-> "idle"]
  /\ syncTodo' = {} /\ syncBusy' = {} /\ syncLate' = {}
  /\ UNCHANGED <<syncDb, syncFaults>>

SyncRunStep(c) ==
  \/ SyncEnter(c) \/ SyncCreate(c) \/ SyncOpen(c) \/ SyncList(c)
  \/ \E h \in Hosts, w \in BOOLEAN : SyncEndpoint(c, h, w)
  \/ SyncConclude(c) \/ SyncGivesUp(c)

SyncNext ==
  \/ SyncRequest \/ SyncTimer \/ SyncBootStep \/ SyncBootFails
  \/ \E c \in SyncCallers : SyncRunStep(c) \/ SyncFails(c)
  \/ \E h \in Hosts : SyncLateEndpoint(h)
  \/ SyncFleetChanges \/ SyncRestart

SyncSpec == SyncInit /\ [][SyncNext]_syncVars

-----------------------------------------------------------------------------
SyncTypeOK ==
  /\ syncFleet \subseteq Hosts /\ syncSnapshot \subseteq syncFleet
  /\ {syncSaved, syncDone, syncing} \subseteq BOOLEAN
  /\ syncCall \in [SyncCallers -> SyncPlaces]
  /\ syncTodo \subseteq Hosts /\ syncBusy \subseteq Hosts /\ syncLate \subseteq Hosts
  /\ syncBoot \in SyncBootPlaces /\ syncTotal \in 0 .. Cardinality(Hosts)
  /\ syncFaults \in 0 .. MaxFaults /\ syncStarts \in 0 .. MaxEdits

(* Two runs are never under way together, whoever asks and in whatever order *)
(* flag tests, setImmediate and failures fall (endpointSync.js:143-148); the *)
(* flag stands exactly while a run does, or for good after SyncRun.create    *)
(* failed (153); and no endpoint is worked on outside the run that holds the *)
(* flag unless a call failed.                                                *)
SyncStuck == \E c \in SyncCallers : syncCall[c] = "stuck"

SyncAlone ==
  LET entered == {c \in SyncCallers : syncCall[c] \in SyncEntered}
  IN /\ Cardinality(entered) <= 1
     /\ syncing <=> entered # {} \/ SyncStuck
     /\ syncLate # {} => syncFaults > 0

(* An endpoint that stays in the fleet gets its snapshot in the end, unless  *)
(* a failed call hit one of the two places the code does not recover from:   *)
(* the chain of start-up (app.js:208-211), after which no timer exists, or   *)
(* SyncRun.create (endpointSync.js:153).                                     *)
SyncReachesAll ==
  \A h \in Hosts :
    <>[](h \in syncFleet) /\ ~<>[](syncBoot = "failed" \/ SyncStuck) => <>[](h \in syncSnapshot)
=============================================================================
