------------------------------ MODULE ApiQuery ------------------------------
(***************************************************************************)
(* The hook that loads what a tab or a list shows                          *)
(* (frontend/src/hooks/useApiQuery.js) over request of api.js: calls that  *)
(* are superseded, aborted, retried and answered late.  A dependency that  *)
(* changes (the endpoint, the tab, the search) is a new key; the data is   *)
(* known by the key it was fetched for and the call that fetched it.       *)
(***************************************************************************)
EXTENDS Fleet

CONSTANTS
  Retries,   \* retries of the options
  MaxReloads \* bound: calls of reload

ASSUME QueryAssumption == Retries \in Nat /\ MaxReloads \in Nat \ {0}

VARIABLES
  qEnabled, \* options.enabled
  qKey,     \* the dependencies
  qStatus,  \* status
  qData,    \* data, or NoData
  qError,   \* error # null
  qRun,     \* runId
  qCalls    \* calls of reload under way

qVars == <<qEnabled, qKey, qStatus, qData, qError, qRun, qCalls>>

NoData == [key |-> 0, call |-> 0, full |-> FALSE]
hasLoadedData == qData.full
Call(id, key) == [id |-> id, key |-> key, at |-> "asking", tries |-> 0, dead |-> FALSE]
Results(call) == [key |-> call.key, call |-> call.id, full |-> TRUE]

QTypeOK ==
  /\ {qEnabled, qError} \subseteq BOOLEAN /\ qKey \in 0..MaxEdits /\ qRun \in 0..MaxReloads
  /\ qStatus \in {"idle", "loading", "success", "empty", "error"}
  /\ qData \in [key : 0..MaxEdits, call : 0..MaxReloads, full : BOOLEAN]
  /\ \A c \in qCalls : c.id \in 1..qRun /\ c.tries \in 0..Retries

QInit == \* mounted, with data of the inventory or none, and the effect has run
  /\ qEnabled \in BOOLEAN /\ qKey = 0
  /\ qData \in {NoData, [NoData EXCEPT !.full = TRUE]}
  /\ qError = FALSE /\ qRun = IF qEnabled THEN 1 ELSE 0
  /\ qCalls = {Call(i, 0) : i \in 1..qRun}
  /\ qStatus = CASE hasLoadedData -> "success" [] qEnabled -> "loading" [] OTHER -> "idle"

-----------------------------------------------------------------------------
Aborted == {[c EXCEPT !.dead = TRUE] : c \in qCalls}

(* reload of the key: supersedes and aborts the call before it. *)
Reload(silent, key) ==
  /\ qRun < MaxReloads /\ qRun' = qRun + 1
  /\ qCalls' = Aborted \union {Call(qRun + 1, key)}
  /\ qStatus' = IF silent \/ hasLoadedData THEN qStatus ELSE "loading"
  /\ qError' = FALSE /\ UNCHANGED qData

QReload == \* a button, a timer, an event
  /\ qEnabled /\ \E silent \in BOOLEAN : Reload(silent, qKey)
  /\ UNCHANGED <<qEnabled, qKey>>

QKeyChanges == \* cleanup, then the effect again
  /\ qKey < MaxEdits /\ qKey' = qKey + 1
  /\ IF qEnabled THEN Reload(hasLoadedData, qKey')
     ELSE qError' = FALSE /\ UNCHANGED <<qRun, qCalls, qStatus, qData>>
  /\ UNCHANGED qEnabled

QDisables ==
  /\ qEnabled /\ qEnabled' = FALSE
  /\ qCalls' = Aborted /\ qError' = FALSE
  /\ UNCHANGED <<qKey, qStatus, qData, qRun>>

QEnables ==
  /\ ~qEnabled /\ qEnabled' = TRUE
  /\ Reload(hasLoadedData, qKey) /\ UNCHANGED qKey

(* patchData: rows of the data change in place. *)
QPatches ==
  /\ hasLoadedData /\ \E full \in BOOLEAN : qData' = [qData EXCEPT !.full = full]
  /\ UNCHANGED <<qEnabled, qKey, qStatus, qError, qRun, qCalls>>

-----------------------------------------------------------------------------
Current(c) == c.id = qRun

(* The result is taken, or an empty one.  A body that is cut off by the      *)
(* timeout reads as an empty object (api.js:30).                             *)
QTakesAny(c) == \* mutant: whoever answers last is shown
  /\ c.at = "asking" /\ qCalls' = qCalls \ {c}
  /\ \E full \in BOOLEAN :
       qData' = [Results(c) EXCEPT !.full = full] /\ qStatus' = IF full THEN "success" ELSE "empty"
  /\ UNCHANGED <<qEnabled, qKey, qError, qRun>>

QTakes(c) ==
  /\ c.at = "asking" /\ qCalls' = qCalls \ {c}
  /\ IF ~Current(c) \/ c.dead THEN UNCHANGED <<qData, qStatus>>
     ELSE \E full \in BOOLEAN :
            /\ qData' = [Results(c) EXCEPT !.full = full]
            /\ qStatus' = IF full THEN "success" ELSE "empty"
  /\ UNCHANGED <<qEnabled, qKey, qError, qRun>>

QEndsQuietly(c) == \* mutant: no status for a failure without data
  /\ qCalls' = qCalls \ {c}
  /\ qError' = (qError \/ Current(c))
  /\ qStatus' = IF Current(c) /\ hasLoadedData THEN "success" ELSE qStatus

(* The end of the loop: the error of the call that is current. *)
QEndsInError(c) ==
  /\ qCalls' = qCalls \ {c}
  /\ qError' = (qError \/ Current(c))
  /\ qStatus' = CASE ~Current(c) -> qStatus
                  [] Current(c) /\ hasLoadedData -> "success"
                  [] OTHER -> "error"

QFailsOnceMore(c) == \* mutant: the last retry is followed by another
  /\ c.at = "asking" /\ c.tries <= Retries
  /\ qCalls' = (qCalls \ {c}) \union {[c EXCEPT !.at = "sleeping"]}
  /\ UNCHANGED <<qEnabled, qKey, qStatus, qData, qError, qRun>>

(* The attempt fails: a timeout, an abort (which request reports as a        *)
(* timeout) or an answer that says so.                                       *)
QFails(c) ==
  /\ c.at = "asking"
  /\ \/ /\ c.dead /\ ~Current(c) /\ qCalls' = qCalls \ {c} /\ UNCHANGED <<qError, qStatus>>
     \/ /\ c.tries < Retries /\ qCalls' = (qCalls \ {c}) \union {[c EXCEPT !.at = "sleeping"]}
        /\ UNCHANGED <<qError, qStatus>>
     \/ c.tries = Retries /\ QEndsInError(c)
  /\ UNCHANGED <<qEnabled, qKey, qData, qRun>>

QWakes(c) ==
  /\ c.at = "sleeping"
  /\ qCalls' = (qCalls \ {c}) \union
       IF c.dead THEN {} ELSE {[c EXCEPT !.at = "asking", !.tries = @ + 1]}
  /\ UNCHANGED <<qEnabled, qKey, qStatus, qData, qError, qRun>>

QCallStep(c) == QTakes(c) \/ QFails(c) \/ QWakes(c)

QNext ==
  \/ QReload \/ QKeyChanges \/ QDisables \/ QEnables \/ QPatches
  \/ \E c \in qCalls : QCallStep(c)

QSpec == QInit /\ [][QNext]_qVars

-----------------------------------------------------------------------------
(* When no call is under way and no error is told, what is shown was fetched *)
(* by the newest call, for the dependencies that hold now, in whatever order *)
(* the calls were answered (useApiQuery.js:49-64).                           *)
NewestShown ==
  qEnabled /\ qCalls = {} /\ ~qError => qData.key = qKey /\ qData.call = qRun

(* A query that stays enabled does not load for ever: it ends in data, in    *)
(* "empty" or in an error (ARCHITECTURE.md:152).                             *)
LoadingStops == <>[]qEnabled => []<>(qStatus # "loading")
=============================================================================
