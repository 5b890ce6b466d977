------------------------------ MODULE SyncView ------------------------------
(***************************************************************************)
(* What the portal shows of a full synchronisation                         *)
(* (frontend/src/context/SyncContext.jsx): the spinner follows the events  *)
(* of a socket, which are lost while it is not connected, and the answers  *)
(* of a poll, which may overtake each other.  Of the backend only what     *)
(* both tell is kept; FullSync has the run itself.  The figure stands for  *)
(* the pair completed, total.                                              *)
(***************************************************************************)
EXTENDS Fleet

VARIABLES
  viewRun,     \* what the backend runs: shown (manual, initial) or quiet (scheduled)
  viewPhase,   \* how far that run is
  viewStamp,   \* state.lastSyncAt: the number of runs that succeeded
  viewNews,    \* events on the socket, oldest first
  viewAnswers, \* answers of the status on their way: to the page that loads, to the poll
  viewPost,    \* the request of syncNow
  viewSyncing, \* syncing: the spinner
  viewManual,  \* manualActive
  viewLast,    \* lastStatus, the status applied last
  viewUnheard, \* a run failed and no event said so to the page
  viewFaults,  \* events lost, requests of syncNow that failed
  viewRuns,    \* runs begun that the page has not asked for
  viewClicks   \* calls of syncNow

viewServer == <<viewRun, viewPhase, viewStamp, viewRuns>>
viewWire == <<viewNews, viewAnswers>>
viewPage == <<viewSyncing, viewManual, viewLast>>
viewRequest == <<viewPost, viewClicks>>
viewVars == <<viewServer, viewWire, viewRequest, viewPage, viewUnheard, viewFaults>>

Phases == {"idle", "due", "opening", "working", "stamped", "told"}
Running == viewPhase \notin {"idle", "due"}
Shown == viewRun = "shown"

Status(by) == \* getSyncStatus
  [by |-> by, running |-> Running, ui |-> Running /\ Shown, stamp |-> viewStamp,
   figure |-> CASE ~Running -> "none" [] viewPhase \in {"opening", "working"} -> viewPhase
                [] OTHER -> "last"]

NoStatus == [by |-> "page", running |-> FALSE, ui |-> FALSE, stamp |-> 0, figure |-> "null"]

ViewTypeOK ==
  /\ viewRun \in {"none", "shown", "quiet"} /\ viewPhase \in Phases /\ viewPost \in {"none", "sent", "done"}
  /\ \A i \in DOMAIN viewNews : viewNews[i] \in {"sync:start", "sync:progress", "sync:complete"}
  /\ {viewSyncing, viewManual, viewUnheard} \subseteq BOOLEAN
  /\ \A s \in viewAnswers : s.running = (s.figure # "none") /\ s.stamp <= viewStamp

ViewInit ==
  /\ viewRun \in {"none", "shown", "quiet"} /\ viewPhase = IF viewRun = "none" THEN "idle" ELSE "working"
  /\ viewRuns = IF Running THEN 1 ELSE 0
  /\ viewStamp = 0 /\ viewNews = <<>> /\ viewAnswers = {Status("page")}
  /\ viewPost = "none" /\ viewSyncing = FALSE /\ viewManual = FALSE /\ viewLast = NoStatus
  /\ viewUnheard = FALSE /\ viewFaults = 0 /\ viewClicks = 0

ViewFault == viewFaults < MaxFaults /\ viewFaults' = viewFaults + 1

-----------------------------------------------------------------------------
(* The backend. *)

(* emitSync: an event for a run that is shown.  It is lost if the page is    *)
(* not connected, and what was on its way when the connection broke with it. *)
Emits(event, failed) ==
  IF ~Shown
    THEN UNCHANGED <<viewNews, viewFaults>> /\ viewUnheard' = (viewUnheard \/ failed)
    ELSE \/ viewNews' = Append(viewNews, event) /\ UNCHANGED <<viewFaults, viewUnheard>>
         \/ ViewFault /\ viewUnheard' = (viewUnheard \/ failed) /\ viewNews' = <<>>

ViewStarts == \* runFullSync sets the flag
  /\ \/ viewPhase = "due" /\ UNCHANGED <<viewRun, viewRuns>>
     \/ /\ viewPhase = "idle" /\ viewRuns < MaxEdits
        /\ viewRuns' = viewRuns + 1 /\ viewRun' = "quiet"
  /\ viewPhase' = "opening"
  /\ UNCHANGED <<viewStamp, viewWire, viewRequest, viewPage, viewUnheard, viewFaults>>

(* The timer enters runFullSync between the request and its setImmediate:    *)
(* the run asked for finds the flag set and says nothing.                    *)
ViewOvertaken ==
  /\ viewPhase = "due" /\ viewRuns < MaxEdits /\ viewRuns' = viewRuns + 1
  /\ viewPhase' = "opening" /\ viewRun' = "quiet"
  /\ UNCHANGED <<viewStamp, viewWire, viewRequest, viewPage, viewUnheard, viewFaults>>

ViewRunStep ==
  /\ \/ /\ viewPhase = "opening" /\ viewPhase' = "working"
        /\ Emits("sync:start", FALSE) /\ UNCHANGED viewStamp
     \/ /\ viewPhase = "working" /\ viewPhase' = "stamped" \* the last batch
        /\ Emits("sync:progress", FALSE) /\ viewStamp' = viewStamp + 1
     \/ /\ viewPhase = "stamped" /\ viewPhase' = "told"
        /\ Emits("sync:complete", FALSE) /\ UNCHANGED viewStamp
     \/ /\ viewPhase = "told" /\ viewPhase' = "idle"
        /\ UNCHANGED <<viewStamp, viewNews, viewFaults, viewUnheard>>
  /\ viewRun' = IF viewPhase = "told" THEN "none" ELSE viewRun
  /\ UNCHANGED <<viewRuns, viewAnswers, viewRequest, viewPage>>

ViewRunFails ==
  /\ Running /\ viewPhase' = "idle" /\ viewRun' = "none"
  /\ Emits("sync:complete", TRUE)
  /\ UNCHANGED <<viewStamp, viewRuns, viewAnswers, viewRequest, viewPage>>

(* POST /api/sync/full. *)
ViewAccepts ==
  /\ viewPost = "sent" /\ viewPost' = "done"
  /\ IF Running THEN UNCHANGED <<viewRun, viewPhase>>
     ELSE viewRun' = "shown" /\ viewPhase' = "due"
  /\ UNCHANGED <<viewStamp, viewRuns, viewWire, viewPage, viewUnheard, viewFaults, viewClicks>>

-----------------------------------------------------------------------------
(* The page. *)

syncNow ==
  /\ ~viewSyncing /\ viewPost = "none"
  /\ viewClicks < MaxEdits /\ viewClicks' = viewClicks + 1
  /\ viewManual' = TRUE /\ viewSyncing' = TRUE /\ viewPost' = "sent"
  /\ UNCHANGED <<viewServer, viewWire, viewLast, viewUnheard, viewFaults>>

ViewPostReturns == \* the answer, or the failure of a request the backend may have taken
  \/ /\ viewPost = "done" /\ viewPost' = "none"
     /\ UNCHANGED <<viewServer, viewWire, viewPage, viewUnheard, viewFaults, viewClicks>>
  \/ /\ viewPost \in {"sent", "done"} /\ viewPost' = "none" /\ ViewFault
     /\ viewSyncing' = FALSE /\ viewManual' = FALSE
     /\ UNCHANGED <<viewServer, viewWire, viewLast, viewUnheard, viewClicks>>

(* At once when the spinner comes on, then every two seconds; a poll that is *)
(* lost is one not sent.  Bound: one answer to a poll is on its way.         *)
ViewPolls ==
  /\ viewSyncing /\ \A s \in viewAnswers : s.by = "page"
  /\ viewAnswers' = viewAnswers \union {Status("poll")}
  /\ UNCHANGED <<viewServer, viewNews, viewRequest, viewPage, viewUnheard, viewFaults>>

statusEqualUnstamped(a, b) == \* mutant: lastSyncAt is not compared
  a.running = b.running /\ a.figure = b.figure

statusEqual(a, b) ==
  a.running = b.running /\ a.stamp = b.stamp /\ a.figure = b.figure

applyStatus(s) ==
  IF statusEqual(viewLast, s) THEN UNCHANGED viewPage
  ELSE /\ viewLast' = [NoStatus EXCEPT !.running = s.running, !.stamp = s.stamp, !.figure = s.figure]
       /\ viewSyncing' = (s.running /\ (s.ui \/ viewManual))
       /\ viewManual' = (s.running /\ viewManual)

ViewApplies ==
  /\ \E s \in viewAnswers :
       /\ viewAnswers' = viewAnswers \ {s}
       /\ IF s.by = "page" /\ ~(s.running /\ s.ui) THEN UNCHANGED viewPage ELSE applyStatus(s)
  /\ UNCHANGED <<viewServer, viewNews, viewRequest, viewUnheard, viewFaults>>

ViewHears ==
  /\ viewNews # <<>> /\ viewNews' = Tail(viewNews)
  /\ viewSyncing' = (Head(viewNews) # "sync:complete")
  /\ viewManual' = (viewManual /\ viewSyncing')
  /\ UNCHANGED <<viewServer, viewAnswers, viewRequest, viewLast, viewUnheard, viewFaults>>

ViewNext ==
  \/ ViewStarts \/ ViewOvertaken \/ ViewRunStep \/ ViewRunFails \/ ViewAccepts
  \/ syncNow \/ ViewPostReturns \/ ViewPolls \/ ViewApplies \/ ViewHears

ViewSpec == ViewInit /\ [][ViewNext]_viewVars

-----------------------------------------------------------------------------
(* Once nothing runs for good the spinner goes out, whichever events and     *)
(* answers were lost or overtaken (applyStatus: the poll stands in for the   *)
(* socket).  One case is beyond the code: of a run that failed unheard and   *)
(* between two polls the status says what it said before, and the comparison *)
(* with lastStatus drops it (SyncContext.jsx:68).                            *)
SpinnerGoesOut == <>[](viewPhase = "idle") => <>[]~viewSyncing \/ <>viewUnheard
=============================================================================
