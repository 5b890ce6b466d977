---------------------------- MODULE ActivityTrail ----------------------------
(***************************************************************************)
(* The activity log (services/activityLog.js) and what writes to it as the *)
(* sessions of remote desktops do (services/remoteDesktop.js).  A write    *)
(* stores its entry, counts the entries, looks up the oldest of those that *)
(* are too many and deletes them, awaiting the database each time.         *)
(***************************************************************************)
EXTENDS Fleet

CONSTANTS
  MaxLogs,  \* MAX_ACTIVITY_LOGS
  Enders,   \* requests that end the session: button, beacon of the page
  MaxWrites \* bound: other entries that are written

ASSUME TrailAssumption == MaxLogs \in Nat \ {0} /\ MaxWrites \in Nat /\ Enders # {}

VARIABLES
  trLog,      \* entries stored: their numbers, in the order of their timestamps
  trNext,     \* the number of the next entry
  trWriters,  \* writes in progress: the entry, where it is, what it counted or found
  trSessions, \* desktop sessions: "new", "open" or "gone"
  trEnds,     \* the requests that ended the session and wrote so
  trEnder     \* request -> where it is

trVars == <<trLog, trNext, trWriters, trSessions, trEnds, trEnder>>
trDesktop == <<trSessions, trEnds, trEnder>>

TrTypeOK ==
  /\ trLog \subseteq 1..(trNext - 1)
  /\ \A w \in trWriters : w.at \in {"counting", "looking", "deleting"}
  /\ trSessions \in {"new", "open", "gone"} /\ trEnds \subseteq Enders

TrInit ==
  /\ trLog = {} /\ trNext = 1 /\ trWriters = {}
  /\ trSessions = "new" /\ trEnds = {}
  /\ trEnder = [e \in Enders |-> "idle"]

-----------------------------------------------------------------------------
TrStores == \* ActivityLog.create
  /\ trNext <= MaxWrites
  /\ trLog' = trLog \union {trNext}
  /\ trWriters' = trWriters \union {[entry |-> trNext, at |-> "counting"]}
  /\ trNext' = trNext + 1

TrMoves(w, moved) == trWriters' = (trWriters \ {w}) \union moved

TrCounts(w) ==
  /\ w.at = "counting"
  /\ TrMoves(w, IF Cardinality(trLog) <= MaxLogs THEN {}
                ELSE {[entry |-> w.entry, at |-> "looking", trim |-> Cardinality(trLog) - MaxLogs]})
  /\ UNCHANGED <<trLog, trNext, trDesktop>>

(* What find().sort({ timestamp: 1 }).limit(n) answers. *)
TrOldest(n) ==
  {S \in SUBSET trLog :
     /\ Cardinality(S) = IF n < Cardinality(trLog) THEN n ELSE Cardinality(trLog)
     /\ \A a \in S, b \in trLog \ S : a < b}

TrLooksForOne(w) == \* mutant: the entry that was added is made up for
  /\ w.at = "looking"
  /\ \E old \in TrOldest(1) :
       TrMoves(w, {[entry |-> w.entry, at |-> "deleting", old |-> old]})
  /\ UNCHANGED <<trLog, trNext, trDesktop>>

TrLooks(w) ==
  /\ w.at = "looking"
  /\ \E old \in TrOldest(w.trim) :
       TrMoves(w, {[entry |-> w.entry, at |-> "deleting", old |-> old]})
  /\ UNCHANGED <<trLog, trNext, trDesktop>>

TrDeletes(w) ==
  /\ w.at = "deleting"
  /\ trLog' = trLog \ w.old
  /\ TrMoves(w, {})
  /\ UNCHANGED <<trNext, trDesktop>>

-----------------------------------------------------------------------------
(* launchSession opens the session and its timer, then writes the entry.     *)
TrLaunches ==
  /\ trSessions = "new" /\ trSessions' = "open"
  /\ TrStores
  /\ UNCHANGED <<trEnds, trEnder>>

TrSessionTimesOut ==
  /\ trSessions = "open" /\ trSessions' = "gone"
  /\ UNCHANGED <<trLog, trNext, trWriters, trEnds, trEnder>>

(* endSession drops the session, then writes that it ended; a session that   *)
(* is gone is none of its business.                                          *)
TrEndsSession(e) ==
  /\ trEnder[e] = "idle" /\ trSessions # "new"
  /\ trEnder' = [trEnder EXCEPT ![e] = "done"]
  /\ trSessions' = "gone"
  /\ IF trSessions = "gone" THEN UNCHANGED <<trLog, trNext, trWriters, trEnds>>
     ELSE TrStores /\ trEnds' = trEnds \union {e}

TrNextStep ==
  \/ TrStores /\ UNCHANGED trDesktop
  \/ \E w \in trWriters : TrCounts(w) \/ TrLooks(w) \/ TrDeletes(w)
  \/ TrLaunches \/ TrSessionTimesOut
  \/ \E e \in Enders : TrEndsSession(e)

TrSpec == TrInit /\ [][TrNextStep]_trVars

-----------------------------------------------------------------------------
(* When no write is under way the log is within its limit, however many      *)
(* writes stored, counted and trimmed at the same time (activityLog.write).  *)
TrailIsTrimmed == trWriters = {} => Cardinality(trLog) <= MaxLogs

(* A desktop session ends once: the button, the page that is closed and the  *)
(* timer leave one entry between them (remoteDesktop.endSession).            *)
SessionEndsOnce == Cardinality(trEnds) <= 1

(* The log keeps its limit, and one end of each desktop session              *)
(* (TrailIsTrimmed, SessionEndsOnce: activityLog.js:5-34, remoteDesktop.js:75-91). *)
TrailKept == TrailIsTrimmed /\ SessionEndsOnce
=============================================================================
