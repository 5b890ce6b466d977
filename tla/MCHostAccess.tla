---------------------------- MODULE MCHostAccess ----------------------------
(***************************************************************************)
(* Bounds for the way to a host and back into its record: WMI sessions,    *)
(* one remote call, checks of one endpoint.  They share no state, so a     *)
(* behaviour belongs to one of them, "part", and the others stand still:   *)
(* the run visits the sum of their states, not the product.                *)
(***************************************************************************)
EXTENDS WmiSession, RemoteCall, EndpointRecord

VARIABLE part
vars == <<part, wsVars, rcVars, erVars>>

Init ==
  /\ part \in {"session", "call", "record"}
  /\ WsInit /\ RcInit /\ ErInit

Next ==
  /\ UNCHANGED part
  /\ \/ /\ part = "session" /\ WsNext
        /\ UNCHANGED <<rcVars, erVars>>
     \/ /\ part = "call" /\ RcNext
        /\ UNCHANGED <<wsVars, erVars>>
     \/ /\ part = "record" /\ ErNext
        /\ UNCHANGED <<wsVars, rcVars>>

(* Sessions: callers come again and again, each step of a login ends by its  *)
(* time limit, the request of an edit goes on, time passes.  Call: time      *)
(* passes, and what is due happens.  Record: probes end, their callers go    *)
(* on, monitor and synchronisation come again, and a host asked again and    *)
(* again answers at some time (SF), which is the operator's business.        *)
Fairness ==
  /\ \A c \in Callers : /\ WF_wsVars(part = "session" /\ WsBegins(c))
                        /\ WF_wsVars(part = "session" /\ WsCallStep(c))
  /\ WF_wsVars(part = "session" /\ WsEditClears)
  /\ WF_wsVars(part = "session" /\ WsSessionAges)
  /\ WF_wsVars(part = "session" /\ WsCheckAges)
  /\ WF_rcVars(part = "call" /\ RcTick) /\ WF_rcVars(part = "call" /\ RcDue)
  /\ \A k \in Kinds : WF_erVars(part = "record" /\ ErAnswers(k))
  /\ \A c \in Checkers : WF_erVars(part = "record" /\ ErCheckStep(c))
  /\ WF_erVars(part = "record" /\ ErChecks("monitor", "lite"))
  /\ WF_erVars(part = "record" /\ ErChecks("sync", "full"))
  /\ SF_erVars(part = "record" /\ ErAnswersFromHost)

Spec == Init /\ [][Next]_vars /\ Fairness

(* Outages of the way to a host end: a session made with an old record is    *)
(* dropped, and a relay that is back is found to be back (StaleSessionEnds,  *)
(* RelayOutageEnds: agentProbe.js:98-139).                                   *)
OutagesEnd == StaleSessionEnds /\ RelayOutageEnds

HostAccessTypeOK == WsTypeOK /\ RcTypeOK /\ ErTypeOK
=============================================================================
