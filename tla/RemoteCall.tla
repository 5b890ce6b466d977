----------------------------- MODULE RemoteCall -----------------------------
(***************************************************************************)
(* One remote call (utils/wmiExec.js): a probe or a command on a host,     *)
(* run by a Python process here or, when WMI_RELAY_URL is set, in the      *)
(* relay (wmiRelayServer.js).  Two clocks run against each other: the      *)
(* timer that kills the process and the timer of the HTTP request.         *)
(*                                                                         *)
(* A tick is 5 s.  A timer at 0 fires before time goes on.                 *)
(***************************************************************************)
EXTENDS Integers

CONSTANTS
  ExecTimeout,  \* ticks a command is given: WMI_QUERY_TIMEOUT_MS, 30 s
  ProbeTimeout, \* ticks a probe is given: WMI_CONNECT_TIMEOUT_MS, 45 s
  ResolveMax    \* bound: ticks the relay takes to look up the names of a host; the
                \* code sets none (utils/relayDns.js)

ASSUME RemoteCallAssumption ==
  ExecTimeout \in Nat \ {0} /\ ProbeTimeout \in Nat \ {0} /\ ResolveMax \in Nat

VARIABLES
  rcKind,    \* "probe" or "exec"
  rcCall,    \* the promise of the caller: "idle", "waiting", "hung" or how it was settled
  rcPatience,\* ticks left of the HTTP request; -1 when there is none
  rcWork,    \* where the work is, here or in the relay
  rcTimer,   \* ticks left of that place
  rcVerdict, \* what the work came to
  rcLookup   \* history: ticks the relay has spent on the look-up

rcVars == <<rcKind, rcCall, rcPatience, rcWork, rcTimer, rcVerdict, rcLookup>>

Larger(a, b) == IF a > b THEN a ELSE b

relayClientTimeoutShort(t) == t \* mutant: as long as the process itself

relayClientTimeout(t) == Larger(t + 3, 2 * t)

probeClientTimeout(t) == Larger(t + 4, 15)

Relayed == rcPatience >= 0
Patience(kind) ==
  IF kind = "exec" THEN relayClientTimeout(ExecTimeout) ELSE probeClientTimeout(ProbeTimeout)
ProcessTime(kind) ==
  IF kind = "exec" THEN ExecTimeout ELSE probeClientTimeout(ProbeTimeout)

RcInit ==
  /\ rcKind = "exec" /\ rcCall = "idle" /\ rcPatience = -1
  /\ rcWork = "none" /\ rcTimer = 0 /\ rcVerdict = "none" /\ rcLookup = 0

WorkAt(place, ticks) == rcWork' = place /\ rcTimer' = ticks
AtProcess(kind) == WorkAt("process", ProcessTime(kind))
Concluded(verdict) == rcVerdict' = verdict /\ WorkAt("concluded", 0)

-----------------------------------------------------------------------------
(* runWmiCommand and runWmiProbe: to the relay, or to a process of their own *)
(* (a probe first tests the ports).  A relay that is down refuses at once.   *)
RcBegins(kind, relayed) ==
  /\ rcCall = "idle" /\ rcCall' = "waiting"
  /\ rcKind' = kind /\ rcLookup' = 0 /\ UNCHANGED rcVerdict
  /\ rcPatience' = IF relayed THEN Patience(kind) ELSE -1
  /\ IF relayed THEN WorkAt("resolving", ResolveMax)
     ELSE IF kind = "probe" THEN WorkAt("ports", 1) ELSE AtProcess(kind)

RcRefused ==
  /\ rcCall = "waiting" /\ rcWork = "resolving" /\ Relayed
  /\ rcCall' = "relay_unavailable" /\ WorkAt("none", 0)
  /\ UNCHANGED <<rcKind, rcPatience, rcVerdict, rcLookup>>

(* The relay looks the host up, then runs the same code without a relay. *)
RcResolved ==
  /\ rcWork = "resolving"
  /\ IF rcKind = "probe" THEN WorkAt("ports", 1) ELSE AtProcess(rcKind)
  /\ UNCHANGED <<rcKind, rcCall, rcPatience, rcVerdict, rcLookup>>

(* Ports 445 and 135 are tried at once, each for 5 s at most. *)
RcPorts(open) ==
  /\ rcWork = "ports"
  /\ IF open THEN AtProcess(rcKind) /\ UNCHANGED rcVerdict ELSE Concluded("unreachable")
  /\ UNCHANGED <<rcKind, rcCall, rcPatience, rcLookup>>

(* The process ends by itself: with its output, a failure that printed       *)
(* something counts as output too, or with nothing but an error.             *)
RcProcessEnds(verdict) ==
  /\ rcWork = "process" /\ verdict \in {"output", "error"}
  /\ Concluded(verdict)
  /\ UNCHANGED <<rcKind, rcCall, rcPatience, rcLookup>>

(* The timer of spawnWithTimeout kills it; a probe then tells the stages it  *)
(* had printed, as WMI_TIMEOUT.                                              *)
RcKilled ==
  /\ rcWork = "process" /\ rcTimer = 0
  /\ Concluded("timeout")
  /\ UNCHANGED <<rcKind, rcCall, rcPatience, rcLookup>>

(* The relay answers, unless its client is gone; here the promise is settled.*)
RcAnswers ==
  /\ rcWork = "concluded"
  /\ rcCall' = IF rcCall = "waiting" THEN rcVerdict ELSE rcCall
  /\ WorkAt("none", 0)
  /\ UNCHANGED <<rcKind, rcPatience, rcVerdict, rcLookup>>

(* The connection ends within the answer: "end" is never emitted, nothing    *)
(* listens to an error of the response, and the timer of the socket is gone. *)
RcAnswerCut ==
  /\ rcWork = "concluded" /\ Relayed /\ rcCall = "waiting"
  /\ rcCall' = "hung" /\ WorkAt("gone", 0)
  /\ UNCHANGED <<rcKind, rcPatience, rcVerdict, rcLookup>>

(* The relay, or the way to it, is gone; the connection may break with it.   *)
RcRelayGone ==
  /\ Relayed /\ rcWork \in {"resolving", "ports", "process", "concluded"}
  /\ WorkAt("gone", 0)
  /\ rcCall' \in {rcCall, IF rcCall = "waiting" THEN "relay_unavailable" ELSE rcCall}
  /\ UNCHANGED <<rcKind, rcPatience, rcVerdict, rcLookup>>

RcPatienceEndsIgnored == FALSE /\ UNCHANGED rcVars \* mutant: no timer on the request

RcPatienceEnds ==
  /\ rcCall = "waiting" /\ rcPatience = 0
  /\ rcCall' = "relay_timed_out"
  /\ UNCHANGED <<rcKind, rcPatience, rcWork, rcTimer, rcVerdict, rcLookup>>

(* The next call. *)
RcForgotten ==
  /\ rcCall \notin {"idle", "waiting", "hung"} /\ rcWork \in {"none", "gone"}
  /\ rcCall' = "idle" /\ rcPatience' = -1 /\ WorkAt("none", 0) /\ rcVerdict' = "none"
  /\ UNCHANGED <<rcKind, rcLookup>>

Urgent == \/ rcWork \in {"resolving", "ports", "process"} /\ rcTimer = 0
          \/ rcWork = "concluded"
          \/ rcCall = "waiting" /\ rcPatience = 0

RcTick ==
  /\ ~Urgent
  /\ rcCall = "waiting" \/ rcWork \in {"resolving", "ports", "process"}
  /\ rcTimer' = IF rcTimer > 0 THEN rcTimer - 1 ELSE 0
  /\ rcPatience' = IF rcPatience > 0 THEN rcPatience - 1 ELSE rcPatience
  /\ rcLookup' = IF rcWork = "resolving" THEN rcLookup + 1 ELSE rcLookup
  /\ UNCHANGED <<rcKind, rcCall, rcWork, rcVerdict>>

(* What is due happens. *)
RcDue ==
  \/ rcTimer = 0 /\ (RcResolved \/ RcPorts(FALSE))
  \/ RcKilled \/ RcAnswers \/ RcPatienceEnds

RcNext ==
  \/ \E kind \in {"probe", "exec"}, relayed \in BOOLEAN : RcBegins(kind, relayed)
  \/ RcRefused \/ RcResolved \/ RcKilled \/ RcAnswers
  \/ \E open \in BOOLEAN : RcPorts(open)
  \/ \E verdict \in {"output", "error"} : RcProcessEnds(verdict)
  \/ RcAnswerCut \/ RcRelayGone \/ RcPatienceEnds \/ RcForgotten \/ RcTick

RcSpec == RcInit /\ [][RcNext]_rcVars

RcTypeOK ==
  /\ rcKind \in {"probe", "exec"}
  /\ rcCall \in {"idle", "waiting", "hung", "relay_unavailable", "relay_timed_out",
                 "unreachable", "output", "error", "timeout"}
  /\ rcPatience \in -1..Larger(Patience("exec"), Patience("probe"))
  /\ rcWork \in {"none", "resolving", "ports", "process", "concluded", "gone"}
  /\ rcTimer \in 0..Larger(ResolveMax, Larger(ProcessTime("exec"), ProcessTime("probe")))
  /\ rcVerdict \in {"none", "unreachable", "output", "error", "timeout"}
  /\ rcLookup \in 0..ResolveMax

-----------------------------------------------------------------------------
(* A caller is told of the end of its command by the relay that ran it: the  *)
(* request outlasts the process (wmiExec.js:120-122), so that it times out   *)
(* only when the relay is gone, or has spent on the look-up of the names, to *)
(* which nothing sets a limit, all that the request has beyond the process.  *)
ExecVerdictArrives ==
  rcCall = "relay_timed_out" /\ rcKind = "exec" /\ rcWork # "gone" =>
    rcLookup >= Larger(3, ExecTimeout)

(* A remote call is settled: by its answer, a broken connection or a timer   *)
(* (wmiExec.js:163-172, 185-218).  An answer that is cut off is the exception.*)
CallSettles == []<>(rcCall # "waiting")
=============================================================================
