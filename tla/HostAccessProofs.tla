-------------------------- MODULE HostAccessProofs --------------------------
(***************************************************************************)
(* What TLAPS checks of the way to a host and back into its record: WMI    *)
(* sessions, one remote call, the checks of one endpoint, for every set of *)
(* callers, of answers and of installed versions, and every time limit.    *)
(***************************************************************************)
EXTENDS MCHostAccess, FiniteSetTheorems, TLAPS

LEMMA AtMostOne ==
  ASSUME NEW x
  PROVE  /\ Cardinality({}) <= 1
         /\ Cardinality({x}) <= 1
<1>1. Cardinality({}) = 0 /\ Cardinality({x}) = 1
  BY FS_EmptySet, FS_Singleton
<1>. QED
  BY <1>1

-----------------------------------------------------------------------------
(* Sessions.                                                                 *)

Versions == 0 .. MaxEdits
Logins == {"platform", "lost", "wrong", "own"}
WsPlaces == {"idle", "relay", "health", "lookup", "cached", "trying", "session", "failed"}

(* A login keeps the version of the record it read until it is settled. *)
LoginInv(c) ==
  /\ wsConn[c].at \in WsPlaces
  /\ wsConn[c].at \in {"relay", "health", "lookup"} =>
       wsConn[c] \in [at : WsPlaces, ver : Versions, logins : Logins]
  /\ wsConn[c].at \in {"cached", "trying"} => wsConn[c].ver \in Versions

WsInv ==
  /\ wsRec \in [ver : Versions, user : {"none", "own", "platform"}, pass : BOOLEAN]
  /\ wsTtl \in 0..Ttl
  /\ wsRelay \in [ok : BOOLEAN, fresh : BOOLEAN]
  /\ wsEditing \in BOOLEAN /\ wsRelayUp \in BOOLEAN
  /\ Cardinality(wsCache) <= 1 /\ \A s \in wsCache : s.ver \in Versions
  /\ DOMAIN wsConn = Callers /\ \A c \in Callers : LoginInv(c)
  /\ SessionFollowsRecord

(* What a step of one login makes of that login, the others being as they were. *)
LEMMA LoginMoves ==
  ASSUME WsInv, NEW c \in Callers, NEW new, wsConn' = [wsConn EXCEPT ![c] = new],
         new.at \in WsPlaces,
         new.at \in {"relay", "health", "lookup"} =>
           new \in [at : WsPlaces, ver : Versions, logins : Logins],
         new.at \in {"cached", "trying"} => new.ver \in Versions
  PROVE  DOMAIN wsConn' = Callers /\ \A d \in Callers : LoginInv(d)'
<1>1. DOMAIN wsConn' = Callers /\ wsConn'[c] = new
      /\ \A d \in Callers \ {c} : wsConn'[d] = wsConn[d]
  BY DEF WsInv
<1>2. LoginInv(c)'
  BY <1>1 DEF LoginInv
<1>3. \A d \in Callers \ {c} : LoginInv(d)'
  BY <1>1 DEF LoginInv, WsInv
<1>. QED
  BY <1>1, <1>2, <1>3

LEMMA LoginFails ==
  ASSUME WsInv, NEW c \in Callers, NEW kind, NEW causes, Fails(c, kind, causes)
  PROVE  DOMAIN wsConn' = Callers /\ \A d \in Callers : LoginInv(d)'
<1>. DEFINE new == [at |-> "failed", kind |-> kind, causes |-> causes]
<1>1. wsConn' = [wsConn EXCEPT ![c] = new] /\ new.at = "failed"
  BY DEF Fails
<1>. HIDE DEF new
<1>. QED
  BY <1>1, LoginMoves DEF WsPlaces

LEMMA LoginTries ==
  ASSUME WsInv, NEW c \in Callers, NEW more, Tries(c, more), wsConn[c].ver \in Versions
  PROVE  DOMAIN wsConn' = Callers /\ \A d \in Callers : LoginInv(d)'
<1>. DEFINE new == [at |-> "trying", ver |-> wsConn[c].ver, logins |-> wsConn[c].logins,
                    target |-> more.target, login |-> more.login, causes |-> more.causes]
<1>1. wsConn' = [wsConn EXCEPT ![c] = new]
  BY DEF Tries, WsInv
<1>2. new.at = "trying" /\ new.ver \in Versions
  OBVIOUS
<1>. HIDE DEF new
<1>. QED
  BY <1>1, <1>2, LoginMoves DEF WsPlaces

LEMMA LoginOpens ==
  ASSUME WsInv, NEW c \in Callers, NEW own, Opens(c, own)
  PROVE  DOMAIN wsConn' = Callers /\ \A d \in Callers : LoginInv(d)'
<1>. DEFINE new == [at |-> "session", own |-> own]
<1>1. wsConn' = [wsConn EXCEPT ![c] = new] /\ new.at = "session"
  BY DEF Opens
<1>. HIDE DEF new
<1>. QED
  BY <1>1, LoginMoves DEF WsPlaces

LEMMA LoginGoes ==
  ASSUME WsInv, NEW c \in Callers, NEW place \in {"health", "lookup"}, Goes(c, place),
         wsConn[c].at \in {"relay", "health"}
  PROVE  DOMAIN wsConn' = Callers /\ \A d \in Callers : LoginInv(d)'
<1>. DEFINE new == [wsConn[c] EXCEPT !.at = place]
<1>1. wsConn' = [wsConn EXCEPT ![c] = new]
  BY DEF Goes, WsInv
<1>2. wsConn[c] \in [at : WsPlaces, ver : Versions, logins : Logins]
  BY DEF WsInv, LoginInv
<1>3. new \in [at : WsPlaces, ver : Versions, logins : Logins] /\ new.at = place
  BY <1>2 DEF WsPlaces
<1>. HIDE DEF new
<1>. QED
  BY <1>1, <1>3, LoginMoves DEF WsPlaces

(* The steps of a login that leave the record alone, and the cache or empty it. *)
LEMMA LoginKeeps ==
  ASSUME WsInv, DOMAIN wsConn' = Callers, \A d \in Callers : LoginInv(d)',
         UNCHANGED <<wsEnv, wsTtl>>, wsCache' = wsCache \/ wsCache' = {},
         wsRelay' \in [ok : BOOLEAN, fresh : BOOLEAN]
  PROVE  WsInv'
BY AtMostOne DEF WsInv, wsEnv, SessionFollowsRecord

LEMMA WsCallStepKeeps ==
  ASSUME WsInv, NEW c \in Callers, WsCallStep(c)
  PROVE  WsInv'
<1>1. CASE WsEnsureRelay(c)
  <2>1. DOMAIN wsConn' = Callers /\ \A d \in Callers : LoginInv(d)'
    BY <1>1, LoginGoes, LoginFails DEF WsEnsureRelay, RelayFails
  <2>. QED
    BY <1>1, <2>1, LoginKeeps DEF WsEnsureRelay, WsInv
<1>2. CASE WsHealth(c)
  <2>1. DOMAIN wsConn' = Callers /\ \A d \in Callers : LoginInv(d)'
    BY <1>2, LoginGoes, LoginFails DEF WsHealth, RelayFails
  <2>. QED
    BY <1>2, <2>1, LoginKeeps DEF WsHealth, WsInv
<1>3. CASE WsLookup(c)
  <2>1. wsConn[c].ver \in Versions
    BY <1>3 DEF WsLookup, WsInv, LoginInv
  <2>2. CASE TriesAll(c)
    BY <1>3, <2>1, <2>2, LoginTries, LoginKeeps DEF WsLookup, TriesAll, WsInv
  <2>3. CASE \E s \in wsCache :
               wsConn' = [wsConn EXCEPT ![c] =
                 [at |-> "cached", ver |-> @.ver, logins |-> @.logins, own |-> s.own]]
    <3>1. PICK s \in wsCache :
            wsConn' = [wsConn EXCEPT ![c] = [at |-> "cached", ver |-> wsConn[c].ver,
                                             logins |-> wsConn[c].logins, own |-> s.own]]
      BY <2>3 DEF WsInv
    <3>. DEFINE new == [at |-> "cached", ver |-> wsConn[c].ver,
                        logins |-> wsConn[c].logins, own |-> s.own]
    <3>2. wsConn' = [wsConn EXCEPT ![c] = new] /\ new.at = "cached" /\ new.ver \in Versions
      BY <2>1, <3>1
    <3>. HIDE DEF new
    <3>3. DOMAIN wsConn' = Callers /\ \A d \in Callers : LoginInv(d)'
      BY <3>2, LoginMoves DEF WsPlaces
    <3>. QED
      BY <1>3, <3>3, LoginKeeps DEF WsLookup, WsInv
  <2>. QED
    BY <1>3, <2>2, <2>3 DEF WsLookup
<1>4. ASSUME NEW works \in BOOLEAN, WsCached(c, works)
      PROVE  WsInv'
  <2>1. wsConn[c].ver \in Versions
    BY <1>4 DEF WsCached, WsInv, LoginInv
  <2>2. DOMAIN wsConn' = Callers /\ \A d \in Callers : LoginInv(d)'
    BY <1>4, <2>1, LoginTries, LoginOpens DEF WsCached, TriesAll
  <2>. QED
    BY <1>4, <2>2, LoginKeeps DEF WsCached, WsInv
<1>5. CASE WsConnected(c)
  <2>1. wsConn[c].ver \in Versions
    BY <1>5 DEF WsConnected, WsInv, LoginInv
  <2>2. DOMAIN wsConn' = Callers /\ \A d \in Callers : LoginInv(d)'
    BY <1>5, LoginOpens DEF WsConnected
  <2>3. CASE c = "diagnosis"
    BY <1>5, <2>2, <2>3, LoginKeeps DEF WsConnected, WsInv
  <2>4. CASE c # "diagnosis"
    <3>. DEFINE s == [ver |-> wsConn[c].ver, own |-> wsConn[c].logins = "own",
                      late |-> wsConn[c].ver # wsRec.ver]
    <3>1. /\ wsCache' = {s} /\ wsTtl' = Ttl
          /\ UNCHANGED <<wsRec, wsEditing, wsRelayUp, wsRelay>>
      BY <1>5, <2>4 DEF WsConnected, wsEnv
    <3>2. s.ver \in Versions /\ (s.ver = wsRec.ver \/ s.late)
      BY <2>1
    <3>. HIDE DEF s
    <3>3. Cardinality(wsCache') <= 1
      BY <3>1, AtMostOne
    <3>. QED
      BY <2>2, <3>1, <3>2, <3>3 DEF WsInv, Ttl, SessionFollowsRecord
  <2>. QED
    BY <2>3, <2>4
<1>6. ASSUME NEW kind, WsRefused(c, kind)
      PROVE  WsInv'
  <2>1. wsConn[c].ver \in Versions
    BY <1>6 DEF WsRefused, WsInv, LoginInv
  <2>2. DOMAIN wsConn' = Callers /\ \A d \in Callers : LoginInv(d)'
    BY <1>6, <2>1, LoginTries, LoginFails DEF WsRefused
  <2>3. wsRelay' \in [ok : BOOLEAN, fresh : BOOLEAN]
    BY <1>6 DEF WsRefused, WsInv
  <2>. QED
    BY <1>6, <2>2, <2>3, LoginKeeps DEF WsRefused
<1>. QED
  BY <1>1, <1>2, <1>3, <1>4, <1>5, <1>6 DEF WsCallStep

LEMMA WsKeeps ==
  ASSUME WsInv, [WsNext]_wsVars
  PROVE  WsInv'
<1>1. ASSUME NEW c \in Callers, WsBegins(c)
      PROVE  WsInv'
  <2>. DEFINE new == [at |-> "relay", ver |-> wsRec.ver,
                      logins |-> LoginsOf(wsRec, PasswordAs(c))]
  <2>1. LoginsOf(wsRec, PasswordAs(c)) \in Logins
    BY DEF LoginsOf, Logins
  <2>2. wsConn' = [wsConn EXCEPT ![c] = new] /\ new.at = "relay"
        /\ new \in [at : WsPlaces, ver : Versions, logins : Logins]
    BY <1>1, <2>1 DEF WsBegins, WsInv, WsPlaces
  <2>. HIDE DEF new
  <2>3. DOMAIN wsConn' = Callers /\ \A d \in Callers : LoginInv(d)'
    BY <2>2, LoginMoves DEF WsPlaces
  <2>. QED
    BY <1>1, <2>3, LoginKeeps DEF WsBegins, WsInv
<1>2. ASSUME NEW c \in Callers, WsStoresUser(c)
      PROVE  WsInv'
  <2>1. DOMAIN wsConn' = Callers /\ \A d \in Callers : LoginInv(d)'
    BY <1>2, LoginMoves DEF WsStoresUser, Idle, WsPlaces
  <2>2. /\ wsRec' \in [ver : Versions, user : {"none", "own", "platform"}, pass : BOOLEAN]
        /\ wsRec'.ver = wsRec.ver
    BY <1>2 DEF WsStoresUser, WsInv
  <2>. QED
    BY <1>2, <2>1, <2>2 DEF WsStoresUser, WsInv, SessionFollowsRecord
<1>3. ASSUME NEW user \in {"none", "own"}, NEW pass \in BOOLEAN, WsEditSaves(user, pass)
      PROVE  WsInv'
  <2>1. wsRec.ver + 1 \in Versions
    BY <1>3, FleetAssumption DEF WsEditSaves, WsInv, Versions
  <2>2. /\ wsRec' \in [ver : Versions, user : {"none", "own", "platform"}, pass : BOOLEAN]
        /\ wsEditing' = TRUE
        /\ UNCHANGED <<wsCache, wsTtl, wsConn, wsRelayUp, wsRelay>>
    BY <1>3, <2>1 DEF WsEditSaves
  <2>. QED
    BY <2>2 DEF WsInv, LoginInv, SessionFollowsRecord
<1>4. CASE WsEditClears
  <2>1. /\ wsEditing' = FALSE /\ wsCache' = {} /\ wsTtl' = 0
        /\ UNCHANGED <<wsRec, wsConn, wsRelayUp, wsRelay>>
    BY <1>4 DEF WsEditClears
  <2>2. Cardinality(wsCache') <= 1
    BY <2>1, FS_EmptySet
  <2>3. SessionFollowsRecord'
    BY <2>1 DEF SessionFollowsRecord
  <2>4. \A c \in Callers : LoginInv(c)'
    BY <2>1 DEF WsInv, LoginInv
  <2>5. wsTtl' \in 0..Ttl
    BY <2>1 DEF Ttl
  <2>6. wsEditing' \in BOOLEAN
    BY <2>1
  <2>7. wsRelayUp' \in BOOLEAN
    BY <2>1 DEF WsInv
  <2>. QED
    BY <2>1, <2>2, <2>3, <2>4, <2>5, <2>6, <2>7 DEF WsInv
<1>5. CASE WsSessionAges
  BY <1>5 DEF WsSessionAges, WsInv, LoginInv, Ttl, SessionFollowsRecord, wsEnv
<1>6. CASE WsCheckAges
  <2>1. wsRelay' \in [ok : BOOLEAN, fresh : BOOLEAN]
    BY <1>6 DEF WsCheckAges, WsInv
  <2>. QED
    BY <1>6, <2>1 DEF WsCheckAges, WsInv, LoginInv, SessionFollowsRecord, wsEnv
<1>7. CASE WsRelayChanges
  <2>1. wsRelayUp' \in BOOLEAN
    BY <1>7 DEF WsRelayChanges
  <2>. QED
    BY <1>7, <2>1 DEF WsRelayChanges, WsInv, LoginInv, SessionFollowsRecord
<1>8. CASE UNCHANGED wsVars
  BY <1>8 DEF wsVars, WsInv, LoginInv, SessionFollowsRecord
<1>. QED
  BY <1>1, <1>2, <1>3, <1>4, <1>5, <1>6, <1>7, <1>8, WsCallStepKeeps DEF WsNext

LEMMA WsStarts == WsInit => WsInv
<1>. SUFFICES ASSUME WsInit PROVE WsInv
  OBVIOUS
<1>1. 0 \in Versions
  BY FleetAssumption DEF Versions
<1>2. wsRec \in [ver : Versions, user : {"none", "own", "platform"}, pass : BOOLEAN]
  BY <1>1 DEF WsInit
<1>3. DOMAIN wsConn = Callers /\ \A c \in Callers : LoginInv(c)
  BY DEF WsInit, LoginInv, Idle, WsPlaces
<1>4. wsRelay \in [ok : BOOLEAN, fresh : BOOLEAN]
  BY DEF WsInit
<1>5. Cardinality(wsCache) <= 1
  BY FS_EmptySet DEF WsInit
<1>6. wsTtl \in 0..Ttl
  BY DEF WsInit, Ttl
<1>7. wsEditing \in BOOLEAN /\ wsRelayUp \in BOOLEAN
  BY DEF WsInit
<1>. QED
  BY <1>2, <1>3, <1>4, <1>5, <1>6, <1>7 DEF WsInit, WsInv, Ttl, SessionFollowsRecord

(* A cached session was made with the record as it is now, whatever logins,  *)
(* edits, refusals and outages come between: other sessions are of a login   *)
(* that was under way during the edit, and PUT drops the former one          *)
(* (agentProbe.js:139-180, vms.js:232-234).                                   *)
THEOREM SessionFollowsRecordHolds == WsSpec => []SessionFollowsRecord
<1>1. WsInv => SessionFollowsRecord
  BY DEF WsInv
<1>. QED
  BY <1>1, WsStarts, WsKeeps, PTL DEF WsSpec

-----------------------------------------------------------------------------
(* One remote call.                                                          *)

MostPatience == Larger(Patience("exec"), Patience("probe"))
MostTime == Larger(ResolveMax, Larger(ProcessTime("exec"), ProcessTime("probe")))

CallInv ==
  /\ RcTypeOK
  /\ rcWork = "concluded" => rcVerdict # "none"
  /\ rcWork = "resolving" => rcLookup + rcTimer <= ResolveMax

LEMMA ClockBounds ==
  /\ MostPatience \in Nat /\ MostTime \in Nat /\ 1 <= MostTime
  /\ \A kind \in {"probe", "exec"} :
       /\ Patience(kind) \in 0..MostPatience
       /\ ProcessTime(kind) \in 0..MostTime
  /\ ResolveMax \in 0..MostTime
  /\ Patience("exec") = ExecTimeout + Larger(3, ExecTimeout)
  /\ ProcessTime("exec") = ExecTimeout
BY RemoteCallAssumption DEF MostPatience, MostTime, Patience, ProcessTime, Larger,
   relayClientTimeout, probeClientTimeout

LEMMA CallKeeps ==
  ASSUME CallInv, [RcNext]_rcVars
  PROVE  CallInv'
<1>. USE DEF CallInv, RcTypeOK
<1>1. ASSUME NEW kind \in {"probe", "exec"}, NEW relayed \in BOOLEAN, RcBegins(kind, relayed)
      PROVE  CallInv'
  <2>1. rcPatience' \in -1..MostPatience
    BY <1>1, ClockBounds DEF RcBegins
  <2>2. rcTimer' \in 0..MostTime /\ rcWork' \in {"resolving", "ports", "process"}
    BY <1>1, ClockBounds DEF RcBegins, WorkAt, AtProcess
  <2>3. rcKind' = kind /\ rcCall' = "waiting" /\ rcVerdict' = rcVerdict /\ rcLookup' = 0
    BY <1>1 DEF RcBegins
  <2>4. rcWork' = "resolving" => rcTimer' = ResolveMax
    BY <1>1 DEF RcBegins, WorkAt, AtProcess
  <2>5. rcLookup' \in 0..ResolveMax
        /\ (rcWork' = "resolving" => rcLookup' + rcTimer' <= ResolveMax)
    BY <2>3, <2>4, RemoteCallAssumption
  <2>. QED
    BY <2>1, <2>2, <2>3, <2>5 DEF MostPatience, MostTime
<1>2. CASE RcRefused
  BY <1>2, ClockBounds DEF RcRefused, WorkAt, MostTime
<1>3. CASE RcResolved
  <2>1. rcTimer' \in 0..MostTime /\ rcWork' \in {"ports", "process"}
    BY <1>3, ClockBounds DEF RcResolved, WorkAt, AtProcess
  <2>. QED
    BY <1>3, <2>1 DEF RcResolved, MostTime
<1>4. CASE RcKilled
  BY <1>4, ClockBounds DEF RcKilled, Concluded, WorkAt, MostTime
<1>5. CASE RcAnswers
  BY <1>5, ClockBounds DEF RcAnswers, WorkAt, MostTime
<1>6. ASSUME NEW open \in BOOLEAN, RcPorts(open)
      PROVE  CallInv'
  <2>1. CASE open
    <3>1. rcTimer' \in 0..MostTime /\ rcWork' = "process" /\ rcVerdict' = rcVerdict
      BY <1>6, <2>1, ClockBounds DEF RcPorts, WorkAt, AtProcess
    <3>. QED
      BY <1>6, <3>1 DEF RcPorts, MostTime
  <2>2. CASE ~open
    <3>1. rcTimer' = 0 /\ rcWork' = "concluded" /\ rcVerdict' = "unreachable"
      BY <1>6, <2>2 DEF RcPorts, Concluded, WorkAt
    <3>. QED
      BY <1>6, <3>1, ClockBounds DEF RcPorts, MostTime
  <2>. QED
    BY <2>1, <2>2
<1>7. ASSUME NEW verdict \in {"output", "error"}, RcProcessEnds(verdict)
      PROVE  CallInv'
  BY <1>7, ClockBounds DEF RcProcessEnds, Concluded, WorkAt, MostTime
<1>8. CASE RcAnswerCut
  BY <1>8, ClockBounds DEF RcAnswerCut, WorkAt, MostTime
<1>9. CASE RcRelayGone
  BY <1>9, ClockBounds DEF RcRelayGone, WorkAt, MostTime
<1>10. CASE RcPatienceEnds
  BY <1>10 DEF RcPatienceEnds
<1>11. CASE RcForgotten
  BY <1>11, ClockBounds DEF RcForgotten, WorkAt, MostTime, MostPatience
<1>12. CASE RcTick
  <2>1. rcPatience \in -1..MostPatience /\ rcTimer \in 0..MostTime
    BY DEF MostPatience, MostTime
  <2>2. rcPatience' \in -1..MostPatience /\ rcTimer' \in 0..MostTime
    BY <1>12, <2>1, ClockBounds DEF RcTick
  <2>3. /\ rcWork = "resolving" => /\ rcTimer' = rcTimer - 1 /\ rcTimer > 0
                                  /\ rcLookup' = rcLookup + 1
        /\ rcWork # "resolving" => rcLookup' = rcLookup
        /\ UNCHANGED <<rcKind, rcCall, rcWork, rcVerdict>>
    BY <1>12, <2>1, ClockBounds DEF RcTick, Urgent
  <2>4. /\ rcLookup' \in 0..ResolveMax
        /\ rcWork' = "resolving" => rcLookup' + rcTimer' <= ResolveMax
    BY <2>1, <2>3, RemoteCallAssumption, ClockBounds
  <2>. QED
    BY <2>2, <2>3, <2>4 DEF MostPatience, MostTime
<1>13. CASE UNCHANGED rcVars
  BY <1>13 DEF rcVars
<1>. QED
  BY <1>1, <1>2, <1>3, <1>4, <1>5, <1>6, <1>7, <1>8, <1>9, <1>10, <1>11, <1>12, <1>13 DEF RcNext

LEMMA CallStarts == RcInit => CallInv
BY ClockBounds DEF RcInit, CallInv, RcTypeOK, MostPatience, MostTime

(* What the look-up has taken and what is left of the request are together   *)
(* what the request has beyond the process, and what the work still needs.   *)
Beyond == Larger(3, ExecTimeout)
RequestInv ==
  /\ rcCall = "waiting" => rcWork # "none"
  /\ rcKind = "exec" => rcWork # "ports"
  /\ rcKind = "exec" /\ rcCall = "waiting" /\ Relayed =>
       /\ rcWork = "resolving" => rcPatience + rcLookup >= ExecTimeout + Beyond
       /\ rcWork = "process" => rcPatience + rcLookup >= rcTimer + Beyond
       /\ rcWork = "concluded" => rcPatience + rcLookup >= Beyond
  /\ ExecVerdictArrives

LEMMA RequestKeeps ==
  ASSUME CallInv, RequestInv, [RcNext]_rcVars
  PROVE  RequestInv'
<1>0. Beyond \in Nat /\ Patience("exec") = ExecTimeout + Beyond /\ Beyond = Larger(3, ExecTimeout)
  BY RemoteCallAssumption, ClockBounds DEF Beyond, Larger
<1>. USE DEF RequestInv, ExecVerdictArrives, Relayed
<1>1. rcTimer \in Nat /\ rcPatience \in Int /\ rcPatience >= -1
      /\ ExecTimeout \in Nat \ {0} /\ rcLookup \in Nat
  BY RemoteCallAssumption, ClockBounds DEF CallInv, RcTypeOK, MostPatience, MostTime
<1>2. ASSUME NEW kind \in {"probe", "exec"}, NEW relayed \in BOOLEAN, RcBegins(kind, relayed)
      PROVE  RequestInv'
  <2>1. rcCall' = "waiting" /\ rcKind' = kind
    BY <1>2 DEF RcBegins
  <2>2. CASE relayed
    <3>1. rcPatience' = Patience(kind) /\ rcWork' = "resolving" /\ rcLookup' = 0
      BY <1>2, <2>2 DEF RcBegins, WorkAt
    <3>. QED
      BY <1>0, <1>1, <2>1, <3>1
  <2>3. CASE ~relayed
    <3>1. /\ rcPatience' = -1 /\ rcWork' \in {"ports", "process"}
          /\ kind = "exec" => rcWork' = "process"
      BY <1>2, <2>3 DEF RcBegins, WorkAt, AtProcess
    <3>. QED
      BY <2>1, <3>1
  <2>. QED
    BY <2>2, <2>3
<1>3. CASE RcRefused
  BY <1>3 DEF RcRefused, WorkAt
<1>4. CASE RcResolved
  <2>1. CASE rcKind = "exec"
    <3>1. /\ rcWork' = "process" /\ rcTimer' = ExecTimeout /\ rcWork = "resolving"
          /\ UNCHANGED <<rcKind, rcCall, rcPatience, rcLookup>>
      BY <1>4, <2>1, ClockBounds DEF RcResolved, WorkAt, AtProcess
    <3>. QED
      BY <1>0, <1>1, <2>1, <3>1
  <2>2. CASE rcKind # "exec"
    BY <1>4, <2>2 DEF RcResolved, WorkAt, AtProcess
  <2>. QED
    BY <2>1, <2>2
<1>5. CASE RcKilled
  BY <1>0, <1>1, <1>5 DEF RcKilled, Concluded, WorkAt
<1>6. CASE RcAnswers
  BY <1>6 DEF RcAnswers, WorkAt, CallInv, RcTypeOK
<1>7. ASSUME NEW open \in BOOLEAN, RcPorts(open)
      PROVE  RequestInv'
  <2>1. /\ rcKind # "exec" /\ rcWork' \in {"process", "concluded"}
        /\ UNCHANGED <<rcKind, rcCall, rcPatience, rcLookup>>
    BY <1>7 DEF RcPorts, AtProcess, Concluded, WorkAt
  <2>. QED
    BY <2>1
<1>8. ASSUME NEW verdict \in {"output", "error"}, RcProcessEnds(verdict)
      PROVE  RequestInv'
  BY <1>0, <1>1, <1>8 DEF RcProcessEnds, Concluded, WorkAt
<1>9. CASE RcAnswerCut
  BY <1>9 DEF RcAnswerCut, WorkAt
<1>10. CASE RcRelayGone
  BY <1>10 DEF RcRelayGone, WorkAt
<1>11. CASE RcPatienceEnds
  <2>1. /\ rcCall = "waiting" /\ rcPatience = 0 /\ rcCall' = "relay_timed_out"
        /\ UNCHANGED <<rcKind, rcPatience, rcWork, rcTimer, rcLookup>>
    BY <1>11 DEF RcPatienceEnds
  <2>2. rcKind = "exec" => rcWork = "gone" \/ rcLookup >= Beyond
    BY <1>0, <1>1, <2>1 DEF CallInv, RcTypeOK
  <2>. QED
    BY <1>0, <2>1, <2>2
<1>12. CASE RcForgotten
  BY <1>12 DEF RcForgotten, WorkAt
<1>13. CASE RcTick
  <2>1. /\ UNCHANGED <<rcKind, rcCall, rcWork>>
        /\ rcLookup' = IF rcWork = "resolving" THEN rcLookup + 1 ELSE rcLookup
    BY <1>13 DEF RcTick
  <2>2. rcWork = "process" => rcTimer' = rcTimer - 1
    BY <1>1, <1>13 DEF RcTick, Urgent
  <2>3. rcWork # "concluded"
    BY <1>13 DEF RcTick, Urgent
  <2>4. /\ rcPatience' >= 0 => rcPatience >= 0
        /\ rcCall = "waiting" /\ rcPatience >= 0 => rcPatience' = rcPatience - 1
    BY <1>1, <1>13 DEF RcTick, Urgent
  <2>5. ExecVerdictArrives'
    BY <1>0, <1>1, <2>1
  <2>. QED
    BY <1>0, <1>1, <2>1, <2>2, <2>3, <2>4, <2>5
<1>14. CASE UNCHANGED rcVars
  BY <1>14 DEF rcVars
<1>. QED
  BY <1>2, <1>3, <1>4, <1>5, <1>6, <1>7, <1>8, <1>9, <1>10, <1>11, <1>12, <1>13, <1>14 DEF RcNext

(* The end of a command reaches its caller: the request times out only when  *)
(* the relay is gone, or has spent on the look-up of the names as long as    *)
(* relayClientTimeout adds to the limit of a command, for every such limit   *)
(* and however long the look-up takes (wmiExec.js:120-122,                   *)
(* wmiRelayServer.js:114, relayDns.js:8-31).                                 *)
THEOREM ExecVerdictArrivesHolds == RcSpec => []ExecVerdictArrives
<1>1. RcInit => CallInv /\ RequestInv
  BY CallStarts DEF RcInit, RequestInv, ExecVerdictArrives
<1>2. CallInv /\ RequestInv /\ [RcNext]_rcVars => CallInv' /\ RequestInv'
  BY CallKeeps, RequestKeeps
<1>3. RequestInv => ExecVerdictArrives
  BY DEF RequestInv
<1>. QED
  BY <1>1, <1>2, <1>3, PTL DEF RcSpec

-----------------------------------------------------------------------------
(* The record of one endpoint.                                               *)

Agents == {"active", "removed"}
KnownVersions == {"unknown", "removed", "old", "new", "True"}
Records == [exists : BOOLEAN, agent : Agents, excluded : BOOLEAN, version : KnownVersions,
            status : {"online", "offline", "excluded"}]

FoundOK(found) ==
  /\ found.online \in BOOLEAN
  /\ found.online = TRUE => found.agent \in Agents /\ found.version \in KnownVersions

CheckOK(check) ==
  /\ check.at \in {"idle", "waiting", "answered", "online"}
  /\ check.at \in {"waiting", "answered"} => check.excluded \in BOOLEAN
  /\ check.at = "answered" => FoundOK(check.found)

ErInv ==
  /\ erHost \in Installed \cup {"none"} /\ erRec \in Records /\ erEdits \in 0..MaxEdits
  /\ DOMAIN erProbe = Kinds
  /\ \A k \in Kinds : /\ Cardinality(erProbe[k]) <= 1
                      /\ \A probe \in erProbe[k] : probe.rec \in Records
  /\ DOMAIN erCheck = Checkers /\ \A c \in Checkers : CheckOK(erCheck[c])

(* What a probe finds can be written into a record. *)
LEMMA WhatIsFound ==
  ASSUME ErInv, NEW probe, probe.rec \in Records, NEW found \in Found(probe)
  PROVE  FoundOK(found)
<1>1. Installed \cup {"none", "unknown"} \subseteq KnownVersions \cup {"none"}
  BY RecordAssumption DEF KnownVersions
<1>2. ASSUME NEW version \in {erHost, "unknown"} PROVE FoundOK(ReadFromHost(version))
  <2>1. erHost # "none" => version \in KnownVersions
    BY <1>1 DEF ErInv, KnownVersions
  <2>. QED
    BY <2>1 DEF ReadFromHost, FoundOK, Agents, KnownVersions
<1>3. FoundOK(Repeated(probe.rec))
  BY DEF Repeated, FoundOK, Records, Agents, KnownVersions
<1>4. FoundOK([online |-> FALSE])
  BY DEF FoundOK
<1>. QED
  BY <1>2, <1>3, <1>4 DEF Found

LEMMA ChecksKept ==
  ASSUME ErInv, NEW c \in Checkers, NEW new, CheckOK(new), erCheck' = [erCheck EXCEPT ![c] = new]
  PROVE  DOMAIN erCheck' = Checkers /\ \A d \in Checkers : CheckOK(erCheck'[d])
BY DEF ErInv

LEMMA RecordWritten ==
  ASSUME ErInv, NEW new \in Records, Writes(new)
  PROVE  erRec' \in Records
BY DEF ErInv, Writes

LEMMA ErChecksKeeps ==
  ASSUME ErInv, NEW c \in Checkers, NEW kind \in Kinds, ErChecks(c, kind)
  PROVE  ErInv'
<1>. DEFINE new == [at |-> "waiting", key |-> kind, excluded |-> erRec.excluded]
            asked == [of |-> kind, rec |-> erRec]
<1>1. /\ UNCHANGED <<erHost, erRec, erEdits>>
      /\ erProbe' = [erProbe EXCEPT ![kind] = IF @ = NoProbe THEN {asked} ELSE @]
      /\ erCheck' = [erCheck EXCEPT ![c] = new]
  BY DEF ErChecks, ProbeKey
<1>2. CheckOK(new) /\ asked.rec \in Records
  BY DEF CheckOK, ErInv, Records
<1>. HIDE DEF new, asked
<1>3. DOMAIN erCheck' = Checkers /\ \A d \in Checkers : CheckOK(erCheck'[d])
  BY <1>1, <1>2, ChecksKept
<1>4. DOMAIN erProbe' = Kinds /\ \A k \in Kinds : erProbe'[k] = erProbe[k] \/ erProbe'[k] = {asked}
  BY <1>1 DEF ErInv
<1>5. \A k \in Kinds : /\ Cardinality(erProbe'[k]) <= 1
                       /\ \A probe \in erProbe'[k] : probe.rec \in Records
  BY <1>2, <1>4, AtMostOne DEF ErInv
<1>. QED
  BY <1>1, <1>3, <1>4, <1>5 DEF ErInv

LEMMA ErAnswersKeeps ==
  ASSUME ErInv, NEW key \in Kinds, ErAnswers(key)
  PROVE  ErInv'
<1>1. PICK probe \in erProbe[key] : \E found \in Found(probe) : ErProbeAnswers(key, found)
  BY DEF ErAnswers
<1>. PICK found \in Found(probe) : ErProbeAnswers(key, found)
  BY <1>1
<1>2. FoundOK(found)
  BY WhatIsFound DEF ErInv
<1>3. ASSUME NEW c \in Checkers PROVE CheckOK(erCheck'[c])
  <2>. DEFINE new == [at |-> "answered", found |-> found, excluded |-> erCheck[c].excluded]
  <2>1. \/ erCheck'[c] = erCheck[c]
        \/ erCheck[c].at = "waiting" /\ erCheck'[c] = new
    BY DEF ErProbeAnswers
  <2>2. erCheck[c].at = "waiting" => CheckOK(new)
    BY <1>2 DEF ErInv, CheckOK
  <2>. HIDE DEF new
  <2>. QED
    BY <2>1, <2>2 DEF ErInv
<1>4. DOMAIN erCheck' = Checkers /\ UNCHANGED <<erHost, erRec, erEdits>>
      /\ erProbe' = [erProbe EXCEPT ![key] = {}]
  BY DEF ErProbeAnswers, NoProbe
<1>5. Cardinality({}) <= 1
  BY FS_EmptySet
<1>. QED
  BY <1>3, <1>4, <1>5 DEF ErInv

LEMMA ErCheckStepKeeps ==
  ASSUME ErInv, NEW c \in Checkers, ErCheckStep(c)
  PROVE  ErInv'
<1>1. UNCHANGED <<erHost, erProbe, erEdits>>
  BY DEF ErCheckStep, ErWrites, ErSyncAdds
<1>2. CheckOK(Unchecked) /\ CheckOK([at |-> "online"])
  BY DEF CheckOK, Unchecked
<1>3. DOMAIN erCheck' = Checkers /\ \A d \in Checkers : CheckOK(erCheck'[d])
  BY <1>2, ChecksKept DEF ErCheckStep, ErWrites, ErSyncAdds
<1>4. CASE ErWrites(c)
  <2>. DEFINE found == erCheck[c].found
              status == IF erCheck[c].excluded THEN "excluded"
                        ELSE IF found.online THEN "online" ELSE "offline"
  <2>1. FoundOK(found)
    BY <1>4 DEF ErWrites, ErInv, CheckOK
  <2>2. status \in {"online", "offline", "excluded"}
    OBVIOUS
  <2>3. IF found.online
        THEN Writes([erRec EXCEPT !.status = status, !.agent = found.agent,
                                  !.version = found.version])
        ELSE Writes([erRec EXCEPT !.status = status])
    BY <1>4 DEF ErWrites
  <2>. HIDE DEF found, status
  <2>4. CASE found.online = TRUE
    <3>1. [erRec EXCEPT !.status = status, !.agent = found.agent, !.version = found.version]
            \in Records
      BY <2>1, <2>2, <2>4 DEF ErInv, Records, FoundOK
    <3>. QED
      BY <1>1, <1>3, <2>3, <2>4, <3>1, RecordWritten DEF ErInv
  <2>5. CASE found.online = FALSE
    <3>1. [erRec EXCEPT !.status = status] \in Records
      BY <2>2 DEF ErInv, Records
    <3>. QED
      BY <1>1, <1>3, <2>3, <2>5, <3>1, RecordWritten DEF ErInv
  <2>. QED
    BY <2>1, <2>4, <2>5 DEF FoundOK
<1>5. CASE ErSyncAdds
  <2>1. [erRec EXCEPT !.agent = "active", !.version = DisplayVersion] \in Records
    BY DEF ErInv, Records, Agents, KnownVersions, DisplayVersion
  <2>2. erRec' \in Records
    BY <1>5, <2>1, RecordWritten DEF ErSyncAdds, ErInv
  <2>. QED
    BY <1>1, <1>3, <2>2 DEF ErInv
<1>. QED
  BY <1>4, <1>5 DEF ErCheckStep

LEMMA ErKeeps ==
  ASSUME ErInv, [ErNext]_erVars
  PROVE  ErInv'
<1>1. ASSUME Edited PROVE erEdits' \in 0..MaxEdits
  BY <1>1, FleetAssumption DEF Edited, ErInv
<1>2. CASE ErHostInstalls
  BY <1>1, <1>2 DEF ErHostInstalls, ErInv
<1>3. CASE ErJobRemoves
  <2>1. [erRec EXCEPT !.agent = "removed", !.version = "removed"] \in Records
    BY DEF ErInv, Records, Agents, KnownVersions
  <2>. QED
    BY <1>1, <1>3, <2>1, RecordWritten DEF ErJobRemoves, ErInv
<1>4. CASE ErBulkExclude
  <2>1. [erRec EXCEPT !.excluded = TRUE, !.status = "excluded"] \in Records
    BY DEF ErInv, Records
  <2>. QED
    BY <1>1, <1>4, <2>1, RecordWritten DEF ErBulkExclude, ErInv
<1>5. CASE ErIncludes
  <2>1. [erRec EXCEPT !.excluded = FALSE, !.status = IF @ = "excluded" THEN "offline" ELSE @]
          \in Records
    BY DEF ErInv, Records
  <2>. QED
    BY <1>1, <1>5, <2>1, RecordWritten DEF ErIncludes, ErInv
<1>6. CASE ErDeletes
  <2>1. erRec' \in Records
    BY <1>6 DEF ErDeletes, ErInv, Records
  <2>. QED
    BY <1>1, <1>6, <2>1 DEF ErDeletes, ErInv
<1>7. CASE UNCHANGED erVars
  BY <1>7 DEF erVars, ErInv
<1>. QED
  BY <1>2, <1>3, <1>4, <1>5, <1>6, <1>7, ErChecksKeeps, ErAnswersKeeps, ErCheckStepKeeps
  DEF ErNext

LEMMA ErStarts == ErInit => ErInv
<1>. SUFFICES ASSUME ErInit PROVE ErInv
  OBVIOUS
<1>1. erHost \in Installed
  BY RecordAssumption DEF ErInit
<1>2. erRec \in Records /\ 0 \in 0..MaxEdits
  BY FleetAssumption DEF ErInit, Records, Agents, KnownVersions
<1>3. \A c \in Checkers : CheckOK(erCheck[c])
  BY DEF ErInit, CheckOK, Unchecked
<1>4. Cardinality({}) <= 1
  BY FS_EmptySet
<1>. QED
  BY <1>1, <1>2, <1>3, <1>4 DEF ErInit, ErInv, NoProbe

-----------------------------------------------------------------------------
(* Every variable of the sessions, of a remote call and of the record keeps  *)
(* its type in the composition that the run checks, for all constants.       *)
THEOREM HostAccessTypesHold == Spec => []HostAccessTypeOK
<1>. DEFINE Inv == WsInv /\ CallInv /\ ErInv
<1>1. Init => Inv
  BY WsStarts, CallStarts, ErStarts DEF Init
<1>2. Inv /\ [Next]_vars => Inv'
  <2>. SUFFICES ASSUME Inv, [Next]_vars PROVE Inv'
    OBVIOUS
  <2>1. [WsNext]_wsVars /\ [RcNext]_rcVars /\ [ErNext]_erVars
    BY DEF Next, vars
  <2>. QED
    BY <2>1, WsKeeps, CallKeeps, ErKeeps
<1>3. Inv => HostAccessTypeOK
  <2>1. WsInv => WsTypeOK
    BY DEF WsInv, WsTypeOK, LoginInv, Versions, WsPlaces
  <2>2. ErInv => ErTypeOK
    BY DEF ErInv, ErTypeOK, CheckOK, Records, Agents, KnownVersions
  <2>. QED
    BY <2>1, <2>2 DEF CallInv, HostAccessTypeOK
<1>. QED
  BY <1>1, <1>2, <1>3, PTL DEF Spec

(* What the parts keep, the composition that the run checks keeps: a cached  *)
(* session is of the record as it is, but for a login that an edit overtook, *)
(* and the end of a command reaches its caller, but for a relay that is gone *)
(* or a look-up that lasts (ExecVerdictArrivesHolds).                        *)
THEOREM HostAccessIsSafe == Spec => [](SessionFollowsRecord /\ ExecVerdictArrives)
<1>. DEFINE Inv == WsInv /\ CallInv /\ RequestInv
<1>1. Init => Inv
  BY WsStarts, CallStarts DEF Init, RcInit, RequestInv, ExecVerdictArrives
<1>2. Inv /\ [Next]_vars => Inv'
  <2>. SUFFICES ASSUME Inv, [Next]_vars PROVE Inv'
    OBVIOUS
  <2>1. [WsNext]_wsVars /\ [RcNext]_rcVars
    BY DEF Next, vars
  <2>. QED
    BY <2>1, WsKeeps, CallKeeps, RequestKeeps
<1>3. Inv => SessionFollowsRecord /\ ExecVerdictArrives
  BY DEF WsInv, RequestInv
<1>. QED
  BY <1>1, <1>2, <1>3, PTL DEF Spec
=============================================================================
