----------------------------- MODULE WmiSession -----------------------------
(***************************************************************************)
(* How an endpoint is logged in to (services/agentProbe.js, connectWmi and *)
(* diagnose; utils/wmiCredentials.js): the check of the relay that is      *)
(* trusted for 15 s, the session of the endpoint that is cached for ten    *)
(* minutes and tried again before it is used, the targets and credentials  *)
(* that are tried in turn, and the edit of the record that drops the       *)
(* session (PUT /api/vms/:id).                                             *)
(*                                                                         *)
(* One endpoint and the callers that log in to it.  What a host answers is *)
(* chosen freely; the data of a record is its version, whose user it names *)
(* and whether it stores a password.                                       *)
(***************************************************************************)
EXTENDS Fleet

CONSTANTS
  Callers,   \* who logs in: of "check", "deployment", "sync" (what follows its check), "diagnosis"
  Answers,   \* ways in which a login fails: names of utils/wmiCredentials.js
  Encrypted  \* whether CREDENTIAL_ENCRYPTION_KEY is set: passwords are stored encrypted

ASSUME SessionAssumption ==
  /\ Encrypted \in BOOLEAN
  /\ Callers \subseteq {"check", "deployment", "sync", "diagnosis"}

VARIABLES
  wsRec,     \* the record: version, whose user it names, whether it stores a password
  wsEditing, \* whether PUT has saved the record and not dropped the session yet
  wsCache,   \* sessions in sessionCache: at most one
  wsTtl,     \* what is left of its ten minutes
  wsConn,    \* the login of each caller
  wsRelayUp, \* whether the relay runs
  wsRelay,   \* [ok: relayOk, fresh: whether relayCheckedAt is within 15 s]
  wsFaults

wsVars == <<wsRec, wsEditing, wsCache, wsTtl, wsConn, wsRelayUp, wsRelay, wsFaults>>
wsEnv == <<wsRec, wsEditing, wsRelayUp>>

Ttl == 1 \* bound: periods of the session cache
Idle == [at |-> "idle"]

(* The class of the text that formatUserFacingError writes for a kind: what  *)
(* classifyWmiError finds when that text is classified again.                *)
Said(kind) == CASE kind = "unreachable" -> "unknown"
                [] kind = "relay_unavailable" -> "wmi_unavailable"
                [] OTHER -> kind

(* What a login is tried with: the pair of the record alone, or the platform *)
(* accounts one after the other.  The pair is wrong when the password is     *)
(* used as it is stored, encrypted, or beside a user it does not belong to;  *)
(* it is lost when the record was read without its password.                 *)
LoginsOf(rec, pw) ==
  IF rec.user = "none" \/ ~rec.pass THEN "platform"
  ELSE IF pw = "none" THEN "lost"
  ELSE IF pw = "encrypted" \/ rec.user = "platform" THEN "wrong"
  ELSE "own"
Attempts(logins) == IF logins \in {"platform", "lost"} THEN 2 ELSE 1

WsInit ==
  /\ wsRec = [ver |-> 0, user |-> "own", pass |-> TRUE]
  /\ wsEditing = FALSE /\ wsCache = {} /\ wsTtl = 0
  /\ wsConn = [c \in Callers |-> Idle]
  /\ wsRelayUp = TRUE /\ wsRelay = [ok |-> TRUE, fresh |-> FALSE]
  /\ wsFaults = 0

-----------------------------------------------------------------------------
Goes(c, place) == wsConn' = [wsConn EXCEPT ![c].at = place]
Fails(c, kind, causes) ==
  wsConn' = [wsConn EXCEPT ![c] = [at |-> "failed", kind |-> kind, causes |-> causes]]
RelayFails(c) == Fails(c, Said(Said("relay_unavailable")), {})
Tries(c, more) == wsConn' = [wsConn EXCEPT ![c] =
  [at |-> "trying", ver |-> @.ver, logins |-> @.logins,
   target |-> more.target, login |-> more.login, causes |-> more.causes]]
TriesAll(c) == Tries(c, [target |-> 1, login |-> 1, causes |-> {}])
Opens(c, own) ==
  wsConn' = [wsConn EXCEPT ![c] = [at |-> "session", own |-> own]]

(* A login begins with the record that was read.  A check, and diagnose,     *)
(* take the password as it is stored, a deployment decrypts it, and what     *)
(* follows the check of a sync has a record without it (select: false).      *)
PasswordAs(c) == CASE c = "deployment" -> "clear"
                   [] c = "sync" -> "none"
                   [] OTHER -> IF Encrypted THEN "encrypted" ELSE "clear"

WsBegins(c) ==
  /\ wsConn[c].at \in {"idle", "session", "failed"}
  /\ wsConn' = [wsConn EXCEPT ![c] =
       [at |-> "relay", ver |-> wsRec.ver, logins |-> LoginsOf(wsRec, PasswordAs(c))]]
  /\ UNCHANGED <<wsEnv, wsCache, wsTtl, wsRelay, wsFaults>>

(* _ensureRelay: the time of the check is set before its answer is awaited. *)
WsEnsureRelay(c) ==
  /\ wsConn[c].at = "relay"
  /\ IF ~wsRelay.fresh THEN Goes(c, "health")
     ELSE IF wsRelay.ok THEN Goes(c, "lookup")
     ELSE RelayFails(c)
  /\ wsRelay' = [wsRelay EXCEPT !.fresh = TRUE]
  /\ UNCHANGED <<wsEnv, wsCache, wsTtl, wsFaults>>

WsHealth(c) ==
  /\ wsConn[c].at = "health"
  /\ wsRelay' = [wsRelay EXCEPT !.ok = wsRelayUp]
  /\ IF wsRelayUp THEN Goes(c, "lookup") ELSE RelayFails(c)
  /\ UNCHANGED <<wsEnv, wsCache, wsTtl, wsFaults>>

(* A session past its time is dropped; diagnose does not use the cache. *)
WsLookup(c) ==
  /\ wsConn[c].at = "lookup"
  /\ IF c = "diagnosis" THEN UNCHANGED wsCache
     ELSE wsCache' = (IF wsTtl = 0 THEN {} ELSE wsCache)
  /\ IF c # "diagnosis" /\ wsTtl > 0 /\ wsCache # {}
     THEN \E s \in wsCache :
            wsConn' = [wsConn EXCEPT ![c] =
              [at |-> "cached", ver |-> @.ver, logins |-> @.logins, own |-> s.own]]
     ELSE TriesAll(c)
  /\ UNCHANGED <<wsEnv, wsTtl, wsRelay, wsFaults>>

WsCachedExtends(c, works) == \* mutant: every use gives the session ten more minutes
  /\ wsConn[c].at = "cached"
  /\ works => wsRelayUp
  /\ IF works
     THEN Opens(c, wsConn[c].own) /\ wsTtl' = Ttl /\ UNCHANGED wsCache
     ELSE TriesAll(c) /\ wsCache' = {} /\ UNCHANGED wsTtl
  /\ UNCHANGED <<wsEnv, wsRelay, wsFaults>>

(* The cached session is tried with its own host and password.  The answer   *)
(* comes to whatever is cached then: only a failure changes the cache.       *)
WsCached(c, works) ==
  /\ wsConn[c].at = "cached"
  /\ works => wsRelayUp
  /\ IF works
     THEN Opens(c, wsConn[c].own) /\ UNCHANGED wsCache
     ELSE TriesAll(c) /\ wsCache' = {}
  /\ UNCHANGED <<wsEnv, wsTtl, wsRelay, wsFaults>>

WsConnectedAnother(c) == \* mutant: the cache is keyed by more than the endpoint
  LET k == wsConn[c]  own == k.logins = "own"
  IN /\ k.at = "trying" /\ wsRelayUp /\ k.logins # "wrong"
     /\ Opens(c, own)
     /\ wsCache' = wsCache \cup {[ver |-> k.ver, own |-> own, late |-> k.ver # wsRec.ver]}
     /\ wsTtl' = Ttl
     /\ UNCHANGED <<wsEnv, wsRelay, wsFaults>>

(* One login of one target works: the session is cached under the endpoint.  *)
WsConnected(c) ==
  LET k == wsConn[c]  own == k.logins = "own"
  IN /\ k.at = "trying" /\ wsRelayUp
     /\ k.logins # "wrong"
     /\ Opens(c, own)
     /\ IF c = "diagnosis" THEN UNCHANGED <<wsCache, wsTtl>>
        ELSE /\ wsCache' = {[ver |-> k.ver, own |-> own, late |-> k.ver # wsRec.ver]}
             /\ wsTtl' = Ttl
     /\ UNCHANGED <<wsEnv, wsRelay, wsFaults>>

(* One fails.  A refused password moves on to the next login, and after the  *)
(* last login ends the attempt; any other failure moves on to the next       *)
(* target with the first login.  diagnose has one login and two targets.     *)
WsRefused(c, kind) ==
  LET k == wsConn[c]
      seen == k.causes \cup {kind}
      diagnoses == c = "diagnosis"
      nextLogin == ~diagnoses /\ kind = "auth_failed" /\ k.login < Attempts(k.logins)
      nextTarget == /\ k.target = 1 /\ kind # "auth_failed"
                    /\ diagnoses => kind \notin {"permission_denied", "relay_unavailable"}
  IN /\ k.at = "trying"
     /\ kind \in Answers \cup {"relay_unavailable"}
     /\ ~wsRelayUp => kind = "relay_unavailable"
     /\ IF wsRelayUp /\ kind = "relay_unavailable" \* the relay's answer came too late
        THEN wsFaults < MaxFaults /\ wsFaults' = wsFaults + 1 ELSE UNCHANGED wsFaults
     /\ IF nextLogin THEN Tries(c, [k EXCEPT !.login = @ + 1, !.causes = seen])
        ELSE IF nextTarget THEN Tries(c, [k EXCEPT !.target = 2, !.login = 1, !.causes = seen])
        ELSE Fails(c, IF diagnoses THEN kind ELSE Said(Said(kind)), seen)
     /\ wsRelay' = IF kind = "relay_unavailable" /\ ~nextTarget /\ ~diagnoses
                   THEN [wsRelay EXCEPT !.ok = FALSE] ELSE wsRelay
     /\ UNCHANGED <<wsEnv, wsCache, wsTtl>>

-----------------------------------------------------------------------------
(* PUT /api/vms/:id saves another host, sets a pair, or empties the user; a  *)
(* password that is not sent is kept.  Then it drops the cached session.     *)
WsEditSaves(user, pass) ==
  /\ ~wsEditing /\ wsRec.ver < MaxEdits
  /\ wsRec' = [ver |-> wsRec.ver + 1, user |-> user, pass |-> pass]
  /\ pass = wsRec.pass \/ pass = (user = "own")
  /\ wsEditing' = TRUE
  /\ UNCHANGED <<wsCache, wsTtl, wsConn, wsRelayUp, wsRelay, wsFaults>>

WsEditKeepsSession == \* mutant: the session outlives the edit
  wsEditing /\ wsEditing' = FALSE /\ UNCHANGED <<wsRec, wsCache, wsTtl, wsConn, wsRelayUp, wsRelay, wsFaults>>

WsEditClears ==
  /\ wsEditing /\ wsEditing' = FALSE
  /\ wsCache' = {} /\ wsTtl' = 0
  /\ UNCHANGED <<wsRec, wsConn, wsRelayUp, wsRelay, wsFaults>>

(* A check that worked stores the account it logged in with as the user of   *)
(* the record (checkAndUpdate, connectivity.js:78).                          *)
WsStoresUser(c) ==
  /\ wsConn[c].at = "session" /\ c = "check"
  /\ wsRec' = [wsRec EXCEPT !.user = IF wsConn[c].own THEN "own" ELSE "platform"]
  /\ wsConn' = [wsConn EXCEPT ![c] = Idle]
  /\ UNCHANGED <<wsEditing, wsCache, wsTtl, wsRelayUp, wsRelay, wsFaults>>

WsSessionAges ==
  /\ wsTtl > 0 /\ wsTtl' = wsTtl - 1
  /\ UNCHANGED <<wsEnv, wsCache, wsConn, wsRelay, wsFaults>>

WsCheckAges ==
  /\ wsRelay.fresh /\ wsRelay' = [wsRelay EXCEPT !.fresh = FALSE]
  /\ UNCHANGED <<wsEnv, wsCache, wsTtl, wsConn, wsFaults>>

WsRelayChanges ==
  /\ wsRelayUp' = ~wsRelayUp
  /\ wsRelayUp => wsFaults < MaxFaults
  /\ wsFaults' = IF wsRelayUp THEN wsFaults + 1 ELSE wsFaults
  /\ UNCHANGED <<wsRec, wsEditing, wsCache, wsTtl, wsConn, wsRelay>>

WsCallStep(c) ==
  \/ WsEnsureRelay(c) \/ WsHealth(c) \/ WsLookup(c)
  \/ \E works \in BOOLEAN : WsCached(c, works)
  \/ WsConnected(c)
  \/ \E kind \in Answers \cup {"relay_unavailable"} : WsRefused(c, kind)

WsNext ==
  \/ \E c \in Callers : \/ WsBegins(c) \/ WsCallStep(c) \/ WsStoresUser(c)
  \/ \E user \in {"none", "own"}, pass \in BOOLEAN : WsEditSaves(user, pass)
  \/ WsEditClears \/ WsSessionAges \/ WsCheckAges \/ WsRelayChanges

WsSpec == WsInit /\ [][WsNext]_wsVars

WsTypeOK ==
  /\ wsRec.ver \in 0..MaxEdits /\ wsRec.user \in {"none", "own", "platform"} /\ wsRec.pass \in BOOLEAN
  /\ Cardinality(wsCache) <= 1 /\ \A s \in wsCache : s.ver \in 0..MaxEdits
  /\ wsTtl \in 0..Ttl /\ wsRelay \in [ok : BOOLEAN, fresh : BOOLEAN]
  /\ \A c \in Callers : wsConn[c].at \in
       {"idle", "relay", "health", "lookup", "cached", "trying", "session", "failed"}

-----------------------------------------------------------------------------
(* A cached session was made with the record as it is now, unless the login  *)
(* that made it was under way during the edit, or the edit is not finished:  *)
(* PUT drops the session of the former host and the former password          *)
(* (vms.js:232-234).                                                         *)
SessionFollowsRecord ==
  \A s \in wsCache : s.ver = wsRec.ver \/ s.late \/ wsEditing

(* A session of a former record, such as a login under way during the edit   *)
(* leaves, is not used for ever, however often it is used: its ten minutes   *)
(* run from the login (agentProbe.js:139-143).                               *)
StaleSessionEnds == <>[](wsTtl > 0 => \A s \in wsCache : s.ver = wsRec.ver)

(* While the relay runs, the flag that makes every login of every endpoint   *)
(* fail (agentProbe.js:99-102, 237-239) is lifted again.                     *)
RelayOutageEnds == []<>(wsRelay.ok \/ ~wsRelayUp)

(* DECISIONS.md:155: the fields of a record override the platform accounts   *)
(* when it stores a user and a password; checks pass the password on as it   *)
(* is stored (connectivity.js:41-43), a sync loses it (connectivity.js:102). *)
StoredPairIsUsed ==
  \A c \in Callers : wsConn[c].at = "trying" => wsConn[c].logins \notin {"wrong", "lost"}
=============================================================================
