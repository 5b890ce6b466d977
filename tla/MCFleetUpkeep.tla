---------------------------- MODULE MCFleetUpkeep ----------------------------
(***************************************************************************)
(* Bounds for the work that keeps the fleet's records: full synchronisation, *)
(* monitor and imports, deletions, the activity log, and what the portal   *)
(* shows of a synchronisation and of a query.  They share no state,        *)
(* so a behaviour belongs to one of them, "part", and the others stand     *)
(* still: the run visits the sum of their states, not the product.         *)
(***************************************************************************)
EXTENDS FullSync, MonitorImport, EndpointDeletion, ActivityTrail, SyncView, ApiQuery

CONSTANTS h1, h2, i1, i2, o1, o2

TwoHosts == {h1, h2}
TwoImporters == {i1, i2}
TwoOperators == {o1, o2}
EveryDeletion == (SUBSET Hosts) \ {{}}

VARIABLE part
vars == <<part, syncVars, impVars, delVars, trVars, viewVars, qVars>>
Parts == {"sync", "import", "names", "deletion", "trail", "view", "query"}

Init ==
  /\ part \in Parts
  /\ SyncInit /\ ImportInit /\ DelInit /\ TrInit
  /\ IF part = "view" THEN ViewInit ELSE ViewInit /\ viewRun = "none"
  /\ IF part = "query" THEN QInit ELSE QInit /\ qEnabled /\ qData = NoData

Others(p) == \* the variables of the other parts
  /\ p # "sync" => UNCHANGED syncVars
  /\ p \notin {"import", "names"} => UNCHANGED impVars
  /\ p # "deletion" => UNCHANGED delVars
  /\ p # "trail" => UNCHANGED trVars
  /\ p # "view" => UNCHANGED viewVars
  /\ p # "query" => UNCHANGED qVars

(* Two parts for the imports: both imports beside the monitor, with files of *)
(* one name; and one import beside requests that create and rename, where    *)
(* the monitor does not matter.                                              *)
ImportsOnly == UNCHANGED impReq /\ \A i \in Importers : impFile'[i] \subseteq {h1}
NamesOnly == UNCHANGED monRunning /\ impPlace'[i2] = "idle"

Next ==
  /\ UNCHANGED part /\ Others(part)
  /\ \/ part = "sync" /\ SyncNext
     \/ part = "import" /\ ImportNext /\ ImportsOnly
     \/ part = "names" /\ ImportNext /\ NamesOnly
     \/ part = "deletion" /\ DelNext
     \/ part = "trail" /\ TrNextStep
     \/ part = "view" /\ ViewNext
     \/ part = "query" /\ QNext

Only(p, A) == part = p /\ A

(* The event loop gets to every callback that is due, in the backend and in  *)
(* the page; the timers of the scheduled sync and of the poll fire again and *)
(* again; and a host that is asked again and again answers at some time      *)
(* (SF), which is the operator's business.                                   *)
Fairness ==
  /\ WF_syncVars(Only("sync", SyncBootStep)) /\ WF_syncVars(Only("sync", SyncTimer))
  /\ \A c \in SyncCallers : WF_syncVars(Only("sync", SyncRunStep(c)))
  /\ \A h \in Hosts :
       SF_syncVars(Only("sync", \E d \in SyncCallers : SyncEndpoint(d, h, TRUE)))
  /\ WF_impVars(Only("import", MonitorRun)) /\ WF_impVars(Only("import", MonitorStep))
  /\ WF_viewVars(Only("view", ViewAccepts)) /\ WF_viewVars(Only("view", ViewPostReturns))
  /\ WF_viewVars(Only("view", ViewPolls)) /\ WF_viewVars(Only("view", ViewApplies))
  /\ WF_viewVars(Only("view", ViewHears))
  /\ \A i \in 1..MaxReloads :
       WF_qVars(Only("query", \E c \in qCalls : c.id = i /\ QCallStep(c)))

Spec == Init /\ [][Next]_vars /\ Fairness

(* In a process that synchronises, every endpoint that stays gets its        *)
(* snapshot in the end (SyncReachesAll: endpointSync.js:142-260, app.js:208). *)
SyncsReachAll == part = "sync" => SyncReachesAll

(* In a process that imports, the monitor goes on for good once imports      *)
(* cease, however they ended (MonitorComesBack: import.js:46-57).            *)
MonitorAlwaysBack == part = "import" => MonitorComesBack

(* In a page that follows synchronisations the spinner goes out              *)
(* (SpinnerGoesOut: SyncContext.jsx:46-156).                                 *)
SpinnerStops == part = "view" => SpinnerGoesOut

(* In a page with a query loading ends (LoadingStops: useApiQuery.js:45-89). *)
LoadingEnds == part = "query" => LoadingStops

FleetUpkeepTypeOK == SyncTypeOK /\ ImportTypeOK /\ DelTypeOK /\ TrTypeOK
  /\ ViewTypeOK /\ QTypeOK
=============================================================================
