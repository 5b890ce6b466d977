----------------------------- MODULE MCHostWork -----------------------------
(***************************************************************************)
(* Bounds for the work that changes hosts: fleet jobs, the removal of the  *)
(* RSCD agent, installation and removal of programs.  They share no state, *)
(* so a behaviour belongs to one of them, "part", and the others stand     *)
(* still: the run visits the sum of their states, not the product.         *)
(***************************************************************************)
EXTENDS FleetJobs, UninstallPipeline, InstallPipeline

CONSTANTS h1, h2, h3

ThreeHosts == {h1, h2, h3}
ThreeInOrder == <<h1, h2, h3>>

RscdThenNsh == <<"rscd", "nsh">>
Complete == [service |-> "running", entry |-> "x64", blade |-> TRUE, dirs |-> {"rscd", "nsh"}]
Nothing == [service |-> "none", entry |-> "none", blade |-> FALSE, dirs |-> {}]

\* What earlier installations, removals and hands have left on a host.
FoundHosts ==
  {Complete, Nothing,
   [Complete EXCEPT !.service = "stopped", !.blade = FALSE],
   [Complete EXCEPT !.entry = "x86", !.dirs = {"nsh"}],
   [Nothing EXCEPT !.service = "running"],
   [Nothing EXCEPT !.dirs = {"rscd"}]}

VARIABLE part
vars == <<part, fjVars, upVars, ipVars>>

Init ==
  /\ part \in {"fleet job", "removal", "program"}
  /\ FleetJobsInit /\ IpInit /\ UpInit

Next ==
  /\ UNCHANGED part
  /\ \/ /\ part = "fleet job" /\ FleetJobsNext
        /\ UNCHANGED <<upVars, ipVars>>
     \/ /\ part = "removal" /\ UpNext
        /\ UNCHANGED <<fjVars, ipVars>>
     \/ /\ part = "program" /\ IpNext
        /\ UNCHANGED <<fjVars, upVars>>

(* A sweep goes on, work on a host ends (wmiExec.js kills what runs too      *)
(* long), and so does each step of a removal.                                *)
Fairness ==
  /\ \A k \in SweepKinds : WF_fjVars(part = "fleet job" /\ SweepStep(k))
  /\ WF_fjVars(part = "fleet job" /\ WorkStep)
  /\ WF_upVars(part = "removal" /\ UpStep)

Spec == Init /\ [][Next]_vars /\ Fairness

(* What starts on hosts ends: sweeps, whose flags come back, and removals    *)
(* (FlagsComeBack: vcRedist2015.js:325-332, endpointReadiness.js:318-326;    *)
(* EveryUninstallEnds: winRemote.js:89-119).                                 *)
HostWorkEnds == FlagsComeBack /\ EveryUninstallEnds

HostWorkTypeOK == FleetJobsTypeOK /\ UpTypeOK /\ IpTypeOK
=============================================================================
