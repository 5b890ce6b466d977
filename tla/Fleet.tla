-------------------------------- MODULE Fleet --------------------------------
(***************************************************************************)
(* What the modules of the backend share: the endpoints, and the number of *)
(* calls to the database or to a host that fail in a behaviour.            *)
(***************************************************************************)
EXTENDS Integers, Sequences, FiniteSets

CONSTANTS
  Hosts,      \* endpoints
  MaxFaults,  \* bound: calls that fail
  MaxEdits    \* bound: requests of operators that repeat (edits, restarts)

ASSUME FleetAssumption ==
  /\ IsFiniteSet(Hosts) /\ Hosts # {}
  /\ MaxFaults \in Nat
  /\ MaxEdits \in Nat
=============================================================================
