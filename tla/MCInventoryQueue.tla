-------------------------- MODULE MCInventoryQueue --------------------------
(***************************************************************************)
(* Bounds for InventoryQueue: the endpoints as model values, more of them  *)
(* than inventories may run, so that the list holds two.                   *)
(***************************************************************************)
EXTENDS InventoryQueue

CONSTANTS h1, h2, h3

ThreeHosts == {h1, h2, h3}
=============================================================================
