-------------------------------- MODULE MCWar --------------------------------
(* Instances of War for TLC. *)
EXTENDS War, TLC

CONSTANT karus

Sides == karus :> 1
==============================================================================
