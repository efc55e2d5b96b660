------------------------------- MODULE MCParty -------------------------------
(* Instances of Party for TLC. *)
EXTENDS Party, TLC

CONSTANTS a, b, c, town, arena

\* Everybody suits everybody, in both zones.
AllSuit == Sessions \X Sessions \X Zones

Symmetric == Permutations(Sessions)
==============================================================================
