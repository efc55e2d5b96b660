----------------------------- MODULE MCClanBank -----------------------------
(* Instances of ClanBank for TLC. *)
EXTENDS ClanBank, TLC

CONSTANTS chief, vice, potion, ring, j1, j2

Pile(n) == [item |-> potion, count |-> n]
PurseEach == [m \in Members |-> 0]
\* A potion in each bag, and a warehouse with a stack and a ring.
BagEach == [m \in Members |-> [s \in Slots |-> IF s = 1 THEN Pile(1) ELSE Empty]]
RowsStart ==
  [items |-> [k \in Places |-> IF k = 1 THEN Pile(2) ELSE IF k = 2 THEN [item |-> ring, count |-> 1] ELSE Empty],
   gold |-> 1]
\* What two officers come for together: gold, the stack, or the ring.
ForGold == {Idle, GoldRequest("inputGold", 1), GoldRequest("outputGold", 1)}
ForStack ==
  {ItemRequest("input", potion, 1, 1, 1), ItemRequest("output", potion, 1, 1, 1),
   ItemRequest("output", potion, 1, 1, 2), MoveRequest(potion, 1, 2),
   ItemRequest("output", ring, 1, 2, 1)}
ForRing ==
  {ItemRequest("input", potion, 1, 1, 1), ItemRequest("input", potion, 1, 2, U16(8)),
   ItemRequest("input", ring, 1, 2, 1), ItemRequest("output", ring, 1, 2, U16(8)),
   ItemRequest("output", ring, 1, 2, 1)}
EachErrand == {ForGold, ForStack, ForRing}
Either == Permutations(Members) \cup Permutations(Jobs)
=============================================================================
