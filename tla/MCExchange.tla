----------------------------- MODULE MCExchange -----------------------------
(* Instances of Exchange for TLC. *)
EXTENDS Exchange

CONSTANTS a, b, c, potion, sword

\* Every player on an account of their own; one nation, or two.
OwnAccounts == [p \in Players |-> p]
OneNation   == [p \in Players |-> "karus"]
TwoNations  == [p \in Players |-> IF p = a THEN "karus" ELSE "elmorad"]

OneCoin == [p \in Players |-> 1]
NoBag   == [p \in Players |-> <<>>]

Pile(i, n) == [item |-> i, count |-> n]
NoCoin  == [p \in Players |-> 0]
\* a holds two stacks of potions and no free slot, b a sword and one.
MixedBags ==
  [p \in Players |-> IF p = a THEN <<Pile(potion, 2), Pile(potion, 1)>>
                              ELSE <<Pile(sword, 1), Empty>>]
FoundSword == {<<sword, 1>>}

Symmetric == Permutations(Players)
=============================================================================
