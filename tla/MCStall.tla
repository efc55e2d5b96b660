------------------------------ MODULE MCStall ------------------------------
(* Instances of Stall for TLC: keeper k, shoppers a and b. *)
EXTENDS StallMarket, TLC

CONSTANTS k, a, b, potion, sword

Pile(i, n) == [item |-> i, count |-> n]
Each(n) == [p \in Players |-> n]

\* The keeper has these goods, the players these purses.
Start(goodsOfK, purses, coins) ==
  [bag  |-> [p \in Players |-> IF p = k THEN goodsOfK ELSE [s \in Slots |-> Empty]],
   gold |-> purses, cash |-> Each(coins)]

\* Shoppers who can pay for the whole stack, one who cannot pay at all, and
\* shoppers who cannot pay for both items.
Calm == {Start(<<Pile(potion, 2), Empty>>, Each(2), 0),
         Start(<<Pile(sword, 1), Pile(potion, 1)>>, Each(1), 0)}
Uneven == Calm \cup
  {Start(<<Pile(potion, 2), Empty>>, [p \in Players |-> IF p = poor THEN 0 ELSE 2], 0) : poor \in Shoppers}
TwoPotions == {Start(<<Pile(potion, 2), Empty>>, Each(2), 0)}
OnlyBPays  == {Start(<<Pile(potion, 2), Empty>>, [p \in Players |-> IF p = b THEN 1 ELSE 0], 0)}
OneStack   == {Start(<<Pile(potion, 2)>>, Each(1), 1)}

For(n, price, kc) == [count |-> n, price |-> price, kc |-> kc]
Whole      == {For(2, 1, FALSE), For(1, 1, FALSE)}
GoldOrCash == {For(2, 1, FALSE), For(1, 1, TRUE)}
FoundPotion == {<<potion, 1>>}
Swap        == {<<1, 2>>}
Alike == Permutations(Shoppers)
=============================================================================
