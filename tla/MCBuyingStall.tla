--------------------------- MODULE MCBuyingStall ---------------------------
(* Instances of BuyingStall for TLC: collector k, suppliers a and b. *)
EXTENDS BuyingStall

CONSTANTS k, a, b, potion, sword

Pile(i, n) == [item |-> i, count |-> n]

\* What the suppliers own; the collector's bag is empty.
Goods == [p \in Players |-> CASE p = k -> <<Empty, Empty>>
                              [] p = a -> <<Pile(potion, 2), Pile(sword, 1)>>
                              [] p = b -> <<Pile(potion, 1), Empty>>]

\* The second supplier's purse is nearly full.
Funds == [p \in Players |-> CASE p = k -> 4 [] p = a -> 0 [] p = b -> 8]

Wish(i, n, price) == [item |-> i, count |-> n, price |-> price]
\* A list the purse covers even after a sale to the second, and one it never covers.
Lists == {<<Wish(sword, 1, 1), Wish(potion, 1, 1)>>, <<Wish(potion, 2, 2), NoWant>>,
          <<Wish(potion, 2, 2), Wish(sword, 1, 1)>>}
=============================================================================
