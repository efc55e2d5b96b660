------------------------------- MODULE Market -------------------------------
(***************************************************************************)
(* What a stall promises: a sale happens at once or not at all.  The goods *)
(* pass from the keeper to the shopper while n times the unit price passes *)
(* from the shopper to the keeper, whose purse is cut off at CoinMax.      *)
(* StallMarket shows that the steps of merchant_item_buy implement it when *)
(* the keeper waits for them, BuyingStall that those of                    *)
(* buying_merchant_buy do when suppliers wait for one another.             *)
(***************************************************************************)
EXTENDS Naturals

CONSTANTS Players, Item, Prices, CoinMax

VARIABLES
  purse,   \* gold of every player
  goods    \* units of every item in every player's bag

vars == <<purse, goods>>

Init ==
  /\ purse \in [Players -> Nat]
  /\ goods \in [Players -> [Item -> Nat]]

Gain(coins, n) == IF coins + n > CoinMax THEN CoinMax ELSE coins + n

Sell(s, b, i, n, price) ==
  /\ s # b /\ n \in 1 .. goods[s][i] /\ price * n <= purse[b]
  /\ purse' = [purse EXCEPT ![b] = @ - price * n, ![s] = Gain(@, price * n)]
  /\ goods' = [goods EXCEPT ![s][i] = @ - n, ![b][i] = @ + n]

\* Not one of the promised steps: n of the keeper's units are lost.
Lose(s, i, n) ==
  /\ n > 0 /\ n <= goods[s][i]
  /\ goods' = [goods EXCEPT ![s][i] = @ - n]
  /\ UNCHANGED purse

Next ==
  \E s, b \in Players, i \in Item, price \in Prices :
    \E n \in 1 .. goods[s][i] : Sell(s, b, i, n, price)

Spec == Init /\ [][Next]_vars
=============================================================================
