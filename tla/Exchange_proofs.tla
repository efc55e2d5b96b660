-------------------------- MODULE Exchange_proofs --------------------------
(***************************************************************************)
(* Proofs about Exchange, for any number of players and any bags.          *)
(*                                                                         *)
(* The inductive invariant is Inv: TypeOK bounds the purse, Linked says    *)
(* what the partner of a step's player can be, and OffersBelongToTrade     *)
(* says that the steps before agreement have nothing to refund.  GoodsOK   *)
(* adds the bags: every bag is made of stacks, every offer is a sequence   *)
(* of entries of real items.  A refund or a transfer is a fold of such     *)
(* entries over a bag; FoldRule is its induction, and from it come the     *)
(* ghosts (GhostsAreCuts) and the units in the world (ItemsKept).          *)
(***************************************************************************)
EXTENDS Exchange, Sums_proofs

USE ExchangeAssumption, InventoryAssumption DEF ExchangeAssumption, InventoryAssumption

\* The purse never leaves 0 .. COIN_MAX (world.gold_gain).
LEMMA GoldGainType ==
  ASSUME NEW purse \in 0 .. CoinMax, NEW n \in Nat
  PROVE  /\ GoldGain(purse, n) \in 0 .. CoinMax
         /\ GoldGain(purse, n) = IF purse + n > CoinMax THEN CoinMax ELSE purse + n
         /\ \E m \in 0 .. CoinMax : GoldGain(purse, n) = purse + m
<1>1. CoinMax \in Nat /\ purse \in Nat
  BY DEF InventoryAssumption
<1>2. GoldGain(purse, n) = IF purse + n > CoinMax THEN CoinMax ELSE purse + n
  BY DEF GoldGain, Clamp
<1>3. GoldGain(purse, n) \in 0 .. CoinMax
  BY <1>1, <1>2
<1>4. \E m \in 0 .. CoinMax : GoldGain(purse, n) = purse + m
  <2>1. GoldGain(purse, n) - purse \in 0 .. CoinMax
    BY <1>1, <1>2
  <2> QED
    BY <2>1, <1>1, <1>3
<1> QED
  BY <1>2, <1>3, <1>4

\* reset_trade leaves every trade field in its type.
LEMMA ResetTradeType ==
  ASSUME TypeOK, NEW P, ResetTrade(P)
  PROVE  /\ tradeState' \in [Players -> TradeStates]
         /\ exchangeUser' \in [Players -> Players \cup {NoPlayer}]
         /\ exchangeGold' \in [Players -> Nat]
BY DEF TypeOK, ResetTrade, TradeStates

\* exchange_give_items_back keeps the purses within COIN_MAX.
LEMMA GiveBackType ==
  ASSUME TypeOK, NEW P, GiveItemsBack(P)
  PROVE  gold' \in [Players -> 0 .. CoinMax]
BY GoldGainType DEF TypeOK, GiveItemsBack

-----------------------------------------------------------------------------
\* The session fields keep their types and the purse its cap through every
\* handler and every step of the rest of the server.
THEOREM TypeCorrect == Spec => []TypeOK
<1>1. Init => TypeOK
  BY DEF Init, TypeOK, TradeStates, Activities, ExchangeAssumption
<1>2. TypeOK /\ [Next]_vars => TypeOK'
  <2> SUFFICES ASSUME TypeOK, [Next]_vars PROVE TypeOK'
    OBVIOUS
  <2> USE DEF TypeOK, TradeStates
  <2>1. CASE UNCHANGED vars
    BY <2>1 DEF vars, place, goods, trade
  <2>2. ASSUME NEW p \in Players, TradeStep(p) PROVE TypeOK'
    <3>1. CASE \E q \in Players : Request(p, q)
      BY <3>1 DEF Request, place, goods
    <3>2. CASE RequestWhileTrading(p)
      BY <3>2, ResetTradeType, GiveBackType DEF RequestWhileTrading, ExchangeCancel, place
    <3>3. CASE Agree(p)
      BY <3>3 DEF Agree, SetState, place, goods
    <3>4. CASE Decline(p)
      BY <3>4, ResetTradeType DEF Decline, place, goods
    <3>5. CASE AddToLostPartner(p)
      BY <3>5, ResetTradeType, GiveBackType DEF AddToLostPartner, ExchangeCancel, place
    <3>6. CASE \E n \in AddAmounts : AddGold(p, n)
      <4> PICK n \in AddAmounts : AddGold(p, n)
        BY <3>6
      <4>1. n \in Nat /\ gold[p] \in 0 .. CoinMax /\ n <= gold[p] /\ CoinMax \in Nat
        BY DEF AddGold, ExchangeAssumption, InventoryAssumption
      <4>2. gold[p] - n \in 0 .. CoinMax /\ exchangeGold[p] + n \in Nat
        BY <4>1
      <4> QED
        BY <4>1, <4>2 DEF AddGold, place
    <3>7. CASE \E s \in Slots, n \in ItemCounts : AddItem(p, s, n)
      BY <3>7 DEF AddItem, place
    <3>8. CASE DecideFirst(p)
      BY <3>8 DEF DecideFirst, SetState, place, goods
    <3>9. CASE Execute(p)
      <4> DEFINE q == exchangeUser[p]
      <4>1. ResetTrade({p, q}) /\ UNCHANGED place
        BY <3>9 DEF Execute
      <4>2. gold' = [gold EXCEPT ![p] = GoldGain(@, exchangeGold[q]),
                                 ![q] = GoldGain(@, exchangeGold[p])]
        BY <3>9 DEF Execute
      <4>3. q \in Players
        BY <3>9 DEF Execute, BothDecided, Deciding, IsTrading
      <4>4. gold' \in [Players -> 0 .. CoinMax]
        BY <4>2, <4>3, GoldGainType
      <4> QED
        BY <4>1, <4>4, ResetTradeType DEF place
    <3>10. CASE ExecuteFails(p)
      BY <3>10, ResetTradeType, GiveBackType DEF ExecuteFails, place
    <3>11. CASE Cancel(p)
      BY <3>11, ResetTradeType, GiveBackType DEF Cancel, ExchangeCancel, place
    <3>12. CASE CancelCutOff(p)
      BY <3>12, ResetTradeType, GiveBackType DEF CancelCutOff
    <3> QED
      BY <2>2, <3>1, <3>2, <3>3, <3>4, <3>5, <3>6, <3>7, <3>8, <3>9, <3>10, <3>11, <3>12
      DEF TradeStep
  <2>3. ASSUME NEW p \in Players, DropStep(p) PROVE TypeOK'
    <3>1. CASE Leave(p)
      BY <3>1, ResetTradeType DEF Leave, DropTrade, goods, Activities
    <3>2. CASE Panic(p)
      BY <3>2, ResetTradeType DEF Panic, goods, Activities
    <3>3. CASE \E z \in Zones : ZoneChange(p, z)
      BY <3>3, ResetTradeType DEF ZoneChange, DropTrade, goods, Activities
    <3> QED
      BY <2>3, <3>1, <3>2, <3>3 DEF DropStep
  <2>4. ASSUME NEW p \in Players, OtherStep(p) PROVE TypeOK'
    <3>1. CASE \E n \in EarnAmounts : EarnGold(p, n)
      <4> PICK n \in EarnAmounts : EarnGold(p, n)
        BY <3>1
      <4>1. GoldGain(gold[p], n) \in 0 .. CoinMax
        BY GoldGainType
      <4> QED
        BY <4>1 DEF EarnGold, place, trade
    <3>2. CASE \E f \in Finds : EarnItem(p, f[1], f[2])
      BY <3>2 DEF EarnItem, place, trade
    <3>3. CASE \E a \in Pursuits : Begin(p, a)
      BY <3>3 DEF Begin, goods, trade, Activities, Occupied, ExchangeAssumption
    <3>4. CASE Enter(p) \/ Die(p) \/ Regene(p)
      BY <3>4 DEF Enter, Die, Regene, goods, trade
    <3>5. CASE Stop(p)
      BY <3>5 DEF Stop, goods, trade, Activities
    <3>6. CASE \E z \in Zones : Teleport(p, z)
      BY <3>6 DEF Teleport, goods, trade
    <3> QED
      BY <2>4, <3>1, <3>2, <3>3, <3>4, <3>5, <3>6 DEF OtherStep
  <2> QED
    BY <2>1, <2>2, <2>3, <2>4 DEF Next
<1> QED
  BY <1>1, <1>2, PTL DEF Spec
-----------------------------------------------------------------------------
(* Linked: every reset covers both ends of an exchange, unless the end left  *)
(* behind belongs to a session that is going away.                           *)

Inv == TypeOK /\ Linked /\ OffersBelongToTrade

\* What reset_trade does to one player.
LEMMA ResetTradeAt ==
  ASSUME TypeOK, NEW P, ResetTrade(P), NEW p \in Players
  PROVE  /\ p \in P => /\ tradeState'[p] = "none" /\ exchangeUser'[p] = NoPlayer
                       /\ exchangeItems'[p] = <<>> /\ exchangeGold'[p] = 0
         /\ p \notin P => /\ tradeState'[p] = tradeState[p]
                          /\ exchangeUser'[p] = exchangeUser[p]
                          /\ exchangeItems'[p] = exchangeItems[p]
                          /\ exchangeGold'[p] = exchangeGold[p]
BY DEF ResetTrade

\* A reset of a set of players that is closed under mutual exchange_user, up to
\* sessions that are over after the step, leaves the rest linked.
LEMMA ResetKeepsLinks ==
  ASSUME Inv, NEW P, ResetTrade(P),
         \A r \in Players : Present(r)' => Present(r),
         \A r \in Players : ~online'[r] => r \in P \/ exchangeUser[r] = NoPlayer,
         \A r \in Players : closing'[r] => online'[r] /\ (closing[r] \/ r \in P),
         \A r, q \in Players :
           r \in P /\ exchangeUser[r] = q /\ exchangeUser[q] = r /\ Present(r)' => q \in P
  PROVE  Linked' /\ OffersBelongToTrade'
<1> USE DEF Inv
<1>1. OffersBelongToTrade'
  BY ResetTradeAt DEF OffersBelongToTrade
<1>2. Linked'
  <2> SUFFICES ASSUME NEW p \in Players
               PROVE  /\ (tradeState[p] = "none" <=> exchangeUser[p] = NoPlayer)'
                      /\ (~online[p] => exchangeUser[p] = NoPlayer)'
                      /\ (closing[p] => online[p] /\ tradeState[p] \in {"none", "target"})'
                      /\ \A q \in Players : (exchangeUser[p] = q =>
                           /\ q # p
                           /\ Present(q) => /\ exchangeUser[q] = p
                                            /\ <<tradeState[p], tradeState[q]>> \in Pairs)'
    BY DEF Linked
  <2>1. CASE p \in P
    BY <2>1, ResetTradeAt, ExchangeAssumption
  <2>2. CASE p \notin P
    <3>1. /\ exchangeUser'[p] = exchangeUser[p]
          /\ tradeState'[p] = tradeState[p]
      BY <2>2, ResetTradeAt
    <3>2. ASSUME NEW q \in Players, exchangeUser[p] = q, Present(q)'
          PROVE  /\ exchangeUser'[q] = p
                 /\ <<tradeState'[p], tradeState'[q]>> \in Pairs
      <4>1. Present(q) /\ exchangeUser[q] = p /\ <<tradeState[p], tradeState[q]>> \in Pairs
        BY <3>2 DEF Linked
      <4>2. q \notin P
        BY <4>1, <3>2, <2>2
      <4> QED
        BY <4>1, <4>2, <3>1, ResetTradeAt
    <3>3. ~online'[p] => exchangeUser[p] = NoPlayer
      BY <2>2
    <3>4. closing'[p] => online'[p] /\ tradeState[p] \in {"none", "target"}
      BY <2>2 DEF Linked
    <3> QED
      BY <3>1, <3>2, <3>3, <3>4 DEF Linked
  <2> QED
    BY <2>1, <2>2
<1> QED
  BY <1>1, <1>2

\* A step that does not touch the sessions keeps them as ResetKeepsLinks asks.
SameSessions == UNCHANGED <<online, closing>>

LEMMA SameSessionsIs ==
  ASSUME Inv, SameSessions
  PROVE  \A r \in Players : /\ Present(r)' <=> Present(r)
                            /\ ~online'[r] => exchangeUser[r] = NoPlayer
                            /\ closing'[r] => online'[r] /\ closing[r]
BY DEF SameSessions, Inv, Linked, Present

\* exchange_cancel resets a closed set: a partner it skips is in no exchange,
\* and one that is not linked back belongs to a session that is over.
LEMMA CancelKeepsLinks ==
  ASSUME Inv, NEW p \in Players, ResetTrade(Cancelled(p)), SameSessions
  PROVE  Linked' /\ OffersBelongToTrade'
<1>1. \A r, q \in Players :
        r \in Cancelled(p) /\ exchangeUser[r] = q /\ exchangeUser[q] = r /\ Present(r)'
        => q \in Cancelled(p)
  <2> SUFFICES ASSUME NEW r \in Players, NEW q \in Players, r \in Cancelled(p),
                      exchangeUser[r] = q, exchangeUser[q] = r, Present(r)'
               PROVE  q \in Cancelled(p)
    OBVIOUS
  <2>1. tradeState[p] # "none" /\ (r = p \/ r = exchangeUser[p])
    BY DEF Cancelled
  <2>2. Present(r)
    BY SameSessionsIs
  <2>3. CASE r = p
    BY <2>1, <2>3, ExchangeAssumption DEF Inv, Linked, Cancelled
  <2>4. CASE r = exchangeUser[p] /\ r # p
    <3>1. exchangeUser[r] = p
      BY <2>2, <2>4 DEF Inv, Linked
    <3> QED
      BY <2>1, <3>1 DEF Cancelled
  <2> QED
    BY <2>1, <2>3, <2>4
<1> QED
  BY <1>1, SameSessionsIs, ResetKeepsLinks

\* A cancel cut off half way resets one end, whose session is over with it.
LEMMA CutOffKeepsLinks ==
  ASSUME Inv, NEW p \in Players, CancelCutOff(p)
  PROVE  Linked' /\ OffersBelongToTrade'
<1>1. /\ ResetTrade({p}) /\ online' = online /\ online[p] /\ Present(p)
      /\ closing'[p] /\ \A r \in Players \ {p} : closing'[r] = closing[r]
  BY DEF CancelCutOff, CanHandle, Present, Inv, TypeOK
<1>2. \A r \in Players : /\ Present(r)' => Present(r) /\ r # p
                         /\ ~online'[r] => exchangeUser[r] = NoPlayer
                         /\ closing'[r] => online'[r] /\ (closing[r] \/ r \in {p})
  BY <1>1 DEF Present, Inv, Linked
<1> QED
  BY <1>1, <1>2, ResetKeepsLinks

\* Resetting a player and its partner, when the player is in an exchange.
LEMMA BothEndsKeepLinks ==
  ASSUME Inv, NEW p \in Players, IsTrading(p), ResetTrade({p, exchangeUser[p]}),
         \A r \in Players \ {p} : online'[r] = online[r] /\ closing'[r] = closing[r],
         SameSessions \/ (~online'[p] /\ ~closing'[p])
  PROVE  Linked' /\ OffersBelongToTrade'
<1> DEFINE P == {p, exchangeUser[p]}
<1>1. exchangeUser[p] \in Players
  BY DEF Inv, Linked, IsTrading, TypeOK
<1>2. \A r \in Players : /\ Present(r)' => Present(r)
                         /\ ~online'[r] => r \in P \/ exchangeUser[r] = NoPlayer
                         /\ closing'[r] => online'[r] /\ (closing[r] \/ r \in P)
  BY DEF SameSessions, Present, Inv, Linked
<1>3. \A r, q \in Players :
        r \in P /\ exchangeUser[r] = q /\ exchangeUser[q] = r /\ Present(r)' => q \in P
  <2> SUFFICES ASSUME NEW r \in Players, NEW q \in Players, r \in P,
                      exchangeUser[r] = q, exchangeUser[q] = r, Present(r)'
               PROVE  q \in P
    OBVIOUS
  <2>1. CASE r = exchangeUser[p] /\ r # p
    BY <1>2, <2>1 DEF Inv, Linked
  <2> QED
    BY <2>1
<1>4. ResetTrade(P)
  OBVIOUS
<1> HIDE DEF P
<1> QED
  BY <1>2, <1>3, <1>4, ResetKeepsLinks

\* A step that touches neither the links, the offers nor the sessions.
LEMMA SameLinks ==
  ASSUME Linked, OffersBelongToTrade, UNCHANGED <<online, closing, trade>>
  PROVE  Linked' /\ OffersBelongToTrade'
BY DEF Linked, OffersBelongToTrade, trade, Present

\* Adding to an offer while trading changes no link.
LEMMA SameLinksMoreOffered ==
  ASSUME Inv, UNCHANGED <<online, closing, tradeState, exchangeUser>>,
         NEW p \in Players, tradeState[p] = "trading",
         \A r \in Players \ {p} : /\ exchangeItems'[r] = exchangeItems[r]
                                 /\ exchangeGold'[r] = exchangeGold[r]
  PROVE  Linked' /\ OffersBelongToTrade'
BY DEF Inv, Linked, OffersBelongToTrade, Present

LEMMA LinksKept == Spec => [](Linked /\ OffersBelongToTrade)
<1>1. Init => Inv
  <2>1. Init => TypeOK
    BY DEF Init, TypeOK, TradeStates, Activities
  <2>2. Init => Linked /\ OffersBelongToTrade
    BY DEF Init, Linked, OffersBelongToTrade
  <2> QED
    BY <2>1, <2>2 DEF Inv
<1>2. Inv /\ TypeOK' /\ [Next]_vars => Inv'
  <2> SUFFICES ASSUME Inv, [Next]_vars PROVE Linked' /\ OffersBelongToTrade'
    BY DEF Inv
  <2>1. CASE UNCHANGED vars
    BY <2>1, SameLinks DEF Inv, vars, place, trade
  <2>2. ASSUME NEW p \in Players, TradeStep(p)
        PROVE  Linked' /\ OffersBelongToTrade'
    <3>1. CASE \E q \in Players : Request(p, q)
      <4> PICK q \in Players : Request(p, q)
        BY <3>1
      <4>1. /\ p # q /\ Present(p) /\ online[q]
            /\ exchangeUser[p] = NoPlayer /\ exchangeUser[q] = NoPlayer
        BY DEF Request, MayAsk, IsTrading, CanHandle, Present
      <4>2. /\ \A r \in Players \ {p, q} : /\ exchangeUser'[r] = exchangeUser[r]
                                          /\ tradeState'[r] = tradeState[r]
            /\ exchangeUser'[p] = q /\ exchangeUser'[q] = p
            /\ tradeState'[p] = "sender" /\ tradeState'[q] = "target"
            /\ UNCHANGED <<online, closing, exchangeItems, exchangeGold>>
        BY <4>1 DEF Request, place, Inv, TypeOK
      <4>3. Linked'
        <5>1. ASSUME NEW r \in Players \ {p, q}, NEW t \in Players,
                     exchangeUser[r] = t, Present(t)
              PROVE  t \notin {p, q} /\ exchangeUser[t] = r
                     /\ <<tradeState[r], tradeState[t]>> \in Pairs
          BY <4>1, <5>1, ExchangeAssumption DEF Inv, Linked
        <5>2. \A r \in Players : Present(r)' <=> Present(r)
          BY <4>2 DEF Present
        <5> QED
          BY <4>1, <4>2, <5>1, <5>2, ExchangeAssumption DEF Inv, Linked, Pairs, Present
      <4>4. OffersBelongToTrade'
        BY <4>1, <4>2 DEF Inv, Linked, OffersBelongToTrade
      <4> QED
        BY <4>3, <4>4
    <3>2. CASE RequestWhileTrading(p) \/ AddToLostPartner(p) \/ Cancel(p)
      BY <3>2, CancelKeepsLinks
      DEF RequestWhileTrading, AddToLostPartner, Cancel, ExchangeCancel, place, SameSessions
    <3>3. CASE Agree(p)
      <4> DEFINE q == exchangeUser[p]
      <4>1. /\ q \in Players /\ q # p /\ Present(p) /\ exchangeUser[q] = p
            /\ tradeState[q] = "sender"
        BY <3>3 DEF Agree, Answering, AgreeChecks, IsTrading, CanHandle, Inv, Linked, TypeOK
      <4>2. /\ tradeState'[p] = "trading" /\ tradeState'[q] = "trading"
            /\ \A r \in Players \ {p, q} : tradeState'[r] = tradeState[r]
            /\ UNCHANGED <<online, closing, exchangeUser, exchangeItems, exchangeGold>>
        BY <3>3, <4>1 DEF Agree, SetState, place
      <4>3. Linked'
        BY <4>1, <4>2 DEF Inv, Linked, Pairs, Present
      <4> QED
        BY <4>2, <4>3 DEF Inv, OffersBelongToTrade
    <3>4. CASE Decline(p)
      BY <3>4, BothEndsKeepLinks DEF Decline, Answering, place, SameSessions
    <3>5. CASE \E n \in AddAmounts : AddGold(p, n)
      BY <3>5, SameLinksMoreOffered DEF AddGold, MayAdd, Adding, place
    <3>6. CASE \E s \in Slots, n \in ItemCounts : AddItem(p, s, n)
      BY <3>6, SameLinksMoreOffered DEF AddItem, MayAdd, Adding, place
    <3>7. CASE DecideFirst(p)
      <4> DEFINE q == exchangeUser[p]
      <4>1. /\ q \in Players /\ q # p /\ exchangeUser[q] = p
            /\ tradeState[p] = "trading" /\ tradeState[q] = "trading"
        <5>1. /\ tradeState[p] = "trading" /\ tradeState[q] = "trading"
              /\ exchangeUser[q] = p /\ q # NoPlayer
          BY <3>7 DEF DecideFirst, Deciding, IsTrading
        <5>2. q \in Players
          BY <5>1 DEF Inv, TypeOK
        <5> QED
          BY <5>1, <5>2 DEF Inv, Linked
      <4>2. /\ tradeState'[p] = "deciding"
            /\ \A r \in Players \ {p} : tradeState'[r] = tradeState[r]
            /\ UNCHANGED <<online, closing, exchangeUser, exchangeItems, exchangeGold>>
        BY <3>7 DEF DecideFirst, SetState, place
      <4>3. Linked'
        BY <4>1, <4>2 DEF Inv, Linked, Pairs, Present
      <4> QED
        BY <4>1, <4>2, <4>3 DEF Inv, OffersBelongToTrade
    <3>8. CASE Execute(p) \/ ExecuteFails(p)
      BY <3>8, BothEndsKeepLinks DEF Execute, ExecuteFails, BothDecided, Deciding, place, SameSessions
    <3>9. CASE CancelCutOff(p)
      BY <3>9, CutOffKeepsLinks
    <3> QED
      BY <2>2, <3>1, <3>2, <3>3, <3>4, <3>5, <3>6, <3>7, <3>8, <3>9 DEF TradeStep
  <2>3. ASSUME NEW p \in Players, DropStep(p)
        PROVE  Linked' /\ OffersBelongToTrade'
    <3>1. CASE \/ Leave(p)
               \/ \E z \in Zones : ZoneChange(p, z)
      <4>1. /\ DropTrade(p)
            /\ \A r \in Players \ {p} : online'[r] = online[r] /\ closing'[r] = closing[r]
            /\ SameSessions \/ (~online'[p] /\ ~closing'[p])
        BY <3>1 DEF Leave, ZoneChange, SameSessions, Inv, TypeOK
      <4>2. CASE IsTrading(p)
        BY <4>1, <4>2, BothEndsKeepLinks DEF DropTrade, Dropped
      <4>3. CASE ~IsTrading(p)
        <5>1. ResetTrade({})
          BY <4>1, <4>3 DEF DropTrade, Dropped
        <5>2. \A r \in Players : /\ Present(r)' => Present(r)
                                 /\ ~online'[r] => exchangeUser[r] = NoPlayer
                                 /\ closing'[r] => online'[r] /\ closing[r]
          BY <4>1, <4>3 DEF SameSessions, IsTrading, Present, Inv, Linked
        <5> QED
          BY <5>1, <5>2, ResetKeepsLinks
      <4> QED
        BY <4>2, <4>3
    <3>2. CASE Panic(p)
      <4>1. /\ ResetTrade({p}) /\ ~online'[p] /\ ~closing[p] /\ closing' = closing
            /\ \A r \in Players \ {p} : online'[r] = online[r]
        BY <3>2 DEF Panic, Present, Inv, TypeOK
      <4>2. \A r \in Players : /\ Present(r)' => Present(r) /\ r # p
                               /\ ~online'[r] => r \in {p} \/ exchangeUser[r] = NoPlayer
                               /\ closing'[r] => online'[r] /\ closing[r]
        BY <4>1 DEF Present, Inv, Linked
      <4> QED
        BY <4>1, <4>2, ResetKeepsLinks
    <3> QED
      BY <2>3, <3>1, <3>2 DEF DropStep
  <2>4. ASSUME NEW p \in Players, OtherStep(p)
        PROVE  Linked' /\ OffersBelongToTrade'
    <3>1. CASE Enter(p)
      <4>1. /\ online'[p] /\ ~online[p] /\ UNCHANGED <<closing, trade>>
            /\ \A r \in Players : exchangeUser[r] # p /\ (r # p => online'[r] = online[r])
        BY <3>1 DEF Enter, Inv, TypeOK
      <4> QED
        BY <4>1 DEF trade, Inv, Linked, OffersBelongToTrade, Present
    <3>2. CASE ~Enter(p)
      BY <2>4, <3>2, SameLinks
      DEF OtherStep, Teleport, Die, Regene, Begin, Stop, EarnGold, EarnItem, place, Inv
    <3> QED
      BY <3>1, <3>2
  <2> QED
    BY <2>1, <2>2, <2>3, <2>4 DEF Next
<1> QED
  BY <1>1, <1>2, TypeCorrect, PTL DEF Spec, Inv

\* exchange_user stays mutual and the pair of trade states one the protocol has,
\* through every handler and every step of the rest of the server: whoever is left
\* with a partner that does not name it back has lost that partner's session, to a
\* panic or to a cancel cut off by a dead writer (trade.rs:868).
THEOREM LinkedAlways == Spec => []Linked
BY LinksKept, PTL

\* Nobody's offer outlives a trade: exchange_items and the gold on offer are empty
\* whenever no exchange is agreed on, so no exchange starts with what an earlier one
\* left behind (reset_trade on every path that ends one).
THEOREM OffersEndWithTrade == Spec => []OffersBelongToTrade
BY LinksKept, PTL

LEMMA InvAlways == Spec => []Inv
BY TypeCorrect, LinksKept, PTL DEF Inv

-----------------------------------------------------------------------------
(* Deciding binds.  Nothing is said of bags, but the offers must be lists.  *)

Offering == exchangeItems \in [Players -> Seq(Entry)]

LEMMA EntryIs ==
  ASSUME NEW items \in Seq(Entry), NEW k \in DOMAIN items
  PROVE  items[k] \in Entry /\ items[k].count \in Nat
<1>1. items[k] \in Entry
  OBVIOUS
<1> QED
  BY <1>1 DEF Entry

\* update_exchange_item_count and the new entry: the list covers the old one.
LEMMA ListedCovers ==
  ASSUME NEW items \in Seq(Entry), NEW i \in Item, NEW n \in Nat, NEW s \in Slots
  PROVE  Listed(items, i, n, s) \in Seq(Entry) /\ Covers(Listed(items, i, n, s), items)
<1> DEFINE new == Listed(items, i, n, s)
<1>0. \A k \in DOMAIN items : items[k] \in Entry /\ items[k].count \in Nat
  BY EntryIs
<1>1. CASE SameItem(items, i) # {}
  <2> DEFINE m == Min(SameItem(items, i))
             e == [items[m] EXCEPT !.count = items[m].count + n]
  <2>1. m \in DOMAIN items
    <3>1. SameItem(items, i) \subseteq Nat /\ SameItem(items, i) \subseteq DOMAIN items
      BY DEF SameItem
    <3>2. \E x \in SameItem(items, i) : \A y \in SameItem(items, i) : x <= y
      BY <1>1, <3>1, LeastNatural
    <3> QED
      BY <3>1, <3>2 DEF Min
  <2>2. e \in Entry /\ e.item = items[m].item /\ e.count = items[m].count + n
    <3>1. PICK old \in Entry : old = items[m]
      BY <1>0, <2>1
    <3>2. old.count + n \in Nat
      BY <3>1 DEF Entry
    <3>3. [old EXCEPT !.count = old.count + n] \in Entry
      BY <3>2 DEF Entry
    <3>4. [old EXCEPT !.count = old.count + n].item = old.item /\ [old EXCEPT !.count = old.count + n].count = old.count + n
      BY DEF Entry
    <3> QED
      BY <3>1, <3>3, <3>4
  <2>3. new = [items EXCEPT ![m] = e]
    BY <1>1, <2>1 DEF Listed
  <2> HIDE DEF new, e, m
  <2>4. new \in Seq(Entry) /\ Len(new) = Len(items) /\ DOMAIN new = DOMAIN items
    BY <2>1, <2>2, <2>3
  <2>5. \A k \in DOMAIN items : new[k] = IF k = m THEN e ELSE items[k]
    BY <2>1, <2>3
  <2>6. \A k \in DOMAIN items : new[k].item = items[k].item /\ new[k].count >= items[k].count
    BY <1>0, <2>1, <2>2, <2>5
  <2> QED
    BY <2>4, <2>6 DEF Covers, new
<1>2. CASE SameItem(items, i) = {}
  <2> DEFINE e == [item |-> i, count |-> n, src |-> s]
  <2>1. new = Append(items, e) /\ e \in Entry
    BY <1>2 DEF Listed, Entry
  <2> HIDE DEF new, e
  <2>2. new \in Seq(Entry) /\ Len(new) = Len(items) + 1 /\ \A k \in DOMAIN items : new[k] = items[k]
    BY <2>1
  <2> QED
    BY <1>0, <2>2 DEF Covers, new
<1> QED
  BY <1>1, <1>2

LEMMA SameCovers == ASSUME NEW items \in Seq(Entry) PROVE Covers(items, items)
<1>1. \A k \in DOMAIN items : items[k].count \in Nat
  BY EntryIs
<1> QED
  BY <1>1 DEF Covers

LEMMA ResetOffers == ASSUME Offering, NEW P, ResetTrade(P) PROVE Offering'
<1>1. <<>> \in Seq(Entry)
  OBVIOUS
<1> QED
  BY <1>1 DEF Offering, ResetTrade

\* An offer is a list of entries that name items and slots.
LEMMA OfferingStep == ASSUME Inv, Offering, [Next]_vars PROVE Offering'
<1>1. CASE UNCHANGED vars
  BY <1>1 DEF vars, trade, Offering
<1>2. ASSUME NEW p \in Players, TradeStep(p) PROVE Offering'
  <2>1. CASE \E s \in Slots, n \in ItemCounts : AddItem(p, s, n)
    <3> PICK s \in Slots, n \in ItemCounts : AddItem(p, s, n)
      BY <2>1
    <3>1. Listed(exchangeItems[p], bag[p][s].item, n, s) \in Seq(Entry)
      <4>1. bag[p][s].item \in Item /\ n \in Nat /\ exchangeItems[p] \in Seq(Entry)
        BY DEF AddItem, Offering
      <4> QED
        BY <4>1, ListedCovers
    <3> QED
      BY <3>1 DEF AddItem, Offering
  <2>2. CASE RequestWhileTrading(p) \/ AddToLostPartner(p) \/ Cancel(p) \/ CancelCutOff(p) \/ Decline(p) \/ Execute(p) \/ ExecuteFails(p)
    BY <2>2, ResetOffers DEF RequestWhileTrading, AddToLostPartner, Cancel, CancelCutOff, ExchangeCancel, Decline, Execute, ExecuteFails
  <2>3. CASE (\E q \in Players : Request(p, q)) \/ Agree(p) \/ DecideFirst(p) \/ \E n \in AddAmounts : AddGold(p, n)
    BY <2>3 DEF Request, Agree, DecideFirst, AddGold, Offering
  <2> QED
    BY <1>2, <2>1, <2>2, <2>3 DEF TradeStep
<1>3. ASSUME NEW p \in Players, DropStep(p) PROVE Offering'
  BY <1>3, ResetOffers DEF DropStep, Leave, Panic, ZoneChange, DropTrade
<1>4. ASSUME NEW p \in Players, OtherStep(p) PROVE Offering'
  BY <1>4 DEF OtherStep, Enter, Teleport, Die, Regene, Begin, Stop, EarnGold, EarnItem, trade, Offering
<1> QED
  BY <1>1, <1>2, <1>3, <1>4 DEF Next

\* What a decision of p, whose partner is q, keeps from a step.
Binds(p, q) ==
  tradeState[p] = "deciding" /\ exchangeUser[p] = q /\ tradeState'[p] # "none" =>
    /\ tradeState'[p] = "deciding" /\ exchangeUser'[p] = q
    /\ exchangeItems'[p] = exchangeItems[p] /\ exchangeGold'[p] = exchangeGold[p]
    /\ Present(q)' => /\ Covers(exchangeItems'[q], exchangeItems[q])
                      /\ exchangeGold'[q] >= exchangeGold[q]

\* After a reset the two ends are linked, so the partner was not reset alone.
LEMMA ResetBinds ==
  ASSUME Inv, Inv', Offering, NEW P, ResetTrade(P), NEW p \in Players, NEW q \in Players
  PROVE  Binds(p, q)
<1> SUFFICES ASSUME tradeState[p] = "deciding", exchangeUser[p] = q, tradeState'[p] # "none" PROVE Binds(p, q)
  BY DEF Binds
<1>1. p \notin P
  BY ResetTradeAt DEF Inv
<1>2. /\ tradeState'[p] = tradeState[p] /\ exchangeUser'[p] = q
      /\ exchangeItems'[p] = exchangeItems[p] /\ exchangeGold'[p] = exchangeGold[p]
  BY <1>1, ResetTradeAt DEF Inv
<1>3. ASSUME Present(q)' PROVE Covers(exchangeItems'[q], exchangeItems[q]) /\ exchangeGold'[q] >= exchangeGold[q]
  <2>1. exchangeUser'[q] = p
    BY <1>2, <1>3 DEF Inv, Linked
  <2>2. q \notin P
    BY <2>1, ResetTradeAt DEF Inv
  <2>3. exchangeItems'[q] = exchangeItems[q] /\ exchangeGold'[q] = exchangeGold[q]
    BY <2>2, ResetTradeAt DEF Inv
  <2>4. exchangeItems[q] \in Seq(Entry) /\ exchangeGold[q] \in Nat
    BY DEF Offering, Inv, TypeOK
  <2> QED
    BY <2>3, <2>4, SameCovers
<1> QED
  BY <1>2, <1>3 DEF Binds

\* A step that leaves the states and the partners of the decided alone, and changes
\* no offer but that of somebody who has not decided.
LEMMA OfferBinds ==
  ASSUME Inv, Offering, NEW p \in Players, NEW q \in Players,
         tradeState[p] = "deciding" => tradeState'[p] = "deciding" /\ exchangeUser'[p] = exchangeUser[p],
         NEW t, tradeState[p] = "deciding" => p # t,
         \A r \in Players : r # t => exchangeItems'[r] = exchangeItems[r] /\ exchangeGold'[r] = exchangeGold[r],
         t \in Players => Covers(exchangeItems'[t], exchangeItems[t]) /\ exchangeGold'[t] >= exchangeGold[t]
  PROVE  Binds(p, q)
<1>1. exchangeItems[q] \in Seq(Entry) /\ exchangeGold[q] \in Nat
  BY DEF Offering, Inv, TypeOK
<1>2. Covers(exchangeItems'[q], exchangeItems[q]) /\ exchangeGold'[q] >= exchangeGold[q]
  <2>1. CASE q = t
    BY <2>1
  <2>2. CASE q # t
    <3>1. exchangeItems'[q] = exchangeItems[q] /\ exchangeGold'[q] = exchangeGold[q]
      BY <2>2
    <3> QED
      BY <1>1, <3>1, SameCovers
  <2> QED
    BY <2>1, <2>2
<1> QED
  BY <1>2 DEF Binds

LEMMA BindingStep ==
  ASSUME Inv, Inv', Offering, [Next]_vars, NEW p \in Players, NEW q \in Players
  PROVE  Binds(p, q)
<1>0. /\ \A r \in Players : exchangeItems[r] \in Seq(Entry) /\ exchangeGold[r] \in Nat
      /\ NoPlayer \notin Players
  BY DEF Offering, Inv, TypeOK
<1>1. ASSUME UNCHANGED <<tradeState, exchangeUser, exchangeItems, exchangeGold>> PROVE Binds(p, q)
  <2>1. \A r \in Players : exchangeItems'[r] = exchangeItems[r] /\ exchangeGold'[r] = exchangeGold[r]
    BY <1>1
  <2> QED
    BY <1>0, <1>1, <2>1, OfferBinds
<1>2. ASSUME NEW t \in Players, TradeStep(t) PROVE Binds(p, q)
  <2>1. CASE \E s \in Slots, n \in ItemCounts : AddItem(t, s, n)
    <3> PICK s \in Slots, n \in ItemCounts : AddItem(t, s, n)
      BY <2>1
    <3>1. /\ tradeState[t] = "trading" /\ UNCHANGED <<tradeState, exchangeUser, exchangeGold>>
          /\ exchangeItems' = [exchangeItems EXCEPT ![t] = Listed(exchangeItems[t], bag[t][s].item, n, s)]
          /\ bag[t][s].item \in Item /\ n \in Nat
      BY DEF AddItem, MayAdd, Adding
    <3>2. Covers(Listed(exchangeItems[t], bag[t][s].item, n, s), exchangeItems[t])
      BY <1>0, <3>1, ListedCovers
    <3>3. /\ exchangeItems'[t] = Listed(exchangeItems[t], bag[t][s].item, n, s) /\ exchangeGold'[t] >= exchangeGold[t]
          /\ \A r \in Players : r # t => exchangeItems'[r] = exchangeItems[r] /\ exchangeGold'[r] = exchangeGold[r]
      BY <1>0, <3>1 DEF Offering
    <3> QED
      BY <3>1, <3>2, <3>3, OfferBinds
  <2>2. CASE \E n \in AddAmounts : AddGold(t, n)
    <3> PICK n \in AddAmounts : AddGold(t, n)
      BY <2>2
    <3>1. /\ tradeState[t] = "trading" /\ UNCHANGED <<tradeState, exchangeUser, exchangeItems>>
          /\ exchangeGold' = [exchangeGold EXCEPT ![t] = exchangeGold[t] + n] /\ n \in Nat
      BY DEF AddGold, MayAdd, Adding
    <3>2. /\ exchangeGold'[t] >= exchangeGold[t] /\ exchangeItems'[t] = exchangeItems[t]
          /\ \A r \in Players : r # t => exchangeItems'[r] = exchangeItems[r] /\ exchangeGold'[r] = exchangeGold[r]
      BY <1>0, <3>1 DEF Inv, TypeOK
    <3>3. Covers(exchangeItems'[t], exchangeItems[t])
      BY <1>0, <3>2, SameCovers
    <3> QED
      BY <3>1, <3>2, <3>3, OfferBinds
  <2>3. CASE RequestWhileTrading(t) \/ AddToLostPartner(t) \/ Cancel(t) \/ CancelCutOff(t) \/ Decline(t) \/ Execute(t) \/ ExecuteFails(t)
    BY <2>3, ResetBinds DEF RequestWhileTrading, AddToLostPartner, Cancel, CancelCutOff, ExchangeCancel, Decline, Execute, ExecuteFails
  <2>4. CASE (\E r \in Players : Request(t, r)) \/ Agree(t) \/ DecideFirst(t)
    <3>1. UNCHANGED <<exchangeItems, exchangeGold>>
      BY <2>4 DEF Request, Agree, DecideFirst
    <3>2. tradeState[p] = "deciding" => tradeState'[p] = "deciding" /\ exchangeUser'[p] = exchangeUser[p]
      <4>1. ASSUME NEW r \in Players, Request(t, r), tradeState[p] = "deciding"
            PROVE  tradeState'[p] = tradeState[p] /\ exchangeUser'[p] = exchangeUser[p]
        <5>1. exchangeUser[p] # NoPlayer /\ exchangeUser[t] = NoPlayer /\ exchangeUser[r] = NoPlayer
          BY <4>1 DEF Request, MayAsk, IsTrading, Inv, Linked
        <5> QED
          BY <4>1, <5>1 DEF Request, Inv, TypeOK
      <4>2. CASE Agree(t)
        BY <4>2 DEF Agree, Answering, AgreeChecks, SetState
      <4>3. CASE DecideFirst(t)
        BY <4>3 DEF DecideFirst, SetState
      <4> QED
        BY <2>4, <4>1, <4>2, <4>3
    <3>3. \A r \in Players : exchangeItems'[r] = exchangeItems[r] /\ exchangeGold'[r] = exchangeGold[r]
      BY <3>1
    <3> QED
      BY <1>0, <3>2, <3>3, OfferBinds
  <2> QED
    BY <1>2, <2>1, <2>2, <2>3, <2>4 DEF TradeStep
<1>3. ASSUME NEW t \in Players, DropStep(t) PROVE Binds(p, q)
  BY <1>3, ResetBinds DEF DropStep, Leave, Panic, ZoneChange, DropTrade
<1>4. ASSUME NEW t \in Players, OtherStep(t) PROVE Binds(p, q)
  BY <1>1, <1>4 DEF OtherStep, Enter, Teleport, Die, Regene, Begin, Stop, EarnGold, EarnItem, trade
<1> QED
  BY <1>1, <1>2, <1>3, <1>4 DEF Next, vars, trade

\* Deciding binds both sides, whatever happens around them (new requests, panics,
\* logouts, zone changes, rewards): the decider's offer stays, the partner's can only
\* grow, and the decider keeps that partner until the exchange is over
\* (exchange_decide, exchange_add).
THEOREM DecisionsBind == Spec => DecisionBinds
<1>1. Init => Offering
  <2>1. <<>> \in Seq(Entry)
    OBVIOUS
  <2> QED
    BY <2>1 DEF Init, Offering
<1>2. Inv /\ Offering /\ [Next]_vars => Offering'
  BY OfferingStep
<1>3. Inv /\ Inv' /\ Offering /\ [Next]_vars => [\A p, q \in Players : Binds(p, q)]_vars
  BY BindingStep
<1> QED
  BY <1>1, <1>2, <1>3, InvAlways, PTL DEF Spec, DecisionBinds, Binds

-----------------------------------------------------------------------------
(***************************************************************************)
(* The gold side implements FairExchange, and the steps of the handlers    *)
(* neither make nor lose gold.  Each step of Exchange is one step of       *)
(* FairExchange or leaves purses, pledges and partners alone; Inv makes    *)
(* the two sides of an end agree: a partner the code resets without asking *)
(* is either mutual (Linked) or has nothing on offer                       *)
(* (OffersBelongToTrade), even where somebody else has asked it since.     *)
(***************************************************************************)

\* What players own is a natural number, and so are its two parts.
LEMMA WorthType ==
  ASSUME TypeOK, NEW p \in Players
  PROVE  /\ gold[p] \in 0 .. CoinMax /\ gold[p] \in Nat /\ exchangeGold[p] \in Nat
         /\ Worth(p) = gold[p] + exchangeGold[p] /\ Worth(p) \in Nat
<1>1. gold[p] \in 0 .. CoinMax /\ exchangeGold[p] \in Nat
  BY DEF TypeOK
<1> QED
  BY <1>1 DEF Worth

\* A partner that is named without naming the player back has nothing on
\* offer: its session is over, and at most somebody has asked it again.
LEMMA LostPartner ==
  ASSUME Inv, NEW p \in Players, NEW q \in Players,
         exchangeUser[p] = q, exchangeUser[q] # p
  PROVE  exchangeGold[q] = 0 /\ exchangeItems[q] = <<>>
<1>1. ~Present(q)
  BY DEF Inv, Linked
<1>2. tradeState[q] \in {"none", "target"}
  BY <1>1 DEF Inv, Linked, Present
<1> QED
  BY <1>2 DEF Inv, OffersBelongToTrade

\* An end of p's exchange always concerns its partner.
LEMMA BothIs ==
  ASSUME Inv, NEW p \in Players
  PROVE  /\ Promise!Both(p) = {p} \cup {q \in Players : q = exchangeUser[p]}
         /\ exchangeUser[p] \in Players => Promise!Both(p) = {p, exchangeUser[p]}
BY LostPartner DEF Promise!Both

\* A reset of P ends the exchange of B, when nobody they differ in was in one.
LEMMA ResetEnds ==
  ASSUME TypeOK, NEW P, NEW B, ResetTrade(P),
         \A q \in Players : ~(q \in P <=> q \in B) =>
           exchangeUser[q] = NoPlayer /\ exchangeGold[q] = 0
  PROVE  Promise!Ends(B)
<1>1. exchangeGold' = [q \in Players |-> IF q \in B THEN 0 ELSE exchangeGold[q]]
  BY DEF TypeOK, ResetTrade
<1>2. exchangeUser' = [q \in Players |-> IF q \in B THEN NoPlayer ELSE exchangeUser[q]]
  BY DEF TypeOK, ResetTrade
<1> QED
  BY <1>1, <1>2 DEF Promise!Ends

\* A refund returns to each player of P what it owns, up to COIN_MAX.
LEMMA RefundWorth ==
  ASSUME TypeOK, NEW P, GiveItemsBack(P), ResetTrade(P), NEW q \in Players
  PROVE  Worth(q)' = IF q \in P THEN Promise!AtMostMax(Worth(q)) ELSE Worth(q)
<1>1. gold'[q] = IF q \in P THEN GoldGain(gold[q], exchangeGold[q]) ELSE gold[q]
  BY DEF GiveItemsBack
<1>2. exchangeGold'[q] = IF q \in P THEN 0 ELSE exchangeGold[q]
  BY DEF ResetTrade
<1>3. gold[q] \in 0 .. CoinMax /\ exchangeGold[q] \in Nat /\ CoinMax \in Nat
      /\ Worth(q) = gold[q] + exchangeGold[q]
  BY WorthType
<1>4. GoldGain(gold[q], exchangeGold[q]) = Promise!AtMostMax(Worth(q))
  <2>1. GoldGain(gold[q], exchangeGold[q]) =
          IF gold[q] + exchangeGold[q] > CoinMax THEN CoinMax ELSE gold[q] + exchangeGold[q]
    BY <1>3, GoldGainType
  <2> QED
    BY <1>3, <2>1 DEF Promise!AtMostMax
<1>5. Worth(q)' = gold'[q] + exchangeGold'[q]
  BY DEF Worth
<1> QED
  BY <1>1, <1>2, <1>3, <1>4, <1>5 DEF Promise!AtMostMax

\* Refunding and resetting a set of players is a refund and an end for B, when
\* nobody they differ in was in an exchange.
LEMMA RefundIs ==
  ASSUME Inv, NEW P, NEW B, GiveItemsBack(P), ResetTrade(P),
         \A q \in Players : ~(q \in P <=> q \in B) =>
           exchangeUser[q] = NoPlayer /\ exchangeGold[q] = 0
  PROVE  [q \in Players |-> Worth(q)]' = Promise!Refunded(B) /\ Promise!Ends(B)
<1>1. Promise!Ends(B)
  BY ResetEnds DEF Inv
<1>2. ASSUME NEW q \in Players
      PROVE  Worth(q)' = IF q \in B THEN Promise!AtMostMax(Worth(q)) ELSE Worth(q)
  <2>1. Worth(q)' = IF q \in P THEN Promise!AtMostMax(Worth(q)) ELSE Worth(q)
    BY RefundWorth DEF Inv
  <2>2. ASSUME ~(q \in P <=> q \in B) PROVE Promise!AtMostMax(Worth(q)) = Worth(q)
    BY <2>2, WorthType DEF Inv, Promise!AtMostMax
  <2> QED
    BY <2>1, <2>2
<1> QED
  BY <1>1, <1>2 DEF Promise!Refunded

\* exchange_cancel of a player in an exchange parts both ends.
LEMMA CancelIsPart ==
  ASSUME Inv, NEW p \in Players, tradeState[p] # "none", ExchangeCancel(p)
  PROVE  Promise!Part(p)
<1>1. exchangeUser[p] # NoPlayer
  BY DEF Inv, Linked
<1>2. ASSUME NEW q \in Players, ~(q \in Cancelled(p) <=> q \in Promise!Both(p))
      PROVE  exchangeUser[q] = NoPlayer /\ exchangeGold[q] = 0
  <2>1. q = exchangeUser[p] /\ tradeState[q] = "none"
    BY <1>2, BothIs DEF Cancelled
  <2> QED
    BY <2>1 DEF Inv, Linked, OffersBelongToTrade
<1> QED
  BY <1>1, <1>2, RefundIs DEF ExchangeCancel, Promise!Part

\* exchange_cancel cut off half way: one end withdraws.
LEMMA CutOffWithdraws ==
  ASSUME Inv, NEW p \in Players, CancelCutOff(p)
  PROVE  Promise!Withdraw(p)
<1>1. exchangeUser[p] # NoPlayer /\ GiveItemsBack({p}) /\ ResetTrade({p})
  BY DEF CancelCutOff, Inv, Linked
<1> QED
  BY <1>1, RefundIs DEF Promise!Withdraw

\* A step that changes no purse, no offered gold and no partner is invisible.
LEMMA Invisible ==
  ASSUME UNCHANGED <<gold, exchangeGold, exchangeUser>>
  PROVE  UNCHANGED Promise!vars
<1>1. \A p \in Players : Worth(p)' = Worth(p)
  BY DEF Worth
<1> QED
  BY <1>1 DEF Promise!vars

-----------------------------------------------------------------------------
(* The steps one by one. *)

\* A request brings two free players together.
LEMMA RequestMeets ==
  ASSUME Inv, NEW p \in Players, NEW q \in Players, Request(p, q)
  PROVE  Promise!Meet(p, q)
<1>1. \A r \in Players : Worth(r)' = Worth(r)
  BY DEF Request, goods, Worth
<1> QED
  BY <1>1 DEF Request, MayAsk, IsTrading, Promise!Meet

\* A declined request parts two players with nothing on offer.
LEMMA DeclineParts ==
  ASSUME Inv, NEW p \in Players, Decline(p)
  PROVE  Promise!Part(p)
<1> DEFINE q == exchangeUser[p]
<1>1. /\ q \in Players /\ q # NoPlayer /\ tradeState[p] = "target"
      /\ ResetTrade({p, q}) /\ UNCHANGED gold
  BY DEF Decline, Answering, IsTrading, goods, Inv, TypeOK
<1>2. exchangeGold[p] = 0
  BY <1>1 DEF Inv, OffersBelongToTrade
<1>3. exchangeGold[q] = 0
  <2>1. CASE exchangeUser[q] # p
    BY <1>1, <2>1, LostPartner
  <2>2. CASE exchangeUser[q] = p
    <3>1. Present(p)
      BY DEF Decline, Answering, CanHandle
    <3>2. <<tradeState[q], tradeState[p]>> \in Pairs
      BY <1>1, <2>2, <3>1 DEF Inv, Linked
    <3>3. tradeState[q] = "sender"
      BY <1>1, <3>2 DEF Pairs
    <3> QED
      BY <1>1, <3>3 DEF Inv, OffersBelongToTrade
  <2> QED
    BY <2>1, <2>2
<1>4. Promise!Both(p) = {p, q}
  BY <1>1, BothIs
<1>5. Promise!Ends(Promise!Both(p))
  BY <1>1, <1>4, ResetEnds DEF Inv
<1>6. [r \in Players |-> Worth(r)]' = Promise!Refunded(Promise!Both(p))
  <2> SUFFICES ASSUME NEW r \in Players
               PROVE  Worth(r)' = IF r \in Promise!Both(p)
                                  THEN Promise!AtMostMax(Worth(r)) ELSE Worth(r)
    BY DEF Promise!Refunded
  <2>1. gold'[r] = gold[r] /\ exchangeGold'[r] = exchangeGold[r]
    BY <1>1, <1>2, <1>3 DEF ResetTrade
  <2>2. Worth(r)' = Worth(r)
    BY <2>1 DEF Worth
  <2>3. r \in Promise!Both(p) => Worth(r) \in 0 .. CoinMax
    <3>1. r \in Promise!Both(p) => exchangeGold[r] = 0
      BY <1>2, <1>3, <1>4
    <3> QED
      BY <3>1, WorthType DEF Inv
  <2> QED
    BY <2>2, <2>3 DEF Promise!AtMostMax
<1> QED
  BY <1>1, <1>5, <1>6 DEF Promise!Part

\* Gold that goes on offer stays the player's own.
LEMMA AddGoldPledges ==
  ASSUME Inv, NEW p \in Players, NEW n \in AddAmounts, AddGold(p, n)
  PROVE  \E m \in 0 .. Worth(p) : Promise!Pledge(p, m)
<1> DEFINE m == exchangeGold[p] + n
<1>1. /\ n \in Nat /\ n <= gold[p]
      /\ gold[p] \in Nat /\ exchangeGold[p] \in Nat /\ Worth(p) = gold[p] + exchangeGold[p]
  BY WorthType DEF Inv, AddGold
<1>2. m \in 0 .. Worth(p) /\ m >= exchangeGold[p] /\ m <= Worth(p)
  BY <1>1
<1>3. /\ exchangeUser[p] # NoPlayer /\ UNCHANGED exchangeUser
      /\ exchangeGold' = [exchangeGold EXCEPT ![p] = m]
      /\ gold' = [gold EXCEPT ![p] = @ - n]
  BY DEF AddGold, MayAdd, Adding, IsTrading
<1>4. \A r \in Players : Worth(r)' = Worth(r)
  <2> SUFFICES ASSUME NEW r \in Players PROVE Worth(r)' = Worth(r)
    OBVIOUS
  <2>1. CASE r = p
    <3>1. gold'[p] = gold[p] - n /\ exchangeGold'[p] = exchangeGold[p] + n
      BY <1>3 DEF Inv, TypeOK
    <3> QED
      BY <2>1, <3>1, <1>1 DEF Worth
  <2>2. CASE r # p
    BY <1>3, <2>2 DEF Worth, Inv, TypeOK
  <2> QED
    BY <2>1, <2>2
<1>5. Promise!Pledge(p, m)
  BY <1>2, <1>3, <1>4 DEF Promise!Pledge
<1> QED
  BY <1>2, <1>5

\* The swap: both purses have room, so neither is cut at COIN_MAX.
LEMMA ExecuteGold ==
  ASSUME Inv, NEW p \in Players, Execute(p)
  PROVE  LET q == exchangeUser[p] IN
         /\ q \in Players /\ q # p /\ exchangeUser[q] = p
         /\ gold'[p] = gold[p] + exchangeGold[q] /\ gold'[q] = gold[q] + exchangeGold[p]
         /\ exchangeGold'[p] = 0 /\ exchangeGold'[q] = 0
         /\ \A r \in Players \ {p, q} : Worth(r)' = Worth(r)
         /\ ResetTrade({p, q})
<1> DEFINE q == exchangeUser[p]
<1>1. /\ q \in Players /\ q # p /\ exchangeUser[q] = p
  <2>1. q # NoPlayer /\ exchangeUser[q] = p
    BY DEF Execute, BothDecided, Deciding, IsTrading
  <2>2. q \in Players
    BY <2>1 DEF Inv, TypeOK
  <2> QED
    BY <2>1, <2>2 DEF Inv, Linked
<1>2. /\ ResetTrade({p, q})
      /\ gold' = [gold EXCEPT ![p] = GoldGain(@, exchangeGold[q]),
                              ![q] = GoldGain(@, exchangeGold[p])]
      /\ exchangeGold[q] > 0 => gold[p] + exchangeGold[q] <= CoinMax
      /\ exchangeGold[p] > 0 => gold[q] + exchangeGold[p] <= CoinMax
  BY DEF Execute, CanExecute, CanReceive
<1>3. ASSUME NEW a \in Players, NEW b \in Players,
             exchangeGold[b] > 0 => gold[a] + exchangeGold[b] <= CoinMax
      PROVE  GoldGain(gold[a], exchangeGold[b]) = gold[a] + exchangeGold[b]
  <2>1. gold[a] \in 0 .. CoinMax /\ exchangeGold[b] \in Nat /\ CoinMax \in Nat
    BY WorthType DEF Inv
  <2>2. GoldGain(gold[a], exchangeGold[b]) =
          IF gold[a] + exchangeGold[b] > CoinMax THEN CoinMax ELSE gold[a] + exchangeGold[b]
    BY <2>1, GoldGainType
  <2> QED
    BY <1>3, <2>1, <2>2
<1>4. gold'[p] = gold[p] + exchangeGold[q] /\ gold'[q] = gold[q] + exchangeGold[p]
  BY <1>1, <1>2, <1>3 DEF Inv, TypeOK
<1>5. exchangeGold'[p] = 0 /\ exchangeGold'[q] = 0
  BY <1>1, <1>2 DEF ResetTrade
<1>6. \A r \in Players \ {p, q} : Worth(r)' = Worth(r)
  BY <1>1, <1>2 DEF ResetTrade, Inv, TypeOK, Worth
<1> QED
  BY <1>1, <1>2, <1>4, <1>5, <1>6

\* Two players who both decided swap exactly the two pledges.
LEMMA ExecuteSwaps ==
  ASSUME Inv, NEW p \in Players, Execute(p), NEW q \in Players, q = exchangeUser[p]
  PROVE  Promise!Swap(p, q)
<1>1. /\ q # p /\ exchangeUser[q] = p
      /\ gold'[p] = gold[p] + exchangeGold[q] /\ gold'[q] = gold[q] + exchangeGold[p]
      /\ exchangeGold'[p] = 0 /\ exchangeGold'[q] = 0
      /\ \A r \in Players \ {p, q} : Worth(r)' = Worth(r)
      /\ ResetTrade({p, q})
  BY ExecuteGold
<1>2. Promise!Ends({p, q})
  BY <1>1, ResetEnds DEF Inv
<1>3. ASSUME NEW a \in Players, NEW b \in Players,
             gold'[a] = gold[a] + exchangeGold[b], exchangeGold'[a] = 0
      PROVE  Worth(a)' = (Worth(a) - exchangeGold[a]) + exchangeGold[b]
  <2>1. /\ gold[a] \in Nat /\ exchangeGold[a] \in Nat /\ exchangeGold[b] \in Nat
        /\ Worth(a) = gold[a] + exchangeGold[a]
    BY WorthType DEF Inv
  <2>2. Worth(a)' = gold'[a] + exchangeGold'[a]
    BY DEF Worth
  <2> QED
    BY <1>3, <2>1, <2>2
<1>4. /\ Worth(p)' = (Worth(p) - exchangeGold[p]) + exchangeGold[q]
      /\ Worth(q)' = (Worth(q) - exchangeGold[q]) + exchangeGold[p]
  BY <1>1, <1>3
<1>5. [r \in Players |-> Worth(r)]' =
        [[r \in Players |-> Worth(r)] EXCEPT
          ![p] = (@ - exchangeGold[p]) + exchangeGold[q],
          ![q] = (@ - exchangeGold[q]) + exchangeGold[p]]
  BY <1>1, <1>4
<1> QED
  BY <1>1, <1>2, <1>5 DEF Promise!Swap

\* A decided exchange that fails a check parts the two players.
LEMMA ExecuteFailsParts ==
  ASSUME Inv, NEW p \in Players, ExecuteFails(p)
  PROVE  Promise!Part(p)
<1> DEFINE q == exchangeUser[p]
<1>1. /\ q # NoPlayer /\ exchangeUser[q] = p
      /\ GiveItemsBack({p, q}) /\ ResetTrade({p, q})
  BY DEF ExecuteFails, BothDecided, Deciding, IsTrading
<1>2. q \in Players
  BY <1>1 DEF Inv, TypeOK
<1>3. Promise!Both(p) = {p, q}
  BY <1>2, BothIs
<1> QED
  BY <1>1, <1>3, RefundIs DEF Promise!Part

\* A dropped exchange costs both ends what they had on offer, and a step that
\* drops nothing is invisible.
LEMMA DropTradeDrops ==
  ASSUME Inv, NEW p \in Players, DropTrade(p), UNCHANGED gold
  PROVE  Promise!Drop(p) \/ UNCHANGED Promise!vars
<1> DEFINE q == exchangeUser[p]
<1>1. CASE ~IsTrading(p)
  <2>1. ResetTrade({})
    BY <1>1 DEF DropTrade, Dropped
  <2>2. UNCHANGED <<exchangeGold, exchangeUser>>
    BY <2>1 DEF ResetTrade, Inv, TypeOK
  <2> QED
    BY <2>2, Invisible
<1>2. CASE IsTrading(p)
  <2>1. q \in Players /\ q # NoPlayer /\ ResetTrade({p, q})
    BY <1>2 DEF DropTrade, Dropped, IsTrading, Inv, TypeOK
  <2>2. Promise!Both(p) = {p, q}
    BY <2>1, BothIs
  <2>3. Promise!Ends(Promise!Both(p))
    BY <2>1, <2>2, ResetEnds DEF Inv
  <2>4. ASSUME NEW r \in Players
        PROVE  Worth(r)' = IF r \in Promise!Both(p) THEN Worth(r) - exchangeGold[r]
                                                    ELSE Worth(r)
    <3>1. exchangeGold'[r] = IF r \in Promise!Both(p) THEN 0 ELSE exchangeGold[r]
      BY <2>3 DEF Promise!Ends
    <3>2. Worth(r)' = gold[r] + exchangeGold'[r]
      BY DEF Worth
    <3> QED
      BY <3>1, <3>2, WorthType DEF Inv
  <2> QED
    BY <2>1, <2>3, <2>4 DEF Promise!Drop, Promise!Forfeited
<1> QED
  BY <1>1, <1>2

\* A session that panics takes its own offer with it.
LEMMA PanicVanishes ==
  ASSUME Inv, NEW p \in Players, Panic(p)
  PROVE  Promise!Vanish(p)
<1>1. ResetTrade({p}) /\ UNCHANGED gold
  BY DEF Panic, goods
<1>2. Promise!Ends({p})
  BY <1>1, ResetEnds DEF Inv
<1>3. ASSUME NEW r \in Players
      PROVE  Worth(r)' = IF r \in {p} THEN Worth(r) - exchangeGold[r] ELSE Worth(r)
  <2>1. exchangeGold'[r] = IF r \in {p} THEN 0 ELSE exchangeGold[r]
    BY <1>2 DEF Promise!Ends
  <2>2. Worth(r)' = gold[r] + exchangeGold'[r]
    BY <1>1 DEF Worth
  <2> QED
    BY <2>1, <2>2, WorthType DEF Inv
<1> QED
  BY <1>2, <1>3 DEF Promise!Vanish, Promise!Forfeited

\* A reward adds to what the player owns what the purse has room for.
LEMMA EarnGoldEarns ==
  ASSUME Inv, NEW p \in Players, NEW n \in EarnAmounts, EarnGold(p, n)
  PROVE  \E m \in 0 .. CoinMax : Promise!Earn(p, m)
<1>1. gold[p] \in 0 .. CoinMax /\ n \in Nat /\ exchangeGold[p] \in Nat
      /\ Worth(p) = gold[p] + exchangeGold[p]
  BY WorthType DEF Inv
<1>2. PICK m \in 0 .. CoinMax : GoldGain(gold[p], n) = gold[p] + m
  BY <1>1, GoldGainType
<1>3. /\ gold' = [gold EXCEPT ![p] = gold[p] + m]
      /\ UNCHANGED <<exchangeGold, exchangeUser>>
  BY <1>2 DEF EarnGold, trade
<1>4. Worth(p)' = Worth(p) + m
  <2>1. Worth(p)' = (gold[p] + m) + exchangeGold[p]
    BY <1>3 DEF Worth, Inv, TypeOK
  <2> QED
    BY <1>1, <2>1
<1>5. \A r \in Players \ {p} : Worth(r)' = Worth(r)
  BY <1>3 DEF Worth, Inv, TypeOK
<1>6. Promise!Earn(p, m)
  BY <1>3, <1>4, <1>5 DEF Promise!Earn
<1> QED
  BY <1>6

-----------------------------------------------------------------------------
\* The exchange keeps its promise about gold: its states map to FairExchange by
\* counting the gold on offer with its owner, and so do its steps.
THEOREM ExchangeKeepsPromise == Spec => KeepsPromise
<1>1. Init => Promise!Init
  <2> SUFFICES ASSUME Init PROVE Promise!Init
    OBVIOUS
  <2>1. \A p \in Players : Worth(p) \in 0 .. CoinMax
    BY DEF Init, Worth
  <2> QED
    BY <2>1 DEF Init, Promise!Init
<1>2. Inv /\ [Next]_vars => [Promise!Next]_Promise!vars
  <2> SUFFICES ASSUME Inv, [Next]_vars PROVE Promise!Next \/ UNCHANGED Promise!vars
    OBVIOUS
  <2>1. CASE UNCHANGED vars
    BY <2>1, Invisible DEF vars, goods, trade
  <2>2. ASSUME NEW p \in Players, TradeStep(p)
        PROVE  Promise!Next \/ UNCHANGED Promise!vars
    <3>1. CASE \E q \in Players : Request(p, q)
      BY <3>1, RequestMeets DEF Promise!Next
    <3>2. CASE RequestWhileTrading(p) \/ AddToLostPartner(p) \/ Cancel(p)
      <4>1. tradeState[p] # "none" /\ ExchangeCancel(p)
        BY <3>2 DEF RequestWhileTrading, AddToLostPartner, Adding, Cancel, IsTrading,
                    Inv, Linked
      <4> QED
        BY <4>1, CancelIsPart DEF Promise!Next
    <3>3. CASE Decline(p)
      BY <3>3, DeclineParts DEF Promise!Next
    <3>8. CASE CancelCutOff(p)
      BY <3>8, CutOffWithdraws DEF Promise!Next
    <3>4. CASE \E n \in AddAmounts : AddGold(p, n)
      BY <3>4, AddGoldPledges DEF Promise!Next
    <3>5. CASE Execute(p)
      <4>1. exchangeUser[p] \in Players
        BY <3>5, ExecuteGold
      <4> QED
        BY <3>5, <4>1, ExecuteSwaps DEF Promise!Next
    <3>6. CASE ExecuteFails(p)
      BY <3>6, ExecuteFailsParts DEF Promise!Next
    <3>7. CASE \/ Agree(p) \/ DecideFirst(p)
               \/ \E s \in Slots, n \in ItemCounts : AddItem(p, s, n)
      BY <3>7, Invisible DEF Agree, DecideFirst, AddItem, goods
    <3> QED
      BY <2>2, <3>1, <3>2, <3>3, <3>4, <3>5, <3>6, <3>7, <3>8 DEF TradeStep
  <2>3. ASSUME NEW p \in Players, DropStep(p)
        PROVE  Promise!Next \/ UNCHANGED Promise!vars
    <3>1. CASE Leave(p) \/ \E z \in Zones : ZoneChange(p, z)
      <4>1. DropTrade(p) /\ UNCHANGED gold
        BY <3>1 DEF Leave, ZoneChange, goods
      <4> QED
        BY <4>1, DropTradeDrops DEF Promise!Next
    <3>2. CASE Panic(p)
      BY <3>2, PanicVanishes DEF Promise!Next
    <3> QED
      BY <2>3, <3>1, <3>2 DEF DropStep
  <2>4. ASSUME NEW p \in Players, OtherStep(p)
        PROVE  Promise!Next \/ UNCHANGED Promise!vars
    <3>1. CASE \E n \in EarnAmounts : EarnGold(p, n)
      BY <3>1, EarnGoldEarns DEF Promise!Next
    <3>2. CASE ~ \E n \in EarnAmounts : EarnGold(p, n)
      BY <2>4, <3>2, Invisible
      DEF OtherStep, Enter, Teleport, Die, Regene, Begin, Stop, EarnItem, goods, trade
    <3> QED
      BY <3>1, <3>2
  <2> QED
    BY <2>1, <2>2, <2>3, <2>4 DEF Next
<1> QED
  BY <1>1, <1>2, InvAlways, PTL DEF Spec, KeepsPromise, Promise!Spec

\* Parting and withdrawing keep what a player owns, short of what COIN_MAX cuts off.
LEMMA PartKeeps ==
  ASSUME Inv, NEW t \in Players, Promise!Part(t) \/ Promise!Withdraw(t), NEW p \in Players
  PROVE  Worth(p)' = Worth(p) \/ (Worth(p) > CoinMax /\ Worth(p)' = CoinMax)
<1>1. PICK B : [r \in Players |-> Worth(r)]' = Promise!Refunded(B)
  BY DEF Promise!Part, Promise!Withdraw
<1>2. Worth(p)' = IF p \in B THEN Promise!AtMostMax(Worth(p)) ELSE Worth(p)
  BY <1>1 DEF Promise!Refunded
<1> QED
  BY <1>2 DEF Promise!AtMostMax

\* No handler of the exchange makes or loses gold, for any number of players and
\* any interleaving of exchanges: only a swap changes what a player owns.
THEOREM GoldIsKept == Spec => GoldKept
<1> DEFINE Kept(p) == \/ Worth(p)' = Worth(p)
                      \/ Worth(p) > CoinMax /\ Worth(p)' = CoinMax
                      \/ \E q \in Players : Swapped(p, q)
<1>1. ASSUME Inv, NEW t \in Players, TradeStep(t), NEW p \in Players
      PROVE  Kept(p)
  <2>1. CASE RequestWhileTrading(t) \/ AddToLostPartner(t) \/ Cancel(t)
    <3>1. tradeState[t] # "none" /\ ExchangeCancel(t)
      BY <1>1, <2>1 DEF RequestWhileTrading, AddToLostPartner, Adding, Cancel, IsTrading,
                        Inv, Linked
    <3> QED
      BY <1>1, <3>1, CancelIsPart, PartKeeps
  <2>2. CASE Decline(t) \/ ExecuteFails(t) \/ CancelCutOff(t)
    BY <1>1, <2>2, DeclineParts, ExecuteFailsParts, CutOffWithdraws, PartKeeps
  <2>3. CASE \E n \in AddAmounts : AddGold(t, n)
    <3>1. [r \in Players |-> Worth(r)]' = [r \in Players |-> Worth(r)]
      BY <1>1, <2>3, AddGoldPledges DEF Promise!Pledge
    <3>2. Worth(p)' = Worth(p)
      BY <1>1, <3>1
    <3> QED
      BY <3>2
  <2>4. CASE Execute(t)
    <3> DEFINE u == exchangeUser[t]
    <3>1. /\ u \in Players /\ exchangeUser[u] = t
          /\ gold'[t] = gold[t] + exchangeGold[u] /\ gold'[u] = gold[u] + exchangeGold[t]
          /\ exchangeGold'[t] = 0 /\ exchangeGold'[u] = 0
          /\ \A r \in Players \ {t, u} : Worth(r)' = Worth(r)
      BY <1>1, <2>4, ExecuteGold
    <3>2. {tradeState[t], tradeState[u]} = {"trading", "deciding"}
      BY <2>4 DEF Execute, BothDecided, Deciding
    <3>3. PICK v \in Players : v = exchangeUser[t]
      BY <3>1
    <3>4. Swapped(t, v) /\ Swapped(v, t)
      BY <3>1, <3>2, <3>3 DEF Swapped
    <3>5. CASE p \in {t, v}
      BY <3>3, <3>4, <3>5, <1>1
    <3>6. CASE p \notin {t, v}
      BY <3>1, <3>3, <3>6, <1>1
    <3> QED
      BY <3>5, <3>6
  <2>5. CASE \/ Agree(t) \/ DecideFirst(t)
             \/ \E q \in Players : Request(t, q)
             \/ \E s \in Slots, n \in ItemCounts : AddItem(t, s, n)
    BY <2>5 DEF Agree, DecideFirst, Request, AddItem, goods, Worth
  <2> QED
    BY <1>1, <2>1, <2>2, <2>3, <2>4, <2>5 DEF TradeStep
<1>2. Inv /\ [Next]_vars => [(\E p \in Players : TradeStep(p)) => \A p \in Players : Kept(p)]_vars
  BY <1>1
<1> QED
  BY <1>2, InvAlways, PTL DEF Spec, GoldKept

-----------------------------------------------------------------------------
(* Refunds and transfers are folds over exchange_items.  FoldRule is the     *)
(* induction: what the bag satisfies before the first entry and every entry  *)
(* keeps, it satisfies after the last one.                                   *)

\* What one entry does to a bag, in a refund or in a transfer.
Moved(kind, b, e) == IF kind = "refund" THEN ReturnEntry(b, e) ELSE PutEntry(b, e)

EntryStep(kind, start, items, g, s) ==
  IF s = {} THEN start ELSE Moved(kind, g[s \ {Max(s)}], items[Max(s)])
Folds(kind, start, items, g, D) == g = [s \in D |-> EntryStep(kind, start, items, g, s)]
Folding(kind, start, items) == CHOOSE g : Folds(kind, start, items, g, SUBSET DOMAIN items)
Fold(kind, start, items) == Folding(kind, start, items)[DOMAIN items]

LEMMA ReturnedIs == \A p : Returned(p) = Fold("refund", bag[p], exchangeItems[p])
BY DEF Returned, FoldLeft, MapThenFoldSet, Fold, Folding, Folds, EntryStep, Moved

LEMMA ReceivedIs == \A p, q : Received(p, q) = Fold("transfer", bag[p], exchangeItems[q])
BY DEF Received, FoldLeft, MapThenFoldSet, Fold, Folding, Folds, EntryStep, Moved

\* The last entry of a set of entries.
LEMMA LastIs ==
  ASSUME NEW n \in Nat, NEW s \in SUBSET (1 .. n), s # {}
  PROVE  Max(s) \in s /\ \A y \in s : y <= Max(s)
<1> DEFINE T == {n - x : x \in s}
<1>1. T \subseteq Nat /\ T # {}
  OBVIOUS
<1>2. PICK t \in T : \A y \in T : t <= y
  BY <1>1, LeastNatural
<1>3. PICK x \in s : t = n - x
  BY <1>2
<1>4. ASSUME NEW y \in s PROVE x >= y
  <2>0. n - y \in T
    OBVIOUS
  <2>1. n - y \in T /\ t <= n - y /\ x \in 1 .. n /\ y \in 1 .. n
    BY <1>2, <2>0, Zenon
  <2>2. x \in Nat /\ y \in Nat /\ n - x <= n - y
    BY <1>3, <2>1
  <2> QED
    BY <2>2
<1>5. \E z \in s : \A y \in s : z >= y
  BY <1>4
<1> QED
  BY <1>5 DEF Max

LEMMA PrefixIs ==
  \A n \in Nat : n # 0 => /\ 1 .. n # {} /\ n \in 1 .. n
                          /\ (1 .. n) \ {n} = 1 .. (n - 1) /\ n - 1 \in Nat
OBVIOUS

HasLast(S) == \A s \in SUBSET S : s # {} => Max(s) \in s

LEMMA FoldGrows ==
  ASSUME NEW kind, NEW start, NEW items, NEW S, IsFiniteSet(S), HasLast(S),
         NEW n \in Nat, NEW g, Folds(kind, start, items, g, Small(S, n))
  PROVE  \E h : Folds(kind, start, items, h, Small(S, n + 1))
<1> DEFINE h == [s \in Small(S, n + 1) |-> EntryStep(kind, start, items, g, s)]
<1>1. ASSUME NEW s \in Small(S, n + 1)
      PROVE  EntryStep(kind, start, items, g, s) = EntryStep(kind, start, items, h, s)
  <2>1. CASE s = {}
    BY <2>1 DEF EntryStep
  <2>2. CASE s # {}
    <3> DEFINE last == Max(s)
               r == s \ {last}
    <3>1. last \in s /\ s \in SUBSET S /\ Cardinality(s) <= n + 1
      BY <2>2 DEF Small, HasLast
    <3> HIDE DEF last
    <3>0. Cardinality(s) \in Nat /\ Cardinality(r) \in Nat /\ Cardinality(r) = Cardinality(s) - 1
      BY <3>1, Smaller
    <3>2. r \in SUBSET S /\ Cardinality(r) <= n
      BY <3>1, <3>0
    <3>3. r \in Small(S, n) /\ r \in Small(S, n + 1)
      BY <3>0, <3>2 DEF Small
    <3> HIDE DEF r
    <3>4. g[r] = EntryStep(kind, start, items, g, r)
      BY <3>3 DEF Folds
    <3>5. h[r] = EntryStep(kind, start, items, g, r)
      BY <3>3
    <3>6. g[r] = h[r]
      BY <3>4, <3>5
    <3> HIDE DEF h
    <3> QED
      BY <2>2, <3>6 DEF EntryStep, r, last
  <2> QED
    BY <2>1, <2>2
<1>2. h = [s \in Small(S, n + 1) |-> EntryStep(kind, start, items, h, s)]
  BY <1>1
<1> QED
  BY <1>2 DEF Folds

LEMMA FoldExists ==
  ASSUME NEW kind, NEW start, NEW items, IsFiniteSet(DOMAIN items), HasLast(DOMAIN items)
  PROVE  Folds(kind, start, items, Folding(kind, start, items), SUBSET DOMAIN items)
<1> DEFINE S == DOMAIN items
           Missing == {n \in Nat : ~\E g : Folds(kind, start, items, g, Small(S, n))}
<1>1. Missing = {}
  <2> SUFFICES ASSUME Missing # {} PROVE FALSE
    OBVIOUS
  <2>1. PICK n \in Missing : \A y \in Missing : n <= y
    BY LeastNatural
  <2>2. CASE n = 0
    <3> DEFINE g == [s \in Small(S, 0) |-> start]
    <3>1. ASSUME NEW s \in Small(S, 0) PROVE s = {}
      <4>1. s \in SUBSET S /\ Cardinality(s) <= 0 /\ IsFiniteSet(s)
        BY FS_Subset DEF Small
      <4>2. Cardinality(s) = 0
        BY <4>1, FS_CardinalityType
      <4> QED
        BY <4>1, <4>2, FS_EmptySet
    <3>2. g = [s \in Small(S, 0) |-> EntryStep(kind, start, items, g, s)]
      BY <3>1 DEF EntryStep
    <3> QED
      BY <2>2, <3>2 DEF Folds
  <2>3. CASE n # 0
    <3>1. n - 1 \in Nat /\ n - 1 \notin Missing /\ (n - 1) + 1 = n
      BY <2>1, <2>3
    <3>2. PICK g : Folds(kind, start, items, g, Small(S, n - 1))
      BY <3>1
    <3>3. \E h : Folds(kind, start, items, h, Small(S, (n - 1) + 1))
      BY <3>1, <3>2, FoldGrows
    <3> QED
      BY <2>1, <3>1, <3>3
  <2> QED
    BY <2>2, <2>3
<1>2. Cardinality(S) \in Nat
  BY FS_CardinalityType
<1>3. Small(S, Cardinality(S)) = SUBSET S
  BY FS_Subset DEF Small
<1>4. \E g : Folds(kind, start, items, g, SUBSET S)
  <2> HIDE DEF S
  <2>1. \E g : Folds(kind, start, items, g, Small(S, Cardinality(S)))
    BY <1>1, <1>2
  <2> QED
    BY <1>3, <2>1
<1> QED
  BY <1>4 DEF Folding

\* D[k]: what is true of the bag after k entries.
LEMMA FoldRule ==
  ASSUME NEW kind, NEW start, NEW items \in Seq(Entry), NEW D, start \in D[0],
         \A k \in 1 .. Len(items) : \A b \in D[k - 1] : Moved(kind, b, items[k]) \in D[k]
  PROVE  Fold(kind, start, items) \in D[Len(items)]
<1> DEFINE N == Len(items)
           g == Folding(kind, start, items)
           Bad == {n \in Nat : n <= N /\ g[1 .. n] \notin D[n]}
<1>1. N \in Nat /\ DOMAIN items = 1 .. N
  OBVIOUS
<1>2. Folds(kind, start, items, g, SUBSET (1 .. N))
  <2>1. HasLast(1 .. N)
    BY <1>1, LastIs DEF HasLast
  <2>2. IsFiniteSet(1 .. N)
    BY FS_Interval
  <2> QED
    BY <1>1, <2>1, <2>2, FoldExists
<1>3. ASSUME NEW n \in Nat, n <= N PROVE g[1 .. n] = EntryStep(kind, start, items, g, 1 .. n)
  <2>1. 1 .. n \in SUBSET (1 .. N)
    BY <1>1, <1>3
  <2> HIDE DEF g
  <2> QED
    BY <1>2, <2>1 DEF Folds
<1> HIDE DEF g
<1>4. Bad = {}
  <2> SUFFICES ASSUME Bad # {} PROVE FALSE
    OBVIOUS
  <2>1. PICK n \in Bad : \A y \in Bad : n <= y
    BY LeastNatural
  <2>2. g[1 .. n] = EntryStep(kind, start, items, g, 1 .. n) /\ n \in Nat /\ n <= N /\ g[1 .. n] \notin D[n]
    BY <1>3, <2>1
  <2>3. CASE n = 0
    <3>1. 1 .. n = {}
      BY <2>3
    <3> QED
      BY <2>2, <2>3, <3>1 DEF EntryStep
  <2>4. CASE n # 0
    <3>1. Max(1 .. n) = n /\ 1 .. n # {} /\ (1 .. n) \ {n} = 1 .. (n - 1) /\ n - 1 \in Nat
      <4>1. 1 .. n # {} /\ n \in 1 .. n /\ (1 .. n) \ {n} = 1 .. (n - 1) /\ n - 1 \in Nat
        BY <2>2, <2>4, PrefixIs
      <4>2. Max(1 .. n) \in 1 .. n /\ \A y \in 1 .. n : y <= Max(1 .. n)
        BY <2>2, <4>1, LastIs
      <4>3. Max(1 .. n) = n
        BY <2>2, <4>1, <4>2
      <4> QED
        BY <4>1, <4>3
    <3>2. g[1 .. n] = Moved(kind, g[1 .. (n - 1)], items[n])
      BY <2>2, <3>1 DEF EntryStep
    <3>3. g[1 .. (n - 1)] \in D[n - 1]
      BY <2>1, <2>2, <3>1
    <3> QED
      BY <1>1, <2>2, <2>4, <3>2, <3>3
  <2> QED
    BY <2>3, <2>4
<1>5. g[1 .. N] \in D[N]
  BY <1>1, <1>4
<1> QED
  BY <1>1, <1>5 DEF Fold, g

-----------------------------------------------------------------------------
(* What a refund, a transfer, a deduction and a find do to a bag.            *)

\* A slot is a ghost when it has an item and no count, or a count and no item.
\* An empty slot has no count.
Tidy(b) == \A s \in Slots : b[s].item = NoItem => b[s].count = 0

LEMMA U16Is ==
  ASSUME NEW n \in Nat
  PROVE  U16(n) \in 0 .. CountMod - 1 /\ (n < CountMod => U16(n) = n)
<1>1. CountMod \in Nat /\ CountMod > 0
  OBVIOUS
<1>2. n % CountMod \in 0 .. CountMod - 1
  BY <1>1
<1>3. ASSUME n < CountMod PROVE n % CountMod = n
  BY <1>1, <1>3
<1> QED
  BY <1>2, <1>3 DEF U16

LEMMA StackIs ==
  ASSUME NEW b \in Bag, NEW s \in Slots
  PROVE  /\ b[s] \in Stack /\ b[s].item \in Item \cup {NoItem}
         /\ b[s].count \in 0 .. CountMod - 1 /\ b[s].count \in Nat
BY DEF Bag, Stack

LEMMA RestoreIs ==
  ASSUME NEW stack \in Stack, NEW e \in Entry
  PROVE  /\ Restore(stack, e) \in Stack
         /\ stack.item = e.item =>
              /\ Restore(stack, e).item = e.item
              /\ Restore(stack, e).count = Clamp(U16(stack.count + e.count), StackMax)
         /\ stack.item = NoItem => Restore(stack, e) = [item |-> e.item, count |-> U16(e.count)]
         /\ stack.item \notin {NoItem, e.item} => Restore(stack, e) = stack
<1>1. e.item \in Item /\ e.count \in Nat /\ e.item # NoItem
  BY DEF Entry, Item
<1> DEFINE u == U16(e.count)
<1>2. u \in 0 .. CountMod - 1
  BY <1>1, U16Is
<1>3. stack.count \in Nat /\ stack.count \in 0 .. CountMod - 1
  BY DEF Stack
<1>4. CASE stack.item = e.item
  <2> DEFINE c == Clamp(U16(stack.count + e.count), StackMax)
  <2>1. c \in 0 .. CountMod - 1
    <3>1. stack.count + e.count \in Nat
      BY <1>1, <1>3
    <3>2. U16(stack.count + e.count) \in 0 .. CountMod - 1
      BY <3>1, U16Is
    <3> QED
      BY <3>2 DEF Clamp
  <2>2. Restore(stack, e) = [item |-> e.item, count |-> c]
    BY <1>1, <1>4 DEF Restore
  <2> HIDE DEF c
  <2>3. Restore(stack, e) \in Stack /\ Restore(stack, e).item = e.item /\ Restore(stack, e).count = c
    BY <1>1, <2>1, <2>2 DEF Stack
  <2> QED
    BY <1>1, <1>4, <2>1, <2>3 DEF c
<1>5. CASE stack.item = NoItem
  <2>1. Restore(stack, e) = [item |-> e.item, count |-> u]
    BY <1>1, <1>5 DEF Restore
  <2> HIDE DEF u
  <2>2. Restore(stack, e) \in Stack
    BY <1>1, <1>2, <2>1 DEF Stack
  <2> QED
    BY <1>1, <1>5, <2>1, <2>2 DEF u
<1>6. CASE stack.item \notin {NoItem, e.item}
  BY <1>6 DEF Restore
<1> QED
  BY <1>4, <1>5, <1>6

\* The ghosts of a bag that another one had already.
NoNewGhost(b, c) == \A s \in Slots : IsGhost(c[s]) => IsGhost(b[s])

LEMMA RefundKeeps ==
  ASSUME NEW b \in Bag, NEW e \in Entry
  PROVE  /\ ReturnEntry(b, e) \in Bag
         /\ \A x \in Slots : ReturnEntry(b, e)[x] = IF x = e.src THEN Restore(b[x], e) ELSE b[x]
         /\ Tidy(b) => Tidy(ReturnEntry(b, e))
         /\ e.count # 0 /\ b[e.src].count + e.count < CountMod => NoNewGhost(b, ReturnEntry(b, e))
<1> DEFINE s == e.src
           new == Restore(b[s], e)
<1>1. s \in Slots /\ e.item \in Item /\ e.item # NoItem /\ e.count \in Nat
  BY DEF Entry, Item
<1>2. ReturnEntry(b, e) = [b EXCEPT ![s] = new]
  BY DEF ReturnEntry
<1>3. b[s] \in Stack
  BY <1>1, StackIs
<1>4. /\ new \in Stack
      /\ b[s].item # NoItem => new.item # NoItem
      /\ b[s].item = NoItem => new.item = e.item
      /\ e.count # 0 /\ b[s].count + e.count < CountMod /\ IsGhost(new) => IsGhost(b[s])
  <2> DEFINE stack == b[s]
  <2>0. stack \in Stack /\ stack.count \in Nat
    BY <1>3 DEF Stack
  <2> HIDE DEF stack
  <2>1. Restore(stack, e) \in Stack
    BY <2>0, RestoreIs
  <2>2. CASE stack.item = NoItem
    <3>1. Restore(stack, e) = [item |-> e.item, count |-> U16(e.count)]
      BY <2>0, <2>2, RestoreIs
    <3>2. e.count # 0 /\ stack.count + e.count < CountMod => U16(e.count) # 0
      BY <1>1, <2>0, U16Is
    <3> QED
      BY <1>1, <2>1, <2>2, <3>1, <3>2 DEF IsGhost, stack
  <2>3. CASE stack.item = e.item
    <3>1. /\ Restore(stack, e).item = e.item
          /\ Restore(stack, e).count = Clamp(U16(stack.count + e.count), StackMax)
      BY <2>0, <2>3, RestoreIs
    <3>2. ASSUME e.count # 0, stack.count + e.count < CountMod
          PROVE  Clamp(U16(stack.count + e.count), StackMax) # 0
      <4>1. stack.count + e.count \in Nat /\ stack.count + e.count # 0
        BY <1>1, <2>0, <3>2
      <4>2. U16(stack.count + e.count) = stack.count + e.count
        BY <4>1, <3>2, U16Is
      <4> QED
        BY <4>1, <4>2 DEF Clamp
    <3> QED
      BY <1>1, <2>1, <2>3, <3>1, <3>2 DEF IsGhost, stack
  <2>4. CASE stack.item \notin {NoItem, e.item}
    <3>1. Restore(stack, e) = stack
      BY <2>0, <2>4, RestoreIs
    <3> QED
      BY <1>1, <2>0, <2>4, <3>1 DEF stack
  <2> QED
    BY <2>2, <2>3, <2>4
<1> HIDE DEF new
<1>5. ReturnEntry(b, e) \in Bag /\ \A x \in Slots : ReturnEntry(b, e)[x] = IF x = s THEN new ELSE b[x]
  BY <1>1, <1>2, <1>4 DEF Bag
<1>6. Tidy(b) => Tidy(ReturnEntry(b, e))
  BY <1>1, <1>4, <1>5 DEF Tidy
<1>7. e.count # 0 /\ b[s].count + e.count < CountMod => NoNewGhost(b, ReturnEntry(b, e))
  BY <1>1, <1>4, <1>5 DEF NoNewGhost
<1> QED
  BY <1>5, <1>6, <1>7 DEF new

\* The slot found is free, or has a stack of the item with room for n more.
LEMMA FoundSlot ==
  ASSUME NEW b, NEW i, NEW n
  PROVE  \/ FindSlot(b, i, n) = {} /\ FreeSlots(b) = {}
         \/ \E m \in Slots :
              /\ FindSlot(b, i, n) = {m}
              /\ \/ m \in FreeSlots(b)
                 \/ i \in Countable /\ b[m].item = i /\ b[m].count + n <= StackMax
<1> DEFINE found == IF Fitting(b, i, n) # {} THEN Fitting(b, i, n) ELSE FreeSlots(b)
<1>1. FindSlot(b, i, n) = IF found = {} THEN {} ELSE {Min(found)}
  BY DEF FindSlot
<1>2. found \subseteq Slots
  BY DEF Fitting, FreeSlots
<1>3. found \subseteq Nat
  BY <1>2 DEF Slots
<1>4. ASSUME found # {} PROVE Min(found) \in found
  <2>1. \E x \in found : \A y \in found : x <= y
    BY <1>3, <1>4, LeastNatural
  <2> QED
    BY <2>1 DEF Min
<1>5. \A m \in found : m \in FreeSlots(b) \/ (i \in Countable /\ b[m].item = i /\ b[m].count + n <= StackMax)
  BY DEF Fitting
<1>6. found = {} => FreeSlots(b) = {}
  OBVIOUS
<1> HIDE DEF found
<1> QED
  BY <1>1, <1>2, <1>4, <1>5, <1>6

LEMMA PutKeeps ==
  ASSUME NEW b \in Bag, NEW i \in Item, NEW n \in Nat
  PROVE  /\ Put(b, i, n) \in Bag
         /\ Tidy(b) => Tidy(Put(b, i, n))
         /\ n # 0 => NoNewGhost(b, Put(b, i, n))
<1>1. \A s \in Slots : Put(b, i, n)[s] = IF s \in FindSlot(b, i, n) THEN Receive(b[s], i, n) ELSE b[s]
  BY DEF Put
<1>2. ASSUME NEW s \in Slots
      PROVE  /\ Receive(b[s], i, n) \in Stack /\ Receive(b[s], i, n).item = i
             /\ n # 0 => Receive(b[s], i, n).count # 0
  <2>1. b[s].count \in Nat
    BY StackIs
  <2> DEFINE c == IF i \in Single THEN 1 ELSE Clamp(b[s].count + n, StackMax)
  <2>a. b[s].count + n \in Nat /\ (n # 0 => b[s].count + n # 0) /\ StackMax # 0 /\ StackMax \in 0 .. CountMod - 1
    BY <2>1
  <2>b. 1 \in 0 .. CountMod - 1
    BY <2>a
  <2>2. c \in 0 .. CountMod - 1 /\ (n # 0 => c # 0)
    BY <2>a, <2>b DEF Clamp
  <2>3. Receive(b[s], i, n) = [item |-> i, count |-> c]
    BY DEF Receive
  <2> HIDE DEF c
  <2> QED
    BY <2>2, <2>3 DEF Stack
<1>3. i # NoItem
  BY DEF Item
<1>4. Put(b, i, n) \in Bag
  BY <1>1, <1>2 DEF Put, Bag
<1>5. Tidy(b) => Tidy(Put(b, i, n))
  BY <1>1, <1>2, <1>3 DEF Tidy
<1>6. n # 0 => NoNewGhost(b, Put(b, i, n))
  BY <1>1, <1>2 DEF NoNewGhost, IsGhost
<1> QED
  BY <1>4, <1>5, <1>6

LEMMA TakeKeeps ==
  ASSUME NEW b \in Bag, NEW s \in Slots, NEW n \in Nat, n <= b[s].count
  PROVE  /\ Take(b, s, n) \in Bag
         /\ \A x \in Slots : Take(b, s, n)[x] = IF x = s THEN Deduct(b[s], n) ELSE b[x]
         /\ Tidy(b) => Tidy(Take(b, s, n))
         /\ b[s].count # 0 => NoNewGhost(b, Take(b, s, n))
<1>1. b[s] \in Stack /\ b[s].count \in 0 .. CountMod - 1
  BY StackIs
<1>2. /\ Deduct(b[s], n) \in Stack
      /\ b[s].count = n => Deduct(b[s], n) = Empty
      /\ b[s].count # n => /\ Deduct(b[s], n).item = b[s].item
                           /\ Deduct(b[s], n).count = b[s].count - n
  <2>1. CASE b[s].count = n
    BY <2>1 DEF Deduct, Empty, Stack
  <2>2. CASE b[s].count # n
    <3>1. b[s].count - n \in 0 .. CountMod - 1
      BY <1>1
    <3>2. Deduct(b[s], n) = [b[s] EXCEPT !.count = b[s].count - n]
      BY <2>2 DEF Deduct
    <3> QED
      BY <1>1, <2>2, <3>1, <3>2 DEF Stack
  <2> QED
    BY <2>1, <2>2
<1>3. /\ Take(b, s, n) \in Bag
      /\ \A x \in Slots : Take(b, s, n)[x] = IF x = s THEN Deduct(b[s], n) ELSE b[x]
  BY <1>2 DEF Take, Bag
<1>4. Empty.item = NoItem /\ Empty.count = 0
  BY DEF Empty
<1>5. Tidy(b) => Tidy(Take(b, s, n))
  BY <1>1, <1>2, <1>3, <1>4 DEF Tidy
<1>6. b[s].count # 0 => NoNewGhost(b, Take(b, s, n))
  <2>1. b[s].count # n => b[s].count - n # 0
    BY <1>1
  <2> QED
    BY <1>2, <1>3, <1>4, <2>1 DEF NoNewGhost, IsGhost
<1> QED
  BY <1>3, <1>5, <1>6

\* The same for all the entries of a list.
LEMMA MovedKeeps ==
  ASSUME NEW kind, NEW b \in Bag, NEW e \in Entry
  PROVE  /\ Moved(kind, b, e) \in Bag
         /\ Tidy(b) => Tidy(Moved(kind, b, e))
<1>1. e.item \in Item /\ U16(e.count) \in Nat
  BY U16Is DEF Entry
<1>2. CASE kind = "refund"
  BY <1>2, RefundKeeps DEF Moved
<1>3. CASE kind # "refund"
  <2>1. Moved(kind, b, e) = Put(b, e.item, U16(e.count))
    BY <1>3 DEF Moved, PutEntry
  <2> QED
    BY <1>1, <2>1, PutKeeps
<1> QED
  BY <1>2, <1>3

LEMMA FoldKeeps ==
  ASSUME NEW kind, NEW b \in Bag, NEW items \in Seq(Entry)
  PROVE  /\ Fold(kind, b, items) \in Bag
         /\ Tidy(b) => Tidy(Fold(kind, b, items))
<1>0. Len(items) \in Nat /\ DOMAIN items = 1 .. Len(items) /\ \A k \in 1 .. Len(items) : items[k] \in Entry
  OBVIOUS
<1>1. Fold(kind, b, items) \in Bag
  <2> DEFINE D == [k \in 0 .. Len(items) |-> Bag]
  <2>1. b \in D[0]
    BY <1>0
  <2>2. ASSUME NEW k \in 1 .. Len(items), NEW c \in D[k - 1] PROVE Moved(kind, c, items[k]) \in D[k]
    BY <1>0, MovedKeeps
  <2>3. D[Len(items)] = Bag
    BY <1>0
  <2> HIDE DEF D
  <2> QED
    BY <2>1, <2>2, <2>3, FoldRule
<1>2. ASSUME Tidy(b) PROVE Tidy(Fold(kind, b, items))
  <2> DEFINE D == [k \in 0 .. Len(items) |-> {c \in Bag : Tidy(c)}]
  <2>1. b \in D[0]
    BY <1>0, <1>2
  <2>2. ASSUME NEW k \in 1 .. Len(items), NEW c \in D[k - 1] PROVE Moved(kind, c, items[k]) \in D[k]
    <3>1. k \in 0 .. Len(items) /\ k - 1 \in 0 .. Len(items)
      BY <1>0
    <3>2. c \in Bag /\ Tidy(c) /\ items[k] \in Entry
      BY <1>0, <3>1
    <3>3. Moved(kind, c, items[k]) \in Bag /\ Tidy(Moved(kind, c, items[k]))
      BY <3>2, MovedKeeps
    <3> QED
      BY <3>1, <3>3
  <2>3. D[Len(items)] = {c \in Bag : Tidy(c)}
    BY <1>0
  <2> HIDE DEF D
  <2>4. Fold(kind, b, items) \in D[Len(items)]
    BY <2>1, <2>2, FoldRule
  <2> QED
    BY <2>3, <2>4
<1> QED
  BY <1>1, <1>2

\* A transfer of counts that u16 does not cut to 0 makes no ghost.
LEMMA TransferGhosts ==
  ASSUME NEW b \in Bag, NEW items \in Seq(Entry), \A k \in DOMAIN items : U16(items[k].count) # 0
  PROVE  NoNewGhost(b, Fold("transfer", b, items))
<1> DEFINE D == [k \in 0 .. Len(items) |-> {c \in Bag : NoNewGhost(b, c)}]
<1>0. Len(items) \in Nat /\ DOMAIN items = 1 .. Len(items) /\ \A k \in 1 .. Len(items) : items[k] \in Entry
  OBVIOUS
<1>1. b \in D[0]
  BY <1>0 DEF NoNewGhost
<1>2. ASSUME NEW k \in 1 .. Len(items), NEW c \in D[k - 1] PROVE Moved("transfer", c, items[k]) \in D[k]
  <2> DEFINE e == items[k]
  <2>1. k \in 0 .. Len(items) /\ k - 1 \in 0 .. Len(items)
    BY <1>0
  <2>2. c \in Bag /\ NoNewGhost(b, c)
    BY <2>1
  <2>a. e \in Entry /\ k \in DOMAIN items
    BY <1>0
  <2>b. e.item \in Item /\ e.count \in Nat /\ U16(e.count) # 0
    BY <2>a DEF Entry
  <2>3. e.item \in Item /\ U16(e.count) \in Nat /\ U16(e.count) # 0
    BY <2>b, U16Is
  <2>4. Moved("transfer", c, e) = Put(c, e.item, U16(e.count))
    BY DEF Moved, PutEntry
  <2>5. Put(c, e.item, U16(e.count)) \in Bag /\ NoNewGhost(c, Put(c, e.item, U16(e.count)))
    BY <2>2, <2>3, PutKeeps
  <2>6. NoNewGhost(b, Put(c, e.item, U16(e.count)))
    BY <2>2, <2>5 DEF NoNewGhost
  <2> QED
    BY <2>1, <2>4, <2>5, <2>6
<1>3. \A c \in D[Len(items)] : NoNewGhost(b, c)
  BY <1>0
<1> HIDE DEF D
<1> QED
  BY <1>1, <1>2, <1>3, FoldRule

\* What a refund needs to lose nothing of a count.
Fitted(b, items) ==
  /\ \A k \in 1 .. Len(items) :
       items[k].count # 0 /\ b[items[k].src].count + items[k].count < CountMod
  /\ \A j, k \in 1 .. Len(items) : items[j].src = items[k].src => j = k

\* A refund whose sums fit a u16 makes no ghost: each entry finds its slot as it
\* was before the refund.
LEMMA RefundGhosts ==
  ASSUME NEW b \in Bag, NEW items \in Seq(Entry), Fitted(b, items)
  PROVE  NoNewGhost(b, Fold("refund", b, items))
<1> DEFINE Later(c, k) == \A m \in 1 .. Len(items) : m > k => c[items[m].src] = b[items[m].src]
           D == [k \in 0 .. Len(items) |-> {c \in Bag : NoNewGhost(b, c) /\ Later(c, k)}]
<1>0. Len(items) \in Nat /\ \A k \in 1 .. Len(items) : items[k] \in Entry
  OBVIOUS
<1>1. b \in D[0]
  BY <1>0 DEF NoNewGhost
<1>2. ASSUME NEW k \in 1 .. Len(items), NEW c \in D[k - 1] PROVE Moved("refund", c, items[k]) \in D[k]
  <2> DEFINE e == items[k]
             d == ReturnEntry(c, e)
  <2>1. k \in 0 .. Len(items) /\ k - 1 \in 0 .. Len(items) /\ k > k - 1 /\ k \in Nat
    BY <1>0
  <2>2. c \in Bag /\ NoNewGhost(b, c) /\ Later(c, k - 1) /\ e \in Entry
    BY <1>0, <2>1
  <2>3. c[e.src] = b[e.src]
    BY <2>1, <2>2
  <2>4. e.count # 0 /\ c[e.src].count + e.count < CountMod
    BY <2>3 DEF Fitted
  <2>5. d \in Bag /\ NoNewGhost(c, d) /\ \A x \in Slots : x # e.src => d[x] = c[x]
    <3> HIDE DEF e
    <3>1. c \in Bag /\ e \in Entry /\ e.count # 0 /\ c[e.src].count + e.count < CountMod
      BY <2>2, <2>4
    <3>2. /\ d \in Bag /\ NoNewGhost(c, d)
          /\ \A x \in Slots : d[x] = IF x = e.src THEN Restore(c[x], e) ELSE c[x]
      BY <3>1, RefundKeeps
    <3> QED
      BY <3>2
  <2>6. Later(d, k)
    <3> SUFFICES ASSUME NEW m \in 1 .. Len(items), m > k PROVE d[items[m].src] = b[items[m].src]
      OBVIOUS
    <3>1. items[m].src # e.src /\ m > k - 1
      BY <2>1 DEF Fitted
    <3>2. items[m].src \in Slots
      BY <1>0 DEF Entry
    <3> QED
      BY <2>2, <2>5, <3>1, <3>2
  <2>7. NoNewGhost(b, d)
    BY <2>2, <2>5 DEF NoNewGhost
  <2>8. Moved("refund", c, e) = d
    BY DEF Moved
  <2>9. d \in D[k]
    <3> HIDE DEF d
    <3> QED
      BY <2>1, <2>5, <2>6, <2>7
  <2> QED
    BY <2>8, <2>9
<1>3. \A c \in D[Len(items)] : NoNewGhost(b, c)
  BY <1>0
<1> HIDE DEF D
<1> QED
  BY <1>1, <1>2, <1>3, FoldRule

-----------------------------------------------------------------------------
(* What a step does to the bags.                                             *)

Becomes(p) ==
  \/ bag'[p] = bag[p]
  \/ \E s \in Slots, n \in Nat :
       /\ n <= bag[p][s].count /\ bag[p][s].count # 0
       /\ bag'[p] = Take(bag[p], s, n)
  \/ \E f \in Finds : bag'[p] = Put(bag[p], f[1], f[2])
  \/ bag'[p] = Returned(p)
  \/ \E q \in Players : bag'[p] = Received(p, q)

Bagged == bag \in [Players -> Bag]

LEMMA GiveBackBecomes ==
  ASSUME NEW P, GiveItemsBack(P)
  PROVE  (\A p \in Players : Becomes(p)) /\ DOMAIN bag' = Players
BY DEF GiveItemsBack, Becomes

LEMMA BagSteps ==
  ASSUME TypeOK, Bagged, [Next]_vars
  PROVE  (\A p \in Players : Becomes(p)) /\ bag' = [p \in Players |-> bag'[p]]
<1> DEFINE Goal == (\A p \in Players : Becomes(p)) /\ bag' = [p \in Players |-> bag'[p]]
<1>0. bag' = bag => Goal
  BY DEF Becomes, Bagged
<1>1. CASE UNCHANGED vars
  BY <1>0, <1>1 DEF vars, goods
<1>2. ASSUME NEW p \in Players, TradeStep(p) PROVE Goal
  <2>1. CASE \E s \in Slots, n \in ItemCounts : AddItem(p, s, n)
    <3>1. PICK s \in Slots, n \in ItemCounts : AddItem(p, s, n)
      BY <2>1
    <3> DEFINE m == U16(n)
    <3>2. m \in Nat
      <4>1. n \in Nat
        OBVIOUS
      <4> QED
        BY <4>1, U16Is
    <3>3. /\ m <= bag[p][s].count /\ bag[p][s].count # 0
          /\ bag' = [bag EXCEPT ![p] = Take(bag[p], s, m)]
      <4>1. bag[p][s].count \in Nat
        BY StackIs DEF Bagged
      <4> QED
        BY <3>1, <4>1 DEF AddItem
    <3> HIDE DEF m
    <3>4. \A q \in Players : bag'[q] = IF q = p THEN Take(bag[p], s, m) ELSE bag[q]
      BY <3>3 DEF Bagged
    <3> QED
      BY <3>2, <3>3, <3>4 DEF Becomes, Bagged
  <2>2. CASE RequestWhileTrading(p) \/ AddToLostPartner(p) \/ Cancel(p) \/ ExecuteFails(p) \/ CancelCutOff(p)
    <3>1. \E P : GiveItemsBack(P)
      BY <2>2 DEF RequestWhileTrading, AddToLostPartner, Cancel, ExchangeCancel, ExecuteFails, CancelCutOff
    <3>2. PICK P : GiveItemsBack(P)
      BY <3>1
    <3>3. bag' = [q \in Players |-> bag'[q]]
      BY <3>2 DEF GiveItemsBack
    <3> QED
      BY <3>2, <3>3, GiveBackBecomes
  <2>3. CASE Execute(p)
    <3> DEFINE q == exchangeUser[p]
    <3>1. q \in Players
      BY <2>3 DEF Execute, BothDecided, Deciding, IsTrading, TypeOK
    <3>2. bag' = [bag EXCEPT ![p] = Received(p, q), ![q] = Received(q, p)]
      BY <2>3 DEF Execute
    <3> HIDE DEF q
    <3>3. \A r \in Players : bag'[r] = IF r = q THEN Received(q, p) ELSE IF r = p THEN Received(p, q) ELSE bag[r]
      BY <3>1, <3>2 DEF Bagged
    <3> QED
      BY <3>1, <3>2, <3>3 DEF Becomes, Bagged
  <2>4. CASE Decline(p) \/ (\E q \in Players : Request(p, q)) \/ Agree(p) \/ DecideFirst(p) \/ \E n \in AddAmounts : AddGold(p, n)
    BY <1>0, <2>4 DEF Request, Agree, DecideFirst, AddGold, Decline, goods
  <2> QED
    BY <1>2, <2>1, <2>2, <2>3, <2>4 DEF TradeStep
<1>3. ASSUME NEW p \in Players, DropStep(p) PROVE Goal
  BY <1>0, <1>3 DEF DropStep, Leave, Panic, ZoneChange, goods
<1>4. ASSUME NEW p \in Players, OtherStep(p) PROVE Goal
  <2>1. CASE \E f \in Finds : EarnItem(p, f[1], f[2])
    <3>1. PICK f \in Finds : EarnItem(p, f[1], f[2])
      BY <2>1
    <3>2. bag' = [bag EXCEPT ![p] = Put(bag[p], f[1], f[2])]
      BY <3>1 DEF EarnItem
    <3>3. \A q \in Players : bag'[q] = IF q = p THEN Put(bag[p], f[1], f[2]) ELSE bag[q]
      BY <3>2 DEF Bagged
    <3> QED
      BY <3>2, <3>3 DEF Becomes, Bagged
  <2>2. CASE ~ \E f \in Finds : EarnItem(p, f[1], f[2])
    BY <1>0, <1>4, <2>2 DEF OtherStep, Enter, Teleport, Die, Regene, Begin, Stop, EarnGold, goods
  <2> QED
    BY <2>1, <2>2
<1> QED
  BY <1>1, <1>2, <1>3, <1>4 DEF Next

\* update_exchange_item_count: entry m gets n more units.
Raised(items, m, n) == [items EXCEPT ![m] = [items[m] EXCEPT !.count = items[m].count + n]]

LEMMA RaisedIs ==
  ASSUME NEW items \in Seq(Entry), NEW m \in DOMAIN items, NEW n \in Nat
  PROVE  /\ DOMAIN Raised(items, m, n) = DOMAIN items
         /\ \A k \in DOMAIN items : k # m => Raised(items, m, n)[k] = items[k]
         /\ Raised(items, m, n)[m].item = items[m].item
         /\ Raised(items, m, n)[m].count = items[m].count + n
<1> DEFINE e == [items[m] EXCEPT !.count = items[m].count + n]
<1>1. e.item = items[m].item /\ e.count = items[m].count + n
  <2>1. PICK old \in Entry : old = items[m]
    BY EntryIs
  <2>2. [old EXCEPT !.count = old.count + n].item = old.item /\ [old EXCEPT !.count = old.count + n].count = old.count + n
    BY DEF Entry
  <2> QED
    BY <2>1, <2>2
<1>2. Raised(items, m, n) = [items EXCEPT ![m] = e]
  BY DEF Raised
<1> HIDE DEF e
<1> QED
  BY <1>1, <1>2

\* update_exchange_item_count or a new entry.
LEMMA ListedIs ==
  ASSUME NEW items \in Seq(Entry), NEW i \in Item, NEW n \in Nat, NEW s \in Slots
  PROVE  \/ \E m \in DOMAIN items : items[m].item = i /\ Listed(items, i, n, s) = Raised(items, m, n)
         \/ Listed(items, i, n, s) = Append(items, [item |-> i, count |-> n, src |-> s])
<1>1. CASE SameItem(items, i) # {}
  <2> DEFINE m == Min(SameItem(items, i))
  <2>1. m \in SameItem(items, i)
    <3>1. SameItem(items, i) \subseteq Nat
      BY DEF SameItem
    <3>2. \E x \in SameItem(items, i) : \A y \in SameItem(items, i) : x <= y
      BY <1>1, <3>1, LeastNatural
    <3> QED
      BY <3>2 DEF Min
  <2>2. m \in DOMAIN items /\ items[m].item = i
    BY <2>1 DEF SameItem
  <2>3. Listed(items, i, n, s) = Raised(items, m, n)
    BY <1>1 DEF Listed, Raised
  <2> HIDE DEF m
  <2> QED
    BY <2>2, <2>3
<1>2. CASE SameItem(items, i) = {}
  BY <1>2 DEF Listed
<1> QED
  BY <1>1, <1>2

\* Nothing is offered in a count of 0.
Real == \A p \in Players : \A k \in DOMAIN exchangeItems[p] : exchangeItems[p][k].count # 0

LEMMA ListedReal ==
  ASSUME NEW items \in Seq(Entry), NEW i \in Item, NEW n \in Nat, n # 0, NEW s \in Slots,
         \A k \in DOMAIN items : items[k].count # 0
  PROVE  \A k \in DOMAIN Listed(items, i, n, s) : Listed(items, i, n, s)[k].count # 0
<1> DEFINE new == Listed(items, i, n, s)
<1>0. \A k \in DOMAIN items : items[k].count \in Nat
  BY EntryIs
<1>1. CASE \E m \in DOMAIN items : new = Raised(items, m, n)
  <2>1. PICK m \in DOMAIN items : new = Raised(items, m, n)
    BY <1>1
  <2> HIDE DEF new
  <2>2. items[m].count + n # 0
    BY <1>0
  <2>3. DOMAIN new = DOMAIN items /\ new[m].count = items[m].count + n /\ \A k \in DOMAIN items : k # m => new[k] = items[k]
    BY <2>1, RaisedIs
  <2> QED
    BY <2>2, <2>3 DEF new
<1>2. CASE new = Append(items, [item |-> i, count |-> n, src |-> s])
  <2> DEFINE e == [item |-> i, count |-> n, src |-> s]
  <2>1. e \in Entry /\ e.count = n
    BY DEF Entry
  <2> HIDE DEF new, e
  <2>2. new = Append(items, e)
    BY <1>2 DEF e
  <2>3. DOMAIN new = 1 .. Len(items) + 1 /\ new[Len(items) + 1] = e /\ \A k \in 1 .. Len(items) : new[k] = items[k]
    BY <2>1, <2>2
  <2>4. Len(items) \in Nat /\ DOMAIN items = 1 .. Len(items)
    OBVIOUS
  <2>5. \A k \in 1 .. Len(items) + 1 : k = Len(items) + 1 \/ k \in 1 .. Len(items)
    BY <2>4
  <2> QED
    BY <2>1, <2>3, <2>4, <2>5 DEF new
<1>3. (\E m \in DOMAIN items : new = Raised(items, m, n)) \/ new = Append(items, [item |-> i, count |-> n, src |-> s])
  BY ListedIs
<1> HIDE DEF new
<1> QED
  BY <1>1, <1>2, <1>3 DEF new

LEMMA ResetReal == ASSUME Real, NEW P, ResetTrade(P) PROVE Real'
<1>1. exchangeItems' = [p \in Players |-> IF p \in P THEN <<>> ELSE exchangeItems[p]]
  BY DEF ResetTrade
<1>2. DOMAIN <<>> = {}
  OBVIOUS
<1> QED
  BY <1>1, <1>2 DEF Real

LEMMA RealStep == ASSUME Offering, Real, [Next]_vars PROVE Real'
<1>0. exchangeItems' = exchangeItems => Real'
  BY DEF Real
<1>1. CASE UNCHANGED vars
  BY <1>0, <1>1 DEF vars, trade
<1>2. ASSUME NEW p \in Players, TradeStep(p) PROVE Real'
  <2>1. CASE \E s \in Slots, n \in ItemCounts : AddItem(p, s, n)
    <3>0. PICK s \in Slots, n \in ItemCounts : AddItem(p, s, n)
      BY <2>1
    <3> DEFINE i == bag[p][s].item
               new == Listed(exchangeItems[p], i, n, s)
    <3>1. i \in Item /\ n \in Nat /\ n # 0 /\ exchangeItems[p] \in Seq(Entry)
      BY <3>0 DEF AddItem, Offering
    <3>2. exchangeItems' = [exchangeItems EXCEPT ![p] = new]
      BY <3>0 DEF AddItem
    <3> HIDE DEF i
    <3>3. \A k \in DOMAIN new : new[k].count # 0
      BY <3>1, ListedReal DEF Real
    <3> HIDE DEF new
    <3>4. \A q \in Players : exchangeItems'[q] = IF q = p THEN new ELSE exchangeItems[q]
      BY <3>2 DEF Offering
    <3> QED
      BY <3>3, <3>4 DEF Real
  <2>2. CASE \/ RequestWhileTrading(p) \/ AddToLostPartner(p) \/ Cancel(p) \/ CancelCutOff(p)
             \/ Decline(p) \/ Execute(p) \/ ExecuteFails(p)
    BY <2>2, ResetReal DEF RequestWhileTrading, AddToLostPartner, Cancel, CancelCutOff, ExchangeCancel,
       Decline, Execute, ExecuteFails
  <2>3. CASE (\E q \in Players : Request(p, q)) \/ Agree(p) \/ DecideFirst(p) \/ \E n \in AddAmounts : AddGold(p, n)
    BY <1>0, <2>3 DEF Request, Agree, DecideFirst, AddGold
  <2> QED
    BY <1>2, <2>1, <2>2, <2>3 DEF TradeStep
<1>3. ASSUME NEW p \in Players, DropStep(p) PROVE Real'
  BY <1>3, ResetReal DEF DropStep, Leave, Panic, ZoneChange, DropTrade
<1>4. ASSUME NEW p \in Players, OtherStep(p) PROVE Real'
  BY <1>0, <1>4 DEF OtherStep, Enter, Teleport, Die, Regene, Begin, Stop, EarnGold, EarnItem, trade
<1> QED
  BY <1>1, <1>2, <1>3, <1>4 DEF Next

\* The bags stay bags and an empty slot has no count, whatever is offered.
GoodsOK == Bagged /\ Offering /\ Real
AllTidy == \A p \in Players : Tidy(bag[p])

LEMMA BecomesBag ==
  ASSUME GoodsOK, NEW p \in Players, Becomes(p)
  PROVE  /\ bag'[p] \in Bag
         /\ Tidy(bag[p]) => Tidy(bag'[p])
<1>0. bag[p] \in Bag /\ \A q \in Players : exchangeItems[q] \in Seq(Entry)
  BY DEF GoodsOK, Bagged, Offering
<1>1. CASE bag'[p] = bag[p]
  BY <1>0, <1>1
<1>2. CASE \E s \in Slots, n \in Nat :
             /\ n <= bag[p][s].count /\ bag[p][s].count # 0
             /\ bag'[p] = Take(bag[p], s, n)
  BY <1>0, <1>2, TakeKeeps
<1>3. CASE \E f \in Finds : bag'[p] = Put(bag[p], f[1], f[2])
  <2>1. PICK f \in Finds : bag'[p] = Put(bag[p], f[1], f[2])
    BY <1>3
  <2>2. f[1] \in Item /\ f[2] \in Nat
    OBVIOUS
  <2> QED
    BY <1>0, <2>1, <2>2, PutKeeps
<1>4. CASE bag'[p] = Returned(p)
  BY <1>0, <1>4, ReturnedIs, FoldKeeps
<1>5. CASE \E q \in Players : bag'[p] = Received(p, q)
  BY <1>0, <1>5, ReceivedIs, FoldKeeps
<1> QED
  BY <1>1, <1>2, <1>3, <1>4, <1>5 DEF Becomes

LEMMA GoodsStep == ASSUME TypeOK, Inv, GoodsOK, [Next]_vars PROVE GoodsOK' /\ (AllTidy => AllTidy')
<1>1. (\A p \in Players : Becomes(p)) /\ bag' = [p \in Players |-> bag'[p]]
  BY BagSteps DEF GoodsOK
<1>2. \A p \in Players : bag'[p] \in Bag /\ (Tidy(bag[p]) => Tidy(bag'[p]))
  BY <1>1, BecomesBag
<1>3. Bagged'
  BY <1>1, <1>2 DEF Bagged
<1>4. Offering' /\ Real'
  BY OfferingStep, RealStep DEF GoodsOK
<1> QED
  BY <1>2, <1>3, <1>4 DEF GoodsOK, AllTidy

LEMMA GoodsInit == Init => GoodsOK /\ (AllTidy <=> \A p \in Players : Tidy(StartBag[p]))
<1> SUFFICES ASSUME Init PROVE GoodsOK /\ (AllTidy <=> \A p \in Players : Tidy(StartBag[p]))
  OBVIOUS
<1>1. <<>> \in Seq(Entry) /\ DOMAIN <<>> = {}
  OBVIOUS
<1>2. bag = StartBag /\ exchangeItems = [p \in Players |-> <<>>]
  BY DEF Init
<1>3. Bagged
  BY <1>2 DEF Bagged
<1>4. Offering /\ Real
  BY <1>1, <1>2 DEF Offering, Real
<1> QED
  BY <1>2, <1>3, <1>4 DEF GoodsOK, AllTidy

LEMMA GoodsAlways == Spec => []GoodsOK
<1>1. Init => GoodsOK
  BY GoodsInit
<1>2. TypeOK /\ Inv /\ GoodsOK /\ [Next]_vars => GoodsOK'
  BY GoodsStep
<1> QED
  BY <1>1, <1>2, TypeCorrect, InvAlways, PTL DEF Spec

LEMMA UncutIs ==
  ASSUME GoodsOK, NEW p \in Players, Uncut(p)
  PROVE  /\ Fitted(bag[p], exchangeItems[p])
         /\ \A k \in DOMAIN exchangeItems[p] : U16(exchangeItems[p][k].count) # 0
<1>1. exchangeItems[p] \in Seq(Entry) /\ bag[p] \in Bag
  BY DEF GoodsOK, Bagged, Offering
<1>2. DOMAIN exchangeItems[p] = 1 .. Len(exchangeItems[p])
  BY <1>1
<1>3. Fitted(bag[p], exchangeItems[p])
  BY <1>2 DEF Uncut, Fitted, GoodsOK, Real
<1>4. ASSUME NEW k \in DOMAIN exchangeItems[p] PROVE U16(exchangeItems[p][k].count) # 0
  <2>1. PICK e \in Entry : e = exchangeItems[p][k]
    BY <1>1, EntryIs
  <2>2. e.count \in Nat /\ e.src \in Slots
    BY DEF Entry
  <2>3. bag[p][e.src].count \in Nat
    BY <1>1, <2>2, StackIs
  <2>4. e.count # 0 /\ bag[p][e.src].count + e.count < CountMod
    BY <2>1 DEF Uncut, GoodsOK, Real
  <2>5. e.count < CountMod
    BY <2>2, <2>3, <2>4
  <2>6. U16(e.count) = e.count
    BY <2>2, <2>5, U16Is
  <2> QED
    BY <2>1, <2>4, <2>6
<1> QED
  BY <1>3, <1>4

LEMMA BecomesNoGhost ==
  ASSUME GoodsOK, \A q \in Players : Uncut(q), \A f \in Finds : f[2] # 0,
         NEW p \in Players, Becomes(p)
  PROVE  NoNewGhost(bag[p], bag'[p])
<1>0. bag[p] \in Bag /\ \A q \in Players : exchangeItems[q] \in Seq(Entry)
  BY DEF GoodsOK, Bagged, Offering
<1>1. CASE bag'[p] = bag[p]
  BY <1>1 DEF NoNewGhost
<1>2. CASE \E s \in Slots, n \in Nat :
             /\ n <= bag[p][s].count /\ bag[p][s].count # 0
             /\ bag'[p] = Take(bag[p], s, n)
  BY <1>0, <1>2, TakeKeeps
<1>3. CASE \E f \in Finds : bag'[p] = Put(bag[p], f[1], f[2])
  <2>1. PICK f \in Finds : bag'[p] = Put(bag[p], f[1], f[2])
    BY <1>3
  <2>2. f[1] \in Item /\ f[2] \in Nat /\ f[2] # 0
    OBVIOUS
  <2> QED
    BY <1>0, <2>1, <2>2, PutKeeps
<1>4. CASE bag'[p] = Returned(p)
  <2>1. bag'[p] = Fold("refund", bag[p], exchangeItems[p])
    BY <1>4, ReturnedIs
  <2>2. Fitted(bag[p], exchangeItems[p])
    BY UncutIs
  <2> QED
    BY <1>0, <2>1, <2>2, RefundGhosts
<1>5. CASE \E q \in Players : bag'[p] = Received(p, q)
  <2>1. PICK q \in Players : bag'[p] = Received(p, q)
    BY <1>5
  <2>2. bag'[p] = Fold("transfer", bag[p], exchangeItems[q])
    BY <2>1, ReceivedIs
  <2>3. \A k \in DOMAIN exchangeItems[q] : U16(exchangeItems[q][k].count) # 0
    BY UncutIs
  <2> QED
    BY <1>0, <2>2, <2>3, TransferGhosts
<1> QED
  BY <1>1, <1>2, <1>3, <1>4, <1>5 DEF Becomes

\* A slot with an item and no units comes only from a count that u16 cut: no other
\* deduction, refund, swap or reward leaves one (exchange_add, exchange_decide,
\* exchange_give_items_back), if no reward is one itself.
THEOREM GhostsComeFromCuts ==
  ASSUME \A f \in Finds : f[2] # 0
  PROVE  Spec => GhostsAreCuts
<1> DEFINE Only == (\A p \in Players : Uncut(p)) =>
                     \A p \in Players, s \in Slots : IsGhost(bag'[p][s]) => IsGhost(bag[p][s])
<1>1. ASSUME TypeOK, GoodsOK, [Next]_vars PROVE Only
  <2> SUFFICES ASSUME \A q \in Players : Uncut(q), NEW p \in Players PROVE NoNewGhost(bag[p], bag'[p])
    BY DEF NoNewGhost
  <2>1. Becomes(p)
    BY <1>1, BagSteps DEF GoodsOK
  <2> QED
    BY <1>1, <2>1, BecomesNoGhost
<1>2. TypeOK /\ GoodsOK /\ [Next]_vars => [Only]_vars
  BY <1>1
<1> QED
  BY <1>2, TypeCorrect, GoodsAlways, PTL DEF Spec, GhostsAreCuts

-----------------------------------------------------------------------------
(* Units of an item, in a bag and on offer.                                  *)

LEMMA HeldType == ASSUME NEW b \in Bag, NEW i PROVE Held(b, i) \in Nat
<1> DEFINE f == [x \in Slots |-> UnitsOf(b[x], i)]
<1>1. f \in [Slots -> Nat]
  BY StackIs DEF UnitsOf
<1>2. IsFiniteSet(Slots)
  BY FS_Interval DEF Slots
<1> HIDE DEF f
<1>3. SumFunction(f) \in Nat
  BY <1>1, <1>2, SumFunctionIs
<1> QED
  BY <1>3 DEF Held, f

LEMMA HeldChanges ==
  ASSUME NEW b \in Bag, NEW c \in Bag, NEW i, NEW s \in Slots, \A x \in Slots : x # s => c[x] = b[x]
  PROVE  Held(c, i) + UnitsOf(b[s], i) = Held(b, i) + UnitsOf(c[s], i)
<1> DEFINE f == [x \in Slots |-> UnitsOf(b[x], i)]
           g == [x \in Slots |-> UnitsOf(c[x], i)]
<1>1. f \in [Slots -> Nat] /\ g \in [Slots -> Nat]
  BY StackIs DEF UnitsOf
<1>2. f[s] = UnitsOf(b[s], i) /\ g[s] = UnitsOf(c[s], i) /\ \A x \in Slots : x # s => g[x] = f[x]
  OBVIOUS
<1>3. Held(b, i) = SumFunction(f) /\ Held(c, i) = SumFunction(g)
  BY DEF Held
<1>4. IsFiniteSet(Slots)
  BY FS_Interval DEF Slots
<1> HIDE DEF f, g
<1>5. SumFunction(g) + f[s] = SumFunction(f) + g[s]
  BY <1>1, <1>2, <1>4, OneChanges
<1> QED
  BY <1>2, <1>3, <1>5

UnitsAt(items, i) == [k \in DOMAIN items |-> UnitsOf(items[k], i)]
Offered(items, i) == SumFunction(UnitsAt(items, i))
\* Units among the first k entries.
Among(items, i, k) == Sum(UnitsAt(items, i), 1 .. k)

LEMMA UnitsAtIs ==
  ASSUME NEW items \in Seq(Entry), NEW i
  PROVE  /\ UnitsAt(items, i) \in [1 .. Len(items) -> Nat]
         /\ \A k \in 1 .. Len(items) : UnitsAt(items, i)[k] = UnitsOf(items[k], i) /\ UnitsOf(items[k], i) \in Nat
<1>1. \A k \in 1 .. Len(items) : UnitsOf(items[k], i) \in Nat
  BY EntryIs DEF UnitsOf
<1>2. DOMAIN items = 1 .. Len(items)
  OBVIOUS
<1> QED
  BY <1>1, <1>2 DEF UnitsAt

LEMMA AmongIs ==
  ASSUME NEW items \in Seq(Entry), NEW i
  PROVE  /\ Among(items, i, 0) = 0
         /\ \A k \in 1 .. Len(items) :
              /\ Among(items, i, k) = Among(items, i, k - 1) + UnitsOf(items[k], i)
              /\ Among(items, i, k - 1) \in Nat /\ UnitsOf(items[k], i) \in Nat
         /\ Among(items, i, Len(items)) = Offered(items, i)
         /\ Offered(items, i) \in Nat
<1> DEFINE f == UnitsAt(items, i)
<1>0. Len(items) \in Nat
  OBVIOUS
<1>1. f \in [1 .. Len(items) -> Nat] /\ \A k \in 1 .. Len(items) : f[k] = UnitsOf(items[k], i) /\ UnitsOf(items[k], i) \in Nat
  BY UnitsAtIs
<1> HIDE DEF f
<1>2. Sum(f, 1 .. 0) = 0
  <2>1. 1 .. 0 = {}
    OBVIOUS
  <2> QED
    BY <2>1, SumEmpty
<1>3. ASSUME NEW k \in 1 .. Len(items)
      PROVE  Sum(f, 1 .. k) = Sum(f, 1 .. (k - 1)) + f[k] /\ Sum(f, 1 .. (k - 1)) \in Nat
  <2> DEFINE S == 1 .. k
  <2>1. k \in Nat /\ k # 0
    BY <1>0
  <2>2. k \in S /\ S \ {k} = 1 .. (k - 1)
    BY <2>1, PrefixIs
  <2>3. IsFiniteSet(S)
    BY <2>1, FS_Interval
  <2>4. \A x \in S : x \in 1 .. Len(items)
    BY <1>0, <2>1
  <2>5. Counts(f, S)
    BY <1>1, <2>4 DEF Counts
  <2> HIDE DEF S
  <2>6. Sum(f, S) = f[k] + Sum(f, S \ {k}) /\ f[k] \in Nat /\ Sum(f, S \ {k}) \in Nat
    BY <2>2, <2>3, <2>5, SumSplit
  <2>7. Sum(f, 1 .. (k - 1)) = Sum(f, S \ {k})
    BY <2>2
  <2>8. Sum(f, 1 .. k) = Sum(f, S)
    BY DEF S
  <2> QED
    BY <2>6, <2>7, <2>8
<1>4. SumFunction(f) = Sum(f, 1 .. Len(items)) /\ SumFunction(f) \in Nat
  <2>1. IsFiniteSet(1 .. Len(items))
    BY <1>0, FS_Interval
  <2> DEFINE S == 1 .. Len(items)
  <2> HIDE DEF S
  <2> QED
    BY <1>1, <2>1, SumFunctionIs DEF S
<1> QED
  BY <1>1, <1>2, <1>3, <1>4 DEF Among, Offered, f

\* exchange_add moves units from the bag to the offer.
LEMMA TakeHeld ==
  ASSUME NEW b \in Bag, NEW s \in Slots, NEW n \in Nat, n <= b[s].count, NEW i, b[s].item \in Item
  PROVE  Held(Take(b, s, n), i) + (IF i = b[s].item THEN n ELSE 0) = Held(b, i)
<1> DEFINE c == Take(b, s, n)
<1>1. c \in Bag /\ \A x \in Slots : c[x] = IF x = s THEN Deduct(b[s], n) ELSE b[x]
  BY TakeKeeps
<1>2. b[s] \in Stack /\ b[s].count \in Nat /\ NoItem \notin Item
  BY StackIs DEF Item
<1>3. UnitsOf(Deduct(b[s], n), i) = UnitsOf(b[s], i) - (IF i = b[s].item THEN n ELSE 0)
  <2>1. CASE b[s].count = n
    <3>1. UnitsOf(Deduct(b[s], n), i) = 0
      BY <2>1 DEF Deduct, Empty, UnitsOf
    <3> QED
      BY <1>2, <2>1, <3>1 DEF UnitsOf
  <2>2. CASE b[s].count # n
    <3>1. Deduct(b[s], n) = [b[s] EXCEPT !.count = b[s].count - n]
      BY <2>2 DEF Deduct
    <3>2. Deduct(b[s], n).item = b[s].item /\ Deduct(b[s], n).count = b[s].count - n
      BY <1>2, <3>1 DEF Stack
    <3> QED
      BY <1>2, <3>2 DEF UnitsOf
  <2> QED
    BY <2>1, <2>2
<1>4. UnitsOf(b[s], i) \in Nat /\ (i = b[s].item => UnitsOf(b[s], i) >= n)
  BY <1>2 DEF UnitsOf
<1> HIDE DEF c
<1>5. Held(c, i) + UnitsOf(b[s], i) = Held(b, i) + UnitsOf(c[s], i)
  BY <1>1, HeldChanges
<1>6. c[s] = Deduct(b[s], n)
  BY <1>1
<1>7. Held(c, i) \in Nat /\ Held(b, i) \in Nat
  BY <1>1, HeldType
<1> DEFINE u == UnitsOf(b[s], i)
           v == UnitsOf(c[s], i)
           m == IF i = b[s].item THEN n ELSE 0
<1>8. m \in Nat /\ v = u - m /\ u \in Nat
  BY <1>3, <1>4, <1>6
<1>9. Held(c, i) + u = Held(b, i) + v
  BY <1>5
<1> HIDE DEF u, v, m
<1>10. Held(c, i) + m = Held(b, i)
  BY <1>7, <1>8, <1>9
<1> QED
  BY <1>10 DEF c, m

\* Entry m of the list has d more units of item j, and all others are the same.
GrowsBy(S, items, new, j, m, d) ==
  /\ IsFiniteSet(S) /\ m \in S /\ d \in Nat /\ DOMAIN items = S /\ DOMAIN new = S
  /\ \A k \in S : UnitsOf(items[k], j) \in Nat /\ UnitsOf(new[k], j) \in Nat
  /\ UnitsOf(new[m], j) = UnitsOf(items[m], j) + d
  /\ \A k \in S : k # m => new[k] = items[k]

LEMMA OfferGrows ==
  ASSUME NEW S, NEW items, NEW new, NEW j, NEW m, NEW d, GrowsBy(S, items, new, j, m, d)
  PROVE  Offered(new, j) = Offered(items, j) + d
<1> USE DEF GrowsBy
<1>2. PICK f : f = UnitsAt(items, j)
  OBVIOUS
<1>3. PICK g : g = UnitsAt(new, j)
  OBVIOUS
<1>6. f \in [S -> Nat] /\ \A k \in S : f[k] = UnitsOf(items[k], j)
  BY <1>2 DEF UnitsAt
<1>7. g \in [S -> Nat] /\ \A k \in S : g[k] = UnitsOf(new[k], j)
  BY <1>3 DEF UnitsAt
<1>8. g[m] = f[m] + d
  BY <1>6, <1>7
<1>9. \A k \in S : k # m => g[k] = f[k]
  BY <1>6, <1>7
<1>10. SumFunction(g) = SumFunction(f) + d
  <2>1. IsFiniteSet(S) /\ m \in S /\ d \in Nat
    OBVIOUS
  <2> QED
    BY <2>1, <1>6, <1>7, <1>8, <1>9, OneGrows
<1> QED
  BY <1>2, <1>3, <1>10 DEF Offered

LEMMA ListedOffered ==
  ASSUME NEW items \in Seq(Entry), NEW i \in Item, NEW n \in Nat, NEW s \in Slots, NEW j
  PROVE  Offered(Listed(items, i, n, s), j) = Offered(items, j) + (IF j = i THEN n ELSE 0)
<1> DEFINE new == Listed(items, i, n, s)
           f == UnitsAt(items, j)
           g == UnitsAt(new, j)
<1>0. new \in Seq(Entry) /\ Len(items) \in Nat /\ DOMAIN items = 1 .. Len(items)
  BY ListedCovers
<1>1. CASE \E m \in DOMAIN items : items[m].item = i /\ new = Raised(items, m, n)
  <2>1. PICK m \in DOMAIN items : items[m].item = i /\ new = Raised(items, m, n)
    BY <1>1
  <2> HIDE DEF new
  <2>2. /\ DOMAIN new = DOMAIN items /\ \A k \in DOMAIN items : k # m => new[k] = items[k]
        /\ new[m].item = i /\ new[m].count = items[m].count + n
    BY <2>1, RaisedIs
  <2>3. Len(new) = Len(items) /\ items[m].count \in Nat /\ m \in 1 .. Len(items)
    BY <1>0, <2>1, <2>2, EntryIs
  <2>4. UnitsOf(new[m], j) = UnitsOf(items[m], j) + (IF j = i THEN n ELSE 0)
    BY <2>1, <2>2, <2>3 DEF UnitsOf
  <2>5. \A k \in DOMAIN items : UnitsOf(items[k], j) \in Nat /\ UnitsOf(new[k], j) \in Nat
    <3>1. \A k \in DOMAIN items : items[k].count \in Nat /\ new[k].count \in Nat
      BY <1>0, <2>2, EntryIs
    <3> QED
      BY <3>1 DEF UnitsOf
  <2>6. IsFiniteSet(DOMAIN items)
    BY <1>0, FS_Interval
  <2> DEFINE d == IF j = i THEN n ELSE 0
  <2>7. d \in Nat /\ UnitsOf(new[m], j) = UnitsOf(items[m], j) + d
    BY <2>4
  <2> HIDE DEF d
  <2>8. Offered(new, j) = Offered(items, j) + d
    <3>1. GrowsBy(DOMAIN items, items, new, j, m, d)
      BY <2>2, <2>5, <2>6, <2>7 DEF GrowsBy
    <3> QED
      BY <3>1, OfferGrows
  <2> QED
    BY <2>8 DEF new, d
<1>2. CASE new = Append(items, [item |-> i, count |-> n, src |-> s])
  <2> DEFINE e == [item |-> i, count |-> n, src |-> s]
             L == Len(items) + 1
  <2>1. e \in Entry /\ e.item = i /\ e.count = n
    BY DEF Entry
  <2> HIDE DEF new, e
  <2>2. new = Append(items, e)
    BY <1>2 DEF e
  <2>3. Len(new) = L /\ new[L] = e /\ \A k \in 1 .. Len(items) : new[k] = items[k]
    BY <2>1, <2>2
  <2>4. L \in 1 .. Len(new) /\ L - 1 = Len(items)
    BY <1>0, <2>3
  <2>5. /\ Among(new, j, L) = Among(new, j, L - 1) + UnitsOf(new[L], j)
        /\ Among(new, j, L) = Offered(new, j)
    BY <1>0, <2>3, <2>4, AmongIs
  <2>6. Among(new, j, Len(items)) = Among(items, j, Len(items))
    <3>1. \A k \in 1 .. Len(items) : f[k] = UnitsOf(items[k], j)
      BY <1>0 DEF UnitsAt
    <3>2. \A k \in 1 .. Len(items) : k \in DOMAIN new
      BY <1>0, <2>3
    <3>3. \A k \in 1 .. Len(items) : g[k] = UnitsOf(new[k], j)
      BY <3>2 DEF UnitsAt
    <3>4. \A k \in 1 .. Len(items) : g[k] = f[k]
      BY <2>3, <3>1, <3>3
    <3>5. IsFiniteSet(1 .. Len(items))
      BY <1>0, FS_Interval
    <3> HIDE DEF f, g
    <3> QED
      BY <3>4, <3>5, SumSame DEF Among, f, g
  <2>7. Among(items, j, Len(items)) = Offered(items, j)
    BY AmongIs
  <2>8. UnitsOf(new[L], j) = IF j = i THEN n ELSE 0
    BY <2>1, <2>3 DEF UnitsOf
  <2> QED
    BY <2>4, <2>5, <2>6, <2>7, <2>8 DEF new
<1> QED
  BY <1>1, <1>2, ListedIs

LEMMA RestoreUnits ==
  ASSUME NEW stack \in Stack, NEW e \in Entry, NEW i \in Item,
         stack.item \in {NoItem, e.item}, stack.count + e.count <= StackMax
  PROVE  /\ UnitsOf(Restore(stack, e), i) = UnitsOf(stack, i) + UnitsOf(e, i)
         /\ UnitsOf(stack, i) \in Nat /\ UnitsOf(e, i) \in Nat
<1>1. stack.count \in Nat /\ e.count \in Nat /\ NoItem \notin Item /\ e.item \in Item
  BY DEF Stack, Entry, Item
<1>2. e.count < CountMod
  BY <1>1
<1>3. U16(e.count) = e.count
  BY <1>1, <1>2, U16Is
<1>4. UnitsOf(stack, i) \in Nat /\ UnitsOf(e, i) \in Nat
  BY <1>1 DEF UnitsOf
<1>5. CASE stack.item = e.item
  <2>1. Restore(stack, e).item = e.item /\ Restore(stack, e).count = Clamp(U16(stack.count + e.count), StackMax)
    BY <1>5, RestoreIs
  <2>2. Clamp(U16(stack.count + e.count), StackMax) = stack.count + e.count
    <3>1. stack.count + e.count \in Nat /\ stack.count + e.count < CountMod
      BY <1>1
    <3>2. U16(stack.count + e.count) = stack.count + e.count
      BY <3>1, U16Is
    <3> QED
      BY <1>1, <3>2 DEF Clamp
  <2> QED
    BY <1>1, <1>4, <1>5, <2>1, <2>2 DEF UnitsOf
<1>6. CASE stack.item = NoItem
  <2>1. Restore(stack, e) = [item |-> e.item, count |-> e.count]
    BY <1>3, <1>6, RestoreIs
  <2>2. Restore(stack, e).item = e.item /\ Restore(stack, e).count = e.count
    BY <2>1
  <2>3. UnitsOf(Restore(stack, e), i) = UnitsOf(e, i)
    BY <2>2 DEF UnitsOf
  <2>4. UnitsOf(stack, i) = 0
    BY <1>1, <1>6 DEF UnitsOf
  <2> QED
    BY <1>4, <2>3, <2>4
<1> QED
  BY <1>4, <1>5, <1>6

\* The refund of one entry that still fits.
LEMMA RefundOne ==
  ASSUME NEW b \in Bag, NEW e \in Entry, NEW i \in Item,
         b[e.src].item \in {NoItem, e.item}, b[e.src].count + e.count <= StackMax
  PROVE  Held(ReturnEntry(b, e), i) = Held(b, i) + UnitsOf(e, i)
<1> DEFINE s == e.src
           c == ReturnEntry(b, e)
<1>1. s \in Slots
  BY DEF Entry
<1>2. c \in Bag /\ \A x \in Slots : c[x] = IF x = s THEN Restore(b[x], e) ELSE b[x]
  BY RefundKeeps
<1>3. b[s] \in Stack
  BY <1>1, StackIs
<1>4. /\ UnitsOf(Restore(b[s], e), i) = UnitsOf(b[s], i) + UnitsOf(e, i)
      /\ UnitsOf(b[s], i) \in Nat /\ UnitsOf(e, i) \in Nat
  BY <1>3, RestoreUnits
<1> HIDE DEF c, s
<1>5. c[s] = Restore(b[s], e)
  BY <1>1, <1>2
<1>6. Held(c, i) + UnitsOf(b[s], i) = Held(b, i) + UnitsOf(c[s], i)
  BY <1>1, <1>2, HeldChanges
<1>7. Held(c, i) \in Nat /\ Held(b, i) \in Nat
  BY <1>2, HeldType
<1>8. Held(c, i) = Held(b, i) + UnitsOf(e, i)
  <2>1. \A x, y, u, v \in Nat : x + u = y + (u + v) => x = y + v
    OBVIOUS
  <2>2. Held(c, i) + UnitsOf(b[s], i) = Held(b, i) + (UnitsOf(b[s], i) + UnitsOf(e, i))
    BY <1>4, <1>5, <1>6
  <2>3. PICK x \in Nat : x = Held(c, i)
    BY <1>7
  <2>4. PICK y \in Nat : y = Held(b, i)
    BY <1>7
  <2>5. PICK u \in Nat : u = UnitsOf(b[s], i)
    BY <1>4
  <2>6. PICK v \in Nat : v = UnitsOf(e, i)
    BY <1>4
  <2>7. x = y + v
    BY <2>1, <2>2, <2>3, <2>4, <2>5, <2>6
  <2> QED
    BY <2>3, <2>4, <2>6, <2>7
<1> QED
  BY <1>8 DEF c

\* Every entry finds its own source slot empty or with room for it.
Refundable(b, items) ==
  /\ \A k \in 1 .. Len(items) :
       /\ b[items[k].src].item \in {NoItem, items[k].item}
       /\ b[items[k].src].count + items[k].count <= StackMax
  /\ \A j, k \in 1 .. Len(items) : items[j].src = items[k].src => j = k

LEMMA RefundHeld ==
  ASSUME NEW b \in Bag, NEW items \in Seq(Entry), NEW i \in Item, Refundable(b, items)
  PROVE  Held(Fold("refund", b, items), i) = Held(b, i) + Offered(items, i)
<1> DEFINE Later(c, k) == \A m \in 1 .. Len(items) : m > k => c[items[m].src] = b[items[m].src]
           D == [k \in 0 .. Len(items) |-> {c \in Bag : Held(c, i) = Held(b, i) + Among(items, i, k) /\ Later(c, k)}]
<1>0. Len(items) \in Nat /\ \A k \in 1 .. Len(items) : items[k] \in Entry
  OBVIOUS
<1>1. b \in D[0]
  <2>1. Among(items, i, 0) = 0 /\ Held(b, i) \in Nat
    BY AmongIs, HeldType
  <2> QED
    BY <1>0, <2>1
<1>2. ASSUME NEW k \in 1 .. Len(items), NEW c \in D[k - 1] PROVE Moved("refund", c, items[k]) \in D[k]
  <2> DEFINE e == items[k]
             d == ReturnEntry(c, e)
  <2>1. k \in 0 .. Len(items) /\ k - 1 \in 0 .. Len(items) /\ k > k - 1 /\ k \in Nat
    BY <1>0
  <2>2. c \in Bag /\ Held(c, i) = Held(b, i) + Among(items, i, k - 1) /\ Later(c, k - 1) /\ e \in Entry
    BY <1>0, <2>1
  <2>3. c[e.src] = b[e.src]
    BY <2>1, <2>2
  <2>4. b[e.src].item \in {NoItem, e.item} /\ b[e.src].count + e.count <= StackMax
    BY DEF Refundable
  <2>5. Held(d, i) = Held(c, i) + UnitsOf(e, i)
    BY <2>2, <2>3, <2>4, RefundOne
  <2>6. d \in Bag /\ \A x \in Slots : x # e.src => d[x] = c[x]
    <3> HIDE DEF e
    <3>1. c \in Bag /\ e \in Entry
      BY <2>2
    <3>2. d \in Bag /\ \A x \in Slots : d[x] = IF x = e.src THEN Restore(c[x], e) ELSE c[x]
      BY <3>1, RefundKeeps
    <3> QED
      BY <3>2
  <2>7. Later(d, k)
    <3> SUFFICES ASSUME NEW m \in 1 .. Len(items), m > k PROVE d[items[m].src] = b[items[m].src]
      OBVIOUS
    <3>1. items[m].src # e.src /\ m > k - 1
      BY <2>1 DEF Refundable
    <3>2. items[m].src \in Slots
      BY <1>0 DEF Entry
    <3> QED
      BY <2>2, <2>6, <3>1, <3>2
  <2>8. Among(items, i, k) = Among(items, i, k - 1) + UnitsOf(e, i) /\ Among(items, i, k - 1) \in Nat /\ UnitsOf(e, i) \in Nat
    BY AmongIs
  <2>9. Held(d, i) = Held(b, i) + Among(items, i, k)
    <3>1. Held(b, i) \in Nat
      BY HeldType
    <3> HIDE DEF d, e
    <3> QED
      BY <2>2, <2>5, <2>8, <3>1
  <2>10. Moved("refund", c, e) = d
    BY DEF Moved
  <2>11. d \in D[k]
    <3> HIDE DEF d
    <3> QED
      BY <2>1, <2>6, <2>7, <2>9
  <2> QED
    BY <2>10, <2>11
<1>3. \A c \in D[Len(items)] : Held(c, i) = Held(b, i) + Among(items, i, Len(items))
  BY <1>0
<1> HIDE DEF D
<1>4. Fold("refund", b, items) \in D[Len(items)]
  BY <1>1, <1>2, FoldRule
<1> QED
  BY <1>3, <1>4, AmongIs

\* give one entry to a bag that has a free slot left.
LEMMA PutOne ==
  ASSUME NEW b \in Bag, Tidy(b), NEW e \in Entry, NEW i \in Item,
         FreeSlots(b) # {}, e.count <= StackMax, e.item \in Single => e.count = 1
  PROVE  /\ Held(PutEntry(b, e), i) = Held(b, i) + UnitsOf(e, i)
         /\ Cardinality(FreeSlots(b)) \in Nat /\ Cardinality(FreeSlots(PutEntry(b, e))) \in Nat
         /\ Cardinality(FreeSlots(PutEntry(b, e))) + 1 >= Cardinality(FreeSlots(b))
<1> DEFINE n == e.count
           c == Put(b, e.item, n)
<1>1. n \in Nat /\ e.item \in Item /\ NoItem \notin Item /\ n < CountMod
  BY DEF Entry, Item
<1>2. PutEntry(b, e) = c
  <2>1. U16(e.count) = e.count
    BY <1>1, U16Is
  <2> QED
    BY <2>1 DEF PutEntry
<1>3. PICK m \in Slots :
        /\ FindSlot(b, e.item, n) = {m}
        /\ \/ m \in FreeSlots(b)
           \/ e.item \in Countable /\ b[m].item = e.item /\ b[m].count + n <= StackMax
  <2>1. PICK x : x = e.item
    OBVIOUS
  <2>2. \/ FindSlot(b, x, n) = {} /\ FreeSlots(b) = {}
        \/ \E m \in Slots :
             /\ FindSlot(b, x, n) = {m}
             /\ \/ m \in FreeSlots(b)
                \/ x \in Countable /\ b[m].item = x /\ b[m].count + n <= StackMax
    BY FoundSlot
  <2> QED
    BY <2>1, <2>2
<1>4. c \in Bag
  BY <1>1, PutKeeps
<1>5. c[m] = Receive(b[m], e.item, n) /\ \A x \in Slots : x # m => c[x] = b[x]
  BY <1>3 DEF Put
<1>6. b[m].count \in Nat
  BY StackIs
<1>7. UnitsOf(c[m], i) = UnitsOf(b[m], i) + UnitsOf(e, i) /\ UnitsOf(b[m], i) \in Nat /\ UnitsOf(e, i) \in Nat
  <2>1. c[m].item = e.item /\ c[m].count = IF e.item \in Single THEN 1 ELSE Clamp(b[m].count + n, StackMax)
    BY <1>5 DEF Receive
  <2>2. CASE b[m].item = NoItem
    <3>1. b[m].count = 0
      BY <2>2 DEF Tidy
    <3>2. c[m].count = n
      BY <1>1, <2>1, <3>1 DEF Clamp
    <3> QED
      BY <1>1, <1>6, <2>1, <2>2, <3>2 DEF UnitsOf
  <2>3. CASE b[m].item # NoItem
    <3>1. e.item \in Countable /\ b[m].item = e.item /\ b[m].count + n <= StackMax
      BY <1>3, <2>3 DEF FreeSlots
    <3>2. e.item \notin Single
      BY <3>1
    <3>3. c[m].count = b[m].count + n
      BY <1>1, <1>6, <2>1, <3>1, <3>2 DEF Clamp
    <3> QED
      BY <1>1, <1>6, <2>1, <3>1, <3>3 DEF UnitsOf
  <2> QED
    BY <2>2, <2>3
<1>8. FreeSlots(c) = FreeSlots(b) \ {m}
  <2>1. c[m].item = e.item /\ e.item # NoItem
    BY <1>1, <1>5 DEF Receive
  <2> HIDE DEF c
  <2> QED
    BY <1>5, <2>1 DEF FreeSlots
<1>9. IsFiniteSet(FreeSlots(b))
  <2>1. IsFiniteSet(Slots)
    BY FS_Interval DEF Slots
  <2>2. FreeSlots(b) \subseteq Slots
    BY DEF FreeSlots
  <2> QED
    BY <2>1, <2>2, FS_Subset
<1> HIDE DEF c, n
<1>10. /\ Cardinality(FreeSlots(b)) \in Nat /\ Cardinality(FreeSlots(c)) \in Nat
       /\ Cardinality(FreeSlots(c)) + 1 >= Cardinality(FreeSlots(b))
  <2>1. Cardinality(FreeSlots(b)) \in Nat
    BY <1>9, FS_CardinalityType
  <2>2. CASE m \in FreeSlots(b)
    <3>1. Cardinality(FreeSlots(b) \ {m}) = Cardinality(FreeSlots(b)) - 1
      BY <1>9, <2>2, FS_RemoveElement
    <3>2. IsFiniteSet(FreeSlots(b) \ {m})
      BY <1>9, FS_RemoveElement
    <3>3. Cardinality(FreeSlots(b) \ {m}) \in Nat
      BY <3>2, FS_CardinalityType
    <3> QED
      BY <1>8, <2>1, <3>1, <3>3
  <2>3. CASE m \notin FreeSlots(b)
    <3>1. FreeSlots(c) = FreeSlots(b)
      BY <1>8, <2>3
    <3> QED
      BY <2>1, <3>1
  <2> QED
    BY <2>2, <2>3
<1>11. Held(c, i) = Held(b, i) + UnitsOf(e, i)
  <2>1. Held(c, i) + UnitsOf(b[m], i) = Held(b, i) + UnitsOf(c[m], i)
    BY <1>4, <1>5, HeldChanges
  <2>2. Held(c, i) \in Nat /\ Held(b, i) \in Nat
    BY <1>4, HeldType
  <2>3. \A x, y, u, v \in Nat : x + u = y + (u + v) => x = y + v
    OBVIOUS
  <2>4. Held(c, i) + UnitsOf(b[m], i) = Held(b, i) + (UnitsOf(b[m], i) + UnitsOf(e, i))
    BY <1>7, <2>1
  <2> QED
    BY <1>7, <2>2, <2>3, <2>4
<1> QED
  BY <1>2, <1>10, <1>11

\* Goods that can be handed over one by one: as many free slots as entries.
Movable(b, items) ==
  /\ Len(items) <= Cardinality(FreeSlots(b))
  /\ \A k \in 1 .. Len(items) :
       items[k].count <= StackMax /\ (items[k].item \in Single => items[k].count = 1)

LEMMA TransferHeld ==
  ASSUME NEW b \in Bag, Tidy(b), NEW items \in Seq(Entry), NEW i \in Item, Movable(b, items)
  PROVE  Held(Fold("transfer", b, items), i) = Held(b, i) + Offered(items, i)
<1> DEFINE Room(c, k) == Cardinality(FreeSlots(c)) \in Nat /\ Cardinality(FreeSlots(c)) + k >= Len(items)
           D == [k \in 0 .. Len(items) |->
                   {c \in Bag : Tidy(c) /\ Held(c, i) = Held(b, i) + Among(items, i, k) /\ Room(c, k)}]
<1>0. Len(items) \in Nat /\ \A k \in 1 .. Len(items) : items[k] \in Entry
  OBVIOUS
<1>1. b \in D[0]
  <2>1. Among(items, i, 0) = 0 /\ Held(b, i) \in Nat
    BY AmongIs, HeldType
  <2>2. IsFiniteSet(FreeSlots(b))
    <3>1. IsFiniteSet(Slots)
      BY FS_Interval DEF Slots
    <3>2. FreeSlots(b) \subseteq Slots
      BY DEF FreeSlots
    <3> QED
      BY <3>1, <3>2, FS_Subset
  <2>3. Cardinality(FreeSlots(b)) \in Nat
    BY <2>2, FS_CardinalityType
  <2>4. Room(b, 0)
    BY <1>0, <2>3 DEF Movable
  <2> HIDE DEF Room
  <2> QED
    BY <1>0, <2>1, <2>4
<1>2. ASSUME NEW k \in 1 .. Len(items), NEW c \in D[k - 1] PROVE Moved("transfer", c, items[k]) \in D[k]
  <2> DEFINE e == items[k]
             d == PutEntry(c, e)
  <2>1. k \in 0 .. Len(items) /\ k - 1 \in 0 .. Len(items) /\ k > k - 1 /\ k \in Nat
    BY <1>0
  <2>2. c \in Bag /\ Tidy(c) /\ Held(c, i) = Held(b, i) + Among(items, i, k - 1) /\ Room(c, k - 1) /\ e \in Entry
    BY <1>0, <2>1
  <2>3. FreeSlots(c) # {}
    <3>1. Cardinality(FreeSlots(c)) # 0
      BY <1>0, <2>1, <2>2
    <3> QED
      BY <3>1, FS_EmptySet
  <2>4. e.count <= StackMax /\ (e.item \in Single => e.count = 1)
    BY DEF Movable
  <2>5. /\ Held(d, i) = Held(c, i) + UnitsOf(e, i)
        /\ Cardinality(FreeSlots(c)) \in Nat /\ Cardinality(FreeSlots(d)) \in Nat
        /\ Cardinality(FreeSlots(d)) + 1 >= Cardinality(FreeSlots(c))
    BY <2>2, <2>3, <2>4, PutOne
  <2>6. d \in Bag /\ Tidy(d) /\ d = Moved("transfer", c, e)
    <3>1. d = Moved("transfer", c, e)
      BY DEF Moved
    <3> HIDE DEF d, e
    <3> QED
      BY <2>2, <3>1, MovedKeeps
  <2>7. Room(d, k)
    <3>1. Cardinality(FreeSlots(c)) + (k - 1) >= Len(items)
      BY <2>2
    <3> HIDE DEF d, e
    <3> QED
      BY <1>0, <2>1, <2>5, <3>1
  <2>8. Among(items, i, k) = Among(items, i, k - 1) + UnitsOf(e, i) /\ Among(items, i, k - 1) \in Nat /\ UnitsOf(e, i) \in Nat
    BY AmongIs
  <2>9. Held(d, i) = Held(b, i) + Among(items, i, k)
    <3>1. Held(b, i) \in Nat
      BY HeldType
    <3> HIDE DEF d, e
    <3> QED
      BY <2>2, <2>5, <2>8, <3>1
  <2>11. d \in D[k]
    <3> HIDE DEF d, Room
    <3> QED
      BY <2>1, <2>6, <2>7, <2>9
  <2> QED
    BY <2>6, <2>11
<1>3. \A c \in D[Len(items)] : Held(c, i) = Held(b, i) + Among(items, i, Len(items))
  BY <1>0
<1> HIDE DEF D
<1>4. Fold("transfer", b, items) \in D[Len(items)]
  BY <1>1, <1>2, FoldRule
<1> QED
  BY <1>3, <1>4, AmongIs

-----------------------------------------------------------------------------
(* No handler of the exchange makes or loses an item.                        *)

\* Units a player owns, in the bag and on offer.
Owned(p, i) == Held(bag[p], i) + OnOffer(p, i)

LEMMA OwnedIs ==
  ASSUME GoodsOK, NEW p \in Players, NEW i
  PROVE  /\ Owned(p, i) = Held(bag[p], i) + Offered(exchangeItems[p], i)
         /\ Held(bag[p], i) \in Nat /\ Offered(exchangeItems[p], i) \in Nat
<1>1. bag[p] \in Bag /\ exchangeItems[p] \in Seq(Entry)
  BY DEF GoodsOK, Bagged, Offering
<1>2. Held(bag[p], i) \in Nat
  BY <1>1, HeldType
<1>3. Offered(exchangeItems[p], i) \in Nat
  BY <1>1, AmongIs
<1>4. Owned(p, i) = Held(bag[p], i) + Offered(exchangeItems[p], i)
  BY DEF Owned, OnOffer, Offered, UnitsAt
<1> QED
  BY <1>2, <1>3, <1>4

LEMMA NothingOffered == \A i : Offered(<<>>, i) = 0
<1> SUFFICES ASSUME NEW i PROVE Offered(<<>>, i) = 0
  OBVIOUS
<1>1. <<>> \in Seq(Entry) /\ Len(<<>>) = 0
  OBVIOUS
<1> QED
  BY <1>1, AmongIs

LEMMA WorldIs ==
  ASSUME GoodsOK, NEW i
  PROVE  /\ InWorld(i) = SumFunction([p \in Players |-> Owned(p, i)])
         /\ [p \in Players |-> Owned(p, i)] \in [Players -> Nat]
<1>1. \A p \in Players : Owned(p, i) \in Nat
  BY OwnedIs
<1> QED
  BY <1>1 DEF InWorld, Owned

LEMMA SameWorld ==
  ASSUME NEW i, \A p \in Players : Owned(p, i)' = Owned(p, i)
  PROVE  InWorld(i)' = InWorld(i)
<1>1. [p \in Players |-> Owned(p, i)'] = [p \in Players |-> Owned(p, i)]
  OBVIOUS
<1> QED
  BY <1>1 DEF InWorld, Owned

\* What p and q own together is divided anew.
LEMMA TwoOwners ==
  ASSUME GoodsOK, GoodsOK', NEW i, NEW p \in Players, NEW q \in Players, p # q,
         Owned(p, i)' + Owned(q, i)' = Owned(p, i) + Owned(q, i),
         \A r \in Players : r # p /\ r # q => Owned(r, i)' = Owned(r, i)
  PROVE  InWorld(i)' = InWorld(i)
<1>1. PICK f : f = [r \in Players |-> Owned(r, i)]
  OBVIOUS
<1>2. PICK g : g = [r \in Players |-> Owned(r, i)']
  OBVIOUS
<1>3. InWorld(i) = SumFunction(f) /\ f \in [Players -> Nat]
  BY <1>1, WorldIs
<1>4. InWorld(i)' = SumFunction(g) /\ g \in [Players -> Nat]
  <2>1. ASSUME NEW r \in Players PROVE Owned(r, i)' \in Nat
    <3>1. bag'[r] \in Bag /\ exchangeItems'[r] \in Seq(Entry)
      BY DEF GoodsOK, Bagged, Offering
    <3>2. Held(bag'[r], i) \in Nat
      BY <3>1, HeldType
    <3>3. Offered(exchangeItems'[r], i) \in Nat
      BY <3>1, AmongIs
    <3>4. Owned(r, i)' = Held(bag'[r], i) + Offered(exchangeItems'[r], i)
      BY DEF Owned, OnOffer, Offered, UnitsAt
    <3> QED
      BY <3>2, <3>3, <3>4
  <2>2. InWorld(i)' = SumFunction([r \in Players |-> Owned(r, i)'])
    BY DEF InWorld, Owned
  <2> QED
    BY <1>2, <2>1, <2>2
<1>5. /\ f[p] = Owned(p, i) /\ f[q] = Owned(q, i) /\ g[p] = Owned(p, i)' /\ g[q] = Owned(q, i)'
      /\ \A r \in Players : r # p /\ r # q => g[r] = f[r]
  BY <1>1, <1>2
<1>6. IsFiniteSet(Players)
  OBVIOUS
<1>7. Redivided(Players, f, g, p, q)
  BY <1>3, <1>4, <1>5 DEF Redivided
<1>8. SumFunction(g) = SumFunction(f)
  BY <1>6, <1>7, TwoBalance
<1> QED
  BY <1>3, <1>4, <1>8

LEMMA ReturnableIs ==
  ASSUME GoodsOK, NEW p \in Players, Returnable(p)
  PROVE  /\ Refundable(bag[p], exchangeItems[p])
         /\ \A k \in 1 .. Len(exchangeItems[p]) :
              /\ exchangeItems[p][k].count <= StackMax
              /\ exchangeItems[p][k].item \in Single => exchangeItems[p][k].count = 1
<1>1. exchangeItems[p] \in Seq(Entry) /\ bag[p] \in Bag
  BY DEF GoodsOK, Bagged, Offering
<1>2. DOMAIN exchangeItems[p] = 1 .. Len(exchangeItems[p])
  BY <1>1
<1>3. Refundable(bag[p], exchangeItems[p])
  BY <1>2 DEF Returnable, Refundable
<1>4. ASSUME NEW k \in 1 .. Len(exchangeItems[p])
      PROVE  /\ exchangeItems[p][k].count <= StackMax
             /\ exchangeItems[p][k].item \in Single => exchangeItems[p][k].count = 1
  <2> DEFINE e == exchangeItems[p][k]
  <2>1. e \in Entry /\ e.count \in Nat
    BY <1>1, <1>2, EntryIs
  <2>2. e.src \in Slots
    BY <2>1 DEF Entry
  <2>3. bag[p][e.src].count \in Nat
    BY <1>1, <2>2, StackIs
  <2>4. bag[p][e.src].count + e.count <= StackMax /\ (e.item \in Single => e.count = 1)
    BY <1>2 DEF Returnable
  <2> HIDE DEF e
  <2>5. e.count <= StackMax
    BY <2>1, <2>3, <2>4
  <2> QED
    BY <2>4, <2>5 DEF e
<1> QED
  BY <1>3, <1>4

\* A cancel, or a swap that a check refuses.
LEMMA RefundKeepsItems ==
  ASSUME GoodsOK, GoodsOK', \A p \in Players : Returnable(p),
         NEW P, GiveItemsBack(P), ResetTrade(P), NEW i \in Item
  PROVE  InWorld(i)' = InWorld(i)
<1>1. ASSUME NEW p \in Players PROVE Owned(p, i)' = Owned(p, i)
  <2>0. bag[p] \in Bag /\ exchangeItems[p] \in Seq(Entry)
    BY DEF GoodsOK, Bagged, Offering
  <2>1. Owned(p, i) = Held(bag[p], i) + Offered(exchangeItems[p], i) /\ Held(bag[p], i) \in Nat /\ Offered(exchangeItems[p], i) \in Nat
    BY OwnedIs
  <2>2. Owned(p, i)' = Held(bag'[p], i) + Offered(exchangeItems'[p], i)
    BY DEF Owned, OnOffer, Offered, UnitsAt
  <2>3. CASE p \in P
    <3>1. bag'[p] = Returned(p) /\ exchangeItems'[p] = <<>>
      BY <2>3 DEF GiveItemsBack, ResetTrade
    <3>2. bag'[p] = Fold("refund", bag[p], exchangeItems[p])
      BY <3>1, ReturnedIs
    <3>3. Refundable(bag[p], exchangeItems[p])
      BY ReturnableIs
    <3>4. Held(bag'[p], i) = Held(bag[p], i) + Offered(exchangeItems[p], i)
      BY <2>0, <3>2, <3>3, RefundHeld
    <3>5. Offered(exchangeItems'[p], i) = 0
      BY <3>1, NothingOffered
    <3> QED
      BY <2>1, <2>2, <3>4, <3>5
  <2>4. CASE p \notin P
    <3>1. bag'[p] = bag[p] /\ exchangeItems'[p] = exchangeItems[p]
      BY <2>4 DEF GiveItemsBack, ResetTrade
    <3> QED
      BY <2>1, <2>2, <3>1
  <2> QED
    BY <2>3, <2>4
<1> QED
  BY <1>1, SameWorld

\* A swap both decided on.
LEMMA ExecuteKeepsItems ==
  ASSUME Inv, GoodsOK, GoodsOK', AllTidy, \A p \in Players : Returnable(p),
         NEW p \in Players, Execute(p), NEW i \in Item
  PROVE  InWorld(i)' = InWorld(i)
<1>1. PICK q \in Players : q = exchangeUser[p] /\ q # p /\ ResetTrade({p, q})
  BY ExecuteGold
<1>2. CanReceive(p, q) /\ CanReceive(q, p) /\ bag' = [bag EXCEPT ![p] = Received(p, q), ![q] = Received(q, p)]
  BY <1>1 DEF Execute, CanExecute
<1>3. bag'[p] = Received(p, q) /\ bag'[q] = Received(q, p) /\ \A r \in Players : r # p /\ r # q => bag'[r] = bag[r]
  BY <1>1, <1>2 DEF GoodsOK, Bagged
<1>4. /\ exchangeItems'[p] = <<>> /\ exchangeItems'[q] = <<>>
      /\ \A r \in Players : r # p /\ r # q => exchangeItems'[r] = exchangeItems[r]
  BY <1>1 DEF ResetTrade
<1>5. ASSUME NEW r \in Players
      PROVE  /\ Owned(r, i) = Held(bag[r], i) + Offered(exchangeItems[r], i)
             /\ Held(bag[r], i) \in Nat /\ Offered(exchangeItems[r], i) \in Nat
             /\ Owned(r, i)' = Held(bag'[r], i) + Offered(exchangeItems'[r], i)
  <2>1. Owned(r, i)' = Held(bag'[r], i) + Offered(exchangeItems'[r], i)
    BY DEF Owned, OnOffer, Offered, UnitsAt
  <2> QED
    BY <2>1, OwnedIs
<1>6. ASSUME NEW a \in Players, NEW b \in Players, CanReceive(a, b)
      PROVE  Held(Received(a, b), i) = Held(bag[a], i) + Offered(exchangeItems[b], i)
  <2>1. bag[a] \in Bag /\ exchangeItems[b] \in Seq(Entry) /\ Tidy(bag[a])
    BY DEF GoodsOK, Bagged, Offering, AllTidy
  <2>2. Len(exchangeItems[b]) <= Cardinality(FreeSlots(bag[a]))
    BY <1>6 DEF CanReceive
  <2>3. Movable(bag[a], exchangeItems[b])
    BY <2>2, ReturnableIs DEF Movable
  <2>4. Received(a, b) = Fold("transfer", bag[a], exchangeItems[b])
    BY ReceivedIs
  <2> QED
    BY <2>1, <2>3, <2>4, TransferHeld
<1>7. /\ Held(bag'[p], i) = Held(bag[p], i) + Offered(exchangeItems[q], i)
      /\ Held(bag'[q], i) = Held(bag[q], i) + Offered(exchangeItems[p], i)
  BY <1>2, <1>3, <1>6
<1>8. Offered(exchangeItems'[p], i) = 0 /\ Offered(exchangeItems'[q], i) = 0
  BY <1>4, NothingOffered
<1>9. Owned(p, i)' + Owned(q, i)' = Owned(p, i) + Owned(q, i)
  BY <1>5, <1>7, <1>8
<1>10. \A r \in Players : r # p /\ r # q => Owned(r, i)' = Owned(r, i)
  BY <1>3, <1>4, <1>5
<1> QED
  BY <1>1, <1>9, <1>10, TwoOwners

\* A count that the list still holds uncut was not cut by the request.
LEMMA ListedUncut ==
  ASSUME NEW items \in Seq(Entry), NEW i \in Item, NEW n \in Nat, NEW s \in Slots,
         \A k \in DOMAIN Listed(items, i, n, s) : Listed(items, i, n, s)[k].count < CountMod
  PROVE  U16(n) = n
<1> DEFINE new == Listed(items, i, n, s)
<1>1. CASE \E m \in DOMAIN items : new = Raised(items, m, n)
  <2>1. PICK m \in DOMAIN items : new = Raised(items, m, n)
    BY <1>1
  <2>2. DOMAIN new = DOMAIN items /\ new[m].count = items[m].count + n
    BY <2>1, RaisedIs
  <2>3. items[m].count \in Nat
    BY EntryIs
  <2>4. items[m].count + n < CountMod
    BY <2>2
  <2>5. n < CountMod
    BY <2>3, <2>4
  <2> QED
    BY <2>5, U16Is
<1>2. CASE new = Append(items, [item |-> i, count |-> n, src |-> s])
  <2> DEFINE e == [item |-> i, count |-> n, src |-> s]
  <2>1. e \in Entry /\ e.count = n
    BY DEF Entry
  <2> HIDE DEF e
  <2>2. Len(items) + 1 \in DOMAIN Append(items, e) /\ Append(items, e)[Len(items) + 1] = e
    BY <2>1
  <2>3. n < CountMod
    BY <1>2, <2>1, <2>2 DEF e
  <2> QED
    BY <2>3, U16Is
<1>3. (\E m \in DOMAIN items : new = Raised(items, m, n)) \/ new = Append(items, [item |-> i, count |-> n, src |-> s])
  BY ListedIs
<1> HIDE DEF new
<1> QED
  BY <1>1, <1>2, <1>3

\* What goes on offer leaves the bag.
LEMMA AddKeepsItems ==
  ASSUME GoodsOK, GoodsOK', NEW p \in Players, NEW s \in Slots, NEW n \in Nat, AddItem(p, s, n),
         Fits(p)', NEW i \in Item
  PROVE  InWorld(i)' = InWorld(i)
<1>1. PICK x : x = bag[p][s].item
  OBVIOUS
<1>2. PICK d : d = IF i = x THEN n ELSE 0
  OBVIOUS
<1>0. x \in Item /\ d \in Nat /\ bag[p] \in Bag /\ exchangeItems[p] \in Seq(Entry)
  BY <1>1, <1>2 DEF AddItem, GoodsOK, Bagged, Offering
<1>a. exchangeItems' = [exchangeItems EXCEPT ![p] = Listed(exchangeItems[p], x, n, s)]
  BY <1>1 DEF AddItem
<1>b. U16(n) = n
  <2>1. exchangeItems'[p] = Listed(exchangeItems[p], x, n, s)
    BY <1>a DEF GoodsOK, Offering
  <2>2. \A k \in DOMAIN Listed(exchangeItems[p], x, n, s) : Listed(exchangeItems[p], x, n, s)[k].count < CountMod
    BY <2>1 DEF Fits
  <2> QED
    BY <1>0, <2>2, ListedUncut
<1>3. /\ x \in Item /\ n \in Nat /\ d \in Nat /\ n <= bag[p][s].count
      /\ bag[p] \in Bag /\ exchangeItems[p] \in Seq(Entry)
  BY <1>0, <1>b DEF AddItem
<1>4. /\ bag' = [bag EXCEPT ![p] = Take(bag[p], s, n)]
      /\ exchangeItems' = [exchangeItems EXCEPT ![p] = Listed(exchangeItems[p], x, n, s)]
  BY <1>a, <1>b DEF AddItem
<1>5. Held(Take(bag[p], s, n), i) + d = Held(bag[p], i)
  BY <1>1, <1>2, <1>3, TakeHeld
<1>6. Offered(Listed(exchangeItems[p], x, n, s), i) = Offered(exchangeItems[p], i) + d
  BY <1>2, <1>3, ListedOffered
<1>7. ASSUME NEW r \in Players PROVE Owned(r, i)' = Owned(r, i)
  <2>1. Owned(r, i) = Held(bag[r], i) + Offered(exchangeItems[r], i) /\ Held(bag[r], i) \in Nat /\ Offered(exchangeItems[r], i) \in Nat
    BY OwnedIs
  <2>2. Owned(r, i)' = Held(bag'[r], i) + Offered(exchangeItems'[r], i)
    BY DEF Owned, OnOffer, Offered, UnitsAt
  <2>3. CASE r = p
    <3>1. bag'[p] = Take(bag[p], s, n) /\ exchangeItems'[p] = Listed(exchangeItems[p], x, n, s)
      BY <1>4 DEF GoodsOK, Bagged, Offering
    <3>2. Take(bag[p], s, n) \in Bag
      BY <1>3, TakeKeeps
    <3>3. Held(Take(bag[p], s, n), i) \in Nat
      BY <3>2, HeldType
    <3> QED
      BY <1>3, <1>5, <1>6, <2>1, <2>2, <2>3, <3>1, <3>3
  <2>4. CASE r # p
    <3>1. bag'[r] = bag[r] /\ exchangeItems'[r] = exchangeItems[r]
      BY <1>4, <2>4 DEF GoodsOK, Bagged, Offering
    <3> QED
      BY <2>1, <2>2, <3>1
  <2> QED
    BY <2>3, <2>4
<1> QED
  BY <1>7, SameWorld

\* A refused request has nothing on offer yet.
LEMMA DeclineKeepsItems ==
  ASSUME Inv, NEW p \in Players, Decline(p), NEW i \in Item
  PROVE  InWorld(i)' = InWorld(i)
<1>1. PICK q : q = exchangeUser[p]
  OBVIOUS
<1>2. /\ q \in Players /\ tradeState[p] = "target" /\ ResetTrade({p, q}) /\ UNCHANGED bag
  BY <1>1 DEF Decline, Answering, IsTrading, goods, Inv, TypeOK
<1>3. exchangeItems[q] = <<>>
  <2>1. CASE Present(q)
    <3>1. <<tradeState[p], tradeState[q]>> \in Pairs
      BY <1>1, <1>2, <2>1 DEF Inv, Linked
    <3>2. tradeState[q] \notin {"trading", "deciding"}
      BY <1>2, <3>1 DEF Pairs
    <3> QED
      BY <1>2, <3>2 DEF Inv, OffersBelongToTrade
  <2>2. CASE ~Present(q)
    <3>1. tradeState[q] \in {"none", "target"}
      BY <1>2, <2>2 DEF Inv, Linked, Present
    <3> QED
      BY <1>2, <3>1 DEF Inv, OffersBelongToTrade
  <2> QED
    BY <2>1, <2>2
<1>4. exchangeItems[p] = <<>> /\ exchangeItems[q] = <<>>
  BY <1>2, <1>3 DEF Inv, OffersBelongToTrade
<1>5. \A r \in Players : bag'[r] = bag[r] /\ exchangeItems'[r] = exchangeItems[r]
  BY <1>2, <1>4 DEF ResetTrade
<1>6. \A r \in Players : Owned(r, i)' = Owned(r, i)
  BY <1>5 DEF Owned, OnOffer
<1> QED
  BY <1>6, SameWorld

LEMMA TradeKeepsItems ==
  ASSUME Inv, GoodsOK, GoodsOK', AllTidy, \A p \in Players : Returnable(p) /\ Fits(p)',
         NEW p \in Players, TradeStep(p), NEW i \in Item
  PROVE  InWorld(i)' = InWorld(i)
<1>1. CASE RequestWhileTrading(p) \/ AddToLostPartner(p) \/ Cancel(p) \/ CancelCutOff(p) \/ ExecuteFails(p)
  <2>1. \E P : GiveItemsBack(P) /\ ResetTrade(P)
    BY <1>1 DEF RequestWhileTrading, AddToLostPartner, Cancel, CancelCutOff, ExchangeCancel, ExecuteFails
  <2> QED
    BY <2>1, RefundKeepsItems
<1>2. CASE Execute(p)
  BY <1>2, ExecuteKeepsItems
<1>3. CASE Decline(p)
  BY <1>3, DeclineKeepsItems
<1>4. CASE \E s \in Slots, n \in ItemCounts : AddItem(p, s, n)
  <2>1. PICK s \in Slots, n \in ItemCounts : AddItem(p, s, n)
    BY <1>4
  <2>2. n \in Nat
    OBVIOUS
  <2> QED
    BY <2>1, <2>2, AddKeepsItems
<1>5. CASE (\E q \in Players : Request(p, q)) \/ Agree(p) \/ DecideFirst(p) \/ \E n \in AddAmounts : AddGold(p, n)
  <2>1. bag' = bag /\ exchangeItems' = exchangeItems
    BY <1>5 DEF Request, Agree, DecideFirst, AddGold, goods
  <2>2. \A r \in Players : Owned(r, i)' = Owned(r, i)
    BY <2>1 DEF Owned, OnOffer
  <2> QED
    BY <2>2, SameWorld
<1> QED
  BY <1>1, <1>2, <1>3, <1>4, <1>5 DEF TradeStep

\* No handler of the exchange makes or loses an item, wherever the goods on offer
\* can go back at all and no request counts 2^16 units or more: what leaves a bag is on offer, a refund brings all of it
\* back, and a swap moves both offers in full (exchange_add, exchange_decide,
\* exchange_give_items_back); for characters whose empty slots have no count.
THEOREM ItemsAreKept ==
  ASSUME \A p \in Players : Tidy(StartBag[p])
  PROVE  Spec => ItemsKept
<1>1. Init => AllTidy
  BY GoodsInit
<1>2. TypeOK /\ Inv /\ GoodsOK /\ AllTidy /\ [Next]_vars => AllTidy'
  BY GoodsStep
<1> DEFINE Keeps == (\E p \in Players : TradeStep(p)) /\ (\A p \in Players : Returnable(p) /\ Fits(p)') =>
                      \A i \in Item : InWorld(i)' = InWorld(i)
<1>3. Inv /\ GoodsOK /\ GoodsOK' /\ AllTidy /\ [Next]_vars => [Keeps]_vars
  BY TradeKeepsItems
<1> QED
  BY <1>1, <1>2, <1>3, TypeCorrect, InvAlways, GoodsAlways, PTL DEF Spec, ItemsKept
==============================================================================
