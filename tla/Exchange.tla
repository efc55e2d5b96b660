------------------------------ MODULE Exchange ------------------------------
(***************************************************************************)
(* Player-to-player exchange: handler/trade.rs over the trade fields of a  *)
(* session handle (world/trade.rs).  One action per branch of a handler;   *)
(* a handler runs to completion before another one starts.                 *)
(*                                                                         *)
(* Goods put on offer leave the bag or the purse at once and live in       *)
(* exchange_items until the exchange ends.  The gold entry of that list,   *)
(* of which there is at most one, is kept apart as exchangeGold (0: no     *)
(* gold entry).                                                            *)
(***************************************************************************)
EXTENDS Inventory, SequencesExt

CONSTANTS
  Players,        \* session ids
  NoPlayer,       \* exchange_user = None
  Account,        \* Players -> account names
  Nation,         \* Players -> nations
  GameMasters,    \* authority = 0: nobody may ask them
  Novices,        \* below server_settings.trade_level: may not ask
  Zones,
  FreeZones,      \* zones with can_trade_other_nation
  Tradeable,      \* items outside the no-trade range, not bound, not rented
  OfferMax,       \* 12 entries besides the gold entry
  StartGold,      \* what the characters own when the model starts
  StartBag,
  AddAmounts,     \* the gold amounts a client puts on offer
  ItemCounts,     \* the u32 counts of an item it puts on offer
  ListBound,      \* bound: units of an item on a player's offer
  EarnAmounts,    \* the gold amounts the rest of the server hands out
  Finds,          \* the <<item, count>> it hands out
  Pursuits,       \* the activities a player may begin
  FindBound,      \* bound: units of an item in the world when more is found
  GoldBound       \* bound: purse and offer of a player who may still earn

ASSUME ExchangeAssumption ==
  /\ IsFiniteSet(Players) /\ NoPlayer \notin Players
  /\ GameMasters \subseteq Players /\ Novices \subseteq Players
  /\ FreeZones \subseteq Zones
  /\ Tradeable \subseteq Item
  /\ OfferMax \in Nat
  /\ StartGold \in [Players -> 0 .. CoinMax]
  /\ StartBag \in [Players -> Bag]
  /\ AddAmounts \subseteq Nat /\ ItemCounts \subseteq Nat /\ EarnAmounts \subseteq Nat
  /\ Finds \subseteq Item \X Nat
  /\ Pursuits \subseteq {"mining", "fishing", "preparing", "stall", "genie"}
  /\ ListBound \in Nat /\ FindBound \in Nat /\ GoldBound \in Nat

VARIABLES
  online,        \* the session is in game and has a character
  closing,       \* a handler failed: the session's loop is over, its cleanup to come
  zone, dead,
  busy,          \* what a player is doing besides; one thing at a time
  gold, bag,
  tradeState,    \* trade_state
  exchangeUser,  \* exchange_user
  exchangeItems, \* exchange_items without the gold entry
  exchangeGold   \* count of the gold entry

place == <<online, closing, zone, dead, busy>>
goods == <<gold, bag>>
trade == <<tradeState, exchangeUser, exchangeItems, exchangeGold>>
vars  == <<place, goods, trade>>

TradeStates == {"none", "sender", "target", "trading", "deciding"}
\* A stall is "preparing" from its opening until its goods are on show.
Occupied    == {"mining", "fishing", "preparing", "stall"}
Activities  == Occupied \cup {"free", "genie"}

\* ExchangeItem; src is its src_pos.
Entry == [item : Item, count : Nat, src : Slots]

Init ==
  /\ online = [p \in Players |-> TRUE]
  /\ closing = [p \in Players |-> FALSE]
  /\ zone \in {[p \in Players |-> z] : z \in Zones}
  /\ dead = [p \in Players |-> FALSE]
  /\ busy = [p \in Players |-> "free"]
  /\ gold = StartGold
  /\ bag = StartBag
  /\ tradeState = [p \in Players |-> "none"]
  /\ exchangeUser = [p \in Players |-> NoPlayer]
  /\ exchangeItems = [p \in Players |-> <<>>]
  /\ exchangeGold = [p \in Players |-> 0]

-----------------------------------------------------------------------------
(* Shared pieces of the handlers. *)

\* A session whose loop still reads packets.
Present(p) == online[p] /\ ~closing[p]

\* handle(): in game, alive and not otherwise engaged.
CanHandle(p) == Present(p) /\ ~dead[p] /\ busy[p] \notin Occupied

IsTrading(p) == exchangeUser[p] # NoPlayer

NationOK(p, q) == Nation[p] = Nation[q] \/ zone[p] \in FreeZones

\* One entry back to its source slot: merged with the rest of the stack (a u16
\* addition, which wraps in a release build), restored if the slot is empty,
\* dropped if something else has moved in.
Restore(stack, e) ==
  CASE stack.item = e.item -> [item |-> e.item, count |-> Clamp(U16(stack.count + e.count), StackMax)]
    [] stack.item = NoItem -> [item |-> e.item, count |-> U16(e.count)]
    [] OTHER               -> stack
ReturnEntry(b, e) == [b EXCEPT ![e.src] = Restore(@, e)]

Returned(p) == FoldLeft(ReturnEntry, bag[p], exchangeItems[p])

\* Mutant: only the items are handed back.
GiveItemsBackWithoutGold(P) ==
  /\ bag' = [p \in Players |-> IF p \in P THEN Returned(p) ELSE bag[p]]
  /\ UNCHANGED gold

\* exchange_give_items_back for every player of P; the lists stay.
GiveItemsBack(P) ==
  /\ gold' = [p \in Players |-> IF p \in P THEN GoldGain(gold[p], exchangeGold[p]) ELSE gold[p]]
  /\ bag'  = [p \in Players |-> IF p \in P THEN Returned(p) ELSE bag[p]]

\* Mutant: exchange_items survives the reset.
ResetTradeKeepingOffers(P) ==
  /\ tradeState' = [p \in Players |-> IF p \in P THEN "none" ELSE tradeState[p]]
  /\ exchangeUser' = [p \in Players |-> IF p \in P THEN NoPlayer ELSE exchangeUser[p]]
  /\ UNCHANGED <<exchangeItems, exchangeGold>>

\* reset_trade for every player of P.
ResetTrade(P) ==
  /\ tradeState'    = [p \in Players |-> IF p \in P THEN "none" ELSE tradeState[p]]
  /\ exchangeUser'  = [p \in Players |-> IF p \in P THEN NoPlayer ELSE exchangeUser[p]]
  /\ exchangeItems' = [p \in Players |-> IF p \in P THEN <<>> ELSE exchangeItems[p]]
  /\ exchangeGold'  = [p \in Players |-> IF p \in P THEN 0 ELSE exchangeGold[p]]

\* Mutant: the partner is told nothing.
CancelledAlone(p) == IF tradeState[p] = "none" THEN {} ELSE {p}

\* exchange_cancel: nothing in state NONE; otherwise p, and its partner
\* unless that one is in state NONE, are refunded and reset.
Cancelled(p) ==
  IF tradeState[p] = "none" THEN {}
  ELSE {p} \cup {q \in Players : q = exchangeUser[p] /\ tradeState[q] # "none"}
ExchangeCancel(p) == GiveItemsBack(Cancelled(p)) /\ ResetTrade(Cancelled(p))

\* The packet to p itself finds its writer gone (trade.rs:868): the handler
\* returns with p refunded and reset, before the partner is, and the error ends
\* p's session.
CancelCutOff(p) ==
  /\ CanHandle(p) /\ tradeState[p] # "none"
  /\ GiveItemsBack({p}) /\ ResetTrade({p})
  /\ closing' = [closing EXCEPT ![p] = TRUE]
  /\ UNCHANGED <<online, zone, dead, busy>>

SetState(P, s) ==
  tradeState' = [p \in Players |-> IF p \in P THEN s ELSE tradeState[p]]

-----------------------------------------------------------------------------
(* EXCHANGE_REQ *)

\* Who may be asked: not oneself, a GM, one's own account or, outside the free
\* zones, the other nation; in the same zone and unoccupied.
MayAsk(p, q) ==
  /\ q # p /\ q \notin GameMasters /\ p \notin Novices
  /\ Account[p] # Account[q] /\ NationOK(p, q)
  /\ online[q] /\ zone[q] = zone[p] /\ ~dead[q] /\ busy[q] = "free"
  /\ ~IsTrading(q)

Request(p, q) ==
  /\ CanHandle(p) /\ ~IsTrading(p) /\ MayAsk(p, q)
  /\ exchangeUser' = [exchangeUser EXCEPT ![p] = q, ![q] = p]
  /\ tradeState' = [tradeState EXCEPT ![p] = "sender", ![q] = "target"]
  /\ UNCHANGED <<exchangeItems, exchangeGold, place, goods>>

\* Asking while already in an exchange cancels that exchange.
RequestWhileTrading(p) ==
  /\ CanHandle(p) /\ IsTrading(p)
  /\ ExchangeCancel(p)
  /\ UNCHANGED place

(* EXCHANGE_AGREE *)

AgreeChecks(p, q) ==
  /\ tradeState[q] = "sender" /\ exchangeUser[q] = p
  /\ ~dead[q] /\ busy[q] \notin Occupied
  /\ zone[q] = zone[p] /\ Account[p] # Account[q] /\ NationOK(p, q)

Answering(p) == CanHandle(p) /\ IsTrading(p) /\ tradeState[p] = "target"

Agree(p) ==
  /\ Answering(p) /\ AgreeChecks(p, exchangeUser[p])
  /\ SetState({p, exchangeUser[p]}, "trading")
  /\ UNCHANGED <<exchangeUser, exchangeItems, exchangeGold, place, goods>>

\* Declined, or a check fails: both sides are reset.
Decline(p) ==
  /\ Answering(p)
  /\ ResetTrade({p, exchangeUser[p]})
  /\ UNCHANGED <<place, goods>>

(* EXCHANGE_ADD *)

AddChecks(p, q) ==
  /\ exchangeUser[q] = p
  /\ ~dead[q] /\ busy[q] \notin Occupied
  /\ zone[q] = zone[p] /\ Account[p] # Account[q] /\ NationOK(p, q)

\* Mutant: a decided player may still add.
AddingAfterDeciding(p) ==
  CanHandle(p) /\ IsTrading(p) /\ tradeState[p] \in {"trading", "deciding"}

Adding(p) == CanHandle(p) /\ IsTrading(p) /\ tradeState[p] = "trading"

\* A lost or unfit partner turns the request into a cancel.
AddToLostPartner(p) ==
  /\ Adding(p) /\ ~AddChecks(p, exchangeUser[p])
  /\ ExchangeCancel(p)
  /\ UNCHANGED place

MayAdd(p) ==
  /\ Adding(p) /\ AddChecks(p, exchangeUser[p])
  /\ tradeState[exchangeUser[p]] \in {"trading", "deciding"}
  /\ Len(exchangeItems[p]) < OfferMax

\* Mutant: the purse is not checked.
AddGoldUnchecked(p, n) ==
  /\ MayAdd(p) /\ n > 0
  /\ exchangeGold' = [exchangeGold EXCEPT ![p] = @ + n]
  /\ gold' = [gold EXCEPT ![p] = @ - n]
  /\ UNCHANGED <<tradeState, exchangeUser, exchangeItems, bag, place>>

AddGold(p, n) ==
  /\ MayAdd(p) /\ n > 0 /\ n <= gold[p]
  /\ exchangeGold' = [exchangeGold EXCEPT ![p] = @ + n]
  /\ gold' = [gold EXCEPT ![p] = @ - n]
  /\ UNCHANGED <<tradeState, exchangeUser, exchangeItems, bag, place>>

\* update_exchange_item_count: a countable item joins the first entry of the
\* same item, whichever slot that entry came from; anything else is a new entry.
SameItem(items, i) == {k \in DOMAIN items : items[k].item = i /\ i \in Countable}
Listed(items, i, n, s) ==
  IF SameItem(items, i) # {}
  THEN [items EXCEPT ![Min(SameItem(items, i))].count = @ + n]
  ELSE Append(items, [item |-> i, count |-> n, src |-> s])

\* Units of an item that a player lists.
OnOffer(p, i) ==
  SumFunction([k \in DOMAIN exchangeItems[p] |-> UnitsOf(exchangeItems[p][k], i)])

\* The request counts in 32 bits: the entry lists all of it, while the checks and
\* the deduction see its low 16 bits.
AddItem(p, s, n) ==
  /\ MayAdd(p)
  /\ bag[p][s].item \in Tradeable
  /\ n > 0 /\ U16(n) < StackMax /\ U16(n) <= bag[p][s].count /\ bag[p][s].count > 0
  /\ OnOffer(p, bag[p][s].item) + n <= ListBound
  /\ exchangeItems' = [exchangeItems EXCEPT ![p] = Listed(@, bag[p][s].item, n, s)]
  /\ bag' = [bag EXCEPT ![p] = Take(@, s, U16(n))]
  /\ UNCHANGED <<tradeState, exchangeUser, exchangeGold, gold, place>>

(* EXCHANGE_DECIDE *)

Deciding(p) ==
  /\ CanHandle(p) /\ IsTrading(p) /\ tradeState[p] = "trading"
  /\ LET q == exchangeUser[p] IN
       /\ exchangeUser[q] = p /\ zone[q] = zone[p]
       /\ ~dead[q] /\ busy[q] \notin {"mining", "stall"}

DecideFirst(p) ==
  /\ Deciding(p) /\ tradeState[exchangeUser[p]] = "trading"
  /\ SetState({p}, "deciding")
  /\ UNCHANGED <<exchangeUser, exchangeItems, exchangeGold, place, goods>>

\* Mutants: no room is asked for in the purse, or among the slots.
CanReceiveAnyGold(p, q) ==
  /\ ~dead[p] /\ NationOK(p, q)
  /\ Len(exchangeItems[q]) <= Cardinality(FreeSlots(bag[p]))
  /\ \A k \in DOMAIN exchangeItems[q] :
       bag[q][exchangeItems[q][k].src].item = exchangeItems[q][k].item
CanReceiveAnyItem(p, q) ==
  /\ ~dead[p] /\ NationOK(p, q)
  /\ exchangeGold[q] > 0 => gold[p] + exchangeGold[q] <= CoinMax
  /\ \A k \in DOMAIN exchangeItems[q] :
       bag[q][exchangeItems[q][k].src].item = exchangeItems[q][k].item

\* check_exchange (purse, free slots) and check_execute_exchange (a slot for
\* each entry, the source slot still holding its item) for p receiving from q.
CanReceive(p, q) ==
  /\ ~dead[p] /\ NationOK(p, q)
  /\ exchangeGold[q] > 0 => gold[p] + exchangeGold[q] <= CoinMax
  /\ Len(exchangeItems[q]) <= Cardinality(FreeSlots(bag[p]))
  /\ \A k \in DOMAIN exchangeItems[q] :
       LET e == exchangeItems[q][k] IN
         /\ FindSlot(bag[p], e.item, U16(e.count)) # {}
         /\ bag[q][e.src].item = e.item

CanExecute(p, q) ==
  /\ busy[p] \notin Occupied /\ busy[q] \notin Occupied
  /\ CanReceive(p, q) /\ CanReceive(q, p)

PutEntry(b, e) == Put(b, e.item, U16(e.count))
Received(p, q) == FoldLeft(PutEntry, bag[p], exchangeItems[q])

BothDecided(p) == Deciding(p) /\ tradeState[exchangeUser[p]] = "deciding"

Execute(p) ==
  /\ BothDecided(p)
  /\ LET q == exchangeUser[p] IN
       /\ CanExecute(p, q)
       /\ gold' = [gold EXCEPT ![p] = GoldGain(@, exchangeGold[q]),
                               ![q] = GoldGain(@, exchangeGold[p])]
       /\ bag' = [bag EXCEPT ![p] = Received(p, q), ![q] = Received(q, p)]
       /\ ResetTrade({p, q})
  /\ UNCHANGED place

\* A check fails, or the goods are too heavy (weights are not represented, so
\* the verdict on them is arbitrary): both are refunded and reset.
ExecuteFails(p) ==
  /\ BothDecided(p)
  /\ LET both == {p, exchangeUser[p]} IN GiveItemsBack(both) /\ ResetTrade(both)
  /\ UNCHANGED place

(* EXCHANGE_CANCEL *)

\* Mutant: there must be a partner to cancel with.
CancelWithPartner(p) ==
  /\ CanHandle(p) /\ tradeState[p] # "none" /\ online[exchangeUser[p]]
  /\ ExchangeCancel(p)
  /\ UNCHANGED place

Cancel(p) ==
  /\ CanHandle(p) /\ tradeState[p] # "none"
  /\ ExchangeCancel(p)
  /\ UNCHANGED place

-----------------------------------------------------------------------------
(* What the rest of the server does to the same fields. *)

\* The cleanup copied into logout, disconnect, duplicate kick and zone change:
\* both sides are reset, and no goods are given back.
Dropped(p) == IF IsTrading(p) THEN {p, exchangeUser[p]} ELSE {}
DropTrade(p) == ResetTrade(Dropped(p))

\* logout, ClientSession::cleanup, kick_session_for_duplicate.
Leave(p) ==
  /\ online[p]
  /\ online' = [online EXCEPT ![p] = FALSE]
  /\ closing' = [closing EXCEPT ![p] = FALSE]
  /\ dead' = [dead EXCEPT ![p] = FALSE]
  /\ busy' = [busy EXCEPT ![p] = "free"]
  /\ DropTrade(p)
  /\ UNCHANGED <<zone, goods>>

\* A session enters the game; ids still referred to are not handed out again.
Enter(p) ==
  /\ ~online[p] /\ \A q \in Players : exchangeUser[q] # p
  /\ online' = [online EXCEPT ![p] = TRUE]
  /\ UNCHANGED <<closing, zone, dead, busy, goods, trade>>

\* The cleanup of a session whose loop is over.
CloseDown(p) == closing[p] /\ Leave(p)

\* A handler panics: the handle is removed and nothing else is cleaned up.
Panic(p) ==
  /\ Present(p)
  /\ online' = [online EXCEPT ![p] = FALSE]
  /\ dead' = [dead EXCEPT ![p] = FALSE]
  /\ busy' = [busy EXCEPT ![p] = "free"]
  /\ ResetTrade({p})
  /\ UNCHANGED <<closing, zone, goods>>

\* ResetWindows: mining, fishing and an open stall end with the zone; a stall
\* still in preparation and the genie do not.
ZoneChange(p, z) ==
  /\ Present(p) /\ z # zone[p]
  /\ zone' = [zone EXCEPT ![p] = z]
  /\ busy' = [busy EXCEPT ![p] = IF @ \in {"preparing", "genie"} THEN @ ELSE "free"]
  /\ DropTrade(p)
  /\ UNCHANGED <<online, closing, dead, goods>>

\* server_teleport_to_zone and the other event teleports leave the trade alone.
Teleport(p, z) ==
  /\ online[p] /\ z # zone[p]
  /\ zone' = [zone EXCEPT ![p] = z]
  /\ UNCHANGED <<online, closing, dead, busy, goods, trade>>

Die(p) ==
  /\ online[p] /\ ~dead[p]
  /\ dead' = [dead EXCEPT ![p] = TRUE]
  /\ UNCHANGED <<online, closing, zone, busy, goods, trade>>

Regene(p) ==
  /\ online[p] /\ dead[p]
  /\ dead' = [dead EXCEPT ![p] = FALSE]
  /\ UNCHANGED <<online, closing, zone, busy, goods, trade>>

\* Mining and the genie start whether or not a trade is on; a stall and
\* fishing do not.
Begin(p, activity) ==
  /\ Present(p) /\ busy[p] = (IF activity = "stall" THEN "preparing" ELSE "free")
  /\ activity \in {"mining", "fishing", "preparing"} => ~dead[p]
  /\ activity \in {"fishing", "preparing"} => ~IsTrading(p)
  /\ busy' = [busy EXCEPT ![p] = activity]
  /\ UNCHANGED <<online, closing, zone, dead, goods, trade>>

Stop(p) ==
  /\ online[p] /\ busy[p] # "free"
  /\ busy' = [busy EXCEPT ![p] = "free"]
  /\ UNCHANGED <<online, closing, zone, dead, goods, trade>>

\* Party coins, quest and event rewards reach a trading player too.
EarnGold(p, n) ==
  /\ online[p] /\ gold[p] + exchangeGold[p] + n <= GoldBound
  /\ gold' = [gold EXCEPT ![p] = GoldGain(@, n)]
  /\ UNCHANGED <<bag, place, trade>>

\* Units of an item, in the bags and on offer.
InWorld(i) == SumFunction([p \in Players |-> Held(bag[p], i) + OnOffer(p, i)])

EarnItem(p, i, n) ==
  /\ online[p] /\ FindSlot(bag[p], i, n) # {} /\ InWorld(i) + n <= FindBound
  /\ bag' = [bag EXCEPT ![p] = Put(@, i, n)]
  /\ UNCHANGED <<gold, place, trade>>
-----------------------------------------------------------------------------
(* The specification. *)

\* The handlers of WIZ_EXCHANGE ...
TradeStep(p) ==
  \/ \E q \in Players : Request(p, q)
  \/ RequestWhileTrading(p)
  \/ Agree(p)
  \/ Decline(p)
  \/ AddToLostPartner(p)
  \/ \E n \in AddAmounts : AddGold(p, n)
  \/ \E s \in Slots, n \in ItemCounts : AddItem(p, s, n)
  \/ DecideFirst(p)
  \/ Execute(p)
  \/ ExecuteFails(p)
  \/ Cancel(p)
  \/ CancelCutOff(p)

\* ... the paths that drop a trade ...
DropStep(p) ==
  \/ Leave(p)
  \/ Panic(p)
  \/ \E z \in Zones : ZoneChange(p, z)

\* ... and everything else that changes what the handlers read.
OtherStep(p) ==
  \/ Enter(p)
  \/ \E z \in Zones : Teleport(p, z)
  \/ Die(p)
  \/ Regene(p)
  \/ \E a \in Pursuits : Begin(p, a)
  \/ Stop(p)
  \/ \E n \in EarnAmounts : EarnGold(p, n)
  \/ \E f \in Finds : EarnItem(p, f[1], f[2])

Next == \E p \in Players : TradeStep(p) \/ DropStep(p) \/ OtherStep(p)

Spec == Init /\ [][Next]_vars

\* What the players of LeavesTrade do, and the scheduler lets them: whoever is
\* dead comes back, whoever is occupied stops, a player who may press cancel
\* again and again eventually does, and a session that is over is cleaned up.
FairSpec ==
  /\ Spec
  /\ \A p \in Players : /\ WF_vars(Regene(p)) /\ WF_vars(Stop(p))
                        /\ SF_vars(Cancel(p)) /\ WF_vars(CloseDown(p))

-----------------------------------------------------------------------------
(* Properties. *)

\* The session handle keeps its shape: the fields of types.rs:374-381 and a purse
\* within COIN_MAX.
TypeOK ==
  /\ online \in [Players -> BOOLEAN]
  /\ closing \in [Players -> BOOLEAN]
  /\ zone \in [Players -> Zones]
  /\ dead \in [Players -> BOOLEAN]
  /\ busy \in [Players -> Activities]
  /\ gold \in [Players -> 0 .. CoinMax]
  /\ tradeState \in [Players -> TradeStates]
  /\ exchangeUser \in [Players -> Players \cup {NoPlayer}]
  /\ exchangeGold \in [Players -> Nat]

\* The two ends of an exchange agree that they are one: exchange_user is
\* mutual, and the pair of trade states is one the protocol has.  The only end
\* that may be missing is one whose session is over: removed by a panic, or cut
\* off in a cancel of its own; and such a session is at most asked again.
Pairs == {<<"sender", "target">>, <<"target", "sender">>, <<"trading", "trading">>,
          <<"trading", "deciding">>, <<"deciding", "trading">>}
Linked ==
  \A p \in Players :
    /\ tradeState[p] = "none" <=> exchangeUser[p] = NoPlayer
    /\ ~online[p] => exchangeUser[p] = NoPlayer
    /\ closing[p] => online[p] /\ tradeState[p] \in {"none", "target"}
    /\ \A q \in Players : exchangeUser[p] = q =>
         /\ q # p
         /\ Present(q) =>
              /\ exchangeUser[q] = p
              /\ <<tradeState[p], tradeState[q]>> \in Pairs

\* Goods are on offer only between agreement and the end of the exchange, so
\* no exchange starts with what an earlier one left in exchange_items.
OffersBelongToTrade ==
  \A p \in Players :
    tradeState[p] \notin {"trading", "deciding"} =>
      exchangeItems[p] = <<>> /\ exchangeGold[p] = 0

\* Deciding binds: the decided player's own offer stays as it is and the
\* partner's can only grow while it is there, until the exchange is over for the
\* decider.
Covers(new, old) ==
  /\ Len(new) >= Len(old)
  /\ \A k \in DOMAIN old : new[k].item = old[k].item /\ new[k].count >= old[k].count
DecisionBinds ==
  [][\A p, q \in Players :
       tradeState[p] = "deciding" /\ exchangeUser[p] = q /\ tradeState'[p] # "none" =>
         /\ tradeState'[p] = "deciding" /\ exchangeUser'[p] = q
         /\ exchangeItems'[p] = exchangeItems[p] /\ exchangeGold'[p] = exchangeGold[p]
         /\ Present(q)' => /\ Covers(exchangeItems'[q], exchangeItems[q])
                           /\ exchangeGold'[q] >= exchangeGold[q]]_vars

\* No handler of the exchange makes or loses gold: what a player owns, in the
\* purse and on offer, changes only in the swap of two players who both
\* decided, by exactly the two offers; a refund stops at COIN_MAX.
Worth(p) == gold[p] + exchangeGold[p]
Swapped(p, q) ==
  /\ exchangeUser[p] = q /\ {tradeState[p], tradeState[q]} = {"trading", "deciding"}
  /\ gold'[p] = gold[p] + exchangeGold[q] /\ gold'[q] = gold[q] + exchangeGold[p]
  /\ exchangeGold'[p] = 0 /\ exchangeGold'[q] = 0
GoldKept ==
  [][(\E p \in Players : TradeStep(p)) =>
       \A p \in Players :
         \/ Worth(p)' = Worth(p)
         \/ Worth(p) > CoinMax /\ Worth(p)' = CoinMax
         \/ \E q \in Players : Swapped(p, q)]_vars

\* The gold side of the exchange implements the abstract promise.
Promise == INSTANCE FairExchange WITH
  purse <- [p \in Players |-> Worth(p)], pledge <- exchangeGold, partner <- exchangeUser
KeepsPromise == Promise!Spec

\* Items are kept likewise, where the goods on offer can go back at all: every
\* entry still finds its source slot empty or with room for it, no two have the
\* same one, and an item that does not stack is offered one at a time (two units
\* of one in a slot arrive as one: only refunds can put them there).  And the
\* counts fit: a request of 2^16 units or more lists units that are not taken.
Returnable(p) ==
  /\ \A k \in DOMAIN exchangeItems[p] :
       LET e == exchangeItems[p][k]  src == bag[p][e.src] IN
         /\ src.item \in {NoItem, e.item}
         /\ src.count + e.count <= StackMax
         /\ e.item \in Single => e.count = 1
  /\ \A j, k \in DOMAIN exchangeItems[p] :
       exchangeItems[p][j].src = exchangeItems[p][k].src => j = k
Fits(p) == \A k \in DOMAIN exchangeItems[p] : exchangeItems[p][k].count < CountMod
ItemsKept ==
  [][/\ \E p \in Players : TradeStep(p)
     /\ \A p \in Players : Returnable(p) /\ Fits(p)'
     => \A i \in Item : InWorld(i)' = InWorld(i)]_vars

\* A ghost, an item with no units, comes only from a count that was cut: no other
\* deduction, refund, transfer or reward leaves one.  A refund of an offer adds to
\* what its slot still holds, so there the sum has to fit.
IsGhost(stack) == stack.item # NoItem /\ stack.count = 0
Uncut(p) ==
  /\ \A k \in DOMAIN exchangeItems[p] :
       bag[p][exchangeItems[p][k].src].count + exchangeItems[p][k].count < CountMod
  /\ \A j, k \in DOMAIN exchangeItems[p] :
       exchangeItems[p][j].src = exchangeItems[p][k].src => j = k
GhostsAreCuts ==
  [][(\A p \in Players : Uncut(p)) =>
       \A p \in Players, s \in Slots : IsGhost(bag'[p][s]) => IsGhost(bag[p][s])]_vars

\* Nobody is stuck in an exchange: whatever happens to the partner (death,
\* mining, a teleport, a panic), cancel remains a way out.
LeavesTrade == \A p \in Players : IsTrading(p) ~> ~IsTrading(p)

\* trade.rs:594 "Both have decided - execute the trade": with room in both bags
\* and purses the exchange of two players who decided goes through.
HasRoom(p, q) ==
  /\ gold[p] + exchangeGold[q] <= CoinMax
  /\ Len(exchangeItems[q]) <= Cardinality(FreeSlots(bag[p]))
DecidedTradeExecutes ==
  \A p \in Players : BothDecided(p) =>
    LET q == exchangeUser[p] IN HasRoom(p, q) /\ HasRoom(q, p) => CanExecute(p, q)

\* trade.rs:1550 (test_integration_trade_disconnect_resets_partner) and
\* logout.rs:1300: a disconnect gives both sides their goods back.
LeavingRefunds ==
  [][\A p \in Players : Leave(p) => \A q \in Players :
       gold'[q] = GoldGain(gold[q], exchangeGold[q]) \/ ~(q \in Dropped(p))]_vars
=============================================================================
