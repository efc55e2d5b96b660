------------------------------- MODULE Stall -------------------------------
(***************************************************************************)
(* Selling stalls: handler/merchant.rs over the merchant fields of a       *)
(* session handle (world/trade.rs).  A keeper prepares a stall, posts      *)
(* stacks of the bag (which stay in the bag) and opens; shoppers browse it *)
(* and buy.                                                                *)
(*                                                                         *)
(* Sessions are tasks of a multi-threaded runtime and every access to a    *)
(* session handle is atomic on its own.  merchant_item_list and            *)
(* merchant_item_buy touch two handles, so they are sequences of steps     *)
(* between which anybody else may act; the other handlers write one handle *)
(* once and are single actions.                                            *)
(***************************************************************************)
EXTENDS Inventory

CONSTANTS
  Keepers,      \* session ids that open stalls
  Shoppers,     \* session ids that buy
  NoPlayer,     \* merchant_looker = None, browsing_merchant = None
  MaxMerch,     \* MAX_MERCH_ITEMS
  Sellable,     \* items that may change hands
  Postings,     \* the [count, price, kc] a keeper puts on an item
  Amounts,      \* the counts a shopper asks for
  Starts,       \* the [gold, cash, bag] the model may start with
  Finds,        \* the <<item, count>> the rest of the server hands out
  FindBound,    \* bound: units of an item in the world when more is found
  Moves,        \* the <<source, target>> of item_move
  Leavers,      \* the players who may leave
  Splitting,    \* keepers post part of a stack
  Hasty         \* keepers act while somebody is buying from them

Players == Keepers \cup Shoppers

ASSUME StallAssumption ==
  /\ IsFiniteSet(Players) /\ NoPlayer \notin Players
  /\ MaxMerch \in Nat
  /\ Sellable \subseteq Item
  /\ Postings \subseteq [count : Nat \ {0}, price : Nat, kc : BOOLEAN]
  /\ Amounts \subseteq Nat \ {0}
  /\ \A s \in Starts :
       /\ s.gold \in [Players -> 0 .. CoinMax]
       /\ s.cash \in [Players -> Nat]
       /\ s.bag \in [Players -> Bag]
  /\ Finds \subseteq Item \X Nat /\ FindBound \in Nat
  /\ Moves \subseteq Slots \X Slots
  /\ Leavers \subseteq Players
  /\ Splitting \in BOOLEAN /\ Hasty \in BOOLEAN

VARIABLES
  presence,   \* connected, an offline merchant ("away") or unregistered
  stall,      \* merchant_state and selling_merchant_preparing
  listing,    \* merchant_items
  looker,     \* merchant_looker
  browsing,   \* browsing_merchant
  gold, cash, bag,
  task,       \* what the session's task is in the middle of
  tidy        \* keepers, none of them hasty, who leave the bag alone while a stall is prepared

shop  == <<stall, listing>>
view  == <<looker, browsing>>
money == <<gold, cash>>
vars  == <<presence, shop, view, money, bag, task, tidy>>

Places == 1 .. MaxMerch

\* MerchData; slot 0 stands for any position outside the bag.
Offer == [item : Item \cup {NoItem}, count : 0 .. CountMod - 1, price : Nat,
          kc : BOOLEAN, slot : {0} \cup Slots, soldOut : BOOLEAN]
NoOffer == [item |-> NoItem, count |-> 0, price |-> 0,
            kc |-> FALSE, slot |-> 0, soldOut |-> FALSE]

\* The local variables of a handler: the stall, the request (place, item, n,
\* dest, kc), the snapshot try_merchant_buy returned, a balance read.
Stages == {"idle", "look", "reserve", "pay", "restore", "charge", "credit",
           "cashRead", "cashWrite", "deliver", "settle", "close", "cut"}
Task == [at : Stages, of : Players \cup {NoPlayer}, place : {0} \cup Places,
         item : Item \cup {NoItem}, n : Nat, dest : {0} \cup Slots,
         kc : BOOLEAN, snap : Offer, balance : Nat]
Idle == [at |-> "idle", of |-> NoPlayer, place |-> 0, item |-> NoItem, n |-> 0,
         dest |-> 0, kc |-> FALSE, snap |-> NoOffer, balance |-> 0]

Init ==
  /\ presence = [p \in Players |-> "here"]
  /\ stall = [p \in Players |-> "closed"]
  /\ listing = [p \in Players |-> [k \in Places |-> NoOffer]]
  /\ looker = [p \in Players |-> NoPlayer]
  /\ browsing = [p \in Players |-> NoPlayer]
  /\ \E s \in Starts : gold = s.gold /\ cash = s.cash /\ bag = s.bag
  /\ task = [p \in Players |-> Idle]
  /\ tidy \in IF Hasty THEN {{}} ELSE SUBSET Keepers

-----------------------------------------------------------------------------
(* Who acts *)

Buying == {p \in Players : task[p].at \notin {"idle", "look", "cut"}}

\* A session handles its own packets one after the other.
Ready(p) == presence[p] = "here" /\ task[p].at = "idle"

\* Unless keepers are hasty they let a purchase from their stall finish.
AtEase(p) == Hasty \/ \A q \in Buying : task[q].of # p

\* close_merchant.
CloseStall(p) ==
  /\ stall' = [stall EXCEPT ![p] = "closed"]
  /\ listing' = [listing EXCEPT ![p] = [k \in Places |-> NoOffer]]
  /\ looker' = [looker EXCEPT ![p] = NoPlayer]

-----------------------------------------------------------------------------
(* The keeper *)

\* MERCHANT_OPEN; opening an open stall closes it.
Open(p) ==
  /\ Ready(p) /\ AtEase(p) /\ p \in Keepers /\ stall[p] = "closed"
  /\ stall' = [stall EXCEPT ![p] = "preparing"]
  /\ UNCHANGED <<presence, listing, view, money, bag, task>>

\* MERCHANT_CLOSE, moving, changing zone, MERCHANT_OPEN of an open stall.
Close(p) ==
  /\ Ready(p) /\ AtEase(p) /\ stall[p] # "closed"
  /\ CloseStall(p)
  /\ UNCHANGED <<presence, browsing, money, bag, task>>

\* MERCHANT_ITEM_ADD: bag slot s, or part of it, goes to place k.
Post(p, s, k, o) ==
  /\ Ready(p) /\ AtEase(p) /\ stall[p] = "preparing"
  /\ bag[p][s].item \in Sellable /\ o.count <= bag[p][s].count
  /\ Splitting \/ o.count = bag[p][s].count
  /\ \A j \in Places : listing[p][j].item # NoItem => listing[p][j].slot # s
  /\ listing[p][k].item = NoItem
  /\ listing' = [listing EXCEPT ![p][k] =
       [item |-> bag[p][s].item, count |-> o.count, price |-> o.price,
        kc |-> o.kc, slot |-> s, soldOut |-> FALSE]]
  /\ UNCHANGED <<presence, stall, view, money, bag, task>>

\* MERCHANT_ITEM_CANCEL: only an offer of the whole stack can be withdrawn.
Withdraw(p, k) ==
  /\ Ready(p) /\ AtEase(p) /\ stall[p] = "preparing"
  /\ listing[p][k].slot \in Slots
  /\ LET stack == bag[p][listing[p][k].slot]
     IN  stack.item = listing[p][k].item /\ stack.count = listing[p][k].count
  /\ listing[p][k].item # NoItem
  /\ listing' = [listing EXCEPT ![p][k] = NoOffer]
  /\ UNCHANGED <<presence, stall, view, money, bag, task>>

\* MERCHANT_INSERT.
Insert(p) ==
  /\ Ready(p) /\ AtEase(p) /\ stall[p] = "preparing"
  /\ \E k \in Places : listing[p][k].item # NoItem
  /\ stall' = [stall EXCEPT ![p] = "open"]
  /\ UNCHANGED <<presence, listing, view, money, bag, task>>

\* remove_from_merchant_lookers.
StopLooking(p, lookers) ==
  /\ looker' = [q \in Players |->
       IF q = browsing[p] /\ lookers[q] = p THEN NoPlayer ELSE lookers[q]]
  /\ browsing' = [browsing EXCEPT ![p] = NoPlayer]

\* The connection is lost and the keeper stays as an offline merchant.
GoAway(p) ==
  /\ Ready(p) /\ p \in Leavers /\ stall[p] = "open"
  /\ presence' = [presence EXCEPT ![p] = "away"]
  /\ UNCHANGED <<shop, view, money, bag, task>>

\* Logout and disconnect: a stall that is open is closed, the session
\* unregistered; what the character owns is saved.
Quit(p) ==
  /\ Ready(p) /\ AtEase(p) /\ p \in Leavers
  /\ presence' = [presence EXCEPT ![p] = "gone"]
  /\ stall' = [stall EXCEPT ![p] = "closed"]
  /\ listing' = [listing EXCEPT ![p] = [k \in Places |-> NoOffer]]
  /\ StopLooking(p, [looker EXCEPT ![p] = NoPlayer])
  /\ UNCHANGED <<money, bag, task>>

\* tick_offline_merchants: the time of an offline merchant is up.
Expire(p) ==
  /\ presence[p] = "away" /\ AtEase(p)
  /\ presence' = [presence EXCEPT ![p] = "gone"]
  /\ CloseStall(p)
  /\ UNCHANGED <<browsing, money, bag, task>>

-----------------------------------------------------------------------------
(* The shopper looks *)

\* MERCHANT_ITEM_LIST, first half: nobody else who is still in game looks.
Browse(p, q) ==
  /\ Ready(p) /\ p \in Shoppers /\ stall[q] = "open"
  /\ \/ looker[q] \in {NoPlayer, p}
     \/ looker[q] \in Players /\ presence[looker[q]] = "gone"
  /\ task' = [task EXCEPT ![p] = [Idle EXCEPT !.at = "look", !.of = q]]
  /\ UNCHANGED <<presence, shop, view, money, bag>>

\* Second half: the two fields are set.
Look(p) ==
  LET q == task[p].of IN
  /\ task[p].at = "look"
  /\ looker' = IF presence[q] = "gone" THEN looker ELSE [looker EXCEPT ![q] = p]
  /\ browsing' = [browsing EXCEPT ![p] = q]
  /\ task' = [task EXCEPT ![p] = Idle]
  /\ UNCHANGED <<presence, shop, money, bag>>

\* MERCHANT_TRADE_CANCEL.
StopBrowsing(p) ==
  /\ Ready(p) /\ browsing[p] # NoPlayer
  /\ StopLooking(p, looker)
  /\ UNCHANGED <<presence, shop, money, bag, task>>

-----------------------------------------------------------------------------
(* MERCHANT_ITEM_BUY, step by step *)

Goto(p, stage) == task' = [task EXCEPT ![p].at = stage]
Done(p) == task' = [task EXCEPT ![p] = Idle]
Cost(p) == task[p].snap.price * task[p].n

\* Mutant: what is left of the place is not compared with the request.
OffersAnyCount(o, i, n) == o.item = i /\ ~o.soldOut /\ o.price # 0

\* A place that can serve n units of item i.
Offers(o, i, n) == o.item = i /\ ~o.soldOut /\ o.count >= n /\ o.price # 0

\* The destination slot can take them.
Fits(stack, i, n) ==
  \/ stack.item = NoItem
  \/ stack.item = i /\ i \in Countable /\ stack.count + n <= StackMax

\* Mutant: the keeper's bag is not looked at.
BackedByAnything(q, o, n) == TRUE

\* The keeper still has what is on offer ("ghost-item prevention").
Backed(q, o, n) ==
  o.slot \in Slots /\ bag[q][o.slot].item = o.item /\ bag[q][o.slot].count >= n

\* Everything that is checked before the goods are reserved.
StartBuy(p, k, n, d) ==
  LET q == browsing[p]
      o == listing[q][k]
  IN  /\ Ready(p) /\ browsing[p] \notin {NoPlayer, p}
      /\ stall[p] = "closed" /\ stall[q] = "open"
      /\ o.item \in Item /\ Offers(o, o.item, n)
      /\ o.item \in Single => n = 1
      /\ Fits(bag[p][d], o.item, n)
      /\ Backed(q, o, n)
      /\ task' = [task EXCEPT ![p] = [Idle EXCEPT !.at = "reserve", !.of = q, !.place = k,
                    !.item = o.item, !.n = n, !.dest = d, !.kc = o.kc]]
      /\ UNCHANGED <<presence, shop, view, money, bag>>

\* Mutant: the count of the place is read but not reduced.
ReservedOnPaper(o, n) == o

\* What try_merchant_buy leaves of a place.
Reserved(o, n) == [o EXCEPT !.count = @ - n, !.soldOut = (o.count = n)]

\* try_merchant_buy.
Reserve(p) ==
  LET t == task[p]
      o == listing[t.of][t.place]
  IN  /\ t.at = "reserve"
      /\ IF Offers(o, t.item, t.n)
         THEN /\ listing' = [listing EXCEPT ![t.of][t.place] = Reserved(o, t.n)]
              /\ task' = [task EXCEPT ![p].at = "pay", ![p].snap = o]
         ELSE Done(p) /\ UNCHANGED listing
      /\ UNCHANGED <<presence, stall, view, money, bag>>

\* restore_merchant_buy, from the matching or the emptied place.
Restored(o, i, n) ==
  IF o.item = i \/ (o.soldOut /\ o.item = NoItem)
  THEN [o EXCEPT !.item = i, !.count = Clamp(@ + n, CountMod - 1), !.soldOut = FALSE]
  ELSE o

\* A buyer who cannot pay gives the reservation up.
Restore(p) ==
  LET t == task[p] IN
  /\ t.at = "restore"
  /\ listing' = [listing EXCEPT ![t.of][t.place] = Restored(@, t.item, t.n)]
  /\ Done(p)
  /\ UNCHANGED <<presence, stall, view, money, bag>>

\* Mutant: only the keeper's purse is checked.
CheckKeepersGold(p) ==
  LET purse == IF presence[task[p].of] = "gone" THEN 0 ELSE gold[task[p].of] IN
  /\ task[p].at = "pay" /\ ~task[p].kc
  /\ IF purse + Cost(p) <= CoinMax THEN Goto(p, "charge") ELSE Goto(p, "restore")
  /\ UNCHANGED <<presence, shop, view, money, bag>>

\* Gold: both purses are checked before either is touched.
CheckGold(p) ==
  LET purse == IF presence[task[p].of] = "gone" THEN 0 ELSE gold[task[p].of] IN
  /\ task[p].at = "pay" /\ ~task[p].kc
  /\ IF gold[p] >= Cost(p) /\ purse + Cost(p) <= CoinMax
     THEN Goto(p, "charge") ELSE Goto(p, "restore")
  /\ UNCHANGED <<presence, shop, view, money, bag>>

\* gold_lose; its answer is not looked at.
Charge(p) ==
  /\ task[p].at = "charge"
  /\ gold' = [gold EXCEPT ![p] = IF @ >= Cost(p) THEN @ - Cost(p) ELSE @]
  /\ Goto(p, "credit")
  /\ UNCHANGED <<presence, shop, view, cash, bag>>

\* gold_gain.
Credit(p) ==
  LET q == task[p].of IN
  /\ task[p].at = "credit"
  /\ gold' = IF presence[q] = "gone" THEN gold
             ELSE [gold EXCEPT ![q] = GoldGain(@, Cost(p))]
  /\ Goto(p, "deliver")
  /\ UNCHANGED <<presence, shop, view, cash, bag>>

\* Knight cash: cash_lose.  Only the session's own handlers spend its cash, so
\* its read and its write are one step.
PayCash(p) ==
  /\ task[p].at = "pay" /\ task[p].kc
  /\ IF cash[p] >= Cost(p)
     THEN /\ cash' = [cash EXCEPT ![p] = @ - Cost(p)]
          /\ IF presence[task[p].of] = "away" THEN Goto(p, "deliver") ELSE Goto(p, "cashRead")
     ELSE UNCHANGED cash /\ Goto(p, "restore")
  /\ UNCHANGED <<presence, shop, view, gold, bag>>

\* cash_gain reads the keeper's balance ...
CashRead(p) ==
  LET q == task[p].of IN
  /\ task[p].at = "cashRead"
  /\ task' = [task EXCEPT ![p].at = "cashWrite",
                ![p].balance = IF presence[q] = "gone" THEN 0 ELSE cash[q]]
  /\ UNCHANGED <<presence, shop, view, money, bag>>

\* ... and writes the sum back.
CashWrite(p) ==
  LET q == task[p].of IN
  /\ task[p].at = "cashWrite"
  /\ cash' = IF presence[q] = "gone" THEN cash
             ELSE [cash EXCEPT ![q] = task[p].balance + Cost(p)]
  /\ Goto(p, "deliver")
  /\ UNCHANGED <<presence, shop, view, gold, bag>>

\* The goods are written into the slot checked before: whatever is there now
\* takes the item's id and is counted on.
Deliver(p) ==
  LET t == task[p] IN
  /\ t.at = "deliver"
  /\ bag' = [bag EXCEPT ![p][t.dest] =
               [item |-> t.item, count |-> Clamp(@.count + t.n, StackMax)]]
  /\ Goto(p, "settle")
  /\ UNCHANGED <<presence, shop, view, money>>

FullySold(t) == t.snap.count = t.n

\* The keeper's stack after the sale: the last of an offer clears the slot.
Settled(stack, t) ==
  IF stack.item # t.item THEN stack
  ELSE IF FullySold(t) \/ stack.count <= t.n THEN Empty
  ELSE Deduct(stack, t.n)

SettledBag(b, t) == [s \in Slots |-> IF s = t.snap.slot THEN Settled(b[s], t) ELSE b[s]]

\* The place, then the keeper's bag.
Settle(p) ==
  LET t == task[p]
      here == presence[t.of] # "gone"
  IN  /\ t.at = "settle"
      /\ listing' = IF FullySold(t) /\ here
                    THEN [listing EXCEPT ![t.of][t.place] = [NoOffer EXCEPT !.soldOut = TRUE]]
                    ELSE listing
      /\ bag' = IF here THEN [bag EXCEPT ![t.of] = SettledBag(@, t)] ELSE bag
      /\ Goto(p, "close")
      /\ UNCHANGED <<presence, stall, view, money>>

NothingLeft(q) == \A k \in Places : listing[q][k].item = NoItem \/ listing[q][k].soldOut

\* Mutant: only an offline merchant's stall is closed.
CloseOffline(p) ==
  LET q == task[p].of IN
  /\ task[p].at = "close"
  /\ IF NothingLeft(q) /\ presence[q] = "away"
     THEN CloseStall(q) /\ presence' = [presence EXCEPT ![q] = "gone"]
     ELSE UNCHANGED <<presence, shop, looker>>
  /\ Done(p)
  /\ UNCHANGED <<browsing, money, bag>>

\* After the reply to the buyer: an empty stall is closed, and an offline
\* merchant with it unregistered.
CloseIfSold(p) ==
  LET q == task[p].of IN
  /\ task[p].at = "close"
  /\ IF NothingLeft(q)
     THEN /\ CloseStall(q)
          /\ presence' = [presence EXCEPT ![q] = IF @ = "away" THEN "gone" ELSE @]
     ELSE UNCHANGED <<presence, shop, looker>>
  /\ Done(p)
  /\ UNCHANGED <<browsing, money, bag>>

\* The reply cannot be sent, so the handler returns before it looks whether the
\* stall is empty, and the shopper's session is cleaned up.  The task keeps note
\* of the stall it left so.
HangUp(p) ==
  /\ task[p].at = "close" /\ p \in Leavers
  /\ task' = [task EXCEPT ![p] = [Idle EXCEPT !.at = "cut", !.of = task[p].of]]
  /\ presence' = [presence EXCEPT ![p] = "gone"]
  /\ stall' = [stall EXCEPT ![p] = "closed"]
  /\ listing' = [listing EXCEPT ![p] = [k \in Places |-> NoOffer]]
  /\ StopLooking(p, [looker EXCEPT ![p] = NoPlayer])
  /\ UNCHANGED <<money, bag>>

BuyStep(p) ==
  \/ Reserve(p) \/ CheckGold(p) \/ PayCash(p) \/ Restore(p) \/ Charge(p) \/ Credit(p)
  \/ CashRead(p) \/ CashWrite(p) \/ Deliver(p) \/ Settle(p) \/ CloseIfSold(p)

-----------------------------------------------------------------------------
(* The rest of the server *)

\* Units of an item in all bags.
World(i) == SumFunction([p \in Players |-> Held(bag[p], i)])

\* give_item: a reward, at any moment.
FindItem(p, i, n) ==
  /\ presence[p] = "here" /\ World(i) + n <= FindBound
  /\ bag' = [bag EXCEPT ![p] = Put(@, i, n)]
  /\ UNCHANGED <<presence, shop, view, money, task>>

\* item_move within the bag: stacks merge, anything else changes places.
\* Refused while the stall is open or another one is browsed.
Moved(b, s, d) ==
  IF b[s].item \in Countable /\ b[d].item = b[s].item
  THEN [b EXCEPT ![d].count = Clamp(@ + b[s].count, StackMax), ![s] = Empty]
  ELSE [b EXCEPT ![s] = b[d], ![d] = b[s]]

MoveItem(p, s, d) ==
  /\ Ready(p) /\ AtEase(p) /\ stall[p] # "open" /\ browsing[p] = NoPlayer
  /\ p \in tidy => stall[p] = "closed"
  /\ s # d /\ bag[p][s].item # NoItem
  /\ bag' = [bag EXCEPT ![p] = Moved(@, s, d)]
  /\ UNCHANGED <<presence, shop, view, money, task>>

KeeperStep(p) ==
  \/ Open(p) \/ Close(p) \/ Insert(p) \/ GoAway(p) \/ Expire(p)
  \/ \E s \in Slots, k \in Places, o \in Postings : Post(p, s, k, o)
  \/ \E k \in Places : Withdraw(p, k)

ShopperStep(p) ==
  \/ \E q \in Keepers : Browse(p, q)
  \/ Look(p) \/ StopBrowsing(p)
  \/ \E k \in Places, n \in Amounts, d \in Slots : StartBuy(p, k, n, d)
  \/ BuyStep(p)

Step(p) ==
  \/ KeeperStep(p) \/ ShopperStep(p) \/ HangUp(p) \/ Quit(p)
  \/ \E f \in Finds : FindItem(p, f[1], f[2])
  \/ \E m \in Moves : MoveItem(p, m[1], m[2])

Next == UNCHANGED tidy /\ \E p \in Players : Step(p)

Spec == Init /\ [][Next]_vars

\* The runtime keeps polling a task that is in the middle of a handler.
Polled(p) == UNCHANGED tidy /\ (Look(p) \/ BuyStep(p))
Fairness == \A p \in Players : WF_vars(Polled(p))
FairSpec == Spec /\ Fairness

-----------------------------------------------------------------------------
(* Properties *)

TypeOK ==
  /\ presence \in [Players -> {"here", "away", "gone"}]
  /\ stall \in [Players -> {"closed", "preparing", "open"}]
  /\ listing \in [Players -> [Places -> Offer]]
  /\ looker \in [Players -> Players \cup {NoPlayer}]
  /\ browsing \in [Players -> Players \cup {NoPlayer}]
  /\ gold \in [Players -> 0 .. CoinMax]
  /\ cash \in [Players -> Nat]
  /\ bag \in [Players -> Bag]
  /\ task \in [Players -> Task]
  /\ tidy \subseteq Keepers

\* Units that task t has reserved at a place of q and that are still in q's bag.
Claimed == Stages \ {"idle", "look", "reserve", "close", "cut"}
Claim(t, q, k) == IF t.of = q /\ t.place = k /\ t.at \in Claimed THEN t.n ELSE 0
ReservedAt(q, k) == SumFunction([p \in Players |-> Claim(task[p], q, k)])

\* What can be bought of a stall and what shoppers have reserved there is in the
\* keeper's bag, in the slot it was posted from: no unit is promised to two
\* shoppers (try_merchant_buy).  A place that was sold out and got units back has
\* no price and cannot be bought.  For tidy keepers.
StockCovers ==
  \A q \in tidy, k \in Places :
    LET o == listing[q][k]
    IN  stall[q] = "open" /\ o.item # NoItem /\ o.price # 0 =>
          /\ o.slot \in Slots /\ bag[q][o.slot].item = o.item
          /\ o.count + ReservedAt(q, k) <= bag[q][o.slot].count

\* Stalls create no gold: what is in the purses and on its way between two of
\* them never grows (gold_lose answers whether it took the gold, and
\* merchant_item_buy does not look).
InTransit == SumFunction([p \in Players |-> IF task[p].at = "credit" THEN Cost(p) ELSE 0])
GoldNeverGrows == [][SumFunction(gold)' + InTransit' <= SumFunction(gold) + InTransit]_vars

\* A shopper paid q, and the connection was lost before the reply.
CutOff(q) == \E p \in Players : task[p].at = "cut" /\ task[p].of = q

\* An open stall with nothing left on it is closed in the end, by one of those
\* who bought there, whoever is last and whatever is given back in between;
\* unless one of them was cut off before looking: merchant_item_buy replies
\* first and looks afterwards, and such a stall may stay open, sold out.
SoldOutCloses ==
  \A q \in Keepers :
    (stall[q] = "open" /\ NothingLeft(q))
      ~> (stall[q] # "open" \/ ~NothingLeft(q) \/ CutOff(q))

\* world/trade.rs, restore_merchant_buy: "Restore a merchant slot after a
\* failed buy (undo `try_merchant_buy`)": the units can be bought again.  True
\* of offers of one unit, not of larger ones.
RestoreUndoes ==
  [][\A p \in Players :
       LET t == task[p] IN
       t.at = "restore" /\ task'[p].at = "idle" /\ stall[t.of] = "open"
         => Offers(listing'[t.of][t.place], t.item, t.n)]_vars

\* world/types.rs, MerchData.sell_count: "Selling count (how many for sale)":
\* a sale takes no more than that from the keeper.
SellsOnlyWhatIsListed ==
  [][\A p \in Players :
       LET t == task[p] IN
       t.at = "settle" /\ task'[p].at = "close"
         => Held(bag[t.of], t.item) - Held(bag'[t.of], t.item) <= t.n]_vars

\* merchant.rs: "Atomically take from merchant FIRST - prevents duplication
\* race": between purchases the world holds no more units than at the start.
NoDuplication ==
  Buying = {} => \A i \in Item :
    \E s \in Starts : World(i) <= SumFunction([p \in Players |-> Held(s.bag[p], i)])

=============================================================================
