---------------------------- MODULE BuyingStall ----------------------------
(***************************************************************************)
(* Buying stalls: the second half of handler/merchant.rs.  A collector     *)
(* posts what is wanted and at which price; suppliers who look at the      *)
(* stall sell to it.  As in Stall, buying_merchant_list and                *)
(* buying_merchant_buy are sequences of steps.  buying_merchant_buy takes  *)
(* no reservation: all its writes follow from what it read at the start.   *)
(*                                                                         *)
(* A want is never posted for knight cash (is_kc is false), so that branch *)
(* is left out.  So are rewards, and disconnects but for one: a supplier   *)
(* whose connection is lost when the answer to a sale is sent.             *)
(***************************************************************************)
EXTENDS Inventory

CONSTANTS
  Collectors, Suppliers, NoPlayer,
  MaxMerch,     \* MAX_MERCH_ITEMS
  Orders,       \* the lists of wants a collector may post
  Amounts,      \* the counts a supplier offers
  StartGold,    \* what the characters own when the model starts
  StartBag,
  Crowding      \* two suppliers sell to one stall at the same time

Players == Collectors \cup Suppliers
Places == 1 .. MaxMerch

\* The fields of MerchData a buying stall uses: sell_count is the wanted count.
Want == [item : Item \cup {NoItem}, count : 0 .. CountMod - 1, price : Nat]
NoWant == [item |-> NoItem, count |-> 0, price |-> 0]

ASSUME BuyingStallAssumption ==
  /\ IsFiniteSet(Players) /\ NoPlayer \notin Players
  /\ MaxMerch \in Nat
  /\ Orders \subseteq [Places -> Want]
  /\ Amounts \subseteq Nat \ {0}
  /\ StartGold \in [Players -> 0 .. CoinMax]
  /\ StartBag \in [Players -> Bag]
  /\ Crowding \in BOOLEAN

VARIABLES
  stall,      \* merchant_state and buying_merchant_preparing
  wanted,     \* merchant_items
  looker, browsing, gold, bag,
  task,       \* what the session's task is in the middle of
  hasty       \* collectors who prepare a new stall while a sale to them is under way

shop == <<stall, wanted>>
view == <<looker, browsing>>
vars == <<shop, view, gold, bag, task, hasty>>

\* The local variables of buying_merchant_buy: wanted, seller_item.count,
\* buyer_dest and the request.
Stages == {"idle", "look", "charge", "credit", "strike", "store", "handOver", "close", "cut"}
Task == [at : Stages, of : Players \cup {NoPlayer}, place : {0} \cup Places, want : Want,
         n : Nat, slot : {0} \cup Slots, held : Nat, dest : {0} \cup Slots]
Idle == [at |-> "idle", of |-> NoPlayer, place |-> 0, want |-> NoWant,
         n |-> 0, slot |-> 0, held |-> 0, dest |-> 0]

Init ==
  /\ stall = [p \in Players |-> "closed"]
  /\ wanted = [p \in Players |-> [k \in Places |-> NoWant]]
  /\ looker = [p \in Players |-> NoPlayer]
  /\ browsing = [p \in Players |-> NoPlayer]
  /\ gold = StartGold
  /\ bag = StartBag
  /\ task = [p \in Players |-> Idle]
  /\ hasty \in SUBSET Collectors

Ready(p) == task[p].at = "idle"
Selling == {p \in Players : task[p].at \notin {"idle", "look", "cut"}}
Goto(p, stage) == task' = [task EXCEPT ![p].at = stage]
Done(p) == task' = [task EXCEPT ![p] = Idle]

-----------------------------------------------------------------------------
(* The collector *)

\* Unless collectors are hasty they let a sale to their old stall finish.
AtEase(p) == p \in hasty \/ \A r \in Selling : task[r].of # p

\* MERCHANT_BUY_OPEN clears the list.
Open(p) ==
  /\ Ready(p) /\ AtEase(p) /\ p \in Collectors /\ stall[p] = "closed"
  /\ stall' = [stall EXCEPT ![p] = "preparing"]
  /\ wanted' = [wanted EXCEPT ![p] = [k \in Places |-> NoWant]]
  /\ UNCHANGED <<view, gold, bag, task>>

OrderCost(order) == SumFunction([k \in Places |-> order[k].price * order[k].count])

\* The wants fill the places from the first; the others keep what they hold.
Posted(list, order) == [k \in Places |-> IF order[k] = NoWant THEN list[k] ELSE order[k]]

\* Mutant: each want is compared with the purse, not their sum.
InsertUnsummed(p, order) ==
  /\ Ready(p) /\ stall[p] = "preparing"
  /\ \A k \in Places : order[k].price * order[k].count <= gold[p]
  /\ wanted' = [wanted EXCEPT ![p] = Posted(@, order)]
  /\ stall' = [stall EXCEPT ![p] = "open"]
  /\ UNCHANGED <<view, gold, bag, task>>

\* MERCHANT_BUY_INSERT: the purse covers the whole list.
Insert(p, order) ==
  /\ Ready(p) /\ stall[p] = "preparing"
  /\ OrderCost(order) <= gold[p]
  /\ wanted' = [wanted EXCEPT ![p] = Posted(@, order)]
  /\ stall' = [stall EXCEPT ![p] = "open"]
  /\ UNCHANGED <<view, gold, bag, task>>

\* close_buying_merchant.
CloseStall(p) ==
  /\ stall' = [stall EXCEPT ![p] = "closed"]
  /\ wanted' = [wanted EXCEPT ![p] = [k \in Places |-> NoWant]]
  /\ looker' = [looker EXCEPT ![p] = NoPlayer]

\* MERCHANT_BUY_CLOSE, and MERCHANT_BUY_OPEN of an open stall: the looker is
\* told and stops browsing.
Close(p) ==
  /\ Ready(p) /\ stall[p] # "closed"
  /\ CloseStall(p)
  /\ browsing' = [q \in Players |-> IF q = looker[p] THEN NoPlayer ELSE browsing[q]]
  /\ UNCHANGED <<gold, bag, task>>

-----------------------------------------------------------------------------
(* The supplier *)

\* MERCHANT_BUY_LIST: nobody else looks ...
Browse(p, q) ==
  /\ Ready(p) /\ p \in Suppliers /\ stall[q] = "open" /\ looker[q] \in {NoPlayer, p}
  /\ task' = [task EXCEPT ![p] = [Idle EXCEPT !.at = "look", !.of = q]]
  /\ UNCHANGED <<shop, view, gold, bag>>

\* ... and the two fields are set.
Look(p) ==
  /\ task[p].at = "look"
  /\ looker' = [looker EXCEPT ![task[p].of] = p]
  /\ browsing' = [browsing EXCEPT ![p] = task[p].of]
  /\ Done(p)
  /\ UNCHANGED <<shop, gold, bag>>

\* MERCHANT_TRADE_CANCEL, and MERCHANT_BUY_CLOSE of somebody without a stall.
StopBrowsing(p) ==
  /\ Ready(p) /\ browsing[p] # NoPlayer
  /\ looker' = [q \in Players |-> IF q = browsing[p] /\ looker[q] = p THEN NoPlayer ELSE looker[q]]
  /\ browsing' = [browsing EXCEPT ![p] = NoPlayer]
  /\ UNCHANGED <<shop, gold, bag, task>>

Cost(p) == task[p].want.price * task[p].n

\* Mutant: the supplier's stack is not measured.
HasAny(stack, w, n) == stack.item = w.item

\* The supplier's stack serves n units of the want.
Has(stack, w, n) == stack.item = w.item /\ stack.count >= n

\* MERCHANT_BUY_BUY up to "Execute transaction".  Nothing is asked of the
\* supplier: dead, trading or keeping a stall is all the same.
StartSale(p, s, k, n) ==
  LET q == browsing[p]
      w == wanted[q][k]
  IN  /\ Ready(p) /\ q \notin {NoPlayer, p} /\ stall[q] = "open"
      /\ Crowding \/ \A r \in Selling : task[r].of # q
      /\ w.item # NoItem /\ w.count >= n
      /\ Has(bag[p][s], w, n)
      /\ w.item \in Single => n = 1
      /\ gold[q] >= w.price * n
      /\ \E d \in FindSlot(bag[q], w.item, n) :
           task' = [task EXCEPT ![p] = [Idle EXCEPT !.at = "charge", !.of = q, !.place = k,
                      !.want = w, !.n = n, !.slot = s, !.held = bag[p][s].count, !.dest = d]]
      /\ UNCHANGED <<shop, view, gold, bag>>

\* gold_lose of the collector; its answer is not looked at.
Charge(p) ==
  /\ task[p].at = "charge"
  /\ gold' = [gold EXCEPT ![task[p].of] = IF @ >= Cost(p) THEN @ - Cost(p) ELSE @]
  /\ Goto(p, "credit")
  /\ UNCHANGED <<shop, view, bag>>

Credit(p) ==
  /\ task[p].at = "credit"
  /\ gold' = [gold EXCEPT ![p] = GoldGain(@, Cost(p))]
  /\ Goto(p, "strike")
  /\ UNCHANGED <<shop, view, bag>>

\* What is still wanted.
Left(w, n) == IF w.count = n THEN NoWant ELSE [w EXCEPT !.count = @ - n]

\* The place is overwritten with what the handler knows of it.
Strike(p) ==
  LET t == task[p] IN
  /\ t.at = "strike"
  /\ wanted' = [wanted EXCEPT ![t.of][t.place] = Left(t.want, t.n)]
  /\ Goto(p, "store")
  /\ UNCHANGED <<stall, view, gold, bag>>

\* The collector's slot found at the start: added to, or else overwritten.
AddedTo(stack, t) ==
  IF stack.item = t.want.item
  THEN [stack EXCEPT !.count = Clamp(@ + t.n, CountMod - 1)]
  ELSE [item |-> t.want.item, count |-> t.n]

Store(p) ==
  LET t == task[p] IN
  /\ t.at = "store"
  /\ bag' = [bag EXCEPT ![t.of][t.dest] = AddedTo(@, t)]
  /\ Goto(p, "handOver")
  /\ UNCHANGED <<shop, view, gold>>

\* Mutant: the stack is emptied whatever was sold of it.
EmptiedStack(stack, t) == Empty

\* The supplier's slot: what was left of the stack seen at the start.
HandedOver(stack, t) == IF t.held = t.n THEN Empty ELSE [stack EXCEPT !.count = t.held - t.n]

HandOver(p) ==
  LET t == task[p] IN
  /\ t.at = "handOver"
  /\ bag' = [bag EXCEPT ![p][t.slot] = HandedOver(@, t)]
  /\ Goto(p, "close")
  /\ UNCHANGED <<shop, view, gold>>

NothingWanted(q) == \A k \in Places : wanted[q][k].item = NoItem

\* Mutant: the stall is closed only after a sale at a hidden place.
CloseAfterHidden(p) ==
  LET q == task[p].of IN
  /\ task[p].at = "close"
  /\ IF NothingWanted(q) /\ task[p].place > 1 THEN CloseStall(q) ELSE UNCHANGED <<shop, looker>>
  /\ Done(p)
  /\ UNCHANGED <<browsing, gold, bag>>

\* A stall that has got everything is closed.
CloseIfDone(p) ==
  LET q == task[p].of IN
  /\ task[p].at = "close"
  /\ IF NothingWanted(q) THEN CloseStall(q) ELSE UNCHANGED <<shop, looker>>
  /\ Done(p)
  /\ UNCHANGED <<browsing, gold, bag>>

\* The answer cannot be sent, so the handler returns before it looks whether the
\* stall has got everything, and the supplier's session is cleaned up.  The task
\* keeps note of the stall it left so.  Suppliers who keep an open stall
\* themselves, or to whom somebody is selling, are left out.
HangUp(p) ==
  /\ task[p].at = "close" /\ stall[p] # "open"
  /\ \A r \in Selling : task[r].of # p
  /\ task' = [task EXCEPT ![p] = [Idle EXCEPT !.at = "cut", !.of = task[p].of]]
  /\ stall' = [stall EXCEPT ![p] = "closed"]
  /\ wanted' = [wanted EXCEPT ![p] = [k \in Places |-> NoWant]]
  /\ looker' = [q \in Players |->
       IF q = p \/ (q = browsing[p] /\ looker[q] = p) THEN NoPlayer ELSE looker[q]]
  /\ browsing' = [browsing EXCEPT ![p] = NoPlayer]
  /\ UNCHANGED <<gold, bag>>

SaleStep(p) ==
  Charge(p) \/ Credit(p) \/ Strike(p) \/ Store(p) \/ HandOver(p) \/ CloseIfDone(p)

Step(p) ==
  \/ Open(p) \/ Close(p)
  \/ \E order \in Orders : Insert(p, order)
  \/ \E q \in Collectors : Browse(p, q)
  \/ Look(p) \/ StopBrowsing(p)
  \/ \E s \in Slots, k \in Places, n \in Amounts : StartSale(p, s, k, n)
  \/ SaleStep(p) \/ HangUp(p)

Next == UNCHANGED hasty /\ \E p \in Players : Step(p)

Spec == Init /\ [][Next]_vars

\* The runtime keeps polling a task that is in the middle of a handler.
Polled(p) == UNCHANGED hasty /\ (Look(p) \/ SaleStep(p))
Fairness == \A p \in Players : WF_vars(Polled(p))
FairSpec == Spec /\ Fairness

-----------------------------------------------------------------------------
(* Properties *)

TypeOK ==
  /\ stall \in [Players -> {"closed", "preparing", "open"}]
  /\ wanted \in [Players -> [Places -> Want]]
  /\ looker \in [Players -> Players \cup {NoPlayer}]
  /\ browsing \in [Players -> Players \cup {NoPlayer}]
  /\ gold \in [Players -> 0 .. CoinMax]
  /\ bag \in [Players -> Bag]
  /\ task \in [Players -> Task]
  /\ hasty \subseteq Collectors

\* What the collector is still to be charged, and what the list still says of
\* units that are already sold.
Pending == {"charge", "credit", "strike"}
Due(t, q, stages) == IF t.of = q /\ t.at \in stages THEN t.want.price * t.n ELSE 0
Owed(q) == SumFunction([p \in Players |-> Due(task[p], q, {"charge"})])
Unstruck(q) == SumFunction([p \in Players |-> Due(task[p], q, Pending)])

\* An open buying stall can pay for everything it still wants
\* (buying_merchant_insert checks the sum once; the sales must keep it so).
\* With one sale at a time, for collectors who are not hasty: the last steps of
\* a sale to the old stall write into the new list.
OrderFunded ==
  \A q \in Collectors \ hasty :
    stall[q] = "open" =>
      OrderCost(wanted[q]) + Owed(q) <= gold[q] + Unstruck(q)

\* A supplier was cut off from q's stall before it looked whether to close it.
CutOff(q) == \E p \in Players : task[p].at = "cut" /\ task[p].of = q

\* A stall that has got everything it wanted is closed in the end, by the last
\* supplier or by its owner, unless a supplier is cut off in between.
FilledOrderCloses ==
  \A q \in Collectors :
    (stall[q] = "open" /\ NothingWanted(q))
      ~> (stall[q] # "open" \/ ~NothingWanted(q) \/ CutOff(q))

\* The sales of Market: a sale counts as made when its checks have passed.  What
\* a sale still has to move is put right here: the supplier's gold, the goods the
\* collector is still to get and those the supplier is still to give.
Earned(p) == IF task[p].at \in {"charge", "credit"} THEN Cost(p) ELSE 0
Unstored == {"charge", "credit", "strike", "store"}
Moving(t, i, stages) == IF t.want.item = i /\ t.at \in stages THEN t.n ELSE 0
Expected(q, i) ==
  SumFunction([p \in Players |-> IF task[p].of = q THEN Moving(task[p], i, Unstored) ELSE 0])

purse == [p \in Players |-> GoldGain(gold[p], Earned(p)) - Owed(p)]
goods == [p \in Players |-> [i \in Item |->
  Held(bag[p], i) + Expected(p, i) - Moving(task[p], i, Unstored \cup {"handOver"})]]
Sales == INSTANCE Market WITH
  Prices <- {order[k].price : order \in Orders, k \in Places}

\* A sale to a buying stall is atomic when the stall has one sale at a time
\* (merchant_looker is meant to see to that): it moves its goods one way and its
\* gold the other, whatever the collector does in between (buying_merchant_buy).
\* For suppliers who keep no buying stall themselves: goods they are sold while
\* they sell would be overwritten by what the handler saw of their stack.
SalesAreAtomic == Sales!Spec

\* merchant.rs: "Gold payment: check merchant has enough gold": no sale makes
\* gold.
Total == MapThenSumSet(LAMBDA p : gold[p], Players)
InTransit == MapThenSumSet(Cost, {p \in Players : task[p].at = "credit"})
GoldNeverGrows == [][Total' + InTransit' <= Total + InTransit]_vars

=============================================================================
