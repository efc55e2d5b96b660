------------------------------ MODULE ClanBank ------------------------------
(***************************************************************************)
(* The warehouse of one clan (handler/clan_warehouse.rs): a cache shared   *)
(* by all members, loaded from the database by the first visitor and       *)
(* written through place by place.  A handler is a sequence of steps,      *)
(* split where it accesses the cache, the player's bag or the purse; a save *)
(* it starts is a task of its own that lands, or fails, at any later time. *)
(*                                                                         *)
(* The client names the item it moves, so a request is an item, a bag slot *)
(* or purse, a place of the warehouse and a count; items are counted with  *)
(* the low sixteen bits of what the client names.  Flags, expiry, serial   *)
(* numbers and weight are left out: they only make a handler refuse.       *)
(***************************************************************************)
EXTENDS Inventory

CONSTANTS
  Members,
  Officers,     \* members of rank CHIEF or VICECHIEF
  BankMax,      \* WAREHOUSE_MAX
  Amounts,      \* the u32 counts a request may name; 0 is refused
  Errands,      \* sets of requests: what the members come for, chosen at the start
  StartGold, StartBag,
  StartRows,    \* what the database holds of the warehouse at the start
  GoldBound,    \* bound: rewards stop when the clan owns this much
  Jobs,         \* bound: as many saves are under way as there are jobs
  Rush          \* two members may load the warehouse at the same time

Places == 1 .. BankMax

\* The tables clan_warehouse and knights (gold), and ClanWarehouseData.
Warehouse == [items : [Places -> Stack], gold : Nat]
NotLoaded == [items |-> [k \in Places |-> Empty], gold |-> 0, cold |-> TRUE]

\* A stack within its limit, and no units without an id.
Sound(stack) ==
  /\ stack \in Stack
  /\ stack.count <= StackMax /\ (stack.item \in Single => stack.count <= 1)
  /\ stack.item = NoItem => stack.count = 0

ASSUME ClanBankAssumption ==
  /\ IsFiniteSet(Members) /\ Officers \subseteq Members
  /\ BankMax \in Nat
  /\ Amounts \subseteq Nat \ {0}
  /\ StartGold \in [Members -> 0 .. CoinMax]
  /\ StartBag \in [Members -> Bag]
  /\ StartRows \in Warehouse
  /\ \A k \in Places : Sound(StartRows.items[k])
  /\ \A m \in Members, s \in Slots : Sound(StartBag[m][s])
  /\ GoldBound \in Nat
  /\ Rush \in BOOLEAN

VARIABLES
  rows,     \* the database
  bank,     \* CLAN_WAREHOUSES[clan_id], or NotLoaded
  bag, gold,
  task,     \* what a member's handler is in the middle of
  saves,    \* the saves under way
  errand    \* the requests of this behaviour

goods == <<bag, gold>>
house == <<rows, bank, saves, errand>>
vars == <<house, goods, task>>

\* A handler: its request, what it has read of the database and the place as
\* it left it (final_wh_slot).
Ops == {"open", "input", "output", "move", "inputGold", "outputGold"}
Stages == {"idle", "load", "install", "run", "strip", "pay", "gain", "grab", "deduct", "undo"}
Idle == [at |-> "idle", op |-> "open", item |-> NoItem, slot |-> 0, place |-> 0, to |-> 0,
         n |-> 0, seen |-> StartRows, final |-> Empty]
Task == [at : Stages, op : Ops, item : Item \cup {NoItem}, slot : {0} \cup Slots,
         place : {0} \cup Places, to : {0} \cup Places, n : Nat,
         seen : Warehouse, final : Stack]

\* A save carries its content with it.
ItemSave(k, stack) == [what |-> "item", place |-> k, stack |-> stack, gold |-> 0]
GoldSave(n) == [what |-> "gold", place |-> 0, stack |-> Empty, gold |-> n]
NoSave == [what |-> "nothing", place |-> 0, stack |-> Empty, gold |-> 0]
Saves == [what : {"nothing", "item", "gold"}, place : {0} \cup Places, stack : Stack, gold : Nat]

Loaded == bank # NotLoaded

Init ==
  /\ rows = StartRows
  /\ bank = NotLoaded
  /\ bag = StartBag
  /\ gold = StartGold
  /\ task = [m \in Members |-> Idle]
  /\ saves = [j \in Jobs |-> NoSave]
  /\ errand \in Errands

Ready(m) == task[m].at = "idle"
At(stage) == {m \in Members : task[m].at = stage}
Goto(m, stage) == task' = [task EXCEPT ![m].at = stage]
Done(m) == task' = [task EXCEPT ![m] = Idle]

-----------------------------------------------------------------------------
(* Requests *)

\* is_leader_or_assistant, asked before anything is taken out or moved.
Allowed(m, op) == op \in {"output", "outputGold", "move"} => m \in Officers

\* A stack serves n units of an item.
Has(stack, i, n) == stack.item = i /\ stack.count >= n

\* The checks of a handler up to ensure_loaded.  What the member's own bag or
\* purse lacks is refused after it and never changes for the better before.
Request(m, r) ==
  /\ Ready(m)
  /\ Allowed(m, r.op)
  /\ r.op = "input" => Has(bag[m][r.slot], r.item, r.n)
  /\ r.op = "inputGold" => gold[m] >= r.n
  /\ task' = [task EXCEPT ![m] = [r EXCEPT !.at = IF Loaded THEN "run" ELSE "load"]]
  /\ UNCHANGED <<house, goods>>

\* ensure_loaded: the rows are read ...
Fetch(m) ==
  /\ task[m].at = "load"
  /\ Rush \/ (At("install") = {} /\ ~Loaded)
  /\ task' = [task EXCEPT ![m].seen = rows, ![m].at = "install"]
  /\ UNCHANGED <<house, goods>>

\* ... and put in the cache, whatever it holds by now.
Install(m) ==
  /\ task[m].at = "install"
  /\ bank' = task[m].seen
  /\ task' = [task EXCEPT ![m].at = "run", ![m].seen = StartRows]
  /\ UNCHANGED <<rows, saves, errand, goods>>

\* Without a rush a second visitor finds the cache filled.
Join(m) ==
  /\ task[m].at = "load" /\ ~Rush /\ Loaded
  /\ Goto(m, "run")
  /\ UNCHANGED <<house, goods>>

\* CLAN_BANK_OPEN sends a copy.
Open(m) ==
  /\ task[m].at = "run" /\ task[m].op = "open"
  /\ Done(m)
  /\ UNCHANGED <<house, goods>>

-----------------------------------------------------------------------------
(* Saves *)

Spare == {j \in Jobs : saves[j] = NoSave}

\* save_clan_gold_async reads the cache when it is called, and
\* save_clan_wh_slot_async is given one place; both start a task and do not wait.
SaveGold == \E j \in Spare : saves' = [saves EXCEPT ![j] = GoldSave(bank.gold)]
SaveSlot(k, stack) == \E j \in Spare : saves' = [saves EXCEPT ![j] = ItemSave(k, stack)]

\* A slip: the old place is not saved.
SaveMoveTo(from, to) == SaveSlot(to, bank.items[from])

\* A move saves both places.
SaveMove(from, to) ==
  \E i, j \in Spare :
    i # j /\ saves' = [saves EXCEPT ![i] = ItemSave(from, Empty), ![j] = ItemSave(to, bank.items[from])]

Written(w, save) ==
  IF save.what = "item" THEN [w EXCEPT !.items[save.place] = save.stack] ELSE [w EXCEPT !.gold = save.gold]

\* The task reaches the database, in whatever order ...
Land(j) ==
  /\ saves[j] # NoSave
  /\ rows' = Written(rows, saves[j])
  /\ saves' = [saves EXCEPT ![j] = NoSave]
  /\ UNCHANGED <<bank, errand, goods, task>>

\* ... or does not: a warning is logged and nothing is tried again.
Fail(j) ==
  /\ saves[j] # NoSave
  /\ saves' = [saves EXCEPT ![j] = NoSave]
  /\ UNCHANGED <<rows, bank, errand, goods, task>>

-----------------------------------------------------------------------------
(* Gold *)

\* CLAN_BANK_INPUT of gold: the warehouse gains first ...
PutGold(m) ==
  LET n == task[m].n IN
  /\ task[m].at = "run" /\ task[m].op = "inputGold"
  /\ IF gold[m] >= n /\ bank.gold + n <= CoinMax
       THEN bank' = [bank EXCEPT !.gold = @ + n] /\ Goto(m, "pay")
       ELSE UNCHANGED bank /\ Done(m)
  /\ UNCHANGED <<rows, saves, errand, goods>>

\* ... then gold_lose.
Pay(m) ==
  /\ task[m].at = "pay"
  /\ gold' = [gold EXCEPT ![m] = IF @ >= task[m].n THEN @ - task[m].n ELSE @]
  /\ SaveGold
  /\ Done(m)
  /\ UNCHANGED <<rows, bank, errand, bag>>

\* A slip: the check of the warehouse's gold is left to the earlier look at it.
TakeGoldUnchecked(m) ==
  LET n == task[m].n IN
  /\ task[m].at = "run" /\ task[m].op = "outputGold"
  /\ IF gold[m] + n <= CoinMax
       THEN bank' = [bank EXCEPT !.gold = IF @ >= n THEN @ - n ELSE 0] /\ Goto(m, "gain")
       ELSE UNCHANGED bank /\ Done(m)
  /\ UNCHANGED <<rows, saves, errand, goods>>

\* CLAN_BANK_OUTPUT of gold.
TakeGold(m) ==
  LET n == task[m].n IN
  /\ task[m].at = "run" /\ task[m].op = "outputGold"
  /\ IF bank.gold >= n /\ gold[m] + n <= CoinMax
       THEN bank' = [bank EXCEPT !.gold = @ - n] /\ Goto(m, "gain")
       ELSE UNCHANGED bank /\ Done(m)
  /\ UNCHANGED <<rows, saves, errand, goods>>

Gain(m) ==
  /\ task[m].at = "gain"
  /\ gold' = [gold EXCEPT ![m] = GoldGain(@, task[m].n)]
  /\ SaveGold
  /\ Done(m)
  /\ UNCHANGED <<rows, bank, errand, bag>>

-----------------------------------------------------------------------------
(* Items *)

\* A stack accepts an item: the place is free, or holds the same countable item.
Accepts(stack, i) == stack.item = NoItem \/ (i \in Countable /\ stack.item = i)

\* A slip: the limit of a stack is forgotten.
AddedUnclamped(stack, i, n) ==
  [item |-> i, count |-> IF i \in Single THEN n ELSE stack.count + n]

\* What the receiving place holds then; beyond the limit the rest is lost.
Added(stack, i, n) ==
  [item |-> i, count |-> IF i \in Single THEN n ELSE Clamp(stack.count + n, StackMax)]

\* CLAN_BANK_INPUT: the warehouse gets the units and remembers the place as it is ...
PutItem(m) ==
  LET t == task[m] IN
  /\ t.at = "run" /\ t.op = "input"
  /\ IF Has(bag[m][t.slot], t.item, t.n) /\ Accepts(bank.items[t.place], t.item)
       THEN LET put == Added(bank.items[t.place], t.item, t.n) IN
            /\ bank' = [bank EXCEPT !.items[t.place] = put]
            /\ task' = [task EXCEPT ![m].at = "strip", ![m].final = put]
       ELSE UNCHANGED bank /\ Done(m)
  /\ UNCHANGED <<rows, saves, errand, goods>>

\* ... the bag loses them, and the place is saved as remembered.
Strip(m) ==
  LET t == task[m] IN
  /\ t.at = "strip"
  /\ bag' = [bag EXCEPT ![m][t.slot] = IF t.item \in Single THEN Empty ELSE Deduct(@, t.n)]
  /\ SaveSlot(t.place, t.final)
  /\ Done(m)
  /\ UNCHANGED <<rows, bank, errand, gold>>

\* CLAN_BANK_OUTPUT looks at the place ...
Look(m) ==
  LET t == task[m] IN
  /\ t.at = "run" /\ t.op = "output"
  /\ IF Has(bank.items[t.place], t.item, t.n) THEN Goto(m, "grab") ELSE Done(m)
  /\ UNCHANGED <<house, goods>>

\* ... puts the units in the bag ...
Grab(m) ==
  LET t == task[m] IN
  /\ t.at = "grab"
  /\ IF Accepts(bag[m][t.slot], t.item)
       THEN /\ bag' = [bag EXCEPT ![m][t.slot] = Added(@, t.item, t.n)]
            /\ Goto(m, "deduct")
       ELSE UNCHANGED bag /\ Done(m)
  /\ UNCHANGED <<house, gold>>

\* A slip: no second look at the place.
DeductTrusting(m) ==
  LET t == task[m]
      rest == IF bank.items[t.place].count <= t.n THEN Empty ELSE Deduct(bank.items[t.place], t.n)
  IN
  /\ t.at = "deduct"
  /\ bank' = [bank EXCEPT !.items[t.place] = rest]
  /\ SaveSlot(t.place, rest)
  /\ Done(m)
  /\ UNCHANGED <<rows, errand, goods>>

\* ... looks again and takes them out of the warehouse, whose place is saved as it is
\* then (862, after the lock; a save may land late in any case) ...
DeductBank(m) ==
  LET t == task[m]
      rest == IF t.item \in Single THEN Empty ELSE Deduct(bank.items[t.place], t.n)
  IN
  /\ t.at = "deduct"
  /\ IF Has(bank.items[t.place], t.item, t.n)
       THEN /\ bank' = [bank EXCEPT !.items[t.place] = rest]
            /\ SaveSlot(t.place, rest)
            /\ Done(m)
       ELSE UNCHANGED <<bank, saves>> /\ Goto(m, "undo")
  /\ UNCHANGED <<rows, errand, goods>>

\* ... or, when somebody else was faster, empties the bag's slot.
Undo(m) ==
  /\ task[m].at = "undo"
  /\ bag' = [bag EXCEPT ![m][task[m].slot] = Empty]
  /\ Done(m)
  /\ UNCHANGED <<house, gold>>

\* CLAN_BANK_MOVE: to a free place only.
Move(m) ==
  LET t == task[m] IN
  /\ t.at = "run" /\ t.op = "move"
  /\ IF bank.items[t.place].item = t.item /\ bank.items[t.to].item = NoItem
       THEN /\ bank' = [bank EXCEPT !.items[t.to] = bank.items[t.place], !.items[t.place] = Empty]
            /\ SaveMove(t.place, t.to)
       ELSE UNCHANGED <<bank, saves>>
  /\ Done(m)
  /\ UNCHANGED <<rows, errand, goods>>

\* CLAN_BANK_INVENTORY_MOVE swaps two slots of the bag.
InventoryMove(m, s, u) ==
  /\ Ready(m) /\ m \in Officers
  /\ bag' = [bag EXCEPT ![m][s] = bag[m][u], ![m][u] = bag[m][s]]
  /\ UNCHANGED <<house, gold, task>>

-----------------------------------------------------------------------------
(* Rewards reach a member in the middle of a handler. *)

Total == bank.gold + SumFunction(gold)

Earn(m) ==
  /\ Loaded /\ Total < GoldBound
  /\ gold' = [gold EXCEPT ![m] = GoldGain(@, 1)]
  /\ UNCHANGED <<house, bag, task>>

\* What a client may ask for: items are counted with a u16 wherever the count is
\* used; more gold than COIN_MAX is always refused.
GoldRequest(op, n) == [Idle EXCEPT !.op = op, !.n = n]
ItemRequest(op, i, s, k, n) == [Idle EXCEPT !.op = op, !.item = i, !.slot = s, !.place = k, !.n = n]
MoveRequest(i, k, j) == [Idle EXCEPT !.op = "move", !.item = i, !.place = k, !.to = j]
Requests ==
  {Idle}
    \cup {GoldRequest(op, n) : op \in {"inputGold", "outputGold"}, n \in Amounts \cap (0 .. CoinMax)}
    \cup {ItemRequest(op, i, s, k, U16(n)) :
            op \in {"input", "output"}, i \in Item, s \in Slots, k \in Places, n \in Amounts}
    \cup {MoveRequest(i, k, j) : i \in Item, k \in Places, j \in Places}

HandlerStep(m) ==
  \/ Fetch(m) \/ Install(m) \/ Join(m) \/ Open(m)
  \/ PutGold(m) \/ Pay(m) \/ TakeGold(m) \/ Gain(m)
  \/ PutItem(m) \/ Strip(m)
  \/ Look(m) \/ Grab(m) \/ DeductBank(m) \/ Undo(m)
  \/ Move(m)

Next ==
  \/ \E m \in Members :
       \/ \E r \in Requests \cap errand : Request(m, r)
       \/ HandlerStep(m)
       \/ \E s, u \in Slots : InventoryMove(m, s, u)
       \/ Earn(m)
  \/ \E j \in Jobs : Land(j) \/ Fail(j)

Spec == Init /\ [][Next]_vars

-----------------------------------------------------------------------------
(* Properties *)

\* Cache and rows, bags, purses, handlers and saves have their types; no stack is
\* over its limit, and there are no units of no item.
TypeOK ==
  /\ rows \in Warehouse /\ (Loaded => bank \in Warehouse)
  /\ gold \in [Members -> 0 .. CoinMax]
  /\ task \in [Members -> Task]
  /\ saves \in [Jobs -> Saves]
  /\ \A k \in Places : Sound(bank.items[k]) /\ Sound(rows.items[k])
  /\ \A m \in Members, s \in Slots : Sound(bag[m][s])

\* Units of an item in the clan; what is in the warehouse and in a bag at once,
\* because a handler has only written one of them, counts once.
Stored(i) == SumFunction([k \in Places |-> UnitsOf(bank.items[k], i)])
Carried(i) == SumFunction([m \in Members |-> Held(bag[m], i)])
Halfway == At("strip") \cup At("deduct") \cup At("undo")
Doubled(t, i) == IF t.at \in {"strip", "deduct", "undo"} /\ t.item = i THEN t.n ELSE 0
Twice(i) == SumFunction([m \in Members |-> Doubled(task[m], i)])
Units(i) == (Stored(i) + Carried(i)) - Twice(i)

\* A step of m that fills a stack to its limit.
FillsStack(m) ==
  \/ PutItem(m) /\ bank'.items[task[m].place].count = StackMax
  \/ Grab(m) /\ bag'[m][task[m].slot].count = StackMax

\* A unit that does not stack is moved by a request whose count is cut to nothing.
Vanishes(m) ==
  task[m].item \in Single /\ task[m].n = 0 /\ (Strip(m) \/ DeductBank(m))

\* "Re-validate under write lock to prevent TOCTOU race if two clan members
\* withdraw from the same slot concurrently": of a warehouse loaded by one member,
\* no item is doubled, however the handlers overlap; units are lost only by a
\* step that fills its stack, that undoes a withdrawal which came too late, or that
\* moves an item as a multiple of 65,536 units.
GoodsKept ==
  [][Loaded => \A i \in Item : LET before == Units(i)  after == Units(i)' IN
       /\ after <= before
       /\ after < before => \E m \in Members : FillsStack(m) \/ Undo(m) \/ Vanishes(m)]_<<bank.items, bag, Halfway>>

\* Gold that the warehouse and a purse hold at once, or neither of them.
Moving(t, stage) == IF t.at = stage THEN t.n ELSE 0
PaidTwice == SumFunction([m \in Members |-> Moving(task[m], "pay")])
Owed == SumFunction([m \in Members |-> Moving(task[m], "gain")])
ClanGold == (Total + Owed) - PaidTwice

\* Deposits and withdrawals at once neither make gold nor lose it, except where
\* a reward fills the purse under a withdrawal; only rewards add to it.
GoldKept ==
  [][Loaded => \/ ClanGold' = ClanGold
               \/ \E m \in Members : Earn(m)
               \/ \E m \in Members : Gain(m) /\ gold'[m] = CoinMax]_<<bank.gold, gold, At("pay"), At("gain")>>

\* The row of a place, or of the gold, is what the cache holds, or a save that will
\* make it so is under way or about to be started by a handler.
Backed(k) ==
  \/ rows.items[k] = bank.items[k]
  \/ \E j \in Jobs : saves[j] = ItemSave(k, bank.items[k])
  \/ \E m \in Members : /\ task[m].at = "strip"
                        /\ task[m].place = k /\ task[m].final = bank.items[k]
GoldBacked ==
  \/ rows.gold = bank.gold
  \/ \E j \in Jobs : saves[j] = GoldSave(bank.gold)
  \/ \E m \in Members : task[m].at \in {"pay", "gain"}

\* A save fails, or lands after the place has changed once more.
Outdated(save) ==
  IF save.what = "item" THEN save.stack # bank.items[save.place] ELSE save.gold # bank.gold
Mishap == \E j \in Jobs : Fail(j) \/ (Land(j) /\ Outdated(saves[j]))

\* Every change of the shared cache is saved: from the change on, whatever other
\* handlers do to the same place, only a save that fails or one that lands out of
\* order leaves the database behind.  (Until the next change of that place, that is:
\* nothing is tried again.)
RowsFollow ==
  [][Loaded =>
       /\ \A k \in Places :
            (Backed(k) \/ bank'.items[k] # bank.items[k]) => Backed(k)' \/ Mishap
       /\ (GoldBacked \/ bank'.gold # bank.gold) => GoldBacked' \/ Mishap]_vars

=============================================================================
