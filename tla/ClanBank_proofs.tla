--------------------------- MODULE ClanBank_proofs ---------------------------
(* Proofs about ClanBank, for any members, items, places and amounts.          *)
EXTENDS ClanBank, Sums_proofs

USE ClanBankAssumption, InventoryAssumption DEF ClanBankAssumption, InventoryAssumption

-----------------------------------------------------------------------------
(* Stacks, the cache and requests. *)

LEMMA EmptySound == Sound(Empty) /\ Empty \in Stack /\ Empty.item = NoItem /\ Empty.count = 0
BY DEF Sound, Empty, Stack

LEMMA DeductSound ==
  ASSUME NEW stack, Sound(stack), NEW i \in Item, NEW n \in Nat, Has(stack, i, n)
  PROVE  Sound(Deduct(stack, n))
<1>1. CASE stack.count = n
  BY <1>1, EmptySound DEF Deduct
<1>2. CASE stack.count # n
  <2>1. Deduct(stack, n) = [stack EXCEPT !.count = stack.count - n]
    BY <1>2 DEF Deduct
  <2>2. /\ stack.count - n \in 0 .. CountMod - 1 /\ stack.count - n <= StackMax
        /\ stack.item \in Single => stack.count - n <= 1
    BY <1>2 DEF Sound, Has, Stack
  <2>3. stack.item # NoItem
    BY DEF Has, Item
  <2>4. Deduct(stack, n) \in Stack /\ Deduct(stack, n).count = stack.count - n /\ Deduct(stack, n).item = stack.item
    BY <2>1, <2>2 DEF Sound, Stack
  <2> QED
    BY <2>2, <2>3, <2>4 DEF Sound
<1> QED
  BY <1>1, <1>2

\* Units that fit in a stack of their item.
Fit(i, n) == n \in Nat /\ n <= StackMax /\ (i \in Single => n <= 1)

LEMMA HasFit ==
  ASSUME NEW stack, Sound(stack), NEW i \in Item, NEW n \in Nat, Has(stack, i, n)
  PROVE  Fit(i, n)
BY DEF Sound, Has, Stack, Fit

\* Whatever is added to a stack, the result is within the limit if the units are.
LEMMA AddedSound ==
  ASSUME NEW stack, Sound(stack), NEW i \in Item, NEW n, Fit(i, n)
  PROVE  /\ Sound(Added(stack, i, n)) /\ Has(Added(stack, i, n), i, n)
         /\ Added(stack, i, n).item = i
         /\ i \in Single => Added(stack, i, n).count = n
         /\ i \notin Single => Added(stack, i, n).count = Clamp(stack.count + n, StackMax)
<1> DEFINE c == IF i \in Single THEN n ELSE Clamp(stack.count + n, StackMax)
<1>1. c \in 0 .. StackMax /\ (i \in Single => c <= 1) /\ c >= n
  BY DEF Clamp, Sound, Stack, Fit
<1>2. Added(stack, i, n) = [item |-> i, count |-> c]
  BY DEF Added
<1>3. (i \in Single => c = n) /\ (i \notin Single => c = Clamp(stack.count + n, StackMax))
  OBVIOUS
<1> HIDE DEF c
<1>4. i # NoItem
  BY DEF Item
<1>5. Added(stack, i, n).item = i /\ Added(stack, i, n).count = c /\ Added(stack, i, n) \in Stack
  BY <1>1, <1>2 DEF Stack
<1>6. Sound(Added(stack, i, n)) /\ Has(Added(stack, i, n), i, n)
  BY <1>1, <1>4, <1>5 DEF Sound, Has
<1> QED
  BY <1>3, <1>5, <1>6

\* A loaded cache is never taken for the missing one.
LEMMA LoadedIs == \A w \in Warehouse : w # NotLoaded
<1> SUFFICES ASSUME NotLoaded \in Warehouse PROVE FALSE
  OBVIOUS
<1>1. DOMAIN NotLoaded = {"items", "gold"}
  BY DEF Warehouse
<1>2. "cold" \in DOMAIN NotLoaded
  BY DEF NotLoaded
<1> QED
  BY <1>1, <1>2

\* The request of a handler.
Asked(t) ==
  /\ t.op \in {"input", "output"} =>
       t.item \in Item /\ t.slot \in Slots /\ t.place \in Places /\ t.n \in Nat
  /\ t.op = "move" => t.item \in Item /\ t.place \in Places /\ t.to \in Places

LEMMA IdleIs == Idle \in Task /\ Idle.at = "idle" /\ Idle.op = "open"
<1>1. Empty \in Stack
  BY EmptySound
<1> QED
  BY <1>1 DEF Idle, Task, Stages, Ops

\* A u32 cut to a u16.
LEMMA CutIs == \A n \in Nat : U16(n) \in Nat
<1> SUFFICES ASSUME NEW n \in Nat PROVE U16(n) \in Nat
  OBVIOUS
<1>1. CountMod \in Nat /\ CountMod > 0
  OBVIOUS
<1> QED
  BY <1>1 DEF U16

LEMMA RequestIs ==
  ASSUME NEW r \in Requests, NEW stage \in Stages
  PROVE  /\ [r EXCEPT !.at = stage] \in Task /\ [r EXCEPT !.at = stage].at = stage
         /\ Asked([r EXCEPT !.at = stage])
         /\ [r EXCEPT !.at = stage].op = r.op
<1>1. r \in Task /\ Asked(r)
  <2>1. CASE r = Idle
    BY <2>1, IdleIs DEF Asked
  <2>2. ASSUME NEW op \in {"inputGold", "outputGold"}, NEW n \in Amounts, r = GoldRequest(op, n)
        PROVE  r \in Task /\ Asked(r)
    BY <2>2, IdleIs DEF GoldRequest, Asked, Task, Ops
  <2>3. ASSUME NEW op \in {"input", "output"}, NEW i \in Item, NEW s \in Slots, NEW k \in Places, NEW n \in Amounts,
               r = ItemRequest(op, i, s, k, U16(n))
        PROVE  r \in Task /\ Asked(r)
    BY <2>3, CutIs, IdleIs DEF ItemRequest, Asked, Task, Ops
  <2>4. ASSUME NEW i \in Item, NEW k \in Places, NEW j \in Places,
               r = MoveRequest(i, k, j)
        PROVE  r \in Task /\ Asked(r)
    BY <2>4, IdleIs DEF MoveRequest, Asked, Task, Ops
  <2>5. \/ r = Idle
        \/ \E op \in {"inputGold", "outputGold"}, n \in Amounts : r = GoldRequest(op, n)
        \/ \E op \in {"input", "output"}, i \in Item, s \in Slots, k \in Places, n \in Amounts :
             r = ItemRequest(op, i, s, k, U16(n))
        \/ \E i \in Item, k \in Places, j \in Places :
             r = MoveRequest(i, k, j)
    BY DEF Requests
  <2> QED
    BY <2>1, <2>2, <2>3, <2>4, <2>5
<1> QED
  BY <1>1 DEF Task, Asked

-----------------------------------------------------------------------------
(* The inductive invariant. *)

SoundHouse(w) == w \in Warehouse /\ \A k \in Places : Sound(w.items[k])

\* A handler in the middle of a request, with its member's bag: a deposit still has
\* in the bag what the warehouse already holds, and a withdrawal has what it is to deduct.
Fine(t, mine, loaded) ==
  /\ t \in Task /\ Asked(t)
  /\ t.at = "idle" => t = Idle
  /\ t.at = "strip" => t.op = "input" /\ Sound(t.final) /\ Has(mine[t.slot], t.item, t.n)
  /\ t.at \in {"grab", "deduct", "undo"} => t.op = "output" /\ Fit(t.item, t.n)
  /\ t.at \in {"deduct", "undo"} => Has(mine[t.slot], t.item, t.n)
  /\ t.at \notin {"idle", "load", "install"} => loaded
  /\ t.at = "install" => \A k \in Places : Sound(t.seen.items[k])

\* A save carries a sound stack to a place that exists.
SoundSave(x) == x \in Saves /\ (x.what = "item" => x.place \in Places /\ Sound(x.stack))
Database == SoundHouse(rows) /\ saves \in [Jobs -> Saves] /\ \A j \in Jobs : SoundSave(saves[j])

Houses == Database /\ (bank = NotLoaded \/ SoundHouse(bank))
Goods ==
  /\ gold \in [Members -> 0 .. CoinMax]
  /\ bag \in [Members -> Bag] /\ \A m \in Members, s \in Slots : Sound(bag[m][s])
Tasks ==
  /\ task \in [Members -> Task]
  /\ \A m \in Members : Fine(task[m], bag[m], Loaded)

Inv == Houses /\ Goods /\ Tasks

LEMMA IdleFine == \A mine, loaded : Fine(Idle, mine, loaded)
BY IdleIs DEF Fine, Asked

\* A step of m's handler.
LEMMA HandlerKeeps ==
  ASSUME Inv, NEW m \in Members, NEW t, task' = [task EXCEPT ![m] = t], Fine(t, bag'[m], Loaded'),
         Houses', Goods', Loaded => Loaded', \A q \in Members \ {m} : bag'[q] = bag[q]
  PROVE  Inv'
<1>1. task' \in [Members -> Task]
  BY DEF Inv, Tasks, Fine
<1>2. ASSUME NEW q \in Members
      PROVE  Fine(task'[q], bag'[q], Loaded')
  <2>1. CASE q = m
    BY <2>1 DEF Inv, Tasks
  <2>2. CASE q # m
    <3>1. task'[q] = task[q] /\ bag'[q] = bag[q] /\ Fine(task[q], bag[q], Loaded)
      BY <2>2 DEF Inv, Tasks
    <3> QED
      BY <3>1 DEF Fine
  <2> QED
    BY <2>1, <2>2
<1> QED
  BY <1>1, <1>2 DEF Inv, Tasks

\* The handler is done.
LEMMA DoneKeeps ==
  ASSUME Inv, NEW m \in Members, Done(m), Houses', Goods', Loaded => Loaded',
         \A q \in Members \ {m} : bag'[q] = bag[q]
  PROVE  Inv'
BY HandlerKeeps, IdleFine DEF Done

\* The handler goes on.
LEMMA GotoIs ==
  ASSUME Inv, NEW m \in Members, NEW stage \in Stages, Goto(m, stage)
  PROVE  /\ task' = [task EXCEPT ![m] = [task[m] EXCEPT !.at = stage]]
         /\ [task[m] EXCEPT !.at = stage] \in Task
         /\ [task[m] EXCEPT !.at = stage].at = stage
         /\ \A f \in {"op", "item", "slot", "place", "to", "n", "seen", "final"} :
              [task[m] EXCEPT !.at = stage][f] = task[m][f]
<1>1. task[m] \in Task /\ task \in [Members -> Task]
  BY DEF Inv, Tasks
<1>2. task' = [task EXCEPT ![m] = [task[m] EXCEPT !.at = stage]]
  BY <1>1 DEF Goto
<1> QED
  BY <1>1, <1>2 DEF Task

LEMMA Untouched ==
  ASSUME Inv
  PROVE  /\ UNCHANGED <<rows, saves>> => Database'
         /\ UNCHANGED house => Houses' /\ (Loaded' <=> Loaded)
         /\ UNCHANGED goods => Goods'
BY DEF Inv, Houses, Database, Goods, Loaded, goods, house

LEMMA RequestInv ==
  ASSUME Inv, NEW m \in Members, NEW r \in Requests, Request(m, r)
  PROVE  Inv'
<1> DEFINE stage == IF Loaded THEN "run" ELSE "load"
           t == [r EXCEPT !.at = stage]
<1>1. stage \in Stages
  BY DEF Stages
<1>2. t \in Task /\ t.at = stage /\ Asked(t)
  BY <1>1, RequestIs
<1>3. task' = [task EXCEPT ![m] = t] /\ UNCHANGED <<house, goods>>
  BY DEF Request
<1> HIDE DEF t
<1>4. Fine(t, bag'[m], Loaded')
  BY <1>2, <1>3, Untouched DEF Fine
<1> QED
  BY <1>3, <1>4, Untouched, HandlerKeeps DEF goods

LEMMA LoadInv ==
  ASSUME Inv, NEW m \in Members, Fetch(m) \/ Install(m) \/ Join(m) \/ Open(m)
  PROVE  Inv'
<1>1. task[m] \in Task /\ Asked(task[m]) /\ Fine(task[m], bag[m], Loaded) /\ task \in [Members -> Task] /\ rows \in Warehouse
  BY DEF Inv, Tasks, Fine, Houses, Database, SoundHouse
<1>2. CASE Fetch(m)
  <2> DEFINE t == [task[m] EXCEPT !.seen = rows, !.at = "install"]
  <2>1. task' = [task EXCEPT ![m] = t] /\ UNCHANGED <<house, goods>>
    BY <1>1, <1>2 DEF Fetch
  <2>2. t \in Task /\ Asked(t) /\ t.at = "install" /\ t.seen = rows
    BY <1>1 DEF Task, Asked, Stages
  <2> HIDE DEF t
  <2>3. Fine(t, bag'[m], Loaded')
    BY <2>2 DEF Fine, Inv, Houses, Database, SoundHouse
  <2> QED
    BY <2>1, <2>3, Untouched, HandlerKeeps DEF goods
<1>3. CASE Install(m)
  <2> DEFINE t == [task[m] EXCEPT !.at = "run", !.seen = StartRows]
  <2>1. task' = [task EXCEPT ![m] = t] /\ UNCHANGED <<rows, saves, goods>> /\ bank' = task[m].seen
    BY <1>1, <1>3 DEF Install
  <2>2. t \in Task /\ Asked(t) /\ t.at = "run"
    BY <1>1 DEF Task, Asked, Stages
  <2> HIDE DEF t
  <2>3. SoundHouse(bank') /\ Loaded'
    BY <1>1, <1>3, <2>1, LoadedIs DEF Install, Fine, SoundHouse, Task, Loaded
  <2>4. Fine(t, bag'[m], Loaded')
    BY <2>2, <2>3 DEF Fine
  <2>5. Houses' /\ Goods'
    BY <2>1, <2>3, Untouched DEF Houses, Inv
  <2> QED
    BY <2>1, <2>3, <2>4, <2>5, HandlerKeeps DEF goods
<1>4. CASE Join(m)
  <2>1. Goto(m, "run") /\ UNCHANGED <<house, goods>> /\ Loaded
    BY <1>4 DEF Join
  <2> DEFINE t == [task[m] EXCEPT !.at = "run"]
  <2>2. task' = [task EXCEPT ![m] = t] /\ t \in Task /\ t.at = "run" /\ Asked(t)
    BY <1>1, <2>1, GotoIs DEF Stages, Asked
  <2> HIDE DEF t
  <2>3. Fine(t, bag'[m], Loaded')
    BY <2>1, <2>2, Untouched DEF Fine
  <2> QED
    BY <2>1, <2>2, <2>3, Untouched, HandlerKeeps DEF goods
<1>5. CASE Open(m)
  BY <1>5, Untouched, DoneKeeps DEF Open, goods
<1> QED
  BY <1>2, <1>3, <1>4, <1>5

-----------------------------------------------------------------------------
(* Warehouses, purses and bags after a write. *)

\* The saves a handler starts.
LEMMA SavesStarted ==
  ASSUME Inv, rows' = rows
  PROVE  /\ SoundHouse(bank) /\ SaveGold => Database'
         /\ \A k \in Places : \A x : Sound(x) /\ SaveSlot(k, x) => Database'
         /\ \A k, l \in Places : Sound(bank.items[k]) /\ SaveMove(k, l) => Database'
<1>1. saves \in [Jobs -> Saves] /\ (\A j \in Jobs : SoundSave(saves[j])) /\ SoundHouse(rows')
  BY DEF Inv, Houses, Database
<1>2. SoundHouse(bank) => SoundSave(GoldSave(bank.gold))
  BY EmptySound DEF SoundHouse, Warehouse, SoundSave, GoldSave, Saves
<1>3. \A k \in Places : \A x : Sound(x) => SoundSave(ItemSave(k, x))
  BY DEF SoundSave, ItemSave, Saves, Sound
<1>4. ASSUME NEW j \in Jobs, NEW x, SoundSave(x), saves' = [saves EXCEPT ![j] = x] PROVE Database'
  BY <1>1, <1>4 DEF Database, SoundSave
<1>5. SoundHouse(bank) /\ SaveGold => Database'
  BY <1>2, <1>4 DEF SaveGold, Spare
<1>6. ASSUME NEW k \in Places, NEW x, Sound(x), SaveSlot(k, x) PROVE Database'
  BY <1>3, <1>4, <1>6 DEF SaveSlot, Spare
<1>7. ASSUME NEW k \in Places, NEW l \in Places, Sound(bank.items[k]), SaveMove(k, l) PROVE Database'
  <2>1. SoundSave(ItemSave(k, Empty)) /\ SoundSave(ItemSave(l, bank.items[k]))
    BY <1>3, <1>7, EmptySound
  <2>2. PICK i \in Spare, j \in Spare :
          saves' = [saves EXCEPT ![i] = ItemSave(k, Empty), ![j] = ItemSave(l, bank.items[k])]
    BY <1>7 DEF SaveMove
  <2> HIDE DEF ItemSave
  <2>3. saves' \in [Jobs -> Saves] /\ \A x \in Jobs : SoundSave(saves'[x])
    BY <1>1, <2>1, <2>2 DEF SoundSave, Spare
  <2> QED
    BY <1>1, <2>3 DEF Database
<1> QED
  BY <1>5, <1>6, <1>7

LEMMA GoldWritten ==
  ASSUME NEW w, SoundHouse(w), NEW g \in Nat
  PROVE  LET v == [w EXCEPT !.gold = g] IN SoundHouse(v) /\ v.gold = g /\ v.items = w.items
<1> DEFINE v == [w EXCEPT !.gold = g]
<1>1. v \in Warehouse /\ v.gold = g /\ v.items = w.items
  BY DEF SoundHouse, Warehouse
<1> QED
  BY <1>1 DEF SoundHouse

LEMMA SlotWritten ==
  ASSUME NEW w, SoundHouse(w), NEW k \in Places, NEW stack, Sound(stack)
  PROVE  LET v == [w EXCEPT !.items[k] = stack]
         IN  SoundHouse(v) /\ v.gold = w.gold /\ v.items = [w.items EXCEPT ![k] = stack]
<1> DEFINE v == [w EXCEPT !.items[k] = stack]
<1>1. w \in Warehouse /\ w.items \in [Places -> Stack] /\ stack \in Stack
  BY DEF SoundHouse, Warehouse, Sound
<1>2. v.gold = w.gold /\ v.items = [w.items EXCEPT ![k] = stack]
  BY <1>1 DEF Warehouse
<1>3. [w.items EXCEPT ![k] = stack] \in [Places -> Stack]
  BY <1>1
<1>4. v = [w EXCEPT !.items = [w.items EXCEPT ![k] = stack]]
  BY <1>1 DEF Warehouse
<1>5. v \in Warehouse
  BY <1>1, <1>3, <1>4 DEF Warehouse
<1>6. \A j \in Places : Sound(v.items[j])
  BY <1>1, <1>2 DEF SoundHouse
<1> QED
  BY <1>2, <1>5, <1>6 DEF SoundHouse

\* Two places written at once, as a move does.
Wrote(w, k, a, j, b) == [w EXCEPT !.items[k] = a, !.items[j] = b]

LEMMA SlotsWritten ==
  ASSUME NEW w, SoundHouse(w), NEW k \in Places, NEW j \in Places, NEW a, Sound(a), NEW b, Sound(b), k # j
  PROVE  /\ SoundHouse(Wrote(w, k, a, j, b)) /\ Wrote(w, k, a, j, b).gold = w.gold
         /\ Wrote(w, k, a, j, b).items[j] = b /\ Wrote(w, k, a, j, b).items[k] = a
         /\ \A x \in Places : x # k /\ x # j => Wrote(w, k, a, j, b).items[x] = w.items[x]
<1> DEFINE v == Wrote(w, k, a, j, b)
           u == [w EXCEPT !.items[k] = a]
<1>1. SoundHouse(u) /\ u.gold = w.gold /\ u.items = [w.items EXCEPT ![k] = a]
  BY SlotWritten
<1>2. v = [u EXCEPT !.items[j] = b]
  BY DEF Wrote
<1> HIDE DEF u, v
<1>3. SoundHouse(v) /\ v.gold = u.gold /\ v.items = [u.items EXCEPT ![j] = b]
  BY <1>1, <1>2, SlotWritten
<1>4. v.items[j] = b /\ v.items[k] = a /\ \A x \in Places : x # k /\ x # j => v.items[x] = w.items[x]
  BY <1>1, <1>3 DEF SoundHouse, Warehouse
<1> QED
  BY <1>1, <1>3, <1>4 DEF v

LEMMA PurseWritten ==
  ASSUME Inv, NEW m \in Members, NEW g \in 0 .. CoinMax, gold' = [gold EXCEPT ![m] = g], bag' = bag
  PROVE  Goods'
BY DEF Inv, Goods

LEMMA BagWritten ==
  ASSUME Inv, NEW m \in Members, NEW s \in Slots, NEW stack, Sound(stack),
         bag' = [bag EXCEPT ![m][s] = stack], gold' = gold
  PROVE  Goods' /\ \A q \in Members \ {m} : bag'[q] = bag[q]
<1>1. bag \in [Members -> Bag] /\ bag[m] \in Bag /\ stack \in Stack
  BY DEF Inv, Goods, Sound
<1>2. [bag[m] EXCEPT ![s] = stack] \in Bag
  BY <1>1 DEF Bag
<1>3. bag' = [bag EXCEPT ![m] = [bag[m] EXCEPT ![s] = stack]]
  BY <1>1
<1>4. bag' \in [Members -> Bag] /\ bag'[m] = [bag[m] EXCEPT ![s] = stack] /\ \A q \in Members \ {m} : bag'[q] = bag[q]
  BY <1>1, <1>2, <1>3
<1>5. ASSUME NEW q \in Members, NEW u \in Slots
      PROVE  Sound(bag'[q][u])
  <2>1. CASE q = m
    BY <1>1, <1>4, <2>1 DEF Bag, Inv, Goods
  <2>2. CASE q # m
    BY <1>4, <2>2 DEF Inv, Goods
  <2> QED
    BY <2>1, <2>2
<1> QED
  BY <1>4, <1>5 DEF Inv, Goods

-----------------------------------------------------------------------------
(* The steps keep the invariant. *)

\* What a step of a handler may rely on.
LEMMA Facts ==
  ASSUME Inv, NEW m \in Members
  PROVE  /\ task[m] \in Task /\ Asked(task[m]) /\ Fine(task[m], bag[m], Loaded) /\ task[m].n \in Nat
         /\ SoundHouse(rows)
         /\ task[m].at \notin {"idle", "load", "install"} => Loaded /\ SoundHouse(bank)
         /\ gold[m] \in 0 .. CoinMax /\ bag[m] \in Bag /\ \A s \in Slots : Sound(bag[m][s])
<1>1. Fine(task[m], bag[m], Loaded) /\ task[m] \in Task /\ SoundHouse(rows) /\ (Loaded => SoundHouse(bank))
  BY DEF Inv, Tasks, Houses, Database, Loaded
<1>2. gold[m] \in 0 .. CoinMax /\ bag[m] \in Bag /\ \A s \in Slots : Sound(bag[m][s])
  BY DEF Inv, Goods
<1>3. task[m].n \in Nat /\ Asked(task[m]) /\ (task[m].at \notin {"idle", "load", "install"} => Loaded)
  BY <1>1 DEF Fine, Task
<1> QED
  BY <1>1, <1>2, <1>3

\* A handler goes on with its request.
LEMMA GotoKeeps ==
  ASSUME Inv, NEW m \in Members, NEW stage \in {"run", "pay", "gain", "grab", "deduct", "undo"}, Goto(m, stage),
         stage \in {"grab", "deduct", "undo"} => task[m].op = "output" /\ Fit(task[m].item, task[m].n),
         stage \in {"deduct", "undo"} => Has(bag'[m][task[m].slot], task[m].item, task[m].n),
         Houses', Goods', Loaded', \A q \in Members \ {m} : bag'[q] = bag[q]
  PROVE  Inv'
<1> DEFINE t == [task[m] EXCEPT !.at = stage]
<1>0. stage \in Stages
  BY DEF Stages
<1>1. task' = [task EXCEPT ![m] = t] /\ t \in Task /\ t.at = stage
  BY <1>0, GotoIs
<1>2. \A f \in {"op", "item", "slot", "place", "to", "n", "seen", "final"} : t[f] = task[m][f]
  BY <1>0, GotoIs
<1> HIDE DEF t
<1>3. t.op = task[m].op /\ t.item = task[m].item /\ t.slot = task[m].slot /\ t.place = task[m].place
      /\ t.to = task[m].to /\ t.n = task[m].n
  BY <1>2
<1>4. Asked(t)
  BY <1>3, Facts DEF Asked
<1>5. Fine(t, bag'[m], Loaded')
  BY <1>1, <1>3, <1>4 DEF Fine
<1> QED
  BY <1>1, <1>5, HandlerKeeps

LEMMA GoldInv ==
  ASSUME Inv, NEW m \in Members, PutGold(m) \/ Pay(m) \/ TakeGold(m) \/ Gain(m)
  PROVE  Inv'
<1>1. Loaded /\ SoundHouse(bank) /\ SoundHouse(rows) /\ bank.gold \in Nat /\ task[m].n \in Nat /\ gold[m] \in 0 .. CoinMax
  BY Facts DEF PutGold, Pay, TakeGold, Gain, SoundHouse, Warehouse
<1>2. ASSUME NEW g \in Nat, NEW stage \in {"pay", "gain"},
             bank' = [bank EXCEPT !.gold = g], Goto(m, stage), UNCHANGED <<rows, saves, goods>>
      PROVE  Inv'
  <2>1. SoundHouse(bank') /\ Loaded'
    BY <1>1, <1>2, GoldWritten, LoadedIs DEF SoundHouse, Loaded
  <2>2. Houses' /\ Goods'
    BY <1>1, <1>2, <2>1, Untouched DEF Houses
  <2> QED
    BY <1>2, <2>1, <2>2, GotoKeeps DEF goods
<1>3. ASSUME UNCHANGED <<house, goods>>, Done(m)
      PROVE  Inv'
  BY <1>3, Untouched, DoneKeeps DEF goods
<1>4. ASSUME NEW g \in 0 .. CoinMax, gold' = [gold EXCEPT ![m] = g], SaveGold, Done(m), UNCHANGED <<rows, bank, bag>>
      PROVE  Inv'
  <2>1. Database'
    BY <1>1, <1>4, SavesStarted
  <2>2. Houses' /\ Goods' /\ Loaded'
    BY <1>1, <1>4, <2>1, PurseWritten DEF Houses, Inv, Loaded
  <2> QED
    BY <1>4, <2>2, DoneKeeps
<1>5. CASE PutGold(m)
  <2>1. CASE gold[m] >= task[m].n /\ bank.gold + task[m].n <= CoinMax
    <3>1. bank' = [bank EXCEPT !.gold = bank.gold + task[m].n] /\ Goto(m, "pay") /\ UNCHANGED <<rows, saves, goods>>
      BY <1>1, <1>5, <2>1 DEF PutGold, SoundHouse, Warehouse
    <3>2. bank.gold + task[m].n \in Nat
      BY <1>1
    <3> QED
      BY <1>2, <3>1, <3>2
  <2>2. CASE ~(gold[m] >= task[m].n /\ bank.gold + task[m].n <= CoinMax)
    BY <1>3, <1>5, <2>2 DEF PutGold, house
  <2> QED
    BY <2>1, <2>2
<1>6. CASE TakeGold(m)
  <2>1. CASE bank.gold >= task[m].n /\ gold[m] + task[m].n <= CoinMax
    <3>1. bank' = [bank EXCEPT !.gold = bank.gold - task[m].n] /\ Goto(m, "gain") /\ UNCHANGED <<rows, saves, goods>>
      BY <1>1, <1>6, <2>1 DEF TakeGold, SoundHouse, Warehouse
    <3>2. bank.gold - task[m].n \in Nat
      BY <1>1, <2>1
    <3> QED
      BY <1>2, <3>1, <3>2
  <2>2. CASE ~(bank.gold >= task[m].n /\ gold[m] + task[m].n <= CoinMax)
    BY <1>3, <1>6, <2>2 DEF TakeGold, house
  <2> QED
    BY <2>1, <2>2
<1>7. CASE Pay(m)
  <2> DEFINE g == IF gold[m] >= task[m].n THEN gold[m] - task[m].n ELSE gold[m]
  <2>1. g \in 0 .. CoinMax
    BY <1>1
  <2>2. gold' = [gold EXCEPT ![m] = g] /\ SaveGold /\ Done(m) /\ UNCHANGED <<rows, bank, bag>>
    BY <1>7 DEF Pay, Inv, Goods
  <2> QED
    BY <1>4, <2>1, <2>2
<1>8. CASE Gain(m)
  <2> DEFINE g == GoldGain(gold[m], task[m].n)
  <2>1. g \in 0 .. CoinMax
    BY <1>1 DEF GoldGain, Clamp
  <2>2. gold' = [gold EXCEPT ![m] = g] /\ SaveGold /\ Done(m) /\ UNCHANGED <<rows, bank, bag>>
    BY <1>8 DEF Gain, Inv, Goods
  <2> QED
    BY <1>4, <2>1, <2>2
<1> QED
  BY <1>5, <1>6, <1>7, <1>8

LEMMA DepositInv ==
  ASSUME Inv, NEW m \in Members, PutItem(m) \/ Strip(m)
  PROVE  Inv'
<1> DEFINE t == task[m]
<1>1. /\ Loaded /\ SoundHouse(bank) /\ SoundHouse(rows) /\ t \in Task /\ task \in [Members -> Task]
      /\ Asked(t) /\ Fine(t, bag[m], Loaded) /\ \A s \in Slots : Sound(bag[m][s])
  BY Facts DEF PutItem, Strip, Inv, Tasks
<1>2. t.item \in Item /\ t.slot \in Slots /\ t.place \in Places /\ t.n \in Nat /\ t.op = "input"
  BY <1>1 DEF Asked, Fine, PutItem, Strip
<1> DEFINE ok == Has(bag[m][t.slot], t.item, t.n) /\ Accepts(bank.items[t.place], t.item)
<1>3. CASE PutItem(m) /\ ok
  <2> DEFINE put == Added(bank.items[t.place], t.item, t.n)
             u == [task[m] EXCEPT !.at = "strip", !.final = put]
  <2>1. Fit(t.item, t.n)
    BY <1>1, <1>2, <1>3, HasFit
  <2>2. Sound(bank.items[t.place])
    BY <1>1, <1>2 DEF SoundHouse
  <2>3. Sound(put)
    BY <1>2, <2>1, <2>2, AddedSound
  <2>4. bank' = [bank EXCEPT !.items[t.place] = put] /\ task' = [task EXCEPT ![m].at = "strip", ![m].final = put] /\ UNCHANGED <<rows, saves, goods>>
    BY <1>3 DEF PutItem
  <2> HIDE DEF put
  <2>5. task' = [task EXCEPT ![m] = u]
    BY <1>1, <2>4
  <2>6. u \in Task
    BY <1>1, <2>3 DEF Task, Sound, Stages
  <2>7. u.at = "strip" /\ u.final = put /\ \A f \in {"op", "item", "slot", "place", "to", "n", "seen"} : u[f] = t[f]
    BY <1>1 DEF Task
  <2> HIDE DEF u
  <2>8. Asked(u) /\ u.op = "input" /\ u.slot = t.slot /\ u.item = t.item /\ u.n = t.n
    BY <1>2, <2>7 DEF Asked
  <2>9. SoundHouse(bank') /\ Loaded'
    BY <1>1, <1>2, <2>3, <2>4, SlotWritten, LoadedIs DEF SoundHouse, Loaded
  <2>10. bag' = bag /\ Houses' /\ Goods'
    BY <1>1, <2>4, <2>9, Untouched DEF Houses, goods
  <2>11. Fine(u, bag'[m], Loaded')
    BY <1>3, <2>3, <2>6, <2>7, <2>8, <2>9, <2>10 DEF Fine
  <2> QED
    BY <2>5, <2>9, <2>10, <2>11, HandlerKeeps
<1>4. CASE PutItem(m) /\ ~ok
  <2>1. Done(m) /\ UNCHANGED <<house, goods>>
    BY <1>4 DEF PutItem, house
  <2> QED
    BY <2>1, Untouched, DoneKeeps DEF goods
<1>5. CASE Strip(m)
  <2> DEFINE left == IF t.item \in Single THEN Empty ELSE Deduct(bag[m][t.slot], t.n)
  <2>1. t.at = "strip" /\ Sound(t.final) /\ Has(bag[m][t.slot], t.item, t.n) /\ Sound(bag[m][t.slot])
    BY <1>1, <1>2, <1>5 DEF Strip, Fine
  <2>2. Sound(left)
    BY <1>2, <2>1, EmptySound, DeductSound
  <2>3. bag' = [bag EXCEPT ![m][t.slot] = left] /\ SaveSlot(t.place, t.final) /\ Done(m) /\ UNCHANGED <<rows, bank, gold>>
    BY <1>2, <1>5 DEF Strip, Inv, Goods, Bag
  <2> HIDE DEF left
  <2>4. Goods' /\ \A q \in Members \ {m} : bag'[q] = bag[q]
    BY <1>2, <2>2, <2>3, BagWritten
  <2>5. Database'
    BY <1>2, <2>1, <2>3, SavesStarted
  <2>6. Houses' /\ Loaded'
    BY <1>1, <2>3, <2>5 DEF Houses, Loaded
  <2> QED
    BY <2>3, <2>4, <2>6, DoneKeeps
<1> QED
  BY <1>3, <1>4, <1>5

LEMMA WithdrawalInv ==
  ASSUME Inv, NEW m \in Members, Look(m) \/ Grab(m) \/ DeductBank(m) \/ Undo(m)
  PROVE  Inv'
<1> DEFINE t == task[m]
<1>1. /\ Loaded /\ SoundHouse(bank) /\ SoundHouse(rows) /\ t \in Task
      /\ Asked(t) /\ Fine(t, bag[m], Loaded) /\ \A s \in Slots : Sound(bag[m][s])
  BY Facts DEF Look, Grab, DeductBank, Undo
<1>2. t.op = "output" /\ t.item \in Item /\ t.slot \in Slots /\ t.place \in Places /\ t.n \in Nat
  BY <1>1 DEF Asked, Fine, Look, Grab, DeductBank, Undo
<1>3. /\ t.at \in {"grab", "deduct", "undo"} => Fit(t.item, t.n)
      /\ t.at \in {"deduct", "undo"} => Has(bag[m][t.slot], t.item, t.n)
  BY <1>1 DEF Fine
<1>4. Sound(bank.items[t.place]) /\ Sound(bag[m][t.slot])
  BY <1>1, <1>2 DEF SoundHouse
<1>5. CASE Look(m)
  <2>1. CASE Has(bank.items[t.place], t.item, t.n)
    <3>1. Fit(t.item, t.n)
      BY <1>2, <1>4, <2>1, HasFit
    <3>2. Goto(m, "grab") /\ UNCHANGED <<house, goods>>
      BY <1>5, <2>1 DEF Look
    <3> QED
      BY <1>1, <1>2, <3>1, <3>2, Untouched, GotoKeeps DEF goods
  <2>2. CASE ~Has(bank.items[t.place], t.item, t.n)
    BY <1>5, <2>2, Untouched, DoneKeeps DEF Look, goods
  <2> QED
    BY <2>1, <2>2
<1>6. CASE Grab(m)
  <2>1. CASE Accepts(bag[m][t.slot], t.item)
    <3> DEFINE got == Added(bag[m][t.slot], t.item, t.n)
    <3>1. Sound(got) /\ Has(got, t.item, t.n)
      BY <1>2, <1>3, <1>4, <1>6, AddedSound DEF Grab
    <3>2. bag' = [bag EXCEPT ![m][t.slot] = got] /\ Goto(m, "deduct") /\ UNCHANGED <<house, gold>>
      BY <1>2, <1>6, <2>1 DEF Grab, Inv, Goods, Bag
    <3> HIDE DEF got
    <3>3. Goods' /\ \A q \in Members \ {m} : bag'[q] = bag[q]
      BY <1>2, <3>1, <3>2, BagWritten
    <3>4. Houses' /\ Loaded'
      BY <1>1, <3>2, Untouched
    <3>5. t.op = "output" /\ Fit(t.item, t.n)
      BY <1>2, <1>3, <1>6 DEF Grab
    <3>6. bag'[m][t.slot] = got
      BY <1>2, <3>2 DEF Inv, Goods, Bag
    <3> QED
      BY <3>1, <3>2, <3>3, <3>4, <3>5, <3>6, GotoKeeps
  <2>2. CASE ~Accepts(bag[m][t.slot], t.item)
    BY <1>6, <2>2, Untouched, DoneKeeps DEF Grab, goods
  <2> QED
    BY <2>1, <2>2
<1>7. CASE DeductBank(m)
  <2>1. CASE Has(bank.items[t.place], t.item, t.n)
    <3> DEFINE rest == IF t.item \in Single THEN Empty ELSE Deduct(bank.items[t.place], t.n)
    <3>1. Sound(rest)
      BY <1>2, <1>4, <2>1, EmptySound, DeductSound
    <3>2. bank' = [bank EXCEPT !.items[t.place] = rest] /\ SaveSlot(t.place, rest) /\ Done(m) /\ UNCHANGED <<rows, goods>>
      BY <1>7, <2>1 DEF DeductBank
    <3> HIDE DEF rest
    <3>3. SoundHouse(bank') /\ Database'
      BY <1>1, <1>2, <3>1, <3>2, SlotWritten, SavesStarted
    <3>4. Houses' /\ Loaded' /\ Goods'
      BY <3>2, <3>3, Untouched, LoadedIs DEF Houses, Loaded, SoundHouse
    <3> QED
      BY <3>2, <3>4, DoneKeeps DEF goods
  <2>2. CASE ~Has(bank.items[t.place], t.item, t.n)
    <3>1. /\ Goto(m, "undo") /\ UNCHANGED <<house, goods>> /\ Fit(t.item, t.n)
          /\ Has(bag[m][t.slot], t.item, t.n)
      BY <1>3, <1>7, <2>2 DEF DeductBank, house
    <3> QED
      BY <1>1, <1>2, <3>1, Untouched, GotoKeeps DEF goods
  <2> QED
    BY <2>1, <2>2
<1>8. CASE Undo(m)
  <2>1. bag' = [bag EXCEPT ![m][t.slot] = Empty] /\ Done(m) /\ UNCHANGED <<house, gold>>
    BY <1>8 DEF Undo
  <2>2. Goods' /\ \A q \in Members \ {m} : bag'[q] = bag[q]
    BY <1>2, <2>1, BagWritten, EmptySound
  <2> QED
    BY <2>1, <2>2, Untouched, DoneKeeps
<1> QED
  BY <1>5, <1>6, <1>7, <1>8

\* What a move that is not refused writes.
LEMMA MoveIs ==
  ASSUME Inv, NEW m \in Members, Move(m), ~UNCHANGED house
  PROVE  \E from \in Places, to \in Places :
           /\ from # to /\ Sound(bank.items[from]) /\ bank.items[to].item = NoItem
           /\ bank' = Wrote(bank, to, bank.items[from], from, Empty)
           /\ SaveMove(from, to)
<1> DEFINE t == task[m]
<1>1. SoundHouse(bank) /\ t.item \in Item /\ t.place \in Places /\ t.to \in Places
  BY Facts DEF Move, Asked
<1>2. /\ bank.items[t.place].item = t.item /\ bank.items[t.to].item = NoItem
      /\ bank' = Wrote(bank, t.to, bank.items[t.place], t.place, Empty) /\ SaveMove(t.place, t.to)
  BY DEF Move, Wrote, house
<1>3. t.place # t.to /\ Sound(bank.items[t.place])
  BY <1>1, <1>2 DEF Item, SoundHouse
<1> QED
  BY <1>1, <1>2, <1>3

LEMMA MoveInv ==
  ASSUME Inv, NEW m \in Members, Move(m)
  PROVE  Inv'
<1>1. Loaded /\ SoundHouse(bank) /\ Done(m) /\ UNCHANGED <<rows, goods>>
  BY Facts DEF Move
<1>2. CASE UNCHANGED house
  BY <1>1, <1>2, Untouched, DoneKeeps DEF goods
<1>3. CASE ~UNCHANGED house
  <2>1. PICK from \in Places, to \in Places :
           /\ from # to /\ Sound(bank.items[from]) /\ bank.items[to].item = NoItem
           /\ bank' = Wrote(bank, to, bank.items[from], from, Empty)
           /\ SaveMove(from, to)
    BY <1>3, MoveIs
  <2>2. SoundHouse(Wrote(bank, to, bank.items[from], from, Empty))
    BY <1>1, <2>1, SlotsWritten, EmptySound
  <2>3. Database'
    BY <1>1, <2>1, SavesStarted
  <2>4. Houses' /\ Loaded' /\ Goods'
    BY <1>1, <2>1, <2>2, <2>3, Untouched, LoadedIs DEF Houses, Loaded, SoundHouse
  <2> QED
    BY <1>1, <2>4, DoneKeeps DEF goods
<1> QED
  BY <1>2, <1>3

\* A swap in the bag, between two requests.
LEMMA InventoryMoveInv ==
  ASSUME Inv, NEW m \in Members, NEW s \in Slots, NEW u \in Slots, InventoryMove(m, s, u)
  PROVE  Inv'
<1>1. bag \in [Members -> Bag] /\ bag[m] \in Bag /\ \A x \in Slots : Sound(bag[m][x]) /\ bag[m][x] \in Stack
  BY DEF Inv, Goods, Sound
<1> DEFINE new == [bag[m] EXCEPT ![s] = bag[m][u], ![u] = bag[m][s]]
<1>2. new \in Bag /\ \A x \in Slots : Sound(new[x])
  BY <1>1 DEF Bag
<1>3. bag' = [bag EXCEPT ![m] = new] /\ UNCHANGED <<house, gold, task>> /\ Ready(m)
  BY <1>1 DEF InventoryMove
<1> HIDE DEF new
<1>4. bag' \in [Members -> Bag] /\ bag'[m] = new /\ \A q \in Members \ {m} : bag'[q] = bag[q]
  BY <1>1, <1>2, <1>3
<1>5. Goods'
  <2>1. \A q \in Members, x \in Slots : Sound(bag'[q][x])
    BY <1>2, <1>4 DEF Inv, Goods
  <2> QED
    BY <1>3, <1>4, <2>1 DEF Inv, Goods
<1>6. task' = task /\ task[m] = Idle /\ task \in [Members -> Task]
  BY <1>3 DEF Inv, Tasks, Fine, Ready
<1>7. Done(m)
  BY <1>6 DEF Done
<1> QED
  BY <1>3, <1>4, <1>5, <1>7, Untouched, DoneKeeps

\* A reward.
LEMMA EarnInv ==
  ASSUME Inv, NEW m \in Members, Earn(m)
  PROVE  Inv'
<1>1. gold[m] \in 0 .. CoinMax /\ GoldGain(gold[m], 1) \in 0 .. CoinMax
  BY DEF Inv, Goods, GoldGain, Clamp
<1>2. gold' = [gold EXCEPT ![m] = GoldGain(gold[m], 1)] /\ UNCHANGED <<house, bag, task>>
  BY DEF Earn, Inv, Goods
<1>3. Houses' /\ Goods' /\ (Loaded' <=> Loaded)
  BY <1>1, <1>2, Untouched, PurseWritten
<1>4. ASSUME NEW q \in Members
      PROVE  Fine(task'[q], bag'[q], Loaded')
  <2>1. Fine(task[q], bag[q], Loaded) /\ task'[q] = task[q] /\ bag'[q] = bag[q]
    BY <1>2 DEF Inv, Tasks
  <2> QED
    BY <1>3, <2>1 DEF Fine
<1> QED
  BY <1>2, <1>3, <1>4 DEF Inv, Tasks

\* A save lands or fails.
LEMMA SaveInv ==
  ASSUME Inv, NEW j \in Jobs, Land(j) \/ Fail(j)
  PROVE  Inv'
<1>1. SoundHouse(rows) /\ saves \in [Jobs -> Saves] /\ (\A i \in Jobs : SoundSave(saves[i])) /\ SoundSave(saves[j])
  BY DEF Inv, Houses, Database
<1>2. UNCHANGED <<bank, goods, task>> /\ saves' = [saves EXCEPT ![j] = NoSave]
  BY DEF Land, Fail
<1>3. SoundSave(NoSave)
  BY EmptySound DEF SoundSave, NoSave, Saves
<1>4. SoundHouse(rows')
  <2>1. CASE Fail(j)
    BY <1>1, <2>1 DEF Fail
  <2>2. CASE Land(j) /\ saves[j].what = "item"
    <3>1. rows' = [rows EXCEPT !.items[saves[j].place] = saves[j].stack]
      BY <2>2 DEF Land, Written
    <3> QED
      BY <1>1, <2>2, <3>1, SlotWritten DEF SoundSave
  <2>3. CASE Land(j) /\ saves[j].what # "item"
    <3>1. rows' = [rows EXCEPT !.gold = saves[j].gold] /\ saves[j].gold \in Nat
      BY <1>1, <2>3 DEF Land, Written, SoundSave, Saves
    <3> QED
      BY <1>1, <3>1, GoldWritten
  <2> QED
    BY <2>1, <2>2, <2>3
<1>5. Houses' /\ (Loaded' <=> Loaded)
  BY <1>1, <1>2, <1>3, <1>4 DEF Inv, Houses, Database, SoundSave, Loaded
<1>6. Goods' /\ Tasks'
  BY <1>2, <1>5 DEF Inv, Goods, Tasks, Fine, goods
<1> QED
  BY <1>5, <1>6 DEF Inv

LEMMA InitInv == Init => Inv
<1> SUFFICES ASSUME Init PROVE Inv
  OBVIOUS
<1>0. SoundSave(NoSave)
  BY EmptySound DEF SoundSave, NoSave, Saves
<1>1. Houses /\ Goods
  BY <1>0 DEF Init, Houses, Database, Goods, SoundHouse, SoundSave
<1>2. Tasks
  BY IdleIs, IdleFine DEF Init, Tasks
<1> QED
  BY <1>1, <1>2 DEF Inv

LEMMA StepInv == Inv /\ [Next]_vars => Inv'
<1> SUFFICES ASSUME Inv, [Next]_vars PROVE Inv'
  OBVIOUS
<1>1. ASSUME NEW m \in Members, NEW r \in Requests, Request(m, r) PROVE Inv'
  BY <1>1, RequestInv
<1>2. ASSUME NEW m \in Members, HandlerStep(m) PROVE Inv'
  BY <1>2, LoadInv, GoldInv, DepositInv, WithdrawalInv, MoveInv DEF HandlerStep
<1>3. ASSUME NEW m \in Members, NEW s \in Slots, NEW u \in Slots, InventoryMove(m, s, u) PROVE Inv'
  BY <1>3, InventoryMoveInv
<1>4. ASSUME NEW m \in Members, Earn(m) PROVE Inv'
  BY <1>4, EarnInv
<1>5. ASSUME NEW j \in Jobs, Land(j) \/ Fail(j) PROVE Inv'
  BY <1>5, SaveInv
<1>6. CASE UNCHANGED vars
  BY <1>6 DEF vars, house, goods, Inv, Houses, Database, Goods, Tasks, Loaded
<1> QED
  BY <1>1, <1>2, <1>3, <1>4, <1>5, <1>6 DEF Next

LEMMA InvIsTyped == Inv => TypeOK
<1> SUFFICES ASSUME Inv PROVE TypeOK
  OBVIOUS
<1>1. rows \in Warehouse /\ (Loaded => bank \in Warehouse) /\ \A k \in Places : Sound(rows.items[k])
  BY DEF Inv, Houses, Database, SoundHouse, Loaded
<1>2. \A k \in Places : Sound(bank.items[k])
  <2>1. bank = NotLoaded => \A k \in Places : bank.items[k] = Empty
    BY DEF NotLoaded
  <2> QED
    BY <2>1, EmptySound DEF Inv, Houses, SoundHouse
<1> QED
  BY <1>1, <1>2 DEF TypeOK, Inv, Houses, Database, Goods, Tasks

\* Spec => []TypeOK: cache and rows, bags, purses, handlers and saves have their
\* types, no stack of the warehouse, the database, a bag or a save is ever over its
\* limit, and no place without an item has a count, however the members' handlers
\* overlap, in whatever order their saves land, and whatever the counts asked for.
THEOREM TypeCorrect == Spec => []TypeOK
<1>1. Init => Inv
  BY InitInv
<1>2. Inv /\ [Next]_vars => Inv'
  BY StepInv
<1>3. Inv => TypeOK
  BY InvIsTyped
<1> QED
  BY <1>1, <1>2, <1>3, PTL DEF Spec

-----------------------------------------------------------------------------
(* Gold.  The argument needs that who loads the warehouse is alone, and that a  *)
(* purse can still pay for the deposit the warehouse already holds.             *)

OneLoads ==
  /\ \A m \in Members : task[m].at = "install" => ~Loaded
  /\ \A m, q \in Members : task[m].at = "install" /\ task[q].at = "install" => m = q
Solvent == \A m \in Members : task[m].at = "pay" => gold[m] >= task[m].n
SteadyInv == Inv /\ Solvent /\ (~Rush => OneLoads)

LEMMA TaskIs ==
  ASSUME Inv, NEW m \in Members, NEW t, task' = [task EXCEPT ![m] = t]
  PROVE  task'[m] = t /\ \A q \in Members \ {m} : task'[q] = task[q]
BY DEF Inv, Tasks

\* Nobody loads a loaded warehouse.
LEMMA LoadsKept ==
  ASSUME Inv, OneLoads, NEW m \in Members, NEW t, task' = [task EXCEPT ![m] = t],
         t.at # "install", bank' = bank \/ (Loaded /\ Loaded')
  PROVE  OneLoads'
<1>1. task'[m] = t /\ \A q \in Members \ {m} : task'[q] = task[q]
  BY TaskIs
<1> QED
  BY <1>1 DEF OneLoads, Loaded

\* The steps that have nothing to do with gold or loading.
Other(m) ==
  \/ \E r \in Requests : Request(m, r)
  \/ Join(m) \/ Open(m) \/ PutItem(m) \/ Strip(m)
  \/ Look(m) \/ Grab(m) \/ DeductBank(m) \/ Undo(m) \/ Move(m)

LEMMA OtherStep ==
  ASSUME Inv, NEW m \in Members, Other(m)
  PROVE  /\ \E t \in Task : task' = [task EXCEPT ![m] = t] /\ t.at \notin {"pay", "gain", "install"}
         /\ task[m].at \notin {"pay", "gain"} /\ gold' = gold /\ bank'.gold = bank.gold
         /\ bank' = bank \/ Loaded
<1>1. task[m] \in Task /\ task \in [Members -> Task] /\ (task[m].at \notin {"idle", "load", "install"} => Loaded /\ SoundHouse(bank))
  BY Facts DEF Inv, Tasks
<1>2. ASSUME Done(m)
      PROVE  \E t \in Task : task' = [task EXCEPT ![m] = t] /\ t.at \notin {"pay", "gain", "install"}
  <2>1. Idle \in Task /\ Idle.at \notin {"pay", "gain", "install"}
    BY IdleIs
  <2> QED
    BY <1>2, <2>1 DEF Done
<1>3. ASSUME NEW stage \in Stages \ {"pay", "gain", "install"}, Goto(m, stage)
      PROVE  \E t \in Task : task' = [task EXCEPT ![m] = t] /\ t.at \notin {"pay", "gain", "install"}
  <2> DEFINE t == [task[m] EXCEPT !.at = stage]
  <2>1. task' = [task EXCEPT ![m] = t] /\ t \in Task /\ t.at = stage
    BY <1>3, GotoIs
  <2> HIDE DEF t
  <2> QED
    BY <2>1
<1>4. "run" \in Stages /\ "grab" \in Stages /\ "deduct" \in Stages /\ "undo" \in Stages /\ "strip" \in Stages /\ "load" \in Stages
  BY DEF Stages
<1>5. CASE \E r \in Requests : Request(m, r)
  <2>1. PICK r \in Requests : Request(m, r)
    BY <1>5
  <2> DEFINE stage == IF Loaded THEN "run" ELSE "load"
             t == [r EXCEPT !.at = stage]
  <2>2. t \in Task /\ t.at = stage
    BY <1>4, RequestIs
  <2>3. task' = [task EXCEPT ![m] = t] /\ UNCHANGED <<rows, bank, gold>> /\ task[m].at = "idle"
    BY <2>1 DEF Request, house, goods, Ready
  <2>4. stage \in {"run", "load"}
    OBVIOUS
  <2> HIDE DEF t, stage
  <2> QED
    BY <2>2, <2>3, <2>4
<1>6. CASE Join(m) \/ Open(m) \/ Look(m)
  BY <1>2, <1>3, <1>4, <1>6 DEF Join, Open, Look, house, goods
<1>7. CASE Grab(m) \/ Undo(m)
  BY <1>2, <1>3, <1>4, <1>7 DEF Grab, Undo, house
<1>8. CASE PutItem(m)
  <2>1. Loaded /\ SoundHouse(bank) /\ task[m].at = "run" /\ gold' = gold
    BY <1>1, <1>8 DEF PutItem, goods
  <2>2. CASE Done(m) /\ bank' = bank
    BY <1>2, <2>1, <2>2
  <2>3. CASE \E put : /\ bank' = [bank EXCEPT !.items[task[m].place] = put]
                      /\ task' = [task EXCEPT ![m].at = "strip", ![m].final = put]
    <3>1. PICK put : /\ bank' = [bank EXCEPT !.items[task[m].place] = put]
                     /\ task' = [task EXCEPT ![m].at = "strip", ![m].final = put]
      BY <2>3
    <3> DEFINE t == [task[m] EXCEPT !.at = "strip", !.final = put]
    <3>2. task' = [task EXCEPT ![m] = t] /\ t.at = "strip"
      BY <1>1, <3>1 DEF Task
    <3>3. task' \in [Members -> Task]
      BY <1>8, DepositInv DEF Inv, Tasks
    <3> HIDE DEF t
    <3>4. t \in Task
      BY <1>1, <3>2, <3>3
    <3>5. bank'.gold = bank.gold
      BY <2>1, <3>1 DEF SoundHouse, Warehouse
    <3> QED
      BY <2>1, <3>2, <3>4, <3>5
  <2> QED
    BY <1>8, <2>2, <2>3 DEF PutItem
<1>9. CASE Strip(m)
  BY <1>1, <1>2, <1>9 DEF Strip
<1>10. CASE DeductBank(m) \/ Move(m)
  <2>1. Loaded /\ SoundHouse(bank) /\ task[m].at \in {"deduct", "run"} /\ gold' = gold
    BY <1>1, <1>10 DEF DeductBank, Move, goods
  <2>2. bank'.gold = bank.gold
    BY <1>10, <2>1 DEF DeductBank, Move, SoundHouse, Warehouse
  <2> QED
    BY <1>2, <1>3, <1>4, <1>10, <2>1, <2>2 DEF DeductBank, Move
<1> QED
  BY <1>5, <1>6, <1>7, <1>8, <1>9, <1>10 DEF Other
\* Every step is one of these.
LEMMA StepKinds ==
  ASSUME [Next]_vars
  PROVE  \/ \E m \in Members : \/ Other(m) \/ Fetch(m) \/ Install(m) \/ PutGold(m) \/ Pay(m) \/ TakeGold(m) \/ Gain(m)
                               \/ Earn(m) \/ \E s, u \in Slots : InventoryMove(m, s, u)
         \/ \E j \in Jobs : Land(j) \/ Fail(j)
         \/ UNCHANGED vars
BY DEF Next, HandlerStep, Other

LEMMA SteadyStep == SteadyInv /\ [Next]_vars => SteadyInv'
<1> SUFFICES ASSUME SteadyInv, [Next]_vars PROVE SteadyInv'
  OBVIOUS
<1>1. Inv /\ Inv' /\ Solvent /\ task \in [Members -> Task] /\ gold \in [Members -> 0 .. CoinMax]
  BY StepInv DEF SteadyInv, Inv, Tasks, Goods
<1>3. ASSUME NEW m \in Members, Other(m) PROVE Solvent' /\ (OneLoads => OneLoads')
  <2>1. PICK t \in Task : task' = [task EXCEPT ![m] = t] /\ t.at \notin {"pay", "gain", "install"}
    BY <1>1, <1>3, OtherStep
  <2>2. gold' = gold /\ (bank' = bank \/ Loaded)
    BY <1>1, <1>3, OtherStep
  <2>3. Solvent'
    BY <1>1, <2>1, <2>2 DEF Solvent
  <2>4. bank' = bank \/ (Loaded /\ Loaded')
    <3>1. CASE Join(m) \/ Open(m) \/ Look(m) \/ Grab(m) \/ Undo(m) \/ \E r \in Requests : Request(m, r)
      BY <3>1 DEF Join, Open, Look, Grab, Undo, Request, house
    <3>2. CASE PutItem(m) \/ Strip(m) \/ DeductBank(m) \/ Move(m)
      <4>1. Loaded
        BY <1>1, <3>2, Facts DEF PutItem, Strip, DeductBank, Move
      <4>2. bank' # NotLoaded
        <5>1. bank \in Warehouse
          BY <1>1, <4>1 DEF Inv, Houses, SoundHouse, Loaded
        <5>2. DOMAIN bank' = DOMAIN bank
          BY <3>2 DEF PutItem, Strip, DeductBank, Move
        <5>3. "cold" \notin DOMAIN bank
          BY <5>1 DEF Warehouse
        <5>4. "cold" \in DOMAIN NotLoaded
          BY DEF NotLoaded
        <5> QED
          BY <5>2, <5>3, <5>4
      <4> QED
        BY <4>1, <4>2 DEF Loaded
    <3> QED
      BY <1>3, <3>1, <3>2 DEF Other
  <2> QED
    BY <1>1, <2>1, <2>3, <2>4, LoadsKept
<1>4. ASSUME NEW m \in Members, Fetch(m) PROVE Solvent' /\ (~Rush /\ OneLoads => OneLoads')
  <2> DEFINE t == [task[m] EXCEPT !.seen = rows, !.at = "install"]
  <2>1. task' = [task EXCEPT ![m] = t] /\ UNCHANGED <<rows, bank, gold>>
    BY <1>1, <1>4 DEF Fetch, house, goods
  <2>2. t.at = "install" /\ t.seen = rows
    BY <1>1 DEF Task
  <2> HIDE DEF t
  <2>3. task'[m] = t /\ \A q \in Members \ {m} : task'[q] = task[q]
    BY <1>1, <2>1, TaskIs
  <2>4. Solvent'
    BY <1>1, <2>1, <2>2, <2>3 DEF Solvent
  <2>5. ASSUME ~Rush PROVE OneLoads'
    <3>1. ~Loaded /\ \A q \in Members : task[q].at # "install"
      BY <1>4, <2>5 DEF Fetch, At
    <3>2. ~Loaded'
      BY <2>1, <3>1 DEF Loaded
    <3> QED
      BY <2>1, <2>2, <2>3, <3>1, <3>2 DEF OneLoads
  <2> QED
    BY <2>4, <2>5
<1>5. ASSUME NEW m \in Members, Install(m) PROVE Solvent' /\ (OneLoads => OneLoads')
  <2> DEFINE t == [task[m] EXCEPT !.at = "run", !.seen = StartRows]
  <2>1. task' = [task EXCEPT ![m] = t] /\ gold' = gold /\ task[m].at = "install"
    BY <1>1, <1>5 DEF Install, goods
  <2>2. t.at = "run"
    BY <1>1 DEF Task
  <2> HIDE DEF t
  <2>3. task'[m] = t /\ \A q \in Members \ {m} : task'[q] = task[q]
    BY <1>1, <2>1, TaskIs
  <2>4. Solvent'
    BY <1>1, <2>1, <2>2, <2>3 DEF Solvent
  <2>5. ASSUME OneLoads PROVE OneLoads'
    BY <2>1, <2>2, <2>3, <2>5 DEF OneLoads
  <2> QED
    BY <2>4, <2>5
<1>6. ASSUME NEW m \in Members, PutGold(m) \/ Pay(m) \/ TakeGold(m) \/ Gain(m) PROVE Solvent' /\ (OneLoads => OneLoads')
  <2>1. Loaded /\ SoundHouse(bank) /\ bank.gold \in Nat /\ task[m].n \in Nat
    BY <1>1, <1>6, Facts DEF PutGold, Pay, TakeGold, Gain, SoundHouse, Warehouse
  <2>2. \E t \in Task : task' = [task EXCEPT ![m] = t] /\ t.at # "install"
                         /\ (t.at = "pay" => gold' = gold /\ gold[m] >= t.n)
    <3>1. CASE Done(m)
      BY <3>1, IdleIs DEF Done
    <3>2. CASE Goto(m, "pay") /\ gold[m] >= task[m].n /\ gold' = gold
      <4> DEFINE t == [task[m] EXCEPT !.at = "pay"]
      <4>0. "pay" \in Stages
        BY DEF Stages
      <4>1. task' = [task EXCEPT ![m] = t] /\ t \in Task /\ t.at = "pay" /\ t["n"] = task[m]["n"]
        BY <1>1, <3>2, <4>0, GotoIs
      <4> HIDE DEF t
      <4> QED
        BY <3>2, <4>1
    <3>3. CASE Goto(m, "gain")
      <4> DEFINE t == [task[m] EXCEPT !.at = "gain"]
      <4>0. "gain" \in Stages
        BY DEF Stages
      <4>1. task' = [task EXCEPT ![m] = t] /\ t \in Task /\ t.at = "gain"
        BY <1>1, <3>3, <4>0, GotoIs
      <4> HIDE DEF t
      <4> QED
        BY <4>1
    <3> QED
      BY <1>6, <3>1, <3>2, <3>3 DEF PutGold, Pay, TakeGold, Gain, goods
  <2>3. \A q \in Members \ {m} : gold'[q] = gold[q]
    BY <1>1, <1>6 DEF PutGold, Pay, TakeGold, Gain, goods
  <2>4. PICK t \in Task : task' = [task EXCEPT ![m] = t] /\ t.at # "install"
                          /\ (t.at = "pay" => gold' = gold /\ gold[m] >= t.n)
    BY <2>2, Zenon
  <2>5. task'[m] = t /\ \A q \in Members \ {m} : task'[q] = task[q]
    BY <1>1, <2>4, TaskIs
  <2>6. Solvent'
    <3> SUFFICES ASSUME NEW q \in Members, task'[q].at = "pay" PROVE gold'[q] >= task'[q].n
      BY DEF Solvent
    <3>1. CASE q = m
      BY <2>4, <2>5, <3>1
    <3>2. CASE q # m
      BY <1>1, <2>3, <2>5, <3>2 DEF Solvent
    <3> QED
      BY <3>1, <3>2
  <2>7. Loaded'
    <3>1. CASE PutGold(m) \/ TakeGold(m)
      <4>1. "cold" \notin DOMAIN bank /\ DOMAIN bank' = DOMAIN bank /\ "cold" \in DOMAIN NotLoaded
        BY <2>1, <3>1 DEF PutGold, TakeGold, SoundHouse, Warehouse, NotLoaded
      <4> QED
        BY <4>1 DEF Loaded
    <3>2. CASE Pay(m) \/ Gain(m)
      BY <2>1, <3>2 DEF Pay, Gain, Loaded
    <3> QED
      BY <1>6, <3>1, <3>2
  <2> QED
    BY <1>1, <2>1, <2>4, <2>6, <2>7, LoadsKept
<1>7. ASSUME NEW m \in Members, Earn(m) PROVE Solvent' /\ (OneLoads => OneLoads')
  <2>1. gold' = [gold EXCEPT ![m] = GoldGain(gold[m], 1)] /\ UNCHANGED <<bank, task>>
    BY <1>1, <1>7 DEF Earn, house
  <2>2. gold[m] \in 0 .. CoinMax /\ GoldGain(gold[m], 1) \in Nat /\ GoldGain(gold[m], 1) >= gold[m] /\ task[m].n \in Nat
    BY <1>1 DEF GoldGain, Clamp, Task
  <2>3. Solvent'
    <3> SUFFICES ASSUME NEW q \in Members, task[q].at = "pay" PROVE gold'[q] >= task[q].n
      BY <2>1 DEF Solvent
    <3>1. gold[q] >= task[q].n /\ task[q].n \in Nat
      BY <1>1 DEF Solvent, Task
    <3>2. CASE q = m
      BY <1>1, <2>1, <2>2, <3>1, <3>2
    <3>3. CASE q # m
      BY <1>1, <2>1, <3>1, <3>3
    <3> QED
      BY <3>2, <3>3
  <2> QED
    BY <2>1, <2>3 DEF OneLoads, Loaded
<1>8. ASSUME UNCHANGED <<bank, gold, task>> PROVE Solvent' /\ (OneLoads => OneLoads')
  BY <1>1, <1>8 DEF Solvent, OneLoads, Loaded
<1>9. Solvent' /\ (~Rush /\ OneLoads => OneLoads')
  <2>1. CASE \E m \in Members, s, u \in Slots : InventoryMove(m, s, u)
    BY <1>8, <2>1 DEF InventoryMove, house
  <2>2. CASE UNCHANGED vars
    BY <1>8, <2>2 DEF vars, house, goods
  <2>3. CASE \E j \in Jobs : Land(j) \/ Fail(j)
    BY <1>8, <2>3 DEF Land, Fail, goods
  <2> QED
    BY <1>3, <1>4, <1>5, <1>6, <1>7, <2>1, <2>2, <2>3, StepKinds
<1> QED
  BY <1>1, <1>9 DEF SteadyInv

LEMMA SteadyStart == Init => SteadyInv
<1> SUFFICES ASSUME Init PROVE SteadyInv
  OBVIOUS
<1>1. \A m \in Members : task[m].at = "idle"
  BY IdleIs DEF Init
<1> QED
  BY <1>1, InitInv DEF SteadyInv, Solvent, OneLoads
\* What a member's handler holds twice or owes.
LEMMA MovingIs ==
  ASSUME NEW t \in Task, NEW stage
  PROVE  /\ Moving(t, stage) \in Nat
         /\ t.at = stage => Moving(t, stage) = t.n
         /\ t.at # stage => Moving(t, stage) = 0
BY DEF Moving, Task

LEMMA MovingChanges ==
  ASSUME Inv, NEW m \in Members, NEW t \in Task, task' = [task EXCEPT ![m] = t]
  PROVE  /\ PaidTwice' + Moving(task[m], "pay") = PaidTwice + Moving(t, "pay")
         /\ Owed' + Moving(task[m], "gain") = Owed + Moving(t, "gain")
         /\ PaidTwice \in Nat /\ PaidTwice' \in Nat /\ Owed \in Nat /\ Owed' \in Nat
<1>1. task \in [Members -> Task] /\ task' \in [Members -> Task] /\ task'[m] = t /\ \A q \in Members : q # m => task'[q] = task[q]
  BY DEF Inv, Tasks
<1>2. ASSUME NEW stage
      PROVE  LET f == [q \in Members |-> Moving(task[q], stage)]
                 g == [q \in Members |-> Moving(task'[q], stage)]
             IN  /\ SumFunction(g) + Moving(task[m], stage) = SumFunction(f) + Moving(t, stage)
                 /\ SumFunction(f) \in Nat /\ SumFunction(g) \in Nat
  <2> DEFINE f == [q \in Members |-> Moving(task[q], stage)]
             g == [q \in Members |-> Moving(task'[q], stage)]
  <2>1. f \in [Members -> Nat] /\ g \in [Members -> Nat]
    BY <1>1, MovingIs
  <2>2. f[m] = Moving(task[m], stage) /\ g[m] = Moving(t, stage) /\ \A q \in Members : q # m => g[q] = f[q]
    BY <1>1
  <2> HIDE DEF f, g
  <2>3. SumFunction(g) + f[m] = SumFunction(f) + g[m] /\ SumFunction(f) \in Nat /\ SumFunction(g) \in Nat
    BY <2>1, <2>2, OneChanges
  <2> QED
    BY <2>2, <2>3 DEF f, g
<1>3. PaidTwice' = SumFunction([q \in Members |-> Moving(task'[q], "pay")]) /\ Owed' = SumFunction([q \in Members |-> Moving(task'[q], "gain")])
  BY DEF PaidTwice, Owed, Moving
<1> QED
  BY <1>2, <1>3 DEF PaidTwice, Owed

LEMMA PurseChanges ==
  ASSUME Inv, NEW m \in Members, NEW g \in 0 .. CoinMax, gold' = [gold EXCEPT ![m] = g]
  PROVE  /\ SumFunction(gold') + gold[m] = SumFunction(gold) + g
         /\ SumFunction(gold') \in Nat /\ SumFunction(gold) \in Nat /\ gold[m] \in Nat
<1>1. gold \in [Members -> Nat] /\ gold' \in [Members -> Nat] /\ gold'[m] = g /\ \A q \in Members : q # m => gold'[q] = gold[q]
  BY DEF Inv, Goods
<1>2. \A f, h \in [Members -> Nat] : (\A q \in Members : q # m => h[q] = f[q]) =>
        /\ SumFunction(h) + f[m] = SumFunction(f) + h[m]
        /\ SumFunction(h) \in Nat /\ SumFunction(f) \in Nat /\ f[m] \in Nat
  BY OneChanges, ClanBankAssumption
<1> QED
  BY <1>1, <1>2

LEMMA PursesCount == ASSUME Inv PROVE SumFunction(gold) \in Nat
<1>1. gold \in [Members -> Nat]
  BY DEF Inv, Goods
<1> QED
  BY <1>1, SumFunctionIs

\* A step of m's handler that leaves purses and the warehouse's gold alone.
LEMMA QuietGold ==
  ASSUME Inv, NEW m \in Members, NEW t \in Task, task' = [task EXCEPT ![m] = t], bank.gold \in Nat,
         t.at \notin {"pay", "gain"}, task[m].at \notin {"pay", "gain"}, gold' = gold, bank'.gold = bank.gold
  PROVE  ClanGold' = ClanGold
<1>1. task[m] \in Task
  BY DEF Inv, Tasks
<1>2. /\ Moving(task[m], "pay") = 0 /\ Moving(task[m], "gain") = 0
      /\ Moving(t, "pay") = 0 /\ Moving(t, "gain") = 0
  BY <1>1, MovingIs
<1>3. /\ PaidTwice' + Moving(task[m], "pay") = PaidTwice + Moving(t, "pay")
      /\ Owed' + Moving(task[m], "gain") = Owed + Moving(t, "gain")
      /\ PaidTwice \in Nat /\ PaidTwice' \in Nat /\ Owed \in Nat /\ Owed' \in Nat
  BY MovingChanges
<1>4. PaidTwice' = PaidTwice /\ Owed' = Owed
  BY <1>2, <1>3
<1> QED
  BY <1>4 DEF ClanGold, Total

LEMMA GoldStepKept ==
  ASSUME SteadyInv, ~Rush, [Next]_vars, Loaded
  PROVE  \/ ClanGold' = ClanGold
         \/ \E m \in Members : Earn(m)
         \/ \E m \in Members : Gain(m) /\ gold'[m] = CoinMax
<1>1. Inv /\ Solvent /\ OneLoads /\ task \in [Members -> Task] /\ SoundHouse(bank) /\ bank.gold \in Nat /\ gold \in [Members -> 0 .. CoinMax]
  BY DEF SteadyInv, Inv, Tasks, Houses, Loaded, SoundHouse, Warehouse, Goods
<1>2. ASSUME NEW m \in Members, Other(m) PROVE ClanGold' = ClanGold
  <2>1. PICK t \in Task : task' = [task EXCEPT ![m] = t] /\ t.at \notin {"pay", "gain", "install"}
    BY <1>1, <1>2, OtherStep
  <2>2. task[m].at \notin {"pay", "gain"} /\ gold' = gold /\ bank'.gold = bank.gold
    BY <1>1, <1>2, OtherStep
  <2> QED
    BY <1>1, <2>1, <2>2, QuietGold
<1>3. ASSUME NEW m \in Members, Fetch(m) \/ Install(m) PROVE FALSE
  BY <1>1, <1>3 DEF Fetch, Install, OneLoads
<1>4. ASSUME NEW m \in Members, PutGold(m) \/ TakeGold(m) PROVE ClanGold' = ClanGold
  <2> DEFINE n == task[m].n
  <2>1. n \in Nat /\ task[m].at = "run" /\ gold' = gold /\ SumFunction(gold) \in Nat
    BY <1>1, <1>4, Facts, PursesCount DEF PutGold, TakeGold, goods
  <2>2. CASE Done(m) /\ bank' = bank
    BY <1>1, <2>1, <2>2, IdleIs, QuietGold DEF Done
  <2>3. ASSUME NEW stage \in {"pay", "gain"}, Goto(m, stage)
        PROVE  /\ stage = "pay" => PaidTwice' = PaidTwice + n /\ Owed' = Owed
               /\ stage = "gain" => PaidTwice' = PaidTwice /\ Owed' = Owed + n
               /\ PaidTwice \in Nat /\ Owed \in Nat
    <3> DEFINE t == [task[m] EXCEPT !.at = stage]
    <3>0. stage \in Stages
      BY DEF Stages
    <3>1. task' = [task EXCEPT ![m] = t] /\ t \in Task /\ t.at = stage
      BY <1>1, <2>3, <3>0, GotoIs
    <3>2. t["n"] = task[m]["n"]
      BY <1>1, <2>3, <3>0, GotoIs
    <3> HIDE DEF t
    <3>3. Moving(task[m], "pay") = 0 /\ Moving(task[m], "gain") = 0
      BY <1>1, <2>1, MovingIs
    <3>4. /\ stage = "pay" => Moving(t, "pay") = n /\ Moving(t, "gain") = 0
          /\ stage = "gain" => Moving(t, "pay") = 0 /\ Moving(t, "gain") = n
      BY <3>1, <3>2, MovingIs
    <3>5. /\ PaidTwice' + Moving(task[m], "pay") = PaidTwice + Moving(t, "pay")
          /\ Owed' + Moving(task[m], "gain") = Owed + Moving(t, "gain")
          /\ PaidTwice \in Nat /\ PaidTwice' \in Nat /\ Owed \in Nat /\ Owed' \in Nat
      BY <1>1, <3>1, MovingChanges
    <3> QED
      BY <2>1, <3>3, <3>4, <3>5
  <2>4. CASE Goto(m, "pay") /\ bank' = [bank EXCEPT !.gold = bank.gold + n]
    <3>1. bank'.gold = bank.gold + n
      BY <1>1, <2>4 DEF SoundHouse, Warehouse
    <3>2. PaidTwice' = PaidTwice + n /\ Owed' = Owed /\ PaidTwice \in Nat /\ Owed \in Nat
      BY <2>3, <2>4
    <3> QED
      BY <1>1, <2>1, <3>1, <3>2 DEF ClanGold, Total
  <2>5. CASE Goto(m, "gain") /\ bank' = [bank EXCEPT !.gold = bank.gold - n]
    <3>1. bank'.gold = bank.gold - n
      BY <1>1, <2>5 DEF SoundHouse, Warehouse
    <3>2. PaidTwice' = PaidTwice /\ Owed' = Owed + n /\ PaidTwice \in Nat /\ Owed \in Nat
      BY <2>3, <2>5
    <3> QED
      BY <1>1, <2>1, <3>1, <3>2 DEF ClanGold, Total
  <2> QED
    BY <1>1, <1>4, <2>2, <2>4, <2>5 DEF PutGold, TakeGold, SoundHouse, Warehouse
<1>5. ASSUME NEW m \in Members, Pay(m) \/ Gain(m), ~(Gain(m) /\ gold'[m] = CoinMax) PROVE ClanGold' = ClanGold
  <2> DEFINE n == task[m].n
  <2>1. n \in Nat /\ task[m] \in Task /\ gold[m] \in 0 .. CoinMax /\ bank' = bank /\ Done(m)
    BY <1>1, <1>5, Facts DEF Pay, Gain
  <2>2. /\ PaidTwice' + Moving(task[m], "pay") = PaidTwice + Moving(Idle, "pay")
        /\ Owed' + Moving(task[m], "gain") = Owed + Moving(Idle, "gain")
        /\ PaidTwice \in Nat /\ PaidTwice' \in Nat /\ Owed \in Nat /\ Owed' \in Nat
    BY <1>1, <2>1, IdleIs, MovingChanges DEF Done
  <2>3. Moving(Idle, "pay") = 0 /\ Moving(Idle, "gain") = 0
    BY IdleIs, MovingIs
  <2>4. CASE Pay(m)
    <3>1. gold[m] >= n /\ gold[m] - n \in 0 .. CoinMax /\ task[m].at = "pay"
      BY <1>1, <2>1, <2>4 DEF Pay, Solvent
    <3>2. gold' = [gold EXCEPT ![m] = gold[m] - n]
      BY <1>1, <2>4, <3>1 DEF Pay
    <3>3. SumFunction(gold') + gold[m] = SumFunction(gold) + (gold[m] - n) /\ SumFunction(gold') \in Nat /\ SumFunction(gold) \in Nat
      BY <1>1, <3>1, <3>2, PurseChanges
    <3>4. Moving(task[m], "pay") = n /\ Moving(task[m], "gain") = 0
      BY <2>1, <3>1, MovingIs
    <3> QED
      BY <1>1, <2>1, <2>2, <2>3, <3>3, <3>4 DEF ClanGold, Total
  <2>5. CASE Gain(m)
    <3>1. task[m].at = "gain" /\ gold' = [gold EXCEPT ![m] = GoldGain(gold[m], n)]
      BY <1>1, <2>5 DEF Gain
    <3>2. gold'[m] = GoldGain(gold[m], n) /\ GoldGain(gold[m], n) # CoinMax
      BY <1>1, <1>5, <2>5, <3>1
    <3>3. GoldGain(gold[m], n) = gold[m] + n /\ gold[m] + n \in 0 .. CoinMax
      BY <2>1, <3>2 DEF GoldGain, Clamp
    <3>4. SumFunction(gold') + gold[m] = SumFunction(gold) + (gold[m] + n) /\ SumFunction(gold') \in Nat /\ SumFunction(gold) \in Nat
      BY <1>1, <3>1, <3>3, PurseChanges
    <3>5. Moving(task[m], "pay") = 0 /\ Moving(task[m], "gain") = n
      BY <2>1, <3>1, MovingIs
    <3> QED
      BY <1>1, <2>1, <2>2, <2>3, <3>4, <3>5 DEF ClanGold, Total
  <2> QED
    BY <1>5, <2>4, <2>5
<1>6. ASSUME UNCHANGED <<bank, gold, task>> PROVE ClanGold' = ClanGold
  BY <1>6 DEF ClanGold, Total, PaidTwice, Owed
<1>7. CASE \E m \in Members, s, u \in Slots : InventoryMove(m, s, u)
  BY <1>6, <1>7 DEF InventoryMove, house
<1>8. CASE UNCHANGED vars
  BY <1>6, <1>8 DEF vars, house, goods
<1>9. CASE \E j \in Jobs : Land(j) \/ Fail(j)
  BY <1>6, <1>9 DEF Land, Fail, goods
<1> QED
  BY <1>2, <1>3, <1>4, <1>5, <1>7, <1>8, <1>9, StepKinds

\* Spec => GoldKept, when two members do not load the warehouse at the same time:
\* however deposits and withdrawals of gold overlap, they neither make gold nor lose
\* it, except where a reward fills the purse under a withdrawal.
THEOREM GoldIsKept == ASSUME ~Rush PROVE Spec => GoldKept
<1>1. Init => SteadyInv
  BY SteadyStart
<1>2. SteadyInv /\ [Next]_vars => SteadyInv'
  BY SteadyStep
<1>3. SteadyInv /\ [Next]_vars =>
        [Loaded => \/ ClanGold' = ClanGold
                   \/ \E m \in Members : Earn(m)
                   \/ \E m \in Members : Gain(m) /\ gold'[m] = CoinMax]_<<bank.gold, gold, At("pay"), At("gain")>>
  BY GoldStepKept
<1> QED
  BY <1>1, <1>2, <1>3, PTL DEF Spec, GoldKept

-----------------------------------------------------------------------------
(* No item is doubled. *)

LEMMA UnitsAre ==
  ASSUME NEW i \in Item
  PROVE  /\ \A stack : Sound(stack) => UnitsOf(stack, i) \in Nat
         /\ \A stack : stack.item # i => UnitsOf(stack, i) = 0
         /\ \A stack : stack.item = i => UnitsOf(stack, i) = stack.count
         /\ UnitsOf(Empty, i) = 0
<1>1. i # NoItem
  BY DEF Item
<1> QED
  BY <1>1, EmptySound DEF UnitsOf, Sound, Stack

\* The warehouse's units, when one place changes and when one place moves to a free one.
LEMMA StoredChanges ==
  ASSUME SoundHouse(bank), SoundHouse(bank'), NEW k \in Places, NEW i \in Item,
         \A x \in Places : x # k => bank'.items[x] = bank.items[x]
  PROVE  /\ Stored(i)' + UnitsOf(bank.items[k], i) = Stored(i) + UnitsOf(bank'.items[k], i)
         /\ Stored(i) \in Nat /\ Stored(i)' \in Nat
<1> DEFINE f == [x \in Places |-> UnitsOf(bank.items[x], i)]
           g == [x \in Places |-> UnitsOf(bank'.items[x], i)]
<1>1. f \in [Places -> Nat] /\ g \in [Places -> Nat]
  BY UnitsAre DEF SoundHouse
<1>2. f[k] = UnitsOf(bank.items[k], i) /\ g[k] = UnitsOf(bank'.items[k], i) /\ \A x \in Places : x # k => g[x] = f[x]
  OBVIOUS
<1>3. Stored(i) = SumFunction(f) /\ Stored(i)' = SumFunction(g)
  BY DEF Stored, UnitsOf
<1>4. IsFiniteSet(Places)
  BY FS_Interval DEF Places
<1> HIDE DEF f, g
<1>5. SumFunction(g) + f[k] = SumFunction(f) + g[k] /\ SumFunction(f) \in Nat /\ SumFunction(g) \in Nat
  BY <1>1, <1>2, <1>4, OneChanges
<1> QED
  BY <1>2, <1>3, <1>5

LEMMA StoredMoves ==
  ASSUME SoundHouse(bank), SoundHouse(bank'), NEW k \in Places, NEW j \in Places, NEW i \in Item, k # j,
         bank.items[j].item = NoItem, bank'.items[j] = bank.items[k], bank'.items[k] = Empty,
         \A x \in Places : x # k /\ x # j => bank'.items[x] = bank.items[x]
  PROVE  Stored(i)' = Stored(i)
<1> DEFINE f == [x \in Places |-> UnitsOf(bank.items[x], i)]
           g == [x \in Places |-> UnitsOf(bank'.items[x], i)]
<1>1. f \in [Places -> Nat] /\ g \in [Places -> Nat]
  BY UnitsAre DEF SoundHouse
<1>2. \A x \in Places : x # k /\ x # j => g[x] = f[x]
  OBVIOUS
<1>3. Stored(i) = SumFunction(f) /\ Stored(i)' = SumFunction(g)
  BY DEF Stored, UnitsOf
<1>4. IsFiniteSet(Places)
  BY FS_Interval DEF Places
<1>5. f[j] = 0 /\ g[j] = f[k] /\ g[k] = 0
  BY UnitsAre DEF Item
<1> HIDE DEF f, g
<1>6. /\ SumFunction(g) + f[k] + f[j] = SumFunction(f) + g[k] + g[j]
      /\ SumFunction(f) \in Nat /\ SumFunction(g) \in Nat /\ f[k] \in Nat
  BY <1>1, <1>2, <1>4, TwoChange
<1> QED
  BY <1>3, <1>5, <1>6

\* The members' units, when one slot of one bag changes and when two are swapped.
LEMMA HeldIs ==
  ASSUME NEW b \in Bag, \A s \in Slots : Sound(b[s]), NEW i \in Item
  PROVE  Held(b, i) \in Nat
<1> DEFINE f == [x \in Slots |-> UnitsOf(b[x], i)]
<1>1. f \in [Slots -> Nat]
  BY UnitsAre
<1>2. IsFiniteSet(Slots)
  BY FS_Interval DEF Slots
<1> HIDE DEF f
<1>3. SumFunction(f) \in Nat
  BY <1>1, <1>2, SumFunctionIs
<1> QED
  BY <1>3 DEF Held, f

LEMMA HeldChanges ==
  ASSUME NEW b \in Bag, NEW c \in Bag, \A s \in Slots : Sound(b[s]) /\ Sound(c[s]), NEW i \in Item,
         NEW s \in Slots, \A x \in Slots : x # s => c[x] = b[x]
  PROVE  Held(c, i) + UnitsOf(b[s], i) = Held(b, i) + UnitsOf(c[s], i)
<1> DEFINE f == [x \in Slots |-> UnitsOf(b[x], i)]
           g == [x \in Slots |-> UnitsOf(c[x], i)]
<1>1. f \in [Slots -> Nat] /\ g \in [Slots -> Nat]
  BY UnitsAre
<1>2. f[s] = UnitsOf(b[s], i) /\ g[s] = UnitsOf(c[s], i) /\ \A x \in Slots : x # s => g[x] = f[x]
  OBVIOUS
<1>3. Held(b, i) = SumFunction(f) /\ Held(c, i) = SumFunction(g)
  BY DEF Held
<1>4. IsFiniteSet(Slots)
  BY FS_Interval DEF Slots
<1> HIDE DEF f, g
<1>5. SumFunction(g) + f[s] = SumFunction(f) + g[s]
  BY <1>1, <1>2, <1>4, OneChanges
<1> QED
  BY <1>2, <1>3, <1>5

LEMMA HeldSwaps ==
  ASSUME NEW b \in Bag, \A s \in Slots : Sound(b[s]), NEW i \in Item, NEW s \in Slots, NEW u \in Slots
  PROVE  Held([b EXCEPT ![s] = b[u], ![u] = b[s]], i) = Held(b, i)
<1> DEFINE c == [b EXCEPT ![s] = b[u], ![u] = b[s]]
<1>1. CASE s = u
  BY <1>1 DEF Bag
<1>2. CASE s # u
  <2> DEFINE f == [x \in Slots |-> UnitsOf(b[x], i)]
             g == [x \in Slots |-> UnitsOf(c[x], i)]
  <2>0. c[s] = b[u] /\ c[u] = b[s] /\ \A x \in Slots : x # s /\ x # u => c[x] = b[x]
    BY <1>2 DEF Bag
  <2>1. Held(b, i) = SumFunction(f) /\ Held(c, i) = SumFunction(g)
    BY DEF Held
  <2> HIDE DEF c
  <2>2. g[s] = f[u] /\ g[u] = f[s] /\ \A x \in Slots : x # s /\ x # u => g[x] = f[x]
    BY <2>0
  <2>3. f \in [Slots -> Nat]
    BY UnitsAre
  <2>4. g \in [Slots -> Nat]
    BY <2>0, UnitsAre
  <2>5. IsFiniteSet(Slots)
    BY FS_Interval DEF Slots
  <2> HIDE DEF f, g
  <2>6. /\ SumFunction(g) + f[s] + f[u] = SumFunction(f) + g[s] + g[u]
        /\ SumFunction(f) \in Nat /\ SumFunction(g) \in Nat /\ f[s] \in Nat /\ f[u] \in Nat
    BY <1>2, <2>2, <2>3, <2>4, <2>5, TwoChange
  <2>7. SumFunction(g) = SumFunction(f)
    BY <2>2, <2>6
  <2> QED
    BY <2>1, <2>7 DEF c
<1> QED
  BY <1>1, <1>2

LEMMA CarriedChanges ==
  ASSUME Inv, Goods', NEW m \in Members, NEW i \in Item, \A q \in Members \ {m} : bag'[q] = bag[q]
  PROVE  /\ Carried(i)' + Held(bag[m], i) = Carried(i) + Held(bag'[m], i)
         /\ Carried(i) \in Nat /\ Carried(i)' \in Nat
<1> DEFINE f == [q \in Members |-> Held(bag[q], i)]
           g == [q \in Members |-> Held(bag'[q], i)]
<1>1. \A q \in Members : bag[q] \in Bag /\ bag'[q] \in Bag /\ \A s \in Slots : Sound(bag[q][s]) /\ Sound(bag'[q][s])
  BY DEF Inv, Goods
<1>2. \A q \in Members : Held(bag[q], i) \in Nat /\ Held(bag'[q], i) \in Nat
  BY <1>1, HeldIs
<1>3. f \in [Members -> Nat] /\ g \in [Members -> Nat]
  BY <1>2
<1>4. f[m] = Held(bag[m], i) /\ g[m] = Held(bag'[m], i) /\ \A q \in Members : q # m => g[q] = f[q]
  OBVIOUS
<1>5. Carried(i) = SumFunction(f) /\ Carried(i)' = SumFunction(g)
  BY DEF Carried, Held, UnitsOf
<1> HIDE DEF f, g
<1>6. SumFunction(g) + f[m] = SumFunction(f) + g[m] /\ SumFunction(f) \in Nat /\ SumFunction(g) \in Nat
  BY <1>3, <1>4, OneChanges
<1> QED
  BY <1>4, <1>5, <1>6

LEMMA SlotChanges ==
  ASSUME Inv, Goods', NEW m \in Members, NEW s \in Slots, NEW i \in Item,
         \A q \in Members \ {m} : bag'[q] = bag[q], \A x \in Slots : x # s => bag'[m][x] = bag[m][x]
  PROVE  /\ Carried(i)' + UnitsOf(bag[m][s], i) = Carried(i) + UnitsOf(bag'[m][s], i)
         /\ Carried(i) \in Nat /\ Carried(i)' \in Nat
<1>1. bag[m] \in Bag /\ bag'[m] \in Bag /\ \A x \in Slots : Sound(bag[m][x]) /\ Sound(bag'[m][x])
  BY DEF Inv, Goods
<1>2. Held(bag'[m], i) + UnitsOf(bag[m][s], i) = Held(bag[m], i) + UnitsOf(bag'[m][s], i)
  <2>1. \A b, c \in Bag : /\ \A x \in Slots : Sound(b[x]) /\ Sound(c[x])
                          /\ \A x \in Slots : x # s => c[x] = b[x]
                         => Held(c, i) + UnitsOf(b[s], i) = Held(b, i) + UnitsOf(c[s], i)
    BY HeldChanges
  <2> QED
    BY <1>1, <2>1
<1>3. Held(bag[m], i) \in Nat /\ Held(bag'[m], i) \in Nat
  BY <1>1, HeldIs
<1>4. UnitsOf(bag[m][s], i) \in Nat /\ UnitsOf(bag'[m][s], i) \in Nat
  BY <1>1, UnitsAre
<1>5. /\ Carried(i)' + Held(bag[m], i) = Carried(i) + Held(bag'[m], i)
      /\ Carried(i) \in Nat /\ Carried(i)' \in Nat
  BY CarriedChanges
<1> QED
  BY <1>2, <1>3, <1>4, <1>5

\* What a handler has written in one of two places.
LEMMA DoubledIs ==
  ASSUME NEW t \in Task, NEW i
  PROVE  /\ Doubled(t, i) \in Nat
         /\ t.at \in {"strip", "deduct", "undo"} /\ t.item = i => Doubled(t, i) = t.n
         /\ t.at \notin {"strip", "deduct", "undo"} \/ t.item # i => Doubled(t, i) = 0
BY DEF Doubled, Task

LEMMA TwiceChanges ==
  ASSUME Inv, NEW m \in Members, NEW t \in Task, task' = [task EXCEPT ![m] = t], NEW i \in Item
  PROVE  /\ Twice(i)' + Doubled(task[m], i) = Twice(i) + Doubled(t, i)
         /\ Twice(i) \in Nat /\ Twice(i)' \in Nat
<1> DEFINE f == [q \in Members |-> Doubled(task[q], i)]
           g == [q \in Members |-> Doubled(task'[q], i)]
<1>1. task \in [Members -> Task] /\ task' \in [Members -> Task] /\ task'[m] = t /\ \A q \in Members : q # m => task'[q] = task[q]
  BY DEF Inv, Tasks
<1>2. f \in [Members -> Nat] /\ g \in [Members -> Nat]
  BY <1>1, DoubledIs
<1>3. f[m] = Doubled(task[m], i) /\ g[m] = Doubled(t, i) /\ \A q \in Members : q # m => g[q] = f[q]
  BY <1>1
<1>4. Twice(i) = SumFunction(f) /\ Twice(i)' = SumFunction(g)
  BY DEF Twice, Doubled
<1> HIDE DEF f, g
<1>5. SumFunction(g) + f[m] = SumFunction(f) + g[m] /\ SumFunction(f) \in Nat /\ SumFunction(g) \in Nat
  BY <1>2, <1>3, OneChanges
<1> QED
  BY <1>3, <1>4, <1>5

LEMMA UnitsCount ==
  ASSUME Inv, SoundHouse(bank), NEW i \in Item
  PROVE  Stored(i) \in Nat /\ Carried(i) \in Nat /\ Twice(i) \in Nat /\ Units(i) \in Int
<1>1. Stored(i) \in Nat
  <2> DEFINE f == [x \in Places |-> UnitsOf(bank.items[x], i)]
  <2>1. f \in [Places -> Nat] /\ IsFiniteSet(Places)
    BY UnitsAre, FS_Interval DEF SoundHouse, Places
  <2> HIDE DEF f
  <2>2. SumFunction(f) \in Nat
    BY <2>1, SumFunctionIs
  <2> QED
    BY <2>2 DEF Stored, f
<1>2. Carried(i) \in Nat
  <2> DEFINE f == [q \in Members |-> Held(bag[q], i)]
  <2>0. \A q \in Members : bag[q] \in Bag /\ \A s \in Slots : Sound(bag[q][s])
    BY DEF Inv, Goods
  <2>1. f \in [Members -> Nat]
    BY <2>0, HeldIs
  <2> HIDE DEF f
  <2>2. SumFunction(f) \in Nat
    BY <2>1, SumFunctionIs
  <2> QED
    BY <2>2 DEF Carried, f
<1>3. Twice(i) \in Nat
  <2> DEFINE f == [q \in Members |-> Doubled(task[q], i)]
  <2>1. f \in [Members -> Nat]
    BY DoubledIs DEF Inv, Tasks
  <2> HIDE DEF f
  <2>2. SumFunction(f) \in Nat
    BY <2>1, SumFunctionIs
  <2> QED
    BY <2>2 DEF Twice, f
<1> QED
  BY <1>1, <1>2, <1>3 DEF Units

LEMMA SamePlaces ==
  ASSUME NEW i \in Item
  PROVE  /\ bag' = bag => Carried(i)' = Carried(i)
         /\ bank'.items = bank.items => Stored(i)' = Stored(i)
BY DEF Stored, Carried, Held, UnitsOf

\* A step of m's handler that moves nothing.
LEMMA QuietGoods ==
  ASSUME Inv, NEW m \in Members, NEW t \in Task, task' = [task EXCEPT ![m] = t], NEW i \in Item,
         Doubled(task[m], i) = Doubled(t, i), bag' = bag, bank'.items = bank.items
  PROVE  Units(i)' = Units(i)
<1>1. /\ Twice(i)' + Doubled(task[m], i) = Twice(i) + Doubled(t, i)
      /\ Twice(i) \in Nat /\ Twice(i)' \in Nat
  BY TwiceChanges
<1>2. Doubled(t, i) \in Nat
  BY DoubledIs
<1>3. Twice(i)' = Twice(i)
  BY <1>1, <1>2
<1>4. Stored(i)' = Stored(i) /\ Carried(i)' = Carried(i)
  BY SamePlaces
<1> QED
  BY <1>3, <1>4 DEF Units

\* A handler that gives up before it has written anything.
LEMMA QuietDone ==
  ASSUME Inv, NEW m \in Members, Done(m), task[m].at \notin {"strip", "deduct", "undo"}, NEW i \in Item,
         bag' = bag, bank'.items = bank.items
  PROVE  Units(i)' = Units(i)
<1>1. task[m] \in Task
  BY DEF Inv, Tasks
<1>2. Doubled(task[m], i) = 0 /\ Doubled(Idle, i) = 0
  BY <1>1, DoubledIs, IdleIs
<1> QED
  BY <1>2, IdleIs, QuietGoods DEF Done

\* A handler that goes on without having written an item.
LEMMA QuietGoto ==
  ASSUME Inv, NEW m \in Members, NEW stage \in Stages, Goto(m, stage), NEW i \in Item,
         \/ task[m].at \notin {"strip", "deduct", "undo"} /\ stage \notin {"strip", "deduct", "undo"}
         \/ task[m].at = "deduct" /\ stage = "undo",
         bag' = bag, bank'.items = bank.items
  PROVE  Units(i)' = Units(i)
<1> DEFINE t == [task[m] EXCEPT !.at = stage]
<1>1. task[m] \in Task
  BY DEF Inv, Tasks
<1>2. task' = [task EXCEPT ![m] = t] /\ t \in Task /\ t.at = stage
  BY GotoIs
<1>3. t["n"] = task[m]["n"] /\ t["item"] = task[m]["item"]
  BY GotoIs
<1> HIDE DEF t
<1>4. Doubled(task[m], i) = Doubled(t, i)
  BY <1>2, <1>3 DEF Doubled
<1> QED
  BY <1>1, <1>2, <1>4, QuietGoods

\* What Added and the deductions do to the units of the items.
LEMMA AddedUnits ==
  ASSUME NEW stack, Sound(stack), NEW i \in Item, NEW n, Fit(i, n), Accepts(stack, i), NEW j \in Item
  PROVE  /\ j # i => UnitsOf(Added(stack, i, n), j) = UnitsOf(stack, j)
         /\ UnitsOf(Added(stack, i, n), i) <= UnitsOf(stack, i) + n
         /\ Added(stack, i, n).count # StackMax => UnitsOf(Added(stack, i, n), i) = UnitsOf(stack, i) + n
<1> DEFINE a == Added(stack, i, n)
<1>1. /\ a.item = i /\ (i \in Single => a.count = n)
      /\ i \notin Single => a.count = Clamp(stack.count + n, StackMax)
  BY AddedSound
<1> HIDE DEF a
<1>2. i # NoItem /\ j # NoItem /\ n \in Nat /\ (i \in Single => i \notin Countable)
  BY DEF Item, Fit
<1>3. stack.item \in {NoItem, i} /\ (stack.item = NoItem => stack.count = 0) /\ stack.count \in Nat
  BY DEF Accepts, Sound, Stack
<1>4. UnitsOf(stack, i) = stack.count
  BY <1>3 DEF UnitsOf
<1>5. UnitsOf(a, i) = a.count
  BY <1>1 DEF UnitsOf
<1>6. i \in Single => stack.item = NoItem /\ stack.count = 0
  BY <1>2, <1>3 DEF Accepts
<1>7. a.count <= stack.count + n /\ (a.count # StackMax => a.count = stack.count + n)
  BY <1>1, <1>2, <1>3, <1>6 DEF Clamp
<1>8. j # i => UnitsOf(a, j) = 0 /\ UnitsOf(stack, j) = 0
  BY <1>1, <1>2, <1>3 DEF UnitsOf
<1> QED
  BY <1>4, <1>5, <1>7, <1>8 DEF a

LEMMA TakenUnits ==
  ASSUME NEW stack, Sound(stack), NEW i \in Item, NEW n \in Nat, Has(stack, i, n), NEW j \in Item
  PROVE  LET left == IF i \in Single THEN Empty ELSE Deduct(stack, n)
         IN  /\ j # i => UnitsOf(left, j) = UnitsOf(stack, j)
             /\ UnitsOf(left, i) + n <= UnitsOf(stack, i)
             /\ ~(i \in Single /\ n = 0) => UnitsOf(left, i) + n = UnitsOf(stack, i)
             /\ UnitsOf(left, i) \in Nat /\ Sound(left)
<1>1. Fit(i, n) /\ stack.item = i /\ stack.count \in Nat /\ stack.count >= n /\ i # NoItem /\ j # NoItem
  BY HasFit DEF Has, Sound, Stack, Item
<1>2. UnitsOf(stack, i) = stack.count /\ (j # i => UnitsOf(stack, j) = 0)
  BY <1>1 DEF UnitsOf
<1>3. UnitsOf(Empty, i) = 0 /\ UnitsOf(Empty, j) = 0 /\ Sound(Empty)
  BY UnitsAre, EmptySound
<1>4. CASE i \in Single
  <2>1. stack.count <= 1 /\ n \in {0, 1}
    BY <1>1, <1>4 DEF Fit, Sound
  <2> QED
    BY <1>1, <1>2, <1>3, <1>4, <2>1
<1>5. CASE i \notin Single /\ stack.count = n
  BY <1>1, <1>2, <1>3, <1>5 DEF Deduct
<1>6. CASE i \notin Single /\ stack.count # n
  <2> DEFINE left == [stack EXCEPT !.count = stack.count - n]
  <2>1. left.item = i /\ left.count = stack.count - n
    BY <1>1 DEF Sound, Stack
  <2>2. Deduct(stack, n) = left /\ Sound(Deduct(stack, n))
    BY <1>6, DeductSound DEF Deduct
  <2> HIDE DEF left
  <2>3. UnitsOf(left, i) = stack.count - n /\ (j # i => UnitsOf(left, j) = 0)
    BY <2>1 DEF UnitsOf
  <2> QED
    BY <1>1, <1>2, <1>6, <2>2, <2>3
<1> QED
  BY <1>4, <1>5, <1>6

LEMMA PutItemKept ==
  ASSUME Inv, NEW m \in Members, PutItem(m), NEW i \in Item
  PROVE  /\ Units(i)' <= Units(i)
         /\ Units(i)' < Units(i) => FillsStack(m)
<1> DEFINE t == task[m]
           ok == Has(bag[m][t.slot], t.item, t.n) /\ Accepts(bank.items[t.place], t.item)
<1>1. /\ Loaded /\ SoundHouse(bank) /\ t \in Task /\ task \in [Members -> Task]
      /\ Asked(t) /\ \A s \in Slots : Sound(bag[m][s])
  BY Facts DEF PutItem, Inv, Tasks
<1>2. t.item \in Item /\ t.slot \in Slots /\ t.place \in Places /\ t.n \in Nat /\ t.at = "run"
  BY <1>1 DEF Asked, PutItem
<1>3. CASE ~ok
  <2>1. Units(i)' = Units(i)
    BY <1>2, <1>3, QuietDone DEF PutItem, goods
  <2> QED
    BY <1>1, <2>1, UnitsCount
<1>4. CASE ok
  <2> DEFINE put == Added(bank.items[t.place], t.item, t.n)
             u == [task[m] EXCEPT !.at = "strip", !.final = put]
             old == UnitsOf(bank.items[t.place], i)
             new == UnitsOf(put, i)
  <2>1. Fit(t.item, t.n) /\ Sound(bank.items[t.place])
    BY <1>1, <1>2, <1>4, HasFit DEF SoundHouse
  <2>2. Sound(put)
    BY <1>2, <2>1, AddedSound
  <2>3. /\ i # t.item => new = old
        /\ i = t.item => new <= old + t.n
        /\ i = t.item /\ put.count # StackMax => new = old + t.n
        /\ new \in Nat /\ old \in Nat
    BY <1>2, <1>4, <2>1, <2>2, AddedUnits, UnitsAre
  <2>4. bank' = [bank EXCEPT !.items[t.place] = put] /\ task' = [task EXCEPT ![m].at = "strip", ![m].final = put] /\ UNCHANGED goods
    BY <1>4 DEF PutItem
  <2> HIDE DEF put
  <2>5. task' = [task EXCEPT ![m] = u]
    BY <1>1, <2>4
  <2>6. u \in Task
    BY <1>1, <2>2 DEF Task, Sound, Stages
  <2>7. u.at = "strip" /\ u.n = t.n /\ u.item = t.item
    BY <1>1 DEF Task
  <2> HIDE DEF u
  <2>8. SoundHouse(bank')
    BY <1>1, <1>2, <2>2, <2>4, SlotWritten
  <2>9. bank'.items[t.place] = put /\ \A x \in Places : x # t.place => bank'.items[x] = bank.items[x]
    BY <1>1, <1>2, <2>4 DEF SoundHouse, Warehouse
  <2>10. Stored(i)' + old = Stored(i) + new /\ Stored(i) \in Nat /\ Stored(i)' \in Nat
    BY <1>1, <1>2, <2>8, <2>9, StoredChanges
  <2>11. /\ Twice(i)' + Doubled(t, i) = Twice(i) + Doubled(u, i)
         /\ Twice(i) \in Nat /\ Twice(i)' \in Nat
    BY <2>5, <2>6, TwiceChanges
  <2>12. Doubled(t, i) = 0 /\ Doubled(u, i) = IF t.item = i THEN t.n ELSE 0
    BY <1>1, <1>2, <2>6, <2>7, DoubledIs
  <2>13. Carried(i)' = Carried(i) /\ Carried(i) \in Nat
    BY <1>1, <2>4, UnitsCount, SamePlaces DEF goods
  <2>14. put.count = StackMax => FillsStack(m)
    BY <2>9 DEF FillsStack
  <2> HIDE DEF new, old
  <2> QED
    BY <1>2, <2>3, <2>10, <2>11, <2>12, <2>13, <2>14 DEF Units
<1> QED
  BY <1>3, <1>4

\* The step that takes the other copy away: Strip from the bag, DeductBank from the warehouse.
LEMMA StripKept ==
  ASSUME Inv, NEW m \in Members, Strip(m), NEW i \in Item
  PROVE  /\ Units(i)' <= Units(i)
         /\ Units(i)' < Units(i) => Vanishes(m)
<1> DEFINE t == task[m]
           left == IF t.item \in Single THEN Empty ELSE Deduct(bag[m][t.slot], t.n)
           old == UnitsOf(bag[m][t.slot], i)
           new == UnitsOf(left, i)
<1>1. /\ Loaded /\ SoundHouse(bank) /\ t \in Task
      /\ Asked(t) /\ Fine(t, bag[m], Loaded) /\ \A s \in Slots : Sound(bag[m][s])
  BY Facts DEF Strip
<1>2. /\ t.item \in Item /\ t.slot \in Slots /\ t.place \in Places /\ t.n \in Nat
      /\ t.at = "strip" /\ Has(bag[m][t.slot], t.item, t.n) /\ Sound(bag[m][t.slot])
  BY <1>1 DEF Asked, Fine, Strip
<1>3. /\ i # t.item => new = old
      /\ i = t.item => new + t.n <= old
      /\ i = t.item /\ ~(t.item \in Single /\ t.n = 0) => new + t.n = old
      /\ Sound(left)
  BY <1>2, TakenUnits
<1>4. new \in Nat /\ old \in Nat
  BY <1>2, <1>3, UnitsAre
<1>5. bag' = [bag EXCEPT ![m][t.slot] = left] /\ Done(m) /\ UNCHANGED <<bank, gold>>
  BY <1>2 DEF Strip, Inv, Goods, Bag
<1> HIDE DEF left
<1>6. Carried(i)' + old = Carried(i) + new /\ Carried(i) \in Nat /\ Carried(i)' \in Nat
  <2>1. Goods' /\ \A q \in Members \ {m} : bag'[q] = bag[q]
    BY <1>2, <1>3, <1>5, BagWritten
  <2>2. bag'[m][t.slot] = left /\ \A x \in Slots : x # t.slot => bag'[m][x] = bag[m][x]
    BY <1>2, <1>3, <1>5 DEF Inv, Goods, Bag
  <2> QED
    BY <1>2, <2>1, <2>2, SlotChanges
<1>7. Stored(i)' = Stored(i) /\ Stored(i) \in Nat
  BY <1>1, <1>5, UnitsCount, SamePlaces
<1>8. Twice(i)' + Doubled(t, i) = Twice(i) + Doubled(Idle, i) /\ Twice(i) \in Nat /\ Twice(i)' \in Nat
  BY <1>5, IdleIs, TwiceChanges DEF Done
<1>9. Doubled(Idle, i) = 0 /\ Doubled(t, i) = IF t.item = i THEN t.n ELSE 0
  BY <1>1, <1>2, IdleIs, DoubledIs
<1>10. t.item \in Single /\ t.n = 0 => Vanishes(m)
  BY DEF Vanishes
<1> HIDE DEF new, old
<1> QED
  BY <1>2, <1>3, <1>4, <1>6, <1>7, <1>8, <1>9, <1>10 DEF Units

LEMMA DeductKept ==
  ASSUME Inv, NEW m \in Members, DeductBank(m), NEW i \in Item
  PROVE  /\ Units(i)' <= Units(i)
         /\ Units(i)' < Units(i) => Vanishes(m)
<1> DEFINE t == task[m]
<1>1. /\ Loaded /\ SoundHouse(bank) /\ t \in Task /\ Asked(t) /\ Fine(t, bag[m], Loaded)
  BY Facts DEF DeductBank
<1>2. /\ t.item \in Item /\ t.slot \in Slots /\ t.place \in Places /\ t.n \in Nat /\ t.at = "deduct"
  BY <1>1 DEF Asked, Fine, DeductBank
<1>3. CASE ~Has(bank.items[t.place], t.item, t.n)
  <2>1. Goto(m, "undo") /\ bank' = bank /\ bag' = bag /\ "undo" \in Stages
    BY <1>3 DEF DeductBank, goods, Stages
  <2>2. Units(i)' = Units(i)
    BY <1>2, <2>1, QuietGoto
  <2> QED
    BY <1>1, <2>2, UnitsCount
<1>4. CASE Has(bank.items[t.place], t.item, t.n)
  <2> DEFINE left == IF t.item \in Single THEN Empty ELSE Deduct(bank.items[t.place], t.n)
             old == UnitsOf(bank.items[t.place], i)
             new == UnitsOf(left, i)
  <2>0. Sound(bank.items[t.place])
    BY <1>1, <1>2 DEF SoundHouse
  <2>1. /\ i # t.item => new = old
        /\ i = t.item => new + t.n <= old
        /\ i = t.item /\ ~(t.item \in Single /\ t.n = 0) => new + t.n = old
        /\ Sound(left)
    BY <1>2, <1>4, <2>0, TakenUnits
  <2>2. new \in Nat /\ old \in Nat
    BY <2>0, <2>1, UnitsAre
  <2>3. bank' = [bank EXCEPT !.items[t.place] = left] /\ Done(m) /\ UNCHANGED goods
    BY <1>4 DEF DeductBank
  <2> HIDE DEF left
  <2>4. SoundHouse(bank')
    BY <1>1, <1>2, <2>1, <2>3, SlotWritten
  <2>5. bank'.items[t.place] = left /\ \A x \in Places : x # t.place => bank'.items[x] = bank.items[x]
    BY <1>1, <1>2, <2>3 DEF SoundHouse, Warehouse
  <2>6. Stored(i)' + old = Stored(i) + new /\ Stored(i) \in Nat /\ Stored(i)' \in Nat
    BY <1>1, <1>2, <2>4, <2>5, StoredChanges
  <2>7. Carried(i)' = Carried(i) /\ Carried(i) \in Nat
    BY <1>1, <2>3, UnitsCount, SamePlaces DEF goods
  <2>8. Twice(i)' + Doubled(t, i) = Twice(i) + Doubled(Idle, i) /\ Twice(i) \in Nat /\ Twice(i)' \in Nat
    BY <2>3, IdleIs, TwiceChanges DEF Done
  <2>9. Doubled(Idle, i) = 0 /\ Doubled(t, i) = IF t.item = i THEN t.n ELSE 0
    BY <1>1, <1>2, IdleIs, DoubledIs
  <2>10. t.item \in Single /\ t.n = 0 => Vanishes(m)
    BY DEF Vanishes
  <2> HIDE DEF new, old
  <2> QED
    BY <1>2, <2>1, <2>2, <2>6, <2>7, <2>8, <2>9, <2>10 DEF Units
<1> QED
  BY <1>3, <1>4

LEMMA GrabKept ==
  ASSUME Inv, NEW m \in Members, Grab(m), NEW i \in Item
  PROVE  /\ Units(i)' <= Units(i)
         /\ Units(i)' < Units(i) => FillsStack(m)
<1> DEFINE t == task[m]
<1>1. /\ Loaded /\ SoundHouse(bank) /\ t \in Task /\ Asked(t) /\ Fine(t, bag[m], Loaded) /\ \A s \in Slots : Sound(bag[m][s])
  BY Facts DEF Grab
<1>2. /\ t.item \in Item /\ t.slot \in Slots /\ t.place \in Places /\ t.n \in Nat /\ t.at = "grab"
      /\ Fit(t.item, t.n) /\ Sound(bag[m][t.slot])
  BY <1>1 DEF Asked, Fine, Grab
<1>3. CASE ~Accepts(bag[m][t.slot], t.item)
  <2>1. Units(i)' = Units(i)
    BY <1>2, <1>3, QuietDone DEF Grab, house
  <2> QED
    BY <1>1, <2>1, UnitsCount
<1>4. CASE Accepts(bag[m][t.slot], t.item)
  <2> DEFINE got == Added(bag[m][t.slot], t.item, t.n)
             u == [task[m] EXCEPT !.at = "deduct"]
             old == UnitsOf(bag[m][t.slot], i)
             new == UnitsOf(got, i)
  <2>1. Sound(got)
    BY <1>2, AddedSound
  <2>2. /\ i # t.item => new = old
        /\ i = t.item => new <= old + t.n
        /\ i = t.item /\ got.count # StackMax => new = old + t.n
        /\ new \in Nat /\ old \in Nat
    BY <1>2, <1>4, <2>1, AddedUnits, UnitsAre
  <2>3. bag' = [bag EXCEPT ![m][t.slot] = got] /\ Goto(m, "deduct") /\ UNCHANGED <<bank, gold>>
    BY <1>2, <1>4 DEF Grab, house, Inv, Goods, Bag
  <2> HIDE DEF got
  <2>4. task' = [task EXCEPT ![m] = u] /\ u \in Task /\ u.at = "deduct"
    BY <2>3, GotoIs DEF Stages
  <2>5. u["n"] = t["n"] /\ u["item"] = t["item"]
    BY <2>3, GotoIs DEF Stages
  <2> HIDE DEF u
  <2>10. Goods' /\ \A q \in Members \ {m} : bag'[q] = bag[q]
    BY <1>2, <2>1, <2>3, BagWritten
  <2>12. bag'[m][t.slot] = got /\ \A x \in Slots : x # t.slot => bag'[m][x] = bag[m][x]
    BY <1>2, <2>1, <2>3 DEF Inv, Goods, Bag
  <2>6. Carried(i)' + old = Carried(i) + new /\ Carried(i) \in Nat /\ Carried(i)' \in Nat
    BY <1>2, <2>10, <2>12, SlotChanges
  <2>7. Stored(i)' = Stored(i) /\ Stored(i) \in Nat
    BY <1>1, <2>3, UnitsCount, SamePlaces
  <2>8. Twice(i)' + Doubled(t, i) = Twice(i) + Doubled(u, i) /\ Twice(i) \in Nat /\ Twice(i)' \in Nat
    BY <2>4, TwiceChanges
  <2>9. Doubled(t, i) = 0 /\ Doubled(u, i) = IF t.item = i THEN t.n ELSE 0
    BY <1>1, <1>2, <2>4, <2>5, DoubledIs
  <2>11. got.count = StackMax => FillsStack(m)
    BY <2>12 DEF FillsStack
  <2> HIDE DEF new, old
  <2> QED
    BY <1>2, <2>2, <2>6, <2>7, <2>8, <2>9, <2>11 DEF Units
<1> QED
  BY <1>3, <1>4

\* A withdrawal that came too late had its units in the bag; the slot loses them, and
\* whatever they were added to.
LEMMA UndoKept ==
  ASSUME Inv, NEW m \in Members, Undo(m), NEW i \in Item
  PROVE  Units(i)' <= Units(i)
<1> DEFINE t == task[m]
           old == UnitsOf(bag[m][t.slot], i)
<1>1. /\ Loaded /\ SoundHouse(bank) /\ t \in Task /\ Asked(t) /\ Fine(t, bag[m], Loaded) /\ \A s \in Slots : Sound(bag[m][s])
  BY Facts DEF Undo
<1>2. /\ t.item \in Item /\ t.slot \in Slots /\ t.n \in Nat /\ t.at = "undo"
      /\ Has(bag[m][t.slot], t.item, t.n) /\ Sound(bag[m][t.slot])
  BY <1>1 DEF Asked, Fine, Undo
<1>3. old \in Nat /\ (t.item = i => old >= t.n) /\ UnitsOf(Empty, i) = 0
  BY <1>2, UnitsAre DEF Has
<1>4. Carried(i)' + old = Carried(i) + UnitsOf(Empty, i) /\ Carried(i) \in Nat /\ Carried(i)' \in Nat
  <2>1. Goods' /\ \A q \in Members \ {m} : bag'[q] = bag[q]
    BY <1>2, EmptySound, BagWritten DEF Undo
  <2>2. bag'[m][t.slot] = Empty /\ \A x \in Slots : x # t.slot => bag'[m][x] = bag[m][x]
    BY <1>2, EmptySound DEF Undo, Inv, Goods, Bag
  <2> QED
    BY <1>2, <2>1, <2>2, SlotChanges
<1>5. Stored(i)' = Stored(i) /\ Stored(i) \in Nat
  BY <1>1, UnitsCount, SamePlaces DEF Undo, house
<1>6. Twice(i)' + Doubled(t, i) = Twice(i) + Doubled(Idle, i) /\ Twice(i) \in Nat /\ Twice(i)' \in Nat
  BY IdleIs, TwiceChanges DEF Undo, Done
<1>7. Doubled(Idle, i) = 0 /\ Doubled(t, i) = IF t.item = i THEN t.n ELSE 0
  BY <1>1, <1>2, IdleIs, DoubledIs
<1> HIDE DEF old
<1> QED
  BY <1>2, <1>3, <1>4, <1>5, <1>6, <1>7 DEF Units

LEMMA MoveKept ==
  ASSUME Inv, NEW m \in Members, Move(m), NEW i \in Item
  PROVE  Units(i)' = Units(i)
<1>1. Loaded /\ SoundHouse(bank) /\ Done(m) /\ UNCHANGED goods /\ task[m].at = "run" /\ task[m] \in Task
  BY Facts DEF Move
<1>2. CASE UNCHANGED house
  BY <1>1, <1>2, QuietDone DEF house, goods
<1>3. CASE ~UNCHANGED house
  <2>1. PICK from \in Places, to \in Places :
           /\ from # to /\ Sound(bank.items[from]) /\ bank.items[to].item = NoItem
           /\ bank' = Wrote(bank, to, bank.items[from], from, Empty)
    BY <1>3, MoveIs
  <2> DEFINE w == Wrote(bank, to, bank.items[from], from, Empty)
  <2>a. SoundHouse(Wrote(bank, to, bank.items[from], from, Empty))
    BY <1>1, <2>1, SlotsWritten, EmptySound
  <2>b. /\ Wrote(bank, to, bank.items[from], from, Empty).items[from] = Empty
        /\ Wrote(bank, to, bank.items[from], from, Empty).items[to] = bank.items[from]
    BY <1>1, <2>1, SlotsWritten, EmptySound
  <2>c. ASSUME NEW x \in Places, x # to, x # from
        PROVE  Wrote(bank, to, bank.items[from], from, Empty).items[x] = bank.items[x]
    BY <1>1, <2>1, <2>c DEF Wrote, SoundHouse, Warehouse
  <2>2. /\ SoundHouse(w) /\ w.items[from] = Empty /\ w.items[to] = bank.items[from]
        /\ \A x \in Places : x # to /\ x # from => w.items[x] = bank.items[x]
    BY <2>a, <2>b, <2>c
  <2> HIDE DEF w
  <2>3. bank' = w
    BY <2>1 DEF w
  <2>4. Stored(i)' = Stored(i)
    BY <1>1, <2>1, <2>2, <2>3, StoredMoves
  <2>5. Carried(i)' = Carried(i)
    BY <1>1, SamePlaces DEF goods
  <2>6. Twice(i)' + Doubled(task[m], i) = Twice(i) + Doubled(Idle, i) /\ Twice(i) \in Nat /\ Twice(i)' \in Nat
    BY <1>1, IdleIs, TwiceChanges DEF Done
  <2>7. Doubled(Idle, i) = 0 /\ Doubled(task[m], i) = 0
    BY <1>1, IdleIs, DoubledIs
  <2>8. Twice(i)' = Twice(i)
    BY <2>6, <2>7
  <2> QED
    BY <2>4, <2>5, <2>8 DEF Units
<1> QED
  BY <1>2, <1>3

LEMMA InventoryMoveKept ==
  ASSUME Inv, Inv', SoundHouse(bank), NEW m \in Members, NEW s \in Slots, NEW u \in Slots, InventoryMove(m, s, u), NEW i \in Item
  PROVE  Units(i)' = Units(i)
<1> DEFINE new == [bag[m] EXCEPT ![s] = bag[m][u], ![u] = bag[m][s]]
<1>1. bag \in [Members -> Bag] /\ bag[m] \in Bag /\ \A x \in Slots : Sound(bag[m][x])
  BY DEF Inv, Goods
<1>2. Held(new, i) = Held(bag[m], i)
  BY <1>1, HeldSwaps
<1>3. bag' = [bag EXCEPT ![m] = new] /\ UNCHANGED <<bank, task>>
  BY <1>1 DEF InventoryMove, house
<1> HIDE DEF new
<1>4. bag'[m] = new /\ \A q \in Members \ {m} : bag'[q] = bag[q]
  BY <1>1, <1>3
<1>5. Carried(i)' + Held(bag[m], i) = Carried(i) + Held(bag'[m], i) /\ Carried(i) \in Nat /\ Carried(i)' \in Nat
  BY <1>4, CarriedChanges DEF Inv
<1>6. Held(bag[m], i) \in Nat
  BY <1>1, HeldIs
<1>7. Carried(i)' = Carried(i)
  BY <1>2, <1>4, <1>5, <1>6
<1>8. Stored(i)' = Stored(i) /\ Twice(i)' = Twice(i)
  BY <1>3, SamePlaces DEF Twice
<1> QED
  BY <1>7, <1>8 DEF Units

LEMMA GoodsStepKept ==
  ASSUME SteadyInv, ~Rush, [Next]_vars, Loaded, NEW i \in Item
  PROVE  /\ Units(i)' <= Units(i)
         /\ Units(i)' < Units(i) => \E m \in Members : FillsStack(m) \/ Undo(m) \/ Vanishes(m)
<1>1. Inv /\ Inv' /\ OneLoads /\ task \in [Members -> Task] /\ SoundHouse(bank) /\ Units(i) \in Int
  BY UnitsCount, StepInv DEF SteadyInv, Inv, Tasks, Houses, Loaded
<1>2. ASSUME NEW m \in Members, NEW r \in Requests, Request(m, r) PROVE Units(i)' = Units(i)
  <2> DEFINE t == [r EXCEPT !.at = "run"]
  <2>1. task' = [task EXCEPT ![m] = t] /\ task[m].at = "idle" /\ bag' = bag /\ bank' = bank
    BY <1>2 DEF Request, Ready, house, goods
  <2>2. t \in Task /\ t.at = "run"
    BY RequestIs DEF Stages
  <2> HIDE DEF t
  <2>3. Doubled(task[m], i) = Doubled(t, i)
    BY <1>1, <2>1, <2>2, DoubledIs
  <2> QED
    BY <1>1, <2>1, <2>2, <2>3, QuietGoods
<1>3. ASSUME NEW m \in Members, Join(m) PROVE Units(i)' = Units(i)
  BY <1>1, <1>3, QuietGoto DEF Join, house, goods, Stages
<1>4. ASSUME NEW m \in Members, Open(m) PROVE Units(i)' = Units(i)
  BY <1>1, <1>4, QuietDone DEF Open, house, goods
<1>5. ASSUME NEW m \in Members, Look(m) PROVE Units(i)' = Units(i)
  <2>1. bag' = bag /\ bank' = bank /\ task[m].at = "run" /\ (Goto(m, "grab") \/ Done(m)) /\ "grab" \in Stages
    BY <1>5 DEF Look, house, goods, Stages
  <2> QED
    BY <1>1, <2>1, QuietDone, QuietGoto
<1>6. ASSUME NEW m \in Members, Fetch(m) \/ Install(m) PROVE FALSE
  BY <1>1, <1>6 DEF Fetch, Install, OneLoads
<1>7. ASSUME NEW m \in Members, PutGold(m) \/ TakeGold(m) PROVE Units(i)' = Units(i)
  <2>1. bag' = bag /\ bank'.items = bank.items /\ task[m].at = "run"
    BY <1>1, <1>7 DEF PutGold, TakeGold, goods, SoundHouse, Warehouse
  <2>2. (Goto(m, "pay") \/ Goto(m, "gain") \/ Done(m)) /\ "pay" \in Stages /\ "gain" \in Stages
    BY <1>7 DEF PutGold, TakeGold, Stages
  <2> QED
    BY <1>1, <2>1, <2>2, QuietDone, QuietGoto
<1>8. ASSUME NEW m \in Members, Pay(m) \/ Gain(m) PROVE Units(i)' = Units(i)
  BY <1>1, <1>8, QuietDone DEF Pay, Gain
<1>9. ASSUME UNCHANGED <<bank, bag, task>> PROVE Units(i)' = Units(i)
  BY <1>9 DEF Units, Stored, Carried, Twice, Held, UnitsOf
<1>10. CASE (\E m \in Members : Earn(m)) \/ (\E j \in Jobs : Land(j) \/ Fail(j)) \/ UNCHANGED vars
  BY <1>1, <1>9, <1>10 DEF Earn, Land, Fail, vars, house, goods
<1>11. ASSUME NEW m \in Members, NEW s \in Slots, NEW u \in Slots, InventoryMove(m, s, u) PROVE Units(i)' = Units(i)
  BY <1>1, <1>11, InventoryMoveKept
<1>12. ASSUME NEW m \in Members, Strip(m) \/ DeductBank(m) PROVE Units(i)' <= Units(i) /\ (Units(i)' < Units(i) => Vanishes(m))
  BY <1>1, <1>12, StripKept, DeductKept
<1>13. ASSUME NEW m \in Members, PutItem(m) \/ Grab(m) PROVE Units(i)' <= Units(i) /\ (Units(i)' < Units(i) => FillsStack(m))
  BY <1>1, <1>13, PutItemKept, GrabKept
<1>14. ASSUME NEW m \in Members, Undo(m) PROVE Units(i)' <= Units(i)
  BY <1>1, <1>14, UndoKept
<1>15. ASSUME NEW m \in Members, Move(m) PROVE Units(i)' = Units(i)
  BY <1>1, <1>15, MoveKept
<1>18. ASSUME NEW m \in Members, Other(m)
       PROVE  \/ Units(i)' = Units(i)
              \/ Units(i)' <= Units(i) /\ (Units(i)' < Units(i) => FillsStack(m) \/ Undo(m) \/ Vanishes(m))
  BY <1>2, <1>3, <1>4, <1>5, <1>12, <1>13, <1>14, <1>15, <1>18 DEF Other
<1>16. CASE \E m \in Members : Other(m)
  BY <1>1, <1>16, <1>18
<1>17. CASE \E m \in Members : \/ PutGold(m) \/ Pay(m) \/ TakeGold(m) \/ Gain(m) \/ Fetch(m) \/ Install(m)
                               \/ \E s, u \in Slots : InventoryMove(m, s, u)
  <2>1. Units(i)' = Units(i)
    BY <1>6, <1>7, <1>8, <1>11, <1>17
  <2> QED
    BY <1>1, <2>1
<1> QED
  BY <1>10, <1>16, <1>17, StepKinds

\* Spec => GoodsKept, when two members do not load the warehouse at the same time:
\* however deposits, withdrawals, moves and undos overlap, in any number of bags and
\* places and with any counts asked for, no unit of an item appears, and units are
\* lost only by a step that fills its stack, undoes a withdrawal which came too late,
\* or moves a unit that does not stack as a multiple of 65,536.
THEOREM GoodsAreKept == ASSUME ~Rush PROVE Spec => GoodsKept
<1>1. Init => SteadyInv
  BY SteadyStart
<1>2. SteadyInv /\ [Next]_vars => SteadyInv'
  BY SteadyStep
<1>3. SteadyInv /\ [Next]_vars =>
        [Loaded => \A i \in Item : LET before == Units(i)  after == Units(i)' IN
           /\ after <= before
           /\ after < before =>
                \E m \in Members : FillsStack(m) \/ Undo(m) \/ Vanishes(m)]_<<bank.items, bag, Halfway>>
  BY GoodsStepKept
<1> QED
  BY <1>1, <1>2, <1>3, PTL DEF Spec, GoodsKept

-----------------------------------------------------------------------------
(* The database follows the cache.  Saves only begin on a spare job, so the one *)
(* that will bring a place up to date stays under way until it lands or fails;  *)
(* a handler that has not started its save yet remembers the place as it is.    *)

Begins == UNCHANGED saves \/ SaveGold \/ (\E k, x : SaveSlot(k, x)) \/ \E k, l : SaveMove(k, l)

LEMMA SaveIs ==
  /\ \A k, x : /\ ItemSave(k, x) # NoSave /\ ItemSave(k, x).what = "item"
               /\ ItemSave(k, x).place = k /\ ItemSave(k, x).stack = x
  /\ \A g : GoldSave(g) # NoSave /\ GoldSave(g).what = "gold" /\ GoldSave(g).gold = g
<1>1. NoSave.what = "nothing"
  BY DEF NoSave
<1>2. ASSUME NEW k, NEW x
      PROVE  ItemSave(k, x).what = "item" /\ ItemSave(k, x).place = k /\ ItemSave(k, x).stack = x
  BY DEF ItemSave
<1>3. ASSUME NEW g PROVE GoldSave(g).what = "gold" /\ GoldSave(g).gold = g
  BY DEF GoldSave
<1> QED
  BY <1>1, <1>2, <1>3

LEMMA SavesStay ==
  ASSUME Inv, Begins, NEW x, x # NoSave, \E j \in Jobs : saves[j] = x
  PROVE  \E j \in Jobs : saves'[j] = x
<1>1. PICK j \in Jobs : saves[j] = x
  OBVIOUS
<1>2. j \notin Spare /\ saves \in [Jobs -> Saves]
  BY <1>1 DEF Spare, Inv, Houses, Database
<1>3. saves'[j] = saves[j]
  BY <1>2 DEF Begins, SaveGold, SaveSlot, SaveMove
<1> QED
  BY <1>1, <1>3

LEMMA SavesBegin ==
  ASSUME Inv
  PROVE  /\ SaveGold => \E j \in Jobs : saves'[j] = GoldSave(bank.gold)
         /\ \A k, x : SaveSlot(k, x) => \E j \in Jobs : saves'[j] = ItemSave(k, x)
         /\ \A k, l : SaveMove(k, l) => /\ \E j \in Jobs : saves'[j] = ItemSave(k, Empty)
                                        /\ \E j \in Jobs : saves'[j] = ItemSave(l, bank.items[k])
<1>1. saves \in [Jobs -> Saves] /\ Spare \subseteq Jobs
  BY DEF Inv, Houses, Database, Spare
<1> QED
  BY <1>1 DEF SaveGold, SaveSlot, SaveMove

\* A step of m's handler that is not its last one leaves an unchanged place backed ...
LEMMA BackedKept ==
  ASSUME Inv, NEW m \in Members, NEW t, task' = [task EXCEPT ![m] = t], rows' = rows, Begins,
         task[m].at # "strip", NEW k \in Places, Backed(k), bank'.items[k] = bank.items[k]
  PROVE  Backed(k)'
<1>1. \A q \in Members \ {m} : task'[q] = task[q]
  BY TaskIs
<1>2. CASE rows.items[k] = bank.items[k]
  BY <1>2 DEF Backed
<1>3. CASE \E j \in Jobs : saves[j] = ItemSave(k, bank.items[k])
  <2>0. ItemSave(k, bank.items[k]) # NoSave
    BY SaveIs
  <2>1. \E j \in Jobs : saves'[j] = ItemSave(k, bank.items[k])
    BY <1>3, <2>0, SavesStay
  <2> QED
    BY <2>1 DEF Backed, ItemSave
<1>4. CASE \E q \in Members : task[q].at = "strip" /\ task[q].place = k /\ task[q].final = bank.items[k]
  BY <1>1, <1>4 DEF Backed
<1> QED
  BY <1>2, <1>3, <1>4 DEF Backed

\* ... and so the gold.
LEMMA GoldBackedKept ==
  ASSUME Inv, NEW m \in Members, NEW t, task' = [task EXCEPT ![m] = t], rows' = rows, Begins,
         task[m].at \notin {"pay", "gain"}, GoldBacked, bank'.gold = bank.gold
  PROVE  GoldBacked'
<1>1. \A q \in Members \ {m} : task'[q] = task[q]
  BY TaskIs
<1>2. CASE rows.gold = bank.gold
  BY <1>2 DEF GoldBacked
<1>3. CASE \E j \in Jobs : saves[j] = GoldSave(bank.gold)
  <2>0. GoldSave(bank.gold) # NoSave
    BY SaveIs
  <2>1. \E j \in Jobs : saves'[j] = GoldSave(bank.gold)
    BY <1>3, <2>0, SavesStay
  <2> QED
    BY <2>1 DEF GoldBacked, GoldSave
<1>4. CASE \E q \in Members : task[q].at \in {"pay", "gain"}
  BY <1>1, <1>4 DEF GoldBacked
<1> QED
  BY <1>2, <1>3, <1>4 DEF GoldBacked

\* What RowsFollow says of a step.
ItemsFollow == \A k \in Places : (Backed(k) \/ bank'.items[k] # bank.items[k]) => Backed(k)' \/ Mishap
GoldFollows == (GoldBacked \/ bank'.gold # bank.gold) => GoldBacked' \/ Mishap

\* A step that writes neither cache nor rows and ends nothing.
LEMMA QuietFollows ==
  ASSUME Inv, NEW m \in Members, NEW t, task' = [task EXCEPT ![m] = t], UNCHANGED house,
         task[m].at \notin {"strip", "pay", "gain"}
  PROVE  ItemsFollow /\ GoldFollows
<1>1. UNCHANGED <<rows, bank>> /\ Begins
  BY DEF house, Begins
<1> QED
  BY <1>1, BackedKept, GoldBackedKept DEF ItemsFollow, GoldFollows

\* A handler that stops, or goes on with its request.
LEMMA Stops ==
  ASSUME Inv, NEW m \in Members, Done(m) \/ \E stage \in Stages : Goto(m, stage)
  PROVE  \E t : task' = [task EXCEPT ![m] = t]
<1>1. task \in [Members -> Task]
  BY DEF Inv, Tasks
<1> QED
  BY <1>1 DEF Done, Goto

LEMMA OthersFollow ==
  ASSUME Inv, NEW m \in Members,
         \/ \E r \in Requests : Request(m, r)
         \/ Join(m) \/ Open(m) \/ Look(m) \/ Grab(m) \/ Undo(m)
  PROVE  ItemsFollow /\ GoldFollows
<1>1. UNCHANGED house /\ task[m].at \notin {"strip", "pay", "gain"}
  BY DEF Request, Ready, Join, Open, Look, Grab, Undo, house
<1>2. \E t : task' = [task EXCEPT ![m] = t]
  <2>1. CASE \E r \in Requests : Request(m, r)
    BY <2>1 DEF Request
  <2>2. CASE ~\E r \in Requests : Request(m, r)
    BY <2>2, Stops DEF Join, Open, Look, Grab, Undo, Stages
  <2> QED
    BY <2>1, <2>2
<1> QED
  BY <1>1, <1>2, QuietFollows

LEMMA GoldStepFollows ==
  ASSUME Inv, NEW m \in Members, PutGold(m) \/ TakeGold(m) \/ Pay(m) \/ Gain(m)
  PROVE  ItemsFollow /\ GoldFollows
<1>1. Loaded /\ SoundHouse(bank)
  BY Facts DEF PutGold, TakeGold, Pay, Gain
<1>2. /\ rows' = rows /\ Begins /\ bank'.items = bank.items
      /\ task[m].at \in {"run", "pay", "gain"}
  BY <1>1 DEF PutGold, TakeGold, Pay, Gain, Begins, SoundHouse, Warehouse
<1>3. PICK t : task' = [task EXCEPT ![m] = t]
  BY Stops DEF PutGold, TakeGold, Pay, Gain, Stages
<1>4. ItemsFollow
  BY <1>2, <1>3, BackedKept DEF ItemsFollow
<1>5. GoldFollows
  <2>1. CASE Pay(m) \/ Gain(m)
    <3>1. SaveGold /\ bank' = bank
      BY <2>1 DEF Pay, Gain
    <3>2. \E j \in Jobs : saves'[j] = GoldSave(bank.gold)
      BY <3>1, SavesBegin
    <3> QED
      BY <3>1, <3>2 DEF GoldFollows, GoldBacked, GoldSave
  <2>2. CASE (PutGold(m) \/ TakeGold(m)) /\ bank' = bank
    <3>1. task[m].at \notin {"pay", "gain"}
      BY <2>2 DEF PutGold, TakeGold
    <3> QED
      BY <1>2, <1>3, <2>2, <3>1, GoldBackedKept DEF GoldFollows
  <2>3. CASE (PutGold(m) \/ TakeGold(m)) /\ bank' # bank
    <3>1. Goto(m, "pay") \/ Goto(m, "gain")
      BY <2>3 DEF PutGold, TakeGold
    <3>2. task'[m].at \in {"pay", "gain"}
      BY <3>1 DEF Goto, Inv, Tasks, Task
    <3> QED
      BY <3>2 DEF GoldFollows, GoldBacked
  <2> QED
    BY <2>1, <2>2, <2>3
<1> QED
  BY <1>4, <1>5

\* The steps of a handler that moves items.
LEMMA ItemStepFollows ==
  ASSUME Inv, NEW m \in Members, PutItem(m) \/ Strip(m) \/ DeductBank(m)
  PROVE  ItemsFollow /\ GoldFollows
<1> DEFINE p == task[m].place
<1>1. Loaded /\ SoundHouse(bank) /\ task[m] \in Task /\ task \in [Members -> Task] /\ p \in Places
  BY Facts DEF PutItem, Strip, DeductBank, Fine, Asked, Inv, Tasks
<1>2. rows' = rows /\ Begins /\ task[m].at \in {"run", "strip", "deduct"}
  BY DEF PutItem, Strip, DeductBank, Begins
<1>3. bank'.gold = bank.gold /\ \A k \in Places \ {p} : bank'.items[k] = bank.items[k]
  BY <1>1 DEF PutItem, Strip, DeductBank, SoundHouse, Warehouse
<1>4. PICK t : task' = [task EXCEPT ![m] = t]
  BY <1>1, Stops DEF PutItem, Strip, DeductBank, Stages
<1>5. GoldFollows
  BY <1>2, <1>3, <1>4, GoldBackedKept DEF GoldFollows
<1>6. ASSUME NEW k \in Places, Backed(k) \/ bank'.items[k] # bank.items[k] PROVE Backed(k)'
  <2>1. CASE task[m].at # "strip" /\ bank'.items[k] = bank.items[k]
    BY <1>2, <1>4, <1>6, <2>1, BackedKept
  <2>2. CASE PutItem(m) /\ k = p /\ bank'.items[k] # bank.items[k]
    <3>1. task'[m].at = "strip" /\ task'[m].place = k /\ task'[m].final = bank'.items[k]
      BY <1>1, <2>2 DEF PutItem, Done, SoundHouse, Warehouse, Task
    <3> QED
      BY <3>1 DEF Backed
  <2>3. CASE DeductBank(m) /\ k = p /\ bank'.items[k] # bank.items[k]
    <3>1. SaveSlot(k, bank'.items[k])
      BY <1>1, <2>3 DEF DeductBank, SoundHouse, Warehouse
    <3> QED
      BY <3>1, SavesBegin DEF Backed, ItemSave
  <2>4. CASE Strip(m)
    <3>1. bank' = bank /\ SaveSlot(p, task[m].final)
      BY <2>4 DEF Strip
    <3>2. CASE task[m].place = k /\ task[m].final = bank.items[k]
      BY <3>1, <3>2, SavesBegin DEF Backed, ItemSave
    <3>3. CASE rows.items[k] = bank.items[k]
      BY <1>2, <3>1, <3>3 DEF Backed
    <3>4. CASE \E j \in Jobs : saves[j] = ItemSave(k, bank.items[k])
      <4>0. ItemSave(k, bank.items[k]) # NoSave
        BY SaveIs
      <4>1. \E j \in Jobs : saves'[j] = ItemSave(k, bank.items[k])
        BY <1>2, <3>4, <4>0, SavesStay
      <4> QED
        BY <3>1, <4>1 DEF Backed, ItemSave
    <3>5. CASE \E q \in Members \ {m} : task[q].at = "strip" /\ task[q].place = k /\ task[q].final = bank.items[k]
      <4>1. \A q \in Members \ {m} : task'[q] = task[q]
        BY <1>4, TaskIs
      <4> QED
        BY <3>1, <3>5, <4>1 DEF Backed
    <3> QED
      BY <1>6, <3>1, <3>2, <3>3, <3>4, <3>5 DEF Backed
  <2> QED
    BY <1>2, <1>3, <2>1, <2>2, <2>3, <2>4 DEF PutItem, DeductBank
<1> QED
  BY <1>5, <1>6 DEF ItemsFollow

LEMMA MoveFollows ==
  ASSUME Inv, NEW m \in Members, Move(m)
  PROVE  ItemsFollow /\ GoldFollows
<1>1. Loaded /\ SoundHouse(bank) /\ Done(m) /\ rows' = rows /\ task[m].at = "run" /\ Begins
  BY Facts DEF Move, Begins
<1>2. CASE UNCHANGED house
  BY <1>1, <1>2, QuietFollows DEF Done
<1>3. CASE ~UNCHANGED house
  <2>1. PICK from \in Places, to \in Places :
           /\ from # to /\ Sound(bank.items[from])
           /\ bank' = Wrote(bank, to, bank.items[from], from, Empty)
           /\ SaveMove(from, to)
    BY <1>3, MoveIs
  <2>a. /\ Wrote(bank, to, bank.items[from], from, Empty).gold = bank.gold
        /\ Wrote(bank, to, bank.items[from], from, Empty).items[from] = Empty
        /\ Wrote(bank, to, bank.items[from], from, Empty).items[to] = bank.items[from]
    BY <1>1, <2>1, SlotsWritten, EmptySound
  <2>b. ASSUME NEW x \in Places, x # to, x # from
        PROVE  Wrote(bank, to, bank.items[from], from, Empty).items[x] = bank.items[x]
    BY <1>1, <2>1, <2>b DEF Wrote, SoundHouse, Warehouse
  <2>2. /\ bank'.gold = bank.gold /\ bank'.items[from] = Empty /\ bank'.items[to] = bank.items[from]
        /\ \A x \in Places : x # to /\ x # from => bank'.items[x] = bank.items[x]
    BY <2>1, <2>a, <2>b
  <2>3. GoldFollows
    BY <1>1, <2>2, GoldBackedKept DEF GoldFollows, Done
  <2>4. /\ \E j \in Jobs : saves'[j] = ItemSave(from, bank'.items[from])
        /\ \E j \in Jobs : saves'[j] = ItemSave(to, bank'.items[to])
    BY <2>1, <2>2, SavesBegin
  <2>5. Backed(from)' /\ Backed(to)'
    BY <2>4 DEF Backed, ItemSave
  <2>6. ASSUME NEW k \in Places, Backed(k), k # from, k # to PROVE Backed(k)'
    BY <1>1, <2>2, <2>6, BackedKept DEF Done
  <2> QED
    BY <2>2, <2>3, <2>5, <2>6 DEF ItemsFollow
<1> QED
  BY <1>2, <1>3

\* A save that lands in time brings its place up to date and leaves the others.
LEMMA SaveFollows ==
  ASSUME Inv, NEW j \in Jobs, Land(j) \/ Fail(j)
  PROVE  ItemsFollow /\ GoldFollows
<1>1. CASE Mishap
  BY <1>1 DEF ItemsFollow, GoldFollows
<1>2. CASE ~Mishap
  <2> DEFINE x == saves[j]
  <2>1. Land(j) /\ ~Outdated(x) /\ UNCHANGED <<bank, task>>
    BY <1>2 DEF Mishap, Land
  <2>2. SoundHouse(rows) /\ saves \in [Jobs -> Saves] /\ SoundSave(x)
    BY DEF Inv, Houses, Database
  <2>3. \A i \in Jobs \ {j} : saves'[i] = saves[i]
    BY <2>1, <2>2 DEF Land
  <2>4. CASE x.what = "item"
    <3>1. /\ rows'.gold = rows.gold /\ rows'.items = [rows.items EXCEPT ![x.place] = x.stack]
          /\ x.place \in Places /\ x.stack = bank.items[x.place] /\ rows.items \in [Places -> Stack]
      BY <2>1, <2>2, <2>4 DEF Land, Written, SoundHouse, Warehouse, Outdated, SoundSave
    <3>2. GoldFollows
      <4>1. \A i \in Jobs : saves[i] = GoldSave(bank.gold) => i # j
        BY <2>4, SaveIs
      <4> QED
        BY <2>1, <2>3, <3>1, <4>1 DEF GoldFollows, GoldBacked, GoldSave
    <3>3. ASSUME NEW k \in Places, Backed(k) PROVE Backed(k)'
      <4>1. CASE k = x.place
        BY <2>1, <3>1, <4>1 DEF Backed
      <4>2. CASE k # x.place
        <5>1. \A i \in Jobs : saves[i] = ItemSave(k, bank.items[k]) => i # j
          BY <4>2, SaveIs
        <5>2. rows'.items[k] = rows.items[k]
          BY <3>1, <4>2
        <5> QED
          BY <2>1, <2>3, <3>3, <5>1, <5>2 DEF Backed, ItemSave
      <4> QED
        BY <4>1, <4>2
    <3> QED
      BY <2>1, <3>2, <3>3 DEF ItemsFollow
  <2>5. CASE x.what # "item"
    <3>1. rows'.gold = x.gold /\ rows'.items = rows.items /\ x.gold = bank.gold
      BY <2>1, <2>2, <2>5 DEF Land, Written, SoundHouse, Warehouse, Outdated
    <3>2. GoldFollows
      BY <2>1, <3>1 DEF GoldFollows, GoldBacked
    <3>3. ASSUME NEW k \in Places, Backed(k) PROVE Backed(k)'
      <4>1. \A i \in Jobs : saves[i] = ItemSave(k, bank.items[k]) => i # j
        BY <2>5, SaveIs
      <4> QED
        BY <2>1, <2>3, <3>1, <3>3, <4>1 DEF Backed, ItemSave
    <3> QED
      BY <2>1, <3>2, <3>3 DEF ItemsFollow
  <2> QED
    BY <2>4, <2>5
<1> QED
  BY <1>1, <1>2

\* A step that leaves warehouse, saves and handlers alone.
LEMMA NothingFollows ==
  ASSUME UNCHANGED <<house, task>>
  PROVE  ItemsFollow /\ GoldFollows
BY DEF house, ItemsFollow, GoldFollows, Backed, GoldBacked, ItemSave, GoldSave

LEMMA RowsStep ==
  ASSUME SteadyInv, ~Rush, [Next]_vars, Loaded
  PROVE  ItemsFollow /\ GoldFollows
<1>1. Inv /\ OneLoads
  BY DEF SteadyInv
<1>2. ASSUME NEW m \in Members, Other(m) PROVE ItemsFollow /\ GoldFollows
  BY <1>1, <1>2, OthersFollow, ItemStepFollows, MoveFollows DEF Other
<1>3. ASSUME NEW m \in Members, Fetch(m) \/ Install(m) PROVE FALSE
  BY <1>1, <1>3 DEF Fetch, Install, OneLoads
<1>4. ASSUME NEW m \in Members, PutGold(m) \/ Pay(m) \/ TakeGold(m) \/ Gain(m) PROVE ItemsFollow /\ GoldFollows
  BY <1>1, <1>4, GoldStepFollows
<1>5. CASE UNCHANGED vars \/ (\E m \in Members : Earn(m) \/ \E s, u \in Slots : InventoryMove(m, s, u))
  BY <1>5, NothingFollows DEF vars, Earn, InventoryMove
<1>6. ASSUME NEW j \in Jobs, Land(j) \/ Fail(j) PROVE ItemsFollow /\ GoldFollows
  BY <1>1, <1>6, SaveFollows
<1> QED
  BY <1>2, <1>3, <1>4, <1>5, <1>6, StepKinds

\* Spec => RowsFollow, when two members do not load the warehouse at the same time:
\* whatever deposits, withdrawals and moves overlap, on the same places or not, every
\* change of the cache has a save that will bring the database up to date, so only a
\* save that fails, or one that lands after a later change, leaves it behind.
THEOREM DatabaseFollows == ASSUME ~Rush PROVE Spec => RowsFollow
<1>1. Init => SteadyInv
  BY SteadyStart
<1>2. SteadyInv /\ [Next]_vars => SteadyInv'
  BY SteadyStep
<1>3. SteadyInv /\ [Next]_vars =>
        [Loaded =>
           /\ \A k \in Places :
                (Backed(k) \/ bank'.items[k] # bank.items[k]) => Backed(k)' \/ Mishap
           /\ (GoldBacked \/ bank'.gold # bank.gold) => GoldBacked' \/ Mishap]_vars
  BY RowsStep DEF ItemsFollow, GoldFollows
<1> QED
  BY <1>1, <1>2, <1>3, PTL DEF Spec, RowsFollow
=============================================================================
