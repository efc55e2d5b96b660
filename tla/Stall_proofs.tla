---------------------------- MODULE Stall_proofs ----------------------------
(***************************************************************************)
(* Proofs about Stall, for any number of keepers, shoppers, items and      *)
(* slots.                                                                  *)
(*                                                                         *)
(* TypeOK needs what a handler knows of its purchase (Known): the place it *)
(* reserved from held at least as much as it bought.  StockCovers needs    *)
(* what every purchase under way has claimed (Sound), GoldNeverGrows that  *)
(* who is charged was found able to pay (Paid), and SalesAreAtomic a       *)
(* ledger of every stall (Trade): what its places still offer and what its *)
(* purchases under way take is, slot by slot, all that is there.           *)
(***************************************************************************)
EXTENDS StallMarket, Sums_proofs

USE StallAssumption, InventoryAssumption DEF StallAssumption, InventoryAssumption

Known(t) ==
  /\ t \in Task
  /\ t.at # "idle" => t.of \in Players
  /\ t.at \notin {"idle", "look", "cut"} =>
       t.place \in Places /\ t.item \in Item /\ t.n >= 1 /\ t.dest \in Slots
  /\ t.at \in Claimed \cup {"close"} => t.n <= t.snap.count

Inv == TypeOK /\ \A p \in Players : Known(task[p])

LEMMA EmptyIs == Empty \in Stack /\ NoOffer \in Offer /\ NoOffer.item = NoItem /\ NoOffer.price = 0
BY DEF Empty, Stack, NoOffer, Offer

LEMMA IdleIs == Idle \in Task /\ Idle.at = "idle" /\ Known(Idle)
<1>1. NoOffer \in Offer
  BY EmptyIs
<1>2. Idle \in Task /\ Idle.at = "idle"
  BY <1>1 DEF Idle, Task, Stages
<1> QED
  BY <1>2 DEF Known, Claimed

LEMMA TaskWritten ==
  ASSUME Inv, NEW p \in Players, NEW t, Known(t), task' = [task EXCEPT ![p] = t]
  PROVE  task' \in [Players -> Task] /\ \A q \in Players : Known(task'[q])
BY DEF Inv, TypeOK, Known

LEMMA GotoIs ==
  ASSUME Inv, NEW p \in Players, NEW stage \in Stages, Goto(p, stage)
  PROVE  /\ task' = [task EXCEPT ![p] = [task[p] EXCEPT !.at = stage]]
         /\ [task[p] EXCEPT !.at = stage] \in Task
         /\ [task[p] EXCEPT !.at = stage].at = stage
         /\ \A f \in {"of", "place", "item", "n", "dest", "kc", "snap", "balance"} :
              [task[p] EXCEPT !.at = stage][f] = task[p][f]
<1>1. task \in [Players -> Task] /\ task[p] \in Task
  BY DEF Inv, TypeOK
<1>2. task' = [task EXCEPT ![p] = [task[p] EXCEPT !.at = stage]]
  BY <1>1 DEF Goto
<1> QED
  BY <1>1, <1>2 DEF Task

\* A purchase goes on: what it knows stays.
LEMMA GotoKeeps ==
  ASSUME Inv, NEW p \in Players, NEW stage \in Claimed \cup {"close"}, Goto(p, stage), task[p].at \in Claimed
  PROVE  task' \in [Players -> Task] /\ \A q \in Players : Known(task'[q])
<1> DEFINE t == [task[p] EXCEPT !.at = stage]
<1>0. stage \in Stages
  BY DEF Claimed, Stages
<1>1. task' = [task EXCEPT ![p] = t] /\ t \in Task /\ t.at = stage
  BY <1>0, GotoIs
<1>2. /\ t["of"] = task[p]["of"] /\ t["place"] = task[p]["place"] /\ t["item"] = task[p]["item"]
      /\ t["n"] = task[p]["n"] /\ t["dest"] = task[p]["dest"] /\ t["snap"] = task[p]["snap"]
  BY <1>0, GotoIs
<1> HIDE DEF t
<1>3. Known(task[p])
  BY DEF Inv
<1>4. Known(t)
  BY <1>1, <1>2, <1>3 DEF Known, Claimed
<1> QED
  BY <1>1, <1>4, TaskWritten

LEMMA DoneKeeps ==
  ASSUME Inv, NEW p \in Players, Done(p)
  PROVE  task' \in [Players -> Task] /\ \A q \in Players : Known(task'[q])
BY IdleIs, TaskWritten DEF Done

LEMMA SameTasks ==
  ASSUME Inv, UNCHANGED task
  PROVE  task' \in [Players -> Task] /\ \A q \in Players : Known(task'[q])
BY DEF Inv, TypeOK

\* What a handler in the middle of a purchase knows, in one place.
LEMMA BuyFacts ==
  ASSUME Inv, NEW p \in Players, task[p].at \notin {"idle", "look", "cut"}
  PROVE  /\ task[p] \in Task /\ task[p].of \in Players /\ task[p].place \in Places
         /\ task[p].item \in Item /\ task[p].dest \in Slots /\ task[p].snap \in Offer
         /\ task[p].n \in Nat /\ task[p].n >= 1 /\ task[p].balance \in Nat /\ Cost(p) \in Nat
         /\ task[p].snap.count \in Nat /\ task[p].snap.count < CountMod
<1>1. Known(task[p]) /\ task[p] \in Task
  BY DEF Inv, TypeOK
<1>2. task[p].snap \in Offer /\ task[p].n \in Nat /\ task[p].balance \in Nat
  BY <1>1 DEF Task
<1>3. task[p].snap.price \in Nat /\ task[p].snap.count \in Nat /\ task[p].snap.count < CountMod
  BY <1>2 DEF Offer
<1>4. Cost(p) \in Nat
  BY <1>2, <1>3 DEF Cost
<1> QED
  BY <1>1, <1>2, <1>3, <1>4 DEF Known

\* A shopper whose connection is lost before the reply.
Cut(t) == [Idle EXCEPT !.at = "cut", !.of = t.of]
Vanished(p) ==
  /\ presence' = [presence EXCEPT ![p] = "gone"]
  /\ stall' = [stall EXCEPT ![p] = "closed"]
  /\ listing' = [listing EXCEPT ![p] = [k \in Places |-> NoOffer]]

LEMMA HangUpIs ==
  ASSUME Inv, NEW p \in Players, HangUp(p)
  PROVE  /\ Known(Cut(task[p])) /\ Cut(task[p]) \in Task /\ Cut(task[p]).at = "cut" /\ ~Cut(task[p]).kc
         /\ Cut(task[p]).of = task[p].of /\ task[p].of \in Players
         /\ task' = [task EXCEPT ![p] = Cut(task[p])]
         /\ task'[p] = Cut(task[p]) /\ \A r \in Players : r # p => task'[r] = task[r]
         /\ task[p].at = "close" /\ p \in Leavers /\ Vanished(p) /\ UNCHANGED <<gold, cash, bag>>
         /\ browsing' = [browsing EXCEPT ![p] = NoPlayer]
<1>1. /\ task \in [Players -> Task] /\ task[p].at = "close" /\ p \in Leavers /\ Vanished(p) /\ UNCHANGED <<gold, cash, bag>>
      /\ task' = [task EXCEPT ![p] = Cut(task[p])] /\ browsing' = [browsing EXCEPT ![p] = NoPlayer]
  BY DEF HangUp, Vanished, StopLooking, Cut, money, Inv, TypeOK
<1>2. task[p].of \in Players
  BY <1>1 DEF Inv, Known
<1>3. Cut(task[p]) \in Task /\ Cut(task[p]).at = "cut" /\ Cut(task[p]).of = task[p].of /\ ~Cut(task[p]).kc
  <2>1. Idle \in Task /\ ~Idle.kc
    BY IdleIs DEF Idle
  <2>2. "cut" \in Stages
    BY DEF Stages
  <2> QED
    BY <1>2, <2>1, <2>2 DEF Cut, Task
<1>4. Known(Cut(task[p]))
  BY <1>2, <1>3 DEF Known, Claimed
<1> QED
  BY <1>1, <1>2, <1>3, <1>4

LEMMA InitInv == Init => Inv
<1> SUFFICES ASSUME Init PROVE Inv
  OBVIOUS
<1>1. Idle \in Task /\ Known(Idle) /\ NoOffer \in Offer
  BY IdleIs, EmptyIs
<1>2. tidy \subseteq Keepers
  BY DEF Init
<1> QED
  BY <1>1, <1>2 DEF Init, Inv, TypeOK

-----------------------------------------------------------------------------
(* The bag *)

\* find_slot_for_item and the closure after it, give_item: other slots stay, a stack
\* of the item grows, a free slot becomes one.
LEMMA PutIs ==
  ASSUME NEW b \in Bag, NEW i \in Item, NEW n \in Nat
  PROVE  /\ Put(b, i, n) \in Bag
         /\ \A s \in Slots : b[s].item # NoItem =>
              Put(b, i, n)[s].item = b[s].item /\ b[s].count <= Put(b, i, n)[s].count
<1>1. FindSlot(b, i, n) \subseteq Fitting(b, i, n) \cup FreeSlots(b)
  <2> SUFFICES ASSUME NEW d \in FindSlot(b, i, n) PROVE d \in Fitting(b, i, n) \cup FreeSlots(b)
    OBVIOUS
  <2>1. PICK found \in SUBSET Slots :
          found \in {Fitting(b, i, n), FreeSlots(b)} /\ found # {} /\ d = Min(found)
    BY DEF FindSlot, Fitting, FreeSlots
  <2>2. found \subseteq Nat
    BY <2>1 DEF Slots
  <2>3. \E x \in found : \A y \in found : x <= y
    BY <2>1, <2>2, LeastNatural
  <2>4. Min(found) \in found
    BY <2>3 DEF Min
  <2> QED
    BY <2>1, <2>4
<1>2. ASSUME NEW s \in Slots
      PROVE  /\ Put(b, i, n)[s] \in Stack
             /\ b[s].item # NoItem => Put(b, i, n)[s].item = b[s].item /\ b[s].count <= Put(b, i, n)[s].count
  <2>1. b[s] \in Stack /\ b[s].count \in Nat /\ b[s].count < CountMod
    BY DEF Bag, Stack
  <2>2. CASE s \notin FindSlot(b, i, n)
    <3>1. Put(b, i, n)[s] = b[s]
      BY <2>2 DEF Put
    <3> QED
      BY <2>1, <3>1
  <2>3. CASE s \in FindSlot(b, i, n)
    <3>1. Put(b, i, n)[s] = Receive(b[s], i, n)
      BY <2>3 DEF Put
    <3>2. Receive(b[s], i, n) \in Stack
      <4>1. Clamp(b[s].count + n, StackMax) \in 0 .. CountMod - 1 /\ 1 \in 0 .. CountMod - 1
        BY <2>1 DEF Clamp
      <4> QED
        BY <4>1 DEF Receive, Stack
    <3>3. ASSUME b[s].item # NoItem
          PROVE  Receive(b[s], i, n).item = b[s].item /\ b[s].count <= Receive(b[s], i, n).count
      <4>1. i \in Countable /\ b[s].item = i /\ b[s].count + n <= StackMax
        BY <1>1, <2>3, <3>3 DEF Fitting, FreeSlots
      <4>2. Receive(b[s], i, n).count = b[s].count + n /\ Receive(b[s], i, n).item = i
        BY <2>1, <4>1 DEF Receive, Clamp
      <4> QED
        BY <2>1, <4>1, <4>2
    <3> QED
      BY <3>1, <3>2, <3>3
  <2> QED
    BY <2>2, <2>3
<1>3. Put(b, i, n) \in Bag
  BY <1>2 DEF Bag, Put
<1> QED
  BY <1>2, <1>3

LEMMA MovedIs ==
  ASSUME NEW b \in Bag, NEW s \in Slots, NEW d \in Slots
  PROVE  Moved(b, s, d) \in Bag
<1>1. b[s] \in Stack /\ b[d] \in Stack /\ b[s].count \in Nat /\ b[d].count \in Nat /\ Empty \in Stack
  BY EmptyIs DEF Bag, Stack
<1>2. CASE b[s].item \in Countable /\ b[d].item = b[s].item
  <2> DEFINE e == [b[d] EXCEPT !.count = Clamp(b[d].count + b[s].count, StackMax)]
  <2>1. Clamp(b[d].count + b[s].count, StackMax) \in 0 .. CountMod - 1
    BY <1>1 DEF Clamp
  <2>2. e \in Stack
    BY <1>1, <2>1 DEF Stack
  <2>3. Moved(b, s, d) = [[b EXCEPT ![d] = e] EXCEPT ![s] = Empty]
    BY <1>2 DEF Moved, Bag
  <2> HIDE DEF e
  <2> QED
    BY <1>1, <2>2, <2>3 DEF Bag
<1>3. CASE ~(b[s].item \in Countable /\ b[d].item = b[s].item)
  BY <1>1, <1>3 DEF Moved, Bag
<1> QED
  BY <1>2, <1>3

\* The keeper's stack after a sale.
LEMMA SettledIs ==
  ASSUME NEW stack \in Stack, NEW t \in Task
  PROVE  /\ Settled(stack, t) \in Stack
         /\ stack.item # t.item => Settled(stack, t) = stack
         /\ stack.item = t.item /\ ~FullySold(t) /\ t.n < stack.count =>
              Settled(stack, t).item = stack.item /\ Settled(stack, t).count = stack.count - t.n
<1>1. stack.count \in Nat /\ stack.count < CountMod /\ t.n \in Nat
  BY DEF Stack, Task
<1>2. CASE stack.item = t.item /\ ~FullySold(t) /\ t.n < stack.count
  <2>1. Settled(stack, t) = [stack EXCEPT !.count = stack.count - t.n]
    BY <1>1, <1>2 DEF Settled, Deduct, FullySold
  <2>2. stack.count - t.n \in 0 .. CountMod - 1
    BY <1>1, <1>2
  <2>3. [stack EXCEPT !.count = stack.count - t.n] \in Stack
    BY <2>2 DEF Stack
  <2>4. [stack EXCEPT !.count = stack.count - t.n].item = stack.item /\ [stack EXCEPT !.count = stack.count - t.n].count = stack.count - t.n
    BY DEF Stack
  <2> QED
    BY <1>2, <2>1, <2>3, <2>4
<1>3. CASE ~(stack.item = t.item /\ ~FullySold(t) /\ t.n < stack.count)
  <2>1. Settled(stack, t) \in {stack, Empty} /\ (stack.item # t.item => Settled(stack, t) = stack)
    <3>1. CASE stack.item # t.item
      BY <3>1 DEF Settled, FullySold
    <3>2. CASE stack.item = t.item /\ FullySold(t)
      BY <3>2 DEF Settled, FullySold
    <3>3. CASE stack.item = t.item /\ ~FullySold(t)
      <4>1. stack.count <= t.n
        BY <1>1, <1>3, <3>3
      <4> QED
        BY <3>3, <4>1 DEF Settled, FullySold
    <3> QED
      BY <3>1, <3>2, <3>3
  <2> QED
    BY <1>3, <2>1, EmptyIs
<1> QED
  BY <1>2, <1>3

LEMMA SettledBagIs ==
  ASSUME NEW b \in Bag, NEW t \in Task
  PROVE  SettledBag(b, t) \in Bag
<1>1. \A s \in Slots : b[s] \in Stack /\ Settled(b[s], t) \in Stack
  BY SettledIs DEF Bag
<1> QED
  BY <1>1 DEF SettledBag, Bag

-----------------------------------------------------------------------------
(* One lemma per group of actions. *)

LEMMA KeeperInv ==
  ASSUME Inv, NEW p \in Players, tidy' = tidy, KeeperStep(p) \/ Quit(p)
  PROVE  Inv'
<1>1. NoOffer \in Offer /\ UNCHANGED <<money, bag, task>>
  BY EmptyIs DEF KeeperStep, Quit, Open, Close, Insert, GoAway, Expire, Post, Withdraw
<1>2. task' \in [Players -> Task] /\ \A q \in Players : Known(task'[q])
  BY <1>1, SameTasks
<1>3. /\ presence' \in [Players -> {"here", "away", "gone"}]
      /\ stall' \in [Players -> {"closed", "preparing", "open"}]
      /\ listing' \in [Players -> [Places -> Offer]]
      /\ looker' \in [Players -> Players \cup {NoPlayer}]
      /\ browsing' \in [Players -> Players \cup {NoPlayer}]
  <2>1. CASE Open(p) \/ Insert(p) \/ GoAway(p)
    BY <2>1 DEF Open, Insert, GoAway, Inv, TypeOK, view, shop
  <2>2. CASE Close(p) \/ Expire(p)
    <3>1. CloseStall(p) /\ browsing' = browsing /\ (presence' = presence \/ presence' = [presence EXCEPT ![p] = "gone"])
      BY <2>2 DEF Close, Expire
    <3>2. presence' \in [Players -> {"here", "away", "gone"}]
      BY <3>1 DEF Inv, TypeOK
    <3>3. stall' \in [Players -> {"closed", "preparing", "open"}] /\ looker' \in [Players -> Players \cup {NoPlayer}]
      BY <3>1 DEF CloseStall, Inv, TypeOK
    <3>4. listing' \in [Players -> [Places -> Offer]]
      BY <1>1, <3>1 DEF CloseStall, Inv, TypeOK
    <3> QED
      BY <3>1, <3>2, <3>3, <3>4 DEF Inv, TypeOK
  <2>3. CASE Quit(p)
    BY <1>1, <2>3 DEF Quit, StopLooking, Inv, TypeOK
  <2>4. ASSUME NEW s \in Slots, NEW k \in Places, NEW o \in Postings, Post(p, s, k, o)
        PROVE  listing' \in [Players -> [Places -> Offer]] /\ UNCHANGED <<presence, stall, view>>
    <3> DEFINE new == [item |-> bag[p][s].item, count |-> o.count, price |-> o.price,
                       kc |-> o.kc, slot |-> s, soldOut |-> FALSE]
    <3>1. bag[p][s] \in Stack /\ o.count \in Nat /\ o.price \in Nat /\ o.kc \in BOOLEAN
      BY DEF Inv, TypeOK, Bag
    <3>2. o.count \in 0 .. CountMod - 1 /\ bag[p][s].item \in Item
      BY <2>4, <3>1 DEF Post, Stack
    <3>3. new \in Offer
      BY <3>1, <3>2 DEF Offer
    <3>4. listing' = [listing EXCEPT ![p][k] = new]
      BY <2>4 DEF Post
    <3> HIDE DEF new
    <3>5. listing' \in [Players -> [Places -> Offer]]
      <4>1. listing \in [Players -> [Places -> Offer]]
        BY DEF Inv, TypeOK
      <4> QED
        BY <3>3, <3>4, <4>1
    <3> QED
      BY <2>4, <3>5 DEF Post
  <2>5. ASSUME NEW k \in Places, Withdraw(p, k)
        PROVE  listing' \in [Players -> [Places -> Offer]] /\ UNCHANGED <<presence, stall, view>>
    BY <1>1, <2>5 DEF Withdraw, Inv, TypeOK
  <2>6. (\E s \in Slots, k \in Places, o \in Postings : Post(p, s, k, o)) \/ (\E k \in Places : Withdraw(p, k)) =>
          listing' \in [Players -> [Places -> Offer]] /\ UNCHANGED <<presence, stall, view>>
    BY <2>4, <2>5
  <2>7. CASE (\E s \in Slots, k \in Places, o \in Postings : Post(p, s, k, o)) \/ (\E k \in Places : Withdraw(p, k))
    BY <2>6, <2>7 DEF Inv, TypeOK, view
  <2> QED
    BY <2>1, <2>2, <2>3, <2>7 DEF KeeperStep
<1> QED
  BY <1>1, <1>2, <1>3 DEF Inv, TypeOK, money

LEMMA BrowseInv ==
  ASSUME Inv, NEW p \in Players, tidy' = tidy,
         (\E q \in Keepers : Browse(p, q)) \/ Look(p) \/ StopBrowsing(p)
  PROVE  Inv'
<1>1. UNCHANGED <<presence, shop, money, bag>>
  BY DEF Browse, Look, StopBrowsing
<1>2. ASSUME NEW q \in Keepers, Browse(p, q) PROVE Inv'
  <2> DEFINE t == [Idle EXCEPT !.at = "look", !.of = q]
  <2>1. t \in Task /\ t.at = "look" /\ t.of = q
    BY IdleIs DEF Task, Stages, Players
  <2>2. task' = [task EXCEPT ![p] = t] /\ UNCHANGED view
    BY <1>2 DEF Browse
  <2> HIDE DEF t
  <2>3. Known(t)
    BY <2>1 DEF Known, Players, Claimed
  <2>4. task' \in [Players -> Task] /\ \A r \in Players : Known(task'[r])
    BY <2>2, <2>3, TaskWritten
  <2> QED
    BY <1>1, <2>2, <2>4 DEF Inv, TypeOK, shop, view, money
<1>3. CASE Look(p)
  <2>1. task[p].of \in Players
    BY <1>3 DEF Look, Inv, Known
  <2>2. task' \in [Players -> Task] /\ \A r \in Players : Known(task'[r])
    BY <1>3, DoneKeeps DEF Look, Done
  <2> QED
    BY <1>1, <1>3, <2>1, <2>2 DEF Look, Inv, TypeOK, shop, money
<1>4. CASE StopBrowsing(p)
  BY <1>1, <1>4, SameTasks DEF StopBrowsing, StopLooking, Inv, TypeOK, shop, money
<1> QED
  BY <1>2, <1>3, <1>4

\* The record a purchase starts with.
Begun(q, k, i, n, d, kc) ==
  [Idle EXCEPT !.at = "reserve", !.of = q, !.place = k, !.item = i, !.n = n, !.dest = d, !.kc = kc]

LEMMA BegunIs ==
  ASSUME NEW q \in Players, NEW k \in Places, NEW i \in Item, NEW n \in Nat \ {0}, NEW d \in Slots, NEW kc \in BOOLEAN
  PROVE  /\ Known(Begun(q, k, i, n, d, kc)) /\ Begun(q, k, i, n, d, kc) \in Task
         /\ Begun(q, k, i, n, d, kc).at = "reserve" /\ Begun(q, k, i, n, d, kc).of = q
<1> DEFINE t == Begun(q, k, i, n, d, kc)
<1>1. Idle \in Task
  BY IdleIs
<1>2. t \in Task /\ t.at = "reserve" /\ t.of = q /\ t.place = k /\ t.item = i /\ t.n = n /\ t.dest = d
  BY <1>1 DEF Begun, Task, Stages, Idle
<1> HIDE DEF t
<1>3. t.at \notin Claimed \cup {"close"} /\ t.n >= 1
  BY <1>2 DEF Claimed
<1>4. Known(t)
  BY <1>2, <1>3 DEF Known
<1> QED
  BY <1>2, <1>4 DEF t

LEMMA StartBuyIs ==
  ASSUME Inv, NEW p \in Players, NEW k \in Places, NEW n \in Amounts, NEW d \in Slots, StartBuy(p, k, n, d)
  PROVE  \E q \in Players, t \in Task :
           /\ q # p /\ stall[q] = "open" /\ stall[p] = "closed" /\ task[p].at = "idle"
           /\ Known(t) /\ t.at = "reserve" /\ t.of = q /\ task' = [task EXCEPT ![p] = t]
           /\ UNCHANGED <<presence, shop, view, money, bag>>
<1> DEFINE q == browsing[p]
           o == listing[q][k]
           t == Begun(q, k, o.item, n, d, o.kc)
<1>1. q \in Players /\ q # p /\ stall[q] = "open" /\ stall[p] = "closed" /\ task[p].at = "idle" /\ o.item \in Item
  BY DEF StartBuy, Ready, Inv, TypeOK
<1>2. o \in Offer /\ n \in Nat \ {0}
  BY <1>1 DEF Inv, TypeOK
<1>3. o.kc \in BOOLEAN
  BY <1>2 DEF Offer
<1>4. task' = [task EXCEPT ![p] = t] /\ UNCHANGED <<presence, shop, view, money, bag>>
  BY DEF StartBuy, Begun
<1>5. Known(t) /\ t \in Task /\ t.at = "reserve" /\ t.of = q
  BY <1>1, <1>2, <1>3, BegunIs
<1> HIDE DEF q, o, t
<1> QED
  BY <1>1, <1>4, <1>5

LEMMA StartBuyInv ==
  ASSUME Inv, NEW p \in Players, tidy' = tidy, NEW k \in Places, NEW n \in Amounts, NEW d \in Slots, StartBuy(p, k, n, d)
  PROVE  Inv'
<1>1. PICK q \in Players, t \in Task :
        /\ q # p /\ stall[q] = "open" /\ stall[p] = "closed" /\ task[p].at = "idle"
        /\ Known(t) /\ t.at = "reserve" /\ t.of = q /\ task' = [task EXCEPT ![p] = t]
        /\ UNCHANGED <<presence, shop, view, money, bag>>
  BY StartBuyIs
<1>2. task' \in [Players -> Task] /\ \A r \in Players : Known(task'[r])
  BY <1>1, TaskWritten
<1> QED
  BY <1>1, <1>2 DEF Inv, TypeOK, shop, view, money

LEMMA ReservedIs ==
  ASSUME NEW o \in Offer, NEW n \in Nat, n <= o.count
  PROVE  /\ Reserved(o, n) \in Offer /\ Reserved(o, n).count = o.count - n
         /\ Reserved(o, n).item = o.item /\ Reserved(o, n).price = o.price /\ Reserved(o, n).slot = o.slot
         /\ o.count \in Nat /\ o.count < CountMod
<1>1. o.count \in Nat /\ o.count < CountMod
  BY DEF Offer
<1>2. o.count - n \in 0 .. CountMod - 1
  BY <1>1
<1>3. Reserved(o, n) = [o EXCEPT !.count = o.count - n, !.soldOut = (o.count = n)]
  BY DEF Reserved
<1>4. Reserved(o, n) \in Offer
  BY <1>2, <1>3 DEF Offer
<1> QED
  BY <1>1, <1>3, <1>4 DEF Offer

LEMMA RestoredIs ==
  ASSUME NEW o \in Offer, NEW i \in Item, NEW n \in Nat
  PROVE  /\ Restored(o, i, n) \in Offer /\ Restored(o, i, n).price = o.price /\ Restored(o, i, n).slot = o.slot
         /\ o.count \in Nat
         /\ Restored(o, i, n).item \in {o.item, i}
         /\ o.item = i => Restored(o, i, n).item = i /\ Restored(o, i, n).count = Clamp(o.count + n, CountMod - 1)
         /\ o.item # i /\ o.item # NoItem => Restored(o, i, n) = o
<1>1. o.count \in Nat /\ o.count < CountMod
  BY DEF Offer
<1>2. Clamp(o.count + n, CountMod - 1) \in 0 .. CountMod - 1
  BY <1>1 DEF Clamp
<1> DEFINE new == [o EXCEPT !.item = i, !.count = Clamp(o.count + n, CountMod - 1), !.soldOut = FALSE]
<1>3. /\ new \in Offer /\ new.price = o.price /\ new.slot = o.slot /\ new.item = i
      /\ new.count = Clamp(o.count + n, CountMod - 1)
  BY <1>2 DEF Offer
<1>4. Restored(o, i, n) = IF o.item = i \/ (o.soldOut /\ o.item = NoItem) THEN new ELSE o
  BY DEF Restored
<1> HIDE DEF new
<1> QED
  BY <1>1, <1>3, <1>4

\* try_merchant_buy and restore_merchant_buy.
LEMMA PlaceInv ==
  ASSUME Inv, NEW p \in Players, tidy' = tidy, Reserve(p) \/ Restore(p)
  PROVE  Inv'
<1> DEFINE t == task[p]
           o == listing[t.of][t.place]
<1>1. t.at \in {"reserve", "restore"} /\ UNCHANGED <<presence, stall, view, money, bag>>
  BY DEF Reserve, Restore
<1>2. /\ t \in Task /\ t.of \in Players /\ t.place \in Places /\ t.item \in Item /\ t.n \in Nat /\ Known(t)
      /\ listing \in [Players -> [Places -> Offer]]
  BY <1>1, BuyFacts DEF Inv, TypeOK
<1>3. o \in Offer
  BY <1>2
<1>4. listing' \in [Players -> [Places -> Offer]] /\ task' \in [Players -> Task] /\ \A r \in Players : Known(task'[r])
  <2>1. CASE Reserve(p) /\ Offers(o, t.item, t.n)
    <3> DEFINE u == [t EXCEPT !.at = "pay", !.snap = o]
    <3>1. Reserved(o, t.n) \in Offer /\ t.n <= o.count
      BY <1>2, <1>3, <2>1, ReservedIs DEF Offers, Offer
    <3>2. listing' = [listing EXCEPT ![t.of][t.place] = Reserved(o, t.n)] /\ task' = [task EXCEPT ![p] = u]
      BY <1>2, <2>1 DEF Reserve, Inv, TypeOK, Task
    <3>3. /\ u \in Task /\ u.at = "pay" /\ u.snap = o /\ u.of = t.of /\ u.place = t.place
          /\ u.item = t.item /\ u.n = t.n /\ u.dest = t.dest
      BY <1>2, <1>3 DEF Task, Stages
    <3> HIDE DEF u
    <3>4. Known(u)
      BY <1>1, <1>2, <3>1, <3>3 DEF Known
    <3> HIDE DEF o
    <3>5. listing' \in [Players -> [Places -> Offer]]
      BY <1>2, <3>1, <3>2
    <3> QED
      BY <3>2, <3>4, <3>5, TaskWritten
  <2>2. CASE Reserve(p) /\ ~Offers(o, t.item, t.n)
    BY <1>2, <2>2, DoneKeeps DEF Reserve
  <2>3. CASE Restore(p)
    <3>1. Restored(o, t.item, t.n) \in Offer
      BY <1>2, <1>3, RestoredIs
    <3>2. listing' = [listing EXCEPT ![t.of][t.place] = Restored(o, t.item, t.n)] /\ Done(p)
      BY <2>3 DEF Restore
    <3> HIDE DEF o
    <3>3. listing' \in [Players -> [Places -> Offer]]
      BY <1>2, <3>1, <3>2
    <3> QED
      BY <3>2, <3>3, DoneKeeps
  <2> QED
    BY <2>1, <2>2, <2>3
<1> QED
  BY <1>1, <1>4 DEF Inv, TypeOK, view, money

LEMMA MoneyInv ==
  ASSUME Inv, NEW p \in Players, tidy' = tidy, CheckGold(p) \/ Charge(p) \/ Credit(p) \/ PayCash(p) \/ CashRead(p) \/ CashWrite(p)
  PROVE  Inv'
<1> DEFINE t == task[p]
<1>1. t.at \in Claimed /\ UNCHANGED <<presence, shop, view, bag>>
  BY DEF CheckGold, Charge, Credit, PayCash, CashRead, CashWrite, Claimed, Stages, money
<1>2. /\ t \in Task /\ t.of \in Players /\ Cost(p) \in Nat /\ t.balance \in Nat /\ Known(t)
      /\ gold \in [Players -> 0 .. CoinMax] /\ cash \in [Players -> Nat] /\ task \in [Players -> Task]
  BY <1>1, BuyFacts DEF Inv, TypeOK, Claimed
<1>3. gold' \in [Players -> 0 .. CoinMax] /\ cash' \in [Players -> Nat]
  <2>1. CASE Charge(p)
    BY <1>2, <2>1 DEF Charge
  <2>2. CASE Credit(p)
    <3>1. \A q \in Players : GoldGain(gold[q], Cost(p)) \in 0 .. CoinMax
      BY <1>2 DEF GoldGain, Clamp
    <3> QED
      BY <1>2, <2>2, <3>1 DEF Credit
  <2>3. CASE PayCash(p)
    BY <1>2, <2>3 DEF PayCash
  <2>4. CASE CashWrite(p)
    BY <1>2, <2>4 DEF CashWrite
  <2>5. CASE CheckGold(p) \/ CashRead(p)
    BY <1>2, <2>5 DEF CheckGold, CashRead, money
  <2> QED
    BY <2>1, <2>2, <2>3, <2>4, <2>5
<1>4. task' \in [Players -> Task] /\ \A r \in Players : Known(task'[r])
  <2>1. CASE ~CashRead(p)
    <3>1. PICK stage \in Claimed : Goto(p, stage)
      BY <2>1 DEF CheckGold, Charge, Credit, PayCash, CashWrite, Claimed, Stages
    <3> QED
      BY <1>1, <3>1, GotoKeeps
  <2>2. CASE CashRead(p)
    <3>1. PICK b \in Nat : task' = [task EXCEPT ![p] = [t EXCEPT !.at = "cashWrite", !.balance = b]]
      <4>1. PICK b \in Nat : task' = [task EXCEPT ![p].at = "cashWrite", ![p].balance = b]
        BY <1>2, <2>2 DEF CashRead
      <4> QED
        BY <1>2, <4>1 DEF Task
    <3> DEFINE u == [t EXCEPT !.at = "cashWrite", !.balance = b]
    <3>2. /\ u \in Task /\ u.at = "cashWrite" /\ u.of = t.of /\ u.place = t.place /\ u.item = t.item
          /\ u.n = t.n /\ u.dest = t.dest /\ u.snap = t.snap
      BY <1>2 DEF Task, Stages
    <3> HIDE DEF u
    <3>3. Known(u)
      BY <1>1, <1>2, <3>2 DEF Known, Claimed
    <3> QED
      BY <3>1, <3>3, TaskWritten DEF u
  <2> QED
    BY <2>1, <2>2
<1> QED
  BY <1>1, <1>3, <1>4 DEF Inv, TypeOK, shop, view

LEMMA GoodsInv ==
  ASSUME Inv, NEW p \in Players, tidy' = tidy, Deliver(p) \/ Settle(p) \/ CloseIfSold(p)
  PROVE  Inv'
<1> DEFINE t == task[p]
<1>1. t.at \in {"deliver", "settle", "close"} /\ UNCHANGED money
  BY DEF Deliver, Settle, CloseIfSold, money
<1>2. /\ t \in Task /\ t.of \in Players /\ t.place \in Places /\ t.dest \in Slots /\ t.item \in Item /\ t.n \in Nat
      /\ bag \in [Players -> Bag] /\ listing \in [Players -> [Places -> Offer]]
  BY <1>1, BuyFacts DEF Inv, TypeOK
<1>3. NoOffer \in Offer /\ [NoOffer EXCEPT !.soldOut = TRUE] \in Offer
  BY EmptyIs DEF Offer
<1>4. CASE Deliver(p)
  <2> DEFINE new == [item |-> t.item, count |-> Clamp(bag[p][t.dest].count + t.n, StackMax)]
  <2>1. bag[p][t.dest].count \in Nat
    BY <1>2 DEF Bag, Stack
  <2>2. Clamp(bag[p][t.dest].count + t.n, StackMax) \in 0 .. CountMod - 1
    BY <1>2, <2>1 DEF Clamp
  <2>3. new \in Stack
    BY <1>2, <2>2 DEF Stack
  <2>4. bag' = [bag EXCEPT ![p][t.dest] = new] /\ Goto(p, "settle") /\ UNCHANGED <<presence, shop, view, money>>
    BY <1>4 DEF Deliver
  <2> HIDE DEF new
  <2>5. bag' \in [Players -> Bag]
    BY <1>2, <2>3, <2>4 DEF Bag
  <2>6. task' \in [Players -> Task] /\ \A r \in Players : Known(task'[r])
    BY <1>4, <2>4, GotoKeeps DEF Deliver, Claimed, Stages
  <2> QED
    BY <2>4, <2>5, <2>6 DEF Inv, TypeOK, shop, view, money
<1>5. CASE Settle(p)
  <2>1. SettledBag(bag[t.of], t) \in Bag
    BY <1>2, SettledBagIs
  <2>2. bag' \in [Players -> Bag] /\ listing' \in [Players -> [Places -> Offer]]
    BY <1>2, <1>3, <1>5, <2>1 DEF Settle
  <2>3. Goto(p, "close") /\ UNCHANGED <<presence, stall, view, money>>
    BY <1>5 DEF Settle
  <2>4. task' \in [Players -> Task] /\ \A r \in Players : Known(task'[r])
    BY <1>5, <2>3, GotoKeeps DEF Settle, Claimed, Stages
  <2> QED
    BY <2>2, <2>3, <2>4 DEF Inv, TypeOK, view, money
<1>6. CASE CloseIfSold(p)
  <2>1. task' \in [Players -> Task] /\ \A r \in Players : Known(task'[r])
    BY <1>6, DoneKeeps DEF CloseIfSold
  <2>2. \/ UNCHANGED <<presence, shop, looker>>
        \/ CloseStall(t.of) /\ presence' = [presence EXCEPT ![t.of] = IF @ = "away" THEN "gone" ELSE @]
    BY <1>6 DEF CloseIfSold
  <2>3. CASE UNCHANGED <<presence, shop, looker>>
    BY <1>6, <2>1, <2>3 DEF CloseIfSold, Inv, TypeOK, shop, money
  <2>4. CASE CloseStall(t.of) /\ presence' = [presence EXCEPT ![t.of] = IF @ = "away" THEN "gone" ELSE @]
    <3> HIDE DEF t
    <3>1. presence' \in [Players -> {"here", "away", "gone"}]
      BY <1>2, <2>4 DEF Inv, TypeOK
    <3>2. stall' \in [Players -> {"closed", "preparing", "open"}] /\ looker' \in [Players -> Players \cup {NoPlayer}]
      BY <1>2, <2>4 DEF CloseStall, Inv, TypeOK
    <3>3. listing' \in [Players -> [Places -> Offer]]
      BY <1>2, <1>3, <2>4 DEF CloseStall
    <3> QED
      BY <1>6, <2>1, <3>1, <3>2, <3>3 DEF CloseIfSold, Inv, TypeOK, money
  <2> QED
    BY <2>2, <2>3, <2>4
<1> QED
  BY <1>4, <1>5, <1>6

LEMMA ServerInv ==
  ASSUME Inv, NEW p \in Players, tidy' = tidy,
         (\E f \in Finds : FindItem(p, f[1], f[2])) \/ (\E m \in Moves : MoveItem(p, m[1], m[2]))
  PROVE  Inv'
<1>1. UNCHANGED <<presence, shop, view, money, task>>
  BY DEF FindItem, MoveItem
<1>2. PICK b \in Bag : bag' = [bag EXCEPT ![p] = b]
  <2>1. bag[p] \in Bag
    BY DEF Inv, TypeOK
  <2>2. ASSUME NEW f \in Finds, FindItem(p, f[1], f[2]) PROVE \E b \in Bag : bag' = [bag EXCEPT ![p] = b]
    <3>1. f[1] \in Item /\ f[2] \in Nat
      OBVIOUS
    <3>2. Put(bag[p], f[1], f[2]) \in Bag
      BY <2>1, <3>1, PutIs
    <3> QED
      BY <2>2, <3>2 DEF FindItem
  <2>3. ASSUME NEW m \in Moves, MoveItem(p, m[1], m[2]) PROVE \E b \in Bag : bag' = [bag EXCEPT ![p] = b]
    <3>1. m[1] \in Slots /\ m[2] \in Slots
      OBVIOUS
    <3>2. Moved(bag[p], m[1], m[2]) \in Bag
      BY <2>1, <3>1, MovedIs
    <3> QED
      BY <2>3, <3>2 DEF MoveItem
  <2> QED
    BY <2>2, <2>3
<1>3. task' \in [Players -> Task] /\ \A r \in Players : Known(task'[r])
  BY <1>1, SameTasks
<1> QED
  BY <1>1, <1>2, <1>3 DEF Inv, TypeOK, shop, view, money

LEMMA HangUpInv ==
  ASSUME Inv, NEW p \in Players, tidy' = tidy, HangUp(p)
  PROVE  Inv'
<1>1. Known(Cut(task[p])) /\ task' = [task EXCEPT ![p] = Cut(task[p])] /\ Vanished(p) /\ UNCHANGED <<gold, cash, bag>>
  BY HangUpIs
<1>2. task' \in [Players -> Task] /\ \A q \in Players : Known(task'[q])
  BY <1>1, TaskWritten
<1>3. looker' \in [Players -> Players \cup {NoPlayer}] /\ browsing' \in [Players -> Players \cup {NoPlayer}]
  BY DEF HangUp, StopLooking, Inv, TypeOK
<1>4. presence' \in [Players -> {"here", "away", "gone"}] /\ stall' \in [Players -> {"closed", "preparing", "open"}]
  BY <1>1 DEF Vanished, Inv, TypeOK
<1>5. listing' \in [Players -> [Places -> Offer]]
  BY <1>1, EmptyIs DEF Vanished, Inv, TypeOK
<1> QED
  BY <1>1, <1>2, <1>3, <1>4, <1>5 DEF Inv, TypeOK

LEMMA StepInv == Inv /\ [Next]_vars => Inv'
<1> SUFFICES ASSUME Inv, [Next]_vars PROVE Inv'
  OBVIOUS
<1>1. CASE UNCHANGED vars
  BY <1>1, SameTasks DEF vars, shop, view, money, Inv, TypeOK
<1>2. ASSUME NEW p \in Players, Step(p), tidy' = tidy PROVE Inv'
  <2>1. CASE ShopperStep(p)
    BY <1>2, <2>1, BrowseInv, StartBuyInv, PlaceInv, MoneyInv, GoodsInv DEF ShopperStep, BuyStep
  <2>2. CASE ~ShopperStep(p)
    BY <1>2, <2>2, KeeperInv, ServerInv, HangUpInv DEF Step
  <2> QED
    BY <2>1, <2>2
<1> QED
  BY <1>1, <1>2 DEF Next

\* The fields of the sessions and the locals of the handlers keep their types: no
\* count leaves u16, no purse its cap and no write a bag or a list, whatever the
\* keeper does in the middle of a purchase (hasty keepers included).
THEOREM TypeCorrect == Spec => []TypeOK
<1>1. Init => Inv
  BY InitInv
<1>2. Inv /\ [Next]_vars => Inv'
  BY StepInv
<1>3. Inv => TypeOK
  BY DEF Inv
<1> QED
  BY <1>1, <1>2, <1>3, PTL DEF Spec

-----------------------------------------------------------------------------
(* StockCovers.  A place can be bought of while it has a price.  For a tidy  *)
(* keeper q, whatever purchases are under way:                               *)

\* A closed stall has nothing to buy.
Shut(q) == stall[q] = "closed" => \A k \in Places : listing[q][k].price = 0
\* Nobody is in the middle of a purchase while it is prepared.
Unbothered(q) == stall[q] = "preparing" => \A p \in Players : task[p].at \notin {"idle", "look", "cut"} => task[p].of # q
Present(q) == presence[q] = "gone" => stall[q] = "closed"
\* What is on offer and what is reserved is in the bag (StockCovers, of every place with a price).
Backs(q) ==
  \A k \in Places :
    LET o == listing[q][k] IN
    o.price # 0 =>
      /\ o.item # NoItem /\ o.slot \in Slots /\ bag[q][o.slot].item = o.item
      /\ o.count + ReservedAt(q, k) <= bag[q][o.slot].count
\* No two places sell the same slot.
Apart(q) ==
  \A k, j \in Places :
    k # j /\ listing[q][k].price # 0 /\ listing[q][j].price # 0 => listing[q][k].slot # listing[q][j].slot
\* A purchase takes from the slot of its own place and from no other place's.
OnStall(t, q) == t.at \in Claimed /\ t.of = q
Matches(t, k, o) ==
  o.price # 0 => IF k = t.place THEN t.snap.slot = o.slot /\ t.item = o.item ELSE t.snap.slot # o.slot
Honours(q) == \A p \in Players : OnStall(task[p], q) => \A k \in Places : Matches(task[p], k, listing[q][k])
\* Who took the last units clears the place.
Spent(q) ==
  \A k \in Places : listing[q][k].price # 0 /\ listing[q][k].count = 0 =>
    \E p \in Players : OnStall(task[p], q) /\ task[p].place = k /\ FullySold(task[p])

Covers(q) == Shut(q) /\ Unbothered(q) /\ Present(q) /\ Backs(q) /\ Apart(q) /\ Honours(q) /\ Spent(q)

Sound ==
  /\ Inv
  /\ tidy # {} => ~Hasty
  /\ \A p \in Players : task[p].at \notin {"idle", "look", "cut"} => stall[p] = "closed"
  /\ \A q \in tidy : Covers(q)

Claims(tk, q, k) == SumFunction([p \in Players |-> Claim(tk[p], q, k)])

LEMMA ReservedAtIs == \A q, k : ReservedAt(q, k) = Claims(task, q, k)
BY DEF ReservedAt, Claims

LEMMA ClaimTyped ==
  ASSUME NEW tk \in [Players -> Task], NEW q, NEW k
  PROVE  [p \in Players |-> Claim(tk[p], q, k)] \in [Players -> Nat]
<1>1. \A p \in Players : Claim(tk[p], q, k) \in Nat
  BY DEF Claim, Task
<1> QED
  BY <1>1

\* The task of one player changes.
LEMMA ClaimsChange ==
  ASSUME NEW tk \in [Players -> Task], NEW tl \in [Players -> Task], NEW q, NEW k, NEW p \in Players,
         \A r \in Players : r # p => tl[r] = tk[r]
  PROVE  /\ Claims(tl, q, k) + Claim(tk[p], q, k) = Claims(tk, q, k) + Claim(tl[p], q, k)
         /\ Claims(tk, q, k) \in Nat /\ Claims(tl, q, k) \in Nat
         /\ Claim(tk[p], q, k) \in Nat /\ Claim(tl[p], q, k) \in Nat
         /\ Claim(tk[p], q, k) <= Claims(tk, q, k)
<1> DEFINE f == [r \in Players |-> Claim(tk[r], q, k)]
           g == [r \in Players |-> Claim(tl[r], q, k)]
<1>1. f \in [Players -> Nat] /\ g \in [Players -> Nat] /\ \A r \in Players : r # p => g[r] = f[r]
  BY ClaimTyped
<1>2. f[p] = Claim(tk[p], q, k) /\ g[p] = Claim(tl[p], q, k)
  OBVIOUS
<1>3. Claims(tk, q, k) = SumFunction(f) /\ Claims(tl, q, k) = SumFunction(g)
  BY DEF Claims
<1> HIDE DEF f, g
<1>4. /\ SumFunction(g) + f[p] = SumFunction(f) + g[p] /\ SumFunction(f) \in Nat /\ SumFunction(g) \in Nat
      /\ f[p] \in Nat /\ g[p] \in Nat /\ f[p] <= SumFunction(f)
  BY <1>1, OneChanges
<1> QED
  BY <1>2, <1>3, <1>4

\* Two purchases at one place.
LEMMA TwoClaims ==
  ASSUME NEW tk \in [Players -> Task], NEW q, NEW k, NEW p \in Players, NEW r \in Players, p # r
  PROVE  /\ Claim(tk[p], q, k) + Claim(tk[r], q, k) <= Claims(tk, q, k)
         /\ Claim(tk[p], q, k) \in Nat /\ Claim(tk[r], q, k) \in Nat /\ Claims(tk, q, k) \in Nat
<1> DEFINE tl == [tk EXCEPT ![p] = Idle]
<1>1. tl \in [Players -> Task] /\ tl[p] = Idle /\ tl[r] = tk[r] /\ \A x \in Players : x # p => tl[x] = tk[x]
  BY IdleIs
<1> HIDE DEF tl
<1>2. Claim(tl[p], q, k) = 0
  BY <1>1, IdleIs DEF Claim, Claimed
<1>3. /\ Claims(tl, q, k) + Claim(tk[p], q, k) = Claims(tk, q, k) + 0
      /\ Claims(tk, q, k) \in Nat /\ Claims(tl, q, k) \in Nat /\ Claim(tk[p], q, k) \in Nat
  BY <1>1, <1>2, ClaimsChange
<1>4. Claim(tl[r], q, k) <= Claims(tl, q, k) /\ Claim(tl[r], q, k) \in Nat
  BY <1>1, ClaimsChange
<1> QED
  BY <1>1, <1>3, <1>4

LEMMA ClaimsSame ==
  ASSUME NEW tk, NEW tl, NEW q, NEW k, \A p \in Players : Claim(tl[p], q, k) = Claim(tk[p], q, k)
  PROVE  Claims(tl, q, k) = Claims(tk, q, k)
<1>1. [p \in Players |-> Claim(tl[p], q, k)] = [p \in Players |-> Claim(tk[p], q, k)]
  OBVIOUS
<1> QED
  BY <1>1 DEF Claims

LEMMA SoundCovers == Sound => StockCovers
<1> SUFFICES ASSUME Sound, NEW q \in tidy, NEW k \in Places, stall[q] = "open",
                    listing[q][k].item # NoItem, listing[q][k].price # 0
             PROVE  /\ listing[q][k].slot \in Slots /\ bag[q][listing[q][k].slot].item = listing[q][k].item
                    /\ listing[q][k].count + ReservedAt(q, k) <= bag[q][listing[q][k].slot].count
  BY DEF StockCovers
<1>1. Backs(q)
  BY DEF Sound, Covers
<1> QED
  BY <1>1 DEF Backs

LEMMA InitSound == Init => Sound
<1> SUFFICES ASSUME Init PROVE Sound
  OBVIOUS
<1>1. Inv /\ tidy \subseteq Players
  BY InitInv DEF Inv, TypeOK, Players
<1>2. tidy # {} => ~Hasty
  BY DEF Init
<1>3. \A p \in Players : task[p].at = "idle" /\ stall[p] = "closed" /\ presence[p] = "here"
  BY IdleIs DEF Init
<1>4. \A q \in Players, k \in Places : listing[q][k].price = 0
  BY EmptyIs DEF Init
<1>5. ASSUME NEW q \in tidy PROVE Covers(q)
  <2>1. q \in Players
    BY <1>1
  <2>2. Shut(q) /\ Backs(q) /\ Apart(q) /\ Spent(q)
    BY <1>4, <2>1 DEF Shut, Backs, Apart, Spent
  <2>3. Unbothered(q) /\ Present(q) /\ Honours(q)
    BY <1>3, <2>1 DEF Unbothered, Present, Honours, OnStall, Claimed
  <2> QED
    BY <2>2, <2>3 DEF Covers
<1> QED
  BY <1>1, <1>2, <1>3, <1>5 DEF Sound

\* A stall that is closed and has no prices is covered, whatever else happens.
LEMMA ClosedCovers ==
  ASSUME NEW q \in Players, stall'[q] = "closed", \A k \in Places : listing'[q][k].price = 0
  PROVE  Covers(q)'
<1>1. Shut(q)' /\ Backs(q)' /\ Apart(q)' /\ Spent(q)'
  BY DEF Shut, Backs, Apart, Spent
<1>2. Unbothered(q)' /\ Present(q)'
  BY DEF Unbothered, Present
<1>3. Honours(q)'
  BY DEF Honours, Matches
<1> QED
  BY <1>1, <1>2, <1>3 DEF Covers

\* What somebody else does: the stall stays, stacks of the bag at most grow, and
\* the purchases from it are the same, step by step.
LEMMA FrameCovers ==
  ASSUME NEW q \in Players, Covers(q), Inv, Inv',
         stall'[q] = stall[q], listing'[q] = listing[q], presence'[q] = "gone" => presence[q] = "gone",
         \A s \in Slots : bag[q][s].item # NoItem => bag'[q][s].item = bag[q][s].item /\ bag[q][s].count <= bag'[q][s].count,
         \A p \in Players :
           /\ OnStall(task'[p], q) <=> OnStall(task[p], q)
           /\ OnStall(task[p], q) =>
                /\ task'[p].place = task[p].place /\ task'[p].n = task[p].n
                /\ task'[p].item = task[p].item /\ task'[p].snap = task[p].snap,
         stall[q] = "preparing" => \A p \in Players :
           task'[p].at \notin {"idle", "look", "cut"} /\ task'[p].of = q => task[p].at \notin {"idle", "look", "cut"} /\ task[p].of = q
  PROVE  Covers(q)'
<1>1. Shut(q)' /\ Present(q)' /\ Apart(q)'
  BY DEF Covers, Shut, Present, Apart
<1>2. Unbothered(q)'
  BY DEF Covers, Unbothered
<1>3. Honours(q)'
  BY DEF Covers, Honours, Matches
<1>4. Spent(q)'
  <2> SUFFICES ASSUME NEW k \in Places, listing'[q][k].price # 0, listing'[q][k].count = 0
               PROVE  \E p \in Players : OnStall(task'[p], q) /\ task'[p].place = k /\ FullySold(task'[p])
    BY DEF Spent
  <2>1. PICK p \in Players : OnStall(task[p], q) /\ task[p].place = k /\ FullySold(task[p])
    BY DEF Covers, Spent
  <2> QED
    BY <2>1 DEF FullySold
<1>5. Backs(q)'
  <2> SUFFICES ASSUME NEW k \in Places, listing'[q][k].price # 0
               PROVE  LET o == listing'[q][k] IN
                      /\ o.item # NoItem /\ o.slot \in Slots /\ bag'[q][o.slot].item = o.item
                      /\ o.count + Claims(task', q, k) <= bag'[q][o.slot].count
    BY ReservedAtIs DEF Backs, ReservedAt, Claims
  <2> DEFINE o == listing[q][k]
  <2>1. Claims(task', q, k) = Claims(task, q, k)
    <3>1. \A p \in Players : Claim(task'[p], q, k) = Claim(task[p], q, k)
      BY DEF Claim, OnStall
    <3> QED
      BY <3>1, ClaimsSame
  <2>2. /\ o.item # NoItem /\ o.slot \in Slots /\ bag[q][o.slot].item = o.item
        /\ o.count + Claims(task, q, k) <= bag[q][o.slot].count
    BY ReservedAtIs DEF Covers, Backs
  <2>3. o.count \in Nat /\ Claims(task, q, k) \in Nat
    <3>1. o \in Offer /\ task \in [Players -> Task]
      BY DEF Inv, TypeOK
    <3> QED
      BY <3>1, ClaimsChange DEF Offer
  <2>4. bag[q][o.slot].count \in Nat /\ bag'[q][o.slot].count \in Nat
    BY <2>2 DEF Inv, TypeOK, Bag, Stack
  <2>5. bag'[q][o.slot].item = o.item /\ bag[q][o.slot].count <= bag'[q][o.slot].count
    BY <2>2
  <2> QED
    BY <2>1, <2>2, <2>3, <2>4, <2>5
<1> QED
  BY <1>1, <1>2, <1>3, <1>4, <1>5 DEF Covers

\* Steps that touch neither the stalls nor the purchases from them, other than to
\* let them go on.
LEMMA AdvanceIs ==
  ASSUME Inv, NEW p \in Players, CheckGold(p) \/ Charge(p) \/ Credit(p) \/ PayCash(p) \/ CashRead(p) \/ CashWrite(p) \/ Deliver(p)
  PROVE  /\ task[p].at \in Claimed /\ task'[p].at \in Claimed
         /\ task'[p].of = task[p].of /\ task'[p].place = task[p].place /\ task'[p].n = task[p].n
         /\ task'[p].item = task[p].item /\ task'[p].snap = task[p].snap
         /\ \A r \in Players : r # p => task'[r] = task[r]
         /\ UNCHANGED <<presence, shop>>
<1>1. task \in [Players -> Task] /\ task[p] \in Task
  BY DEF Inv, TypeOK
<1>2. task[p].at \in Claimed /\ UNCHANGED <<presence, shop>>
  BY DEF CheckGold, Charge, Credit, PayCash, CashRead, CashWrite, Deliver, Claimed, Stages
<1>3. CASE ~CashRead(p)
  <2>1. PICK stage \in Claimed : Goto(p, stage)
    BY <1>3 DEF CheckGold, Charge, Credit, PayCash, CashWrite, Deliver, Claimed, Stages
  <2> DEFINE t == [task[p] EXCEPT !.at = stage]
  <2>2. task' = [task EXCEPT ![p] = t] /\ t.at = stage
    BY <2>1, GotoIs DEF Claimed
  <2>3. t["of"] = task[p]["of"] /\ t["place"] = task[p]["place"] /\ t["n"] = task[p]["n"]
        /\ t["item"] = task[p]["item"] /\ t["snap"] = task[p]["snap"]
    BY <2>1, GotoIs DEF Claimed
  <2> HIDE DEF t
  <2> QED
    BY <1>1, <1>2, <2>1, <2>2, <2>3
<1>4. CASE CashRead(p)
  <2>1. PICK b : task' = [task EXCEPT ![p].at = "cashWrite", ![p].balance = b]
    BY <1>4 DEF CashRead
  <2>2. /\ task'[p].at = "cashWrite" /\ task'[p].of = task[p].of /\ task'[p].place = task[p].place
        /\ task'[p].n = task[p].n /\ task'[p].item = task[p].item /\ task'[p].snap = task[p].snap
    BY <1>1, <2>1 DEF Task
  <2>3. \A r \in Players : r # p => task'[r] = task[r]
    BY <1>1, <2>1
  <2> QED
    BY <1>2, <2>2, <2>3 DEF Claimed, Stages
<1> QED
  BY <1>3, <1>4

LEMMA AdvanceCovers ==
  ASSUME Sound, Inv', NEW p \in Players, tidy' = tidy,
         CheckGold(p) \/ Charge(p) \/ Credit(p) \/ PayCash(p) \/ CashRead(p) \/ CashWrite(p) \/ Deliver(p),
         NEW q \in tidy
  PROVE  Covers(q)'
<1>1. /\ task[p].at \in Claimed /\ task'[p].at \in Claimed
      /\ task'[p].of = task[p].of /\ task'[p].place = task[p].place /\ task'[p].n = task[p].n
      /\ task'[p].item = task[p].item /\ task'[p].snap = task[p].snap
      /\ \A r \in Players : r # p => task'[r] = task[r]
      /\ UNCHANGED <<presence, shop>>
  BY AdvanceIs DEF Sound
<1>2. q \in Players /\ Covers(q) /\ Inv
  BY DEF Sound, Inv, TypeOK, Players
<1>3. CASE stall[q] = "closed"
  BY <1>1, <1>2, <1>3, ClosedCovers DEF Covers, Shut, shop
<1>4. CASE stall[q] # "closed"
  <2>1. p # q
    BY <1>1, <1>4 DEF Sound, Claimed
  <2>2. bag'[q] = bag[q]
    BY <1>2, <2>1 DEF CheckGold, Charge, Credit, PayCash, CashRead, CashWrite, Deliver, Inv, TypeOK
  <2>3. \A s \in Slots : bag[q][s].count <= bag[q][s].count
    <3>1. \A s \in Slots : bag[q][s].count \in Nat
      BY <1>2 DEF Inv, TypeOK, Bag, Stack
    <3> QED
      BY <3>1
  <2>4. \A r \in Players :
           /\ OnStall(task'[r], q) <=> OnStall(task[r], q)
           /\ OnStall(task[r], q) =>
                /\ task'[r].place = task[r].place /\ task'[r].n = task[r].n
                /\ task'[r].item = task[r].item /\ task'[r].snap = task[r].snap
           /\ task'[r].at \notin {"idle", "look", "cut"} /\ task'[r].of = q => task[r].at \notin {"idle", "look", "cut"} /\ task[r].of = q
    BY <1>1 DEF OnStall, Claimed
  <2> QED
    BY <1>1, <1>2, <2>2, <2>3, <2>4, FrameCovers DEF shop
<1> QED
  BY <1>3, <1>4

\* A purchase that starts or is given up before anything is reserved, and looking.
LEMMA ShopperCovers ==
  ASSUME Sound, Inv', NEW p \in Players, tidy' = tidy, UNCHANGED <<presence, shop, bag>>,
         NEW t \in Task, task' = [task EXCEPT ![p] = t], t.at \notin Claimed, task[p].at \notin Claimed,
         t.at \in {"idle", "look", "cut"} \/ stall[t.of] = "open",
         NEW q \in tidy
  PROVE  Covers(q)'
<1>1. q \in Players /\ Covers(q) /\ Inv /\ task \in [Players -> Task] /\ bag \in [Players -> Bag]
  BY DEF Sound, Inv, TypeOK, Players
<1>2. \A s \in Slots : bag[q][s].count <= bag[q][s].count
  <2>1. \A s \in Slots : bag[q][s].count \in Nat
    BY <1>1 DEF Bag, Stack
  <2> QED
    BY <2>1
<1>3. \A r \in Players :
         /\ OnStall(task'[r], q) <=> OnStall(task[r], q)
         /\ OnStall(task[r], q) =>
              /\ task'[r].place = task[r].place /\ task'[r].n = task[r].n
              /\ task'[r].item = task[r].item /\ task'[r].snap = task[r].snap
  BY <1>1 DEF OnStall
<1>4. stall[q] = "preparing" => \A r \in Players :
         task'[r].at \notin {"idle", "look", "cut"} /\ task'[r].of = q => task[r].at \notin {"idle", "look", "cut"} /\ task[r].of = q
  BY <1>1
<1> QED
  BY <1>1, <1>2, <1>3, <1>4, FrameCovers DEF shop

\* The rest of the server, and keepers, around a stall that is not theirs.
LEMMA OthersCovers ==
  ASSUME Sound, Inv', NEW p \in Players, tidy' = tidy, task' = task, NEW q \in tidy,
         stall'[q] = stall[q], listing'[q] = listing[q], presence'[q] = "gone" => presence[q] = "gone",
         \A s \in Slots : bag[q][s].item # NoItem => bag'[q][s].item = bag[q][s].item /\ bag[q][s].count <= bag'[q][s].count
  PROVE  Covers(q)'
<1>1. q \in Players /\ Covers(q) /\ Inv
  BY DEF Sound, Inv, TypeOK, Players
<1> QED
  BY <1>1, FrameCovers

LEMMA ServerCovers ==
  ASSUME Sound, Inv', NEW p \in Players, tidy' = tidy, NEW q \in tidy,
         (\E f \in Finds : FindItem(p, f[1], f[2])) \/ (\E m \in Moves : MoveItem(p, m[1], m[2]))
  PROVE  Covers(q)'
<1>1. UNCHANGED <<presence, shop, view, money, task>>
  BY DEF FindItem, MoveItem
<1>2. q \in Players /\ Covers(q) /\ Inv /\ bag \in [Players -> Bag]
  BY DEF Sound, Inv, TypeOK, Players
<1>3. CASE stall[q] = "closed"
  BY <1>1, <1>2, <1>3, ClosedCovers DEF Covers, Shut, shop
<1>4. CASE stall[q] # "closed"
  <2>1. \A s \in Slots : bag[q][s].item # NoItem => bag'[q][s].item = bag[q][s].item /\ bag[q][s].count <= bag'[q][s].count
    <3>0. \A s \in Slots : bag[q][s].count \in Nat
      BY <1>2 DEF Bag, Stack
    <3>1. ASSUME NEW f \in Finds, FindItem(p, f[1], f[2])
          PROVE  \A s \in Slots : bag[q][s].item # NoItem => bag'[q][s].item = bag[q][s].item /\ bag[q][s].count <= bag'[q][s].count
      <4>1. f[1] \in Item /\ f[2] \in Nat /\ bag' = [bag EXCEPT ![p] = Put(bag[p], f[1], f[2])]
        BY <3>1 DEF FindItem
      <4>2. \A s \in Slots : bag[p][s].item # NoItem =>
              Put(bag[p], f[1], f[2])[s].item = bag[p][s].item /\ bag[p][s].count <= Put(bag[p], f[1], f[2])[s].count
        BY <1>2, <4>1, PutIs
      <4>3. CASE p = q
        <5>1. bag'[q] = Put(bag[p], f[1], f[2])
          BY <1>2, <4>1, <4>3
        <5> QED
          BY <4>2, <4>3, <5>1
      <4>4. CASE p # q
        BY <1>2, <3>0, <4>1, <4>4
      <4> QED
        BY <4>3, <4>4
    <3>2. ASSUME NEW m \in Moves, MoveItem(p, m[1], m[2])
          PROVE  \A s \in Slots : bag[q][s].item # NoItem => bag'[q][s].item = bag[q][s].item /\ bag[q][s].count <= bag'[q][s].count
      <4>1. p # q
        BY <1>4, <3>2 DEF MoveItem
      <4>2. bag'[q] = bag[q]
        BY <1>2, <3>2, <4>1 DEF MoveItem
      <4> QED
        BY <3>0, <4>2
    <3> QED
      BY <3>1, <3>2
  <2> QED
    BY <1>1, <2>1, OthersCovers DEF shop
<1> QED
  BY <1>3, <1>4

\* A keeper's own steps.
LEMMA KeeperCovers ==
  ASSUME Sound, Inv', NEW p \in Players, tidy' = tidy, KeeperStep(p) \/ Quit(p), NEW q \in tidy
  PROVE  Covers(q)'
<1>1. UNCHANGED <<bag, task>>
  BY DEF KeeperStep, Quit, Open, Close, Insert, GoAway, Expire, Post, Withdraw
<1>2. q \in Players /\ Covers(q) /\ Inv /\ bag \in [Players -> Bag] /\ listing \in [Players -> [Places -> Offer]]
  BY DEF Sound, Inv, TypeOK, Players
<1>3. \A s \in Slots : bag[q][s].count \in Nat
  BY <1>2 DEF Bag, Stack
<1>4. \A s \in Slots : bag[q][s].item # NoItem => bag'[q][s].item = bag[q][s].item /\ bag[q][s].count <= bag'[q][s].count
  BY <1>1, <1>3
<1>5. ~Hasty
  BY DEF Sound
<1>6. CASE p # q
  <2>1. stall'[q] = stall[q] /\ listing'[q] = listing[q] /\ presence'[q] = presence[q]
    BY <1>2, <1>6 DEF KeeperStep, Quit, Open, Close, Insert, GoAway, Expire, Post, Withdraw, CloseStall, Inv, TypeOK, shop
  <2> QED
    BY <1>1, <1>4, <2>1, OthersCovers
<1>7. CASE p = q /\ (Close(q) \/ Expire(q) \/ Quit(q))
  <2>1. stall'[q] = "closed" /\ listing'[q] = [k \in Places |-> NoOffer]
    BY <1>2, <1>7 DEF Close, Expire, Quit, CloseStall, Inv, TypeOK
  <2>2. \A k \in Places : listing'[q][k].price = 0
    BY <2>1, EmptyIs
  <2> QED
    BY <1>2, <2>1, <2>2, ClosedCovers
<1>8. CASE p = q /\ GoAway(q)
  <2>1. stall'[q] = stall[q] /\ listing'[q] = listing[q] /\ presence'[q] # "gone"
    BY <1>2, <1>8 DEF GoAway, shop, Inv, TypeOK
  <2> QED
    BY <1>1, <1>4, <2>1, OthersCovers
<1>9. CASE p = q /\ (Open(q) \/ Insert(q))
  <2>1. listing' = listing /\ presence' = presence /\ presence[q] = "here" /\ stall'[q] \in {"preparing", "open"}
    BY <1>2, <1>9 DEF Open, Insert, Ready, Inv, TypeOK
  <2>2. \A r \in Players : task[r].at \notin {"idle", "look", "cut"} => task[r].of # q
    BY <1>5, <1>9 DEF Open, Insert, AtEase, Buying
  <2>3. Shut(q)' /\ Unbothered(q)' /\ Present(q)' /\ Apart(q)' /\ Honours(q)' /\ Spent(q)'
    BY <1>1, <1>2, <2>1, <2>2 DEF Shut, Unbothered, Present, Apart, Honours, Spent, Matches, Covers
  <2>4. Backs(q)'
    BY <1>1, <1>2, <2>1 DEF Backs, Covers, ReservedAt
  <2> QED
    BY <2>3, <2>4 DEF Covers
<1>10. CASE p = q /\ \E s \in Slots, k \in Places, o \in Postings : Post(q, s, k, o)
  <2>1. PICK s \in Slots, k \in Places, o \in Postings : Post(q, s, k, o)
    BY <1>10
  <2> DEFINE new == [item |-> bag[q][s].item, count |-> o.count, price |-> o.price,
                     kc |-> o.kc, slot |-> s, soldOut |-> FALSE]
  <2>2. listing' = [listing EXCEPT ![q][k] = new]
    BY <2>1 DEF Post
  <2>3. new.item = bag[q][s].item /\ new.count = o.count /\ new.price = o.price /\ new.slot = s
    OBVIOUS
  <2> HIDE DEF new
  <2>4. listing'[q][k] = new /\ \A j \in Places : j # k => listing'[q][j] = listing[q][j]
    BY <1>2, <2>2
  <2>5. /\ o.count \in Nat \ {0} /\ o.count <= bag[q][s].count /\ bag[q][s].item # NoItem
        /\ \A j \in Places : listing[q][j].item # NoItem => listing[q][j].slot # s
        /\ stall[q] = "preparing" /\ presence[q] = "here" /\ UNCHANGED <<presence, stall>>
    <3>1. o.count \in Nat \ {0} /\ Sellable \subseteq Item /\ NoItem \notin Item
      BY DEF Item
    <3>2. /\ o.count <= bag[q][s].count /\ bag[q][s].item \in Sellable
          /\ \A j \in Places : listing[q][j].item # NoItem => listing[q][j].slot # s
          /\ stall[q] = "preparing" /\ presence[q] = "here" /\ UNCHANGED <<presence, stall>>
      BY <2>1 DEF Post, Ready
    <3> QED
      BY <3>1, <3>2
  <2>6. \A r \in Players : task[r].at \notin {"idle", "look", "cut"} => task[r].of # q
    BY <1>5, <2>1 DEF Post, AtEase, Buying
  <2>7. \A r \in Players : ~OnStall(task[r], q)
    BY <2>6 DEF OnStall, Claimed
  <2>8. Shut(q)' /\ Unbothered(q)' /\ Present(q)' /\ Honours(q)'
    BY <1>1, <2>5, <2>6, <2>7 DEF Shut, Unbothered, Present, Honours
  <2>9. \A j \in Places : listing[q][j].price # 0 => listing[q][j].item # NoItem
    BY <1>2 DEF Covers, Backs
  <2>10. Apart(q)'
    BY <2>3, <2>4, <2>5, <2>9, <1>2 DEF Apart, Covers
  <2>11. Spent(q)'
    BY <1>1, <1>2, <2>3, <2>4, <2>5 DEF Spent, Covers
  <2>12. Backs(q)'
    <3> SUFFICES ASSUME NEW j \in Places, listing'[q][j].price # 0
                 PROVE  LET n == listing'[q][j] IN
                        /\ n.item # NoItem /\ n.slot \in Slots /\ bag[q][n.slot].item = n.item
                        /\ n.count + ReservedAt(q, j) <= bag[q][n.slot].count
      BY <1>1 DEF Backs, ReservedAt
    <3>1. CASE j # k
      BY <1>2, <2>4, <3>1 DEF Backs, Covers
    <3>2. CASE j = k
      <4>1. ReservedAt(q, k) = 0
        <5>1. [r \in Players |-> Claim(task[r], q, k)] = [r \in Players |-> 0]
          BY <2>7 DEF Claim, OnStall
        <5> DEFINE none == [r \in Players |-> 0]
        <5>2. none \in [Players -> Nat] /\ \A r \in Players : none[r] = 0
          OBVIOUS
        <5> HIDE DEF none
        <5>3. SumFunction(none) = 0
          BY <5>2, AllZero
        <5> QED
          BY <5>1, <5>3 DEF ReservedAt, none
      <4>2. o.count + 0 = o.count
        BY <2>5
      <4> QED
        BY <2>3, <2>4, <2>5, <3>2, <4>1, <4>2
    <3> QED
      BY <3>1, <3>2
  <2> QED
    BY <2>8, <2>10, <2>11, <2>12 DEF Covers
<1>11. CASE p = q /\ \E k \in Places : Withdraw(q, k)
  <2>1. PICK k \in Places : Withdraw(q, k)
    BY <1>11
  <2>2. /\ listing'[q][k].price = 0 /\ \A j \in Places : j # k => listing'[q][j] = listing[q][j]
        /\ stall[q] = "preparing" /\ UNCHANGED <<presence, stall>>
    BY <1>2, <2>1, EmptyIs DEF Withdraw
  <2>3. Shut(q)' /\ Unbothered(q)' /\ Present(q)' /\ Apart(q)'
    BY <1>1, <1>2, <2>2 DEF Shut, Unbothered, Present, Apart, Covers
  <2>5. Honours(q)'
    BY <1>1, <1>2, <2>2 DEF Honours, Matches, Covers
  <2>6. Spent(q)'
    <3>1. \A j \in Places : listing'[q][j].price # 0 => listing'[q][j] = listing[q][j]
      BY <2>2
    <3> QED
      BY <1>1, <1>2, <3>1 DEF Spent, Covers
  <2>4. Backs(q)'
    BY <1>1, <1>2, <2>2 DEF Backs, Covers, ReservedAt
  <2> QED
    BY <2>3, <2>4, <2>5, <2>6 DEF Covers
<1> QED
  BY <1>6, <1>7, <1>8, <1>9, <1>10, <1>11 DEF KeeperStep

\* Units that a keeper still has: a place with a price is an offer.
LEMMA PricedIs ==
  ASSUME Inv, NEW q \in Players, Covers(q), NEW k \in Places, listing[q][k].price # 0
  PROVE  LET o == listing[q][k] IN
         /\ o \in Offer /\ o.item \in Item /\ o.slot \in Slots /\ o.count \in Nat
         /\ bag[q][o.slot].item = o.item /\ bag[q][o.slot].count \in Nat /\ Claims(task, q, k) \in Nat
         /\ o.count + Claims(task, q, k) <= bag[q][o.slot].count
         /\ stall[q] # "closed"
<1> DEFINE o == listing[q][k]
<1>1. o \in Offer /\ task \in [Players -> Task] /\ bag[q] \in Bag
  BY DEF Inv, TypeOK
<1>2. /\ o.item # NoItem /\ o.slot \in Slots /\ bag[q][o.slot].item = o.item
      /\ o.count + Claims(task, q, k) <= bag[q][o.slot].count
  BY ReservedAtIs DEF Covers, Backs
<1>3. o.item \in Item /\ o.count \in Nat /\ bag[q][o.slot].count \in Nat
  BY <1>1, <1>2 DEF Offer, Bag, Stack
<1>4. Claims(task, q, k) \in Nat
  BY <1>1, ClaimsChange
<1>5. stall[q] # "closed"
  BY DEF Covers, Shut
<1> QED
  BY <1>1, <1>2, <1>3, <1>4, <1>5

\* try_merchant_buy moves units from the offer to the reservations.
LEMMA ReserveCovers ==
  ASSUME Sound, Inv', NEW p \in Players, tidy' = tidy, Reserve(p), NEW q \in tidy,
         task[p].of = q, Offers(listing[q][task[p].place], task[p].item, task[p].n)
  PROVE  Covers(q)'
<1> DEFINE t == task[p]
           k == t.place
           o == listing[q][k]
           u == [t EXCEPT !.at = "pay", !.snap = o]
<1>1. q \in Players /\ Covers(q) /\ Inv /\ task \in [Players -> Task] /\ listing \in [Players -> [Places -> Offer]]
  BY DEF Sound, Inv, TypeOK, Players
<1>2. /\ t \in Task /\ k \in Places /\ t.n \in Nat /\ t.n >= 1 /\ t.item \in Item /\ t.at = "reserve"
      /\ UNCHANGED <<presence, stall, bag>>
  BY <1>1, BuyFacts DEF Reserve
<1>3. /\ o.price # 0 /\ o.item = t.item /\ o.count >= t.n
      /\ listing' = [listing EXCEPT ![q][k] = Reserved(o, t.n)]
      /\ task' = [task EXCEPT ![p] = u]
  BY <1>1, <1>2 DEF Offers, Reserve, Task
<1>4. /\ o \in Offer /\ o.slot \in Slots /\ o.count \in Nat /\ bag[q][o.slot].item = o.item /\ bag[q][o.slot].count \in Nat
      /\ Claims(task, q, k) \in Nat /\ o.count + Claims(task, q, k) <= bag[q][o.slot].count /\ stall[q] # "closed"
  BY <1>1, <1>2, <1>3, PricedIs
<1>5. u.at = "pay" /\ u.of = q /\ u.place = k /\ u.item = t.item /\ u.n = t.n /\ u.snap = o /\ u \in Task
  BY <1>2, <1>4 DEF Task, Stages
<1> DEFINE new == Reserved(o, t.n)
<1>6. new.count = o.count - t.n /\ new.item = o.item /\ new.price = o.price /\ new.slot = o.slot
  BY <1>2, <1>3, <1>4, ReservedIs
<1> HIDE DEF u, new
<1>7. /\ listing'[q][k] = new /\ \A j \in Places : j # k => listing'[q][j] = listing[q][j]
      /\ task'[p] = u /\ \A r \in Players : r # p => task'[r] = task[r]
  BY <1>1, <1>2, <1>3 DEF new
<1> HIDE DEF t, k, o
<1>8. Shut(q)' /\ Present(q)' /\ Unbothered(q)'
  <2>1. Shut(q)' /\ Present(q)'
    BY <1>1, <1>2, <1>4 DEF Shut, Present, Covers
  <2>2. t.at \notin {"idle", "look", "cut"} /\ t.of = q
    BY <1>2 DEF t
  <2>3. stall[q] # "preparing"
    BY <1>1, <2>2 DEF Covers, Unbothered, t
  <2> QED
    BY <1>2, <2>1, <2>3 DEF Unbothered
<1>9. Apart(q)'
  BY <1>1, <1>2, <1>3, <1>6, <1>7 DEF Apart, Covers, o
<1>10. Honours(q)'
  <2> SUFFICES ASSUME NEW r \in Players, OnStall(task'[r], q), NEW j \in Places
               PROVE  Matches(task'[r], j, listing'[q][j])
    BY DEF Honours
  <2>1. CASE r = p
    <3>1. CASE j = k
      BY <1>3, <1>5, <1>6, <1>7, <2>1, <3>1 DEF Matches
    <3>2. CASE j # k
      <4>1. listing[q][j].price # 0 => listing[q][j].slot # o.slot
        BY <1>1, <1>2, <1>3, <3>2 DEF Apart, Covers, o
      <4> QED
        BY <1>5, <1>7, <2>1, <3>2, <4>1 DEF Matches
    <3> QED
      BY <3>1, <3>2
  <2>2. CASE r # p
    <3>1. OnStall(task[r], q) /\ task'[r] = task[r]
      BY <1>7, <2>2
    <3>2. Matches(task[r], j, listing[q][j])
      BY <1>1, <3>1 DEF Covers, Honours
    <3>3. CASE j = k
      BY <1>3, <1>6, <1>7, <3>1, <3>2, <3>3 DEF Matches, o
    <3>4. CASE j # k
      BY <1>7, <3>1, <3>2, <3>4
    <3> QED
      BY <3>3, <3>4
  <2> QED
    BY <2>1, <2>2
<1>11. Spent(q)'
  <2> SUFFICES ASSUME NEW j \in Places, listing'[q][j].price # 0, listing'[q][j].count = 0
               PROVE  \E r \in Players : OnStall(task'[r], q) /\ task'[r].place = j /\ FullySold(task'[r])
    BY DEF Spent
  <2>1. CASE j = k
    <3>1. o.count = t.n
      BY <1>2, <1>4, <1>6, <1>7, <2>1
    <3>2. OnStall(u, q) /\ u.place = j /\ FullySold(u)
      BY <1>5, <2>1, <3>1 DEF OnStall, Claimed, Stages, FullySold
    <3> QED
      BY <1>7, <3>2
  <2>2. CASE j # k
    <3>1. PICK r \in Players : OnStall(task[r], q) /\ task[r].place = j /\ FullySold(task[r])
      BY <1>1, <1>7, <2>2 DEF Covers, Spent
    <3>2. r # p
      BY <1>2, <3>1 DEF OnStall, Claimed, t
    <3> QED
      BY <1>7, <3>1, <3>2
  <2> QED
    BY <2>1, <2>2
<1>12. Backs(q)'
  <2> SUFFICES ASSUME NEW j \in Places, listing'[q][j].price # 0
               PROVE  LET n == listing'[q][j] IN
                      /\ n.item # NoItem /\ n.slot \in Slots /\ bag[q][n.slot].item = n.item
                      /\ n.count + Claims(task', q, j) <= bag[q][n.slot].count
    BY <1>2 DEF Backs, ReservedAt, Claims
  <2>1. task' \in [Players -> Task]
    BY <1>1, <1>3, <1>5
  <2>2. /\ Claims(task', q, j) + Claim(t, q, j) = Claims(task, q, j) + Claim(u, q, j)
        /\ Claims(task, q, j) \in Nat /\ Claims(task', q, j) \in Nat
    <3>1. task \in [Players -> Task] /\ \A r \in Players : r # p => task'[r] = task[r]
      BY <1>1, <1>7
    <3>2. /\ Claims(task', q, j) + Claim(task[p], q, j) = Claims(task, q, j) + Claim(task'[p], q, j)
          /\ Claims(task, q, j) \in Nat /\ Claims(task', q, j) \in Nat
      BY <2>1, <3>1, ClaimsChange
    <3> QED
      BY <1>7, <3>2 DEF t
  <2>3. Claim(t, q, j) = 0
    BY <1>2 DEF Claim, Claimed
  <2>4. CASE j = k
    <3>1. Claim(u, q, j) = t.n
      BY <1>5, <2>4 DEF Claim, Claimed, Stages
    <3> QED
      BY <1>2, <1>3, <1>4, <1>6, <1>7, <2>2, <2>3, <2>4, <3>1 DEF Item
  <2>5. CASE j # k
    <3>1. Claim(u, q, j) = 0
      BY <1>5, <2>5 DEF Claim
    <3>2. listing'[q][j] = listing[q][j]
      BY <1>7, <2>5
    <3>3. /\ listing[q][j].item \in Item /\ listing[q][j].slot \in Slots
          /\ bag[q][listing[q][j].slot].item = listing[q][j].item
          /\ listing[q][j].count + Claims(task, q, j) <= bag[q][listing[q][j].slot].count
      BY <1>1, <3>2, PricedIs
    <3>4. Claims(task', q, j) = Claims(task, q, j)
      BY <2>2, <2>3, <3>1
    <3> QED
      BY <3>2, <3>3, <3>4 DEF Item
  <2> QED
    BY <2>4, <2>5
<1> QED
  BY <1>8, <1>9, <1>10, <1>11, <1>12 DEF Covers

\* Steps of a purchase that is not from q, or that no longer holds anything of q's.
LEMMA ElsewhereCovers ==
  ASSUME Sound, Inv', NEW p \in Players, tidy' = tidy, NEW q \in tidy,
         \A r \in Players : r # p => task'[r] = task[r],
         ~OnStall(task[p], q), ~OnStall(task'[p], q),
         task'[p].at \in {"idle", "look", "cut"} \/ task'[p].of # q,
         stall'[q] = stall[q], listing'[q] = listing[q], presence'[q] = "gone" => presence[q] = "gone", bag'[q] = bag[q]
  PROVE  Covers(q)'
<1>1. q \in Players /\ Covers(q) /\ Inv /\ bag \in [Players -> Bag]
  BY DEF Sound, Inv, TypeOK, Players
<1>2. \A s \in Slots : bag[q][s].count <= bag[q][s].count
  <2>1. \A s \in Slots : bag[q][s].count \in Nat
    BY <1>1 DEF Bag, Stack
  <2> QED
    BY <2>1
<1>3. \A r \in Players :
         /\ OnStall(task'[r], q) <=> OnStall(task[r], q)
         /\ OnStall(task[r], q) =>
              /\ task'[r].place = task[r].place /\ task'[r].n = task[r].n
              /\ task'[r].item = task[r].item /\ task'[r].snap = task[r].snap
  OBVIOUS
<1>4. \A r \in Players :
         task'[r].at \notin {"idle", "look", "cut"} /\ task'[r].of = q => task[r].at \notin {"idle", "look", "cut"} /\ task[r].of = q
  OBVIOUS
<1> QED
  BY <1>1, <1>2, <1>3, <1>4, FrameCovers

\* Place o became n when the purchase t from a stall with reservations of c units in
\* all let go of it: what is left is in bag b.
StillBacked(o, n, t, c, b) ==
  n.price # 0 =>
    /\ o.price # 0 /\ n.item = o.item /\ n.slot = o.slot
    /\ n.count = 0 => o.count = 0 /\ ~FullySold(t)
    /\ b[o.slot].item = o.item
    /\ \A d \in Nat : d + t.n = c => n.count + d <= b[o.slot].count

\* When task p lets go of place k, a place of q that keeps its price is covered if
\* its own count and slot are; the rest of the stall is as it was.
LEMMA LetGoCovers ==
  ASSUME Sound, Inv', NEW p \in Players, tidy' = tidy, NEW q \in tidy,
         OnStall(task[p], q), task'[p].at \notin Claimed, \A r \in Players : r # p => task'[r] = task[r],
         UNCHANGED <<presence, stall>>, stall[q] # "closed",
         \A j \in Places : j # task[p].place => listing'[q][j] = listing[q][j],
         StillBacked(listing[q][task[p].place], listing'[q][task[p].place], task[p],
                     Claims(task, q, task[p].place), bag'[q]),
         \A s \in Slots : s # task[p].snap.slot => bag'[q][s] = bag[q][s]
  PROVE  Covers(q)'
<1> DEFINE t == task[p]
           k == t.place
           o == listing[q][k]
           n == listing'[q][k]
<1>1. /\ q \in Players /\ Covers(q) /\ Inv /\ task \in [Players -> Task] /\ task' \in [Players -> Task]
      /\ listing \in [Players -> [Places -> Offer]]
  BY DEF Sound, Inv, TypeOK, Players
<1>2. t \in Task /\ k \in Places /\ t.n \in Nat /\ t.at \in Claimed /\ t.of = q /\ ~OnStall(task'[p], q)
  BY <1>1, BuyFacts DEF OnStall, Claimed
<1>3. ASSUME NEW r \in Players, OnStall(task'[r], q) PROVE r # p /\ task'[r] = task[r] /\ OnStall(task[r], q)
  BY <1>2, <1>3
<1>4. n.price # 0 => o.price # 0 /\ n.item = o.item /\ n.slot = o.slot /\ (n.count = 0 => o.count = 0 /\ ~FullySold(t))
  BY DEF StillBacked
<1>5. \A j \in Places : listing'[q][j].price # 0 =>
        listing[q][j].price # 0 /\ listing'[q][j].item = listing[q][j].item /\ listing'[q][j].slot = listing[q][j].slot
  BY <1>4
<1>6. Shut(q)' /\ Present(q)'
  BY <1>1 DEF Shut, Present, Covers
<1>7. Unbothered(q)'
  <2>1. t.at \notin {"idle", "look", "cut"}
    BY <1>2 DEF Claimed
  <2>2. stall[q] # "preparing"
    BY <1>1, <1>2, <2>1 DEF Covers, Unbothered
  <2> QED
    BY <2>2 DEF Unbothered
<1>8. Apart(q)'
  BY <1>1, <1>5 DEF Apart, Covers
<1>9. Honours(q)'
  BY <1>1, <1>3, <1>5 DEF Honours, Covers, Matches
<1>10. Spent(q)'
  <2> SUFFICES ASSUME NEW j \in Places, listing'[q][j].price # 0, listing'[q][j].count = 0
               PROVE  \E r \in Players : OnStall(task'[r], q) /\ task'[r].place = j /\ FullySold(task'[r])
    BY DEF Spent
  <2>1. listing[q][j].price # 0 /\ listing[q][j].count = 0 /\ (j = k => ~FullySold(t))
    BY <1>4
  <2>2. PICK r \in Players : OnStall(task[r], q) /\ task[r].place = j /\ FullySold(task[r])
    BY <1>1, <2>1 DEF Covers, Spent
  <2>3. r # p
    BY <2>1, <2>2
  <2> QED
    BY <2>2, <2>3
<1>11. Backs(q)'
  <2> SUFFICES ASSUME NEW j \in Places, listing'[q][j].price # 0
               PROVE  LET m == listing'[q][j] IN
                      /\ m.item # NoItem /\ m.slot \in Slots /\ bag'[q][m.slot].item = m.item
                      /\ m.count + Claims(task', q, j) <= bag'[q][m.slot].count
    BY DEF Backs, ReservedAt, Claims
  <2>1. /\ Claims(task', q, j) + Claim(task[p], q, j) = Claims(task, q, j) + Claim(task'[p], q, j)
        /\ Claims(task, q, j) \in Nat /\ Claims(task', q, j) \in Nat
    BY <1>1, ClaimsChange
  <2>2. Claim(task'[p], q, j) = 0
    BY <1>2 DEF Claim, OnStall
  <2>3. /\ listing[q][j] \in Offer /\ listing[q][j].item \in Item /\ listing[q][j].slot \in Slots
        /\ bag[q][listing[q][j].slot].item = listing[q][j].item
        /\ listing[q][j].count + Claims(task, q, j) <= bag[q][listing[q][j].slot].count
    BY <1>1, <1>5, PricedIs
  <2>4. CASE j # k
    <3>1. Claim(task[p], q, j) = 0
      BY <2>4 DEF Claim
    <3>2. listing[q][j].slot # t.snap.slot
      BY <1>1, <1>2, <1>5, <2>4 DEF Covers, Honours, Matches
    <3>3. bag'[q][listing[q][j].slot] = bag[q][listing[q][j].slot] /\ listing'[q][j] = listing[q][j]
      BY <2>3, <2>4, <3>2
    <3>4. Claims(task', q, j) = Claims(task, q, j)
      BY <2>1, <2>2, <3>1
    <3> QED
      BY <2>3, <3>3, <3>4 DEF Item
  <2>5. CASE j = k
    <3>1. Claim(task[p], q, j) = t.n
      BY <1>2, <2>5 DEF Claim
    <3>2. Claims(task', q, j) + t.n = Claims(task, q, j)
      BY <1>2, <2>1, <2>2, <3>1
    <3>3. bag'[q][o.slot].item = o.item /\ n.count + Claims(task', q, k) <= bag'[q][o.slot].count
      BY <2>1, <2>5, <3>2 DEF StillBacked
    <3>4. listing'[q][j].item = listing[q][j].item /\ listing'[q][j].slot = listing[q][j].slot
      BY <1>5
    <3> HIDE DEF t, k, o, n
    <3>5. o = listing[q][j] /\ n = listing'[q][j]
      BY <2>5 DEF o, n
    <3> QED
      BY <2>3, <2>5, <3>3, <3>4, <3>5 DEF Item
  <2> QED
    BY <2>4, <2>5
<1> QED
  BY <1>6, <1>7, <1>8, <1>9, <1>10, <1>11 DEF Covers

\* restore_merchant_buy gives the units back to a place that still has a price; a
\* place somebody else emptied gets none.
LEMMA RestoreCovers ==
  ASSUME Sound, Inv', NEW p \in Players, tidy' = tidy, Restore(p), NEW q \in tidy
  PROVE  Covers(q)'
<1> DEFINE t == task[p]
           k == t.place
           o == listing[t.of][k]
           n == Restored(o, t.item, t.n)
<1>1. /\ q \in Players /\ Covers(q) /\ Inv /\ task \in [Players -> Task]
      /\ listing \in [Players -> [Places -> Offer]] /\ bag \in [Players -> Bag]
  BY DEF Sound, Inv, TypeOK, Players
<1>2. /\ t \in Task /\ t.of \in Players /\ k \in Places /\ t.n \in Nat /\ t.n >= 1 /\ t.item \in Item /\ t.at = "restore"
      /\ UNCHANGED <<presence, stall, bag>>
  BY <1>1, BuyFacts DEF Restore
<1>3. listing' = [listing EXCEPT ![t.of][k] = n] /\ task' = [task EXCEPT ![p] = Idle]
  BY DEF Restore, Done
<1>4. task'[p] = Idle /\ \A r \in Players : r # p => task'[r] = task[r]
  BY <1>1, <1>3
<1>5. o \in Offer
  BY <1>1, <1>2
<1>6. /\ n.price = o.price /\ n.slot = o.slot /\ o.count \in Nat
      /\ o.item = t.item => n.item = t.item /\ n.count = Clamp(o.count + t.n, CountMod - 1)
  <2>1. t.item \in Item /\ t.n \in Nat
    BY <1>2
  <2> HIDE DEF t, k, o
  <2>2. n.price = o.price /\ n.slot = o.slot /\ o.count \in Nat
    BY <1>5, <2>1, RestoredIs
  <2>3. o.item = t.item => n.item = t.item
    BY <1>5, <2>1, RestoredIs
  <2>4. ASSUME o.item = t.item PROVE n.count = Clamp(o.count + t.n, CountMod - 1)
    BY <1>5, <2>4 DEF Restored, Offer
  <2> QED
    BY <2>2, <2>3, <2>4
<1> HIDE DEF n
<1>7. /\ listing'[t.of][k] = n /\ \A j \in Places : j # k => listing'[t.of][j] = listing[t.of][j]
      /\ \A r \in Players : r # t.of => listing'[r] = listing[r]
  BY <1>1, <1>2, <1>3
<1>8. CASE t.of # q
  <2>1. ~OnStall(task[p], q) /\ ~OnStall(task'[p], q) /\ task'[p].at = "idle"
    BY <1>4, <1>8, IdleIs DEF OnStall, Claimed
  <2>2. listing'[q] = listing[q] /\ bag' = bag /\ presence' = presence /\ stall' = stall
    BY <1>1, <1>2, <1>7, <1>8
  <2> QED
    BY <1>4, <2>1, <2>2, ElsewhereCovers
<1>9. CASE t.of = q /\ stall[q] = "closed"
  <2>1. \A j \in Places : listing[q][j].price = 0
    BY <1>1, <1>9 DEF Covers, Shut
  <2>2. \A j \in Places : listing'[q][j].price = 0
    BY <1>2, <1>6, <1>7, <1>9, <2>1
  <2> QED
    BY <1>1, <1>2, <1>9, <2>2, ClosedCovers
<1>10. CASE t.of = q /\ stall[q] # "closed"
  <2>1. OnStall(task[p], q) /\ task'[p].at \notin Claimed
    BY <1>2, <1>4, <1>10, IdleIs DEF OnStall, Claimed, Stages
  <2>2. ASSUME o.price # 0
        PROVE  /\ n.item = o.item /\ n.slot = o.slot /\ n.count # 0 /\ bag'[q][o.slot].item = o.item
               /\ \A d \in Nat : d + t.n = Claims(task, q, k) => n.count + d <= bag'[q][o.slot].count
    <3>0. o = listing[q][k]
      BY <1>10
    <3>1. o.item = t.item
      BY <1>1, <1>2, <1>10, <2>1, <2>2 DEF Covers, Honours, Matches
    <3>4. /\ bag[q][o.slot].item = o.item /\ bag[q][o.slot].count \in Nat
          /\ o.count + Claims(task, q, k) <= bag[q][o.slot].count /\ Claims(task, q, k) \in Nat
      BY <1>1, <1>2, <1>10, <2>2, PricedIs
    <3>5. bag' = bag
      BY <1>2
    <3> HIDE DEF t, k, o
    <3>2. n.item = o.item /\ n.count = Clamp(o.count + t.n, CountMod - 1)
      BY <1>6, <3>1
    <3>3. n.count # 0 /\ n.count <= o.count + t.n /\ n.count \in Nat
      BY <1>2, <1>6, <3>2 DEF Clamp
    <3>6. \A d \in Nat : d + t.n = Claims(task, q, k) => n.count + d <= bag[q][o.slot].count
      BY <1>2, <1>6, <3>3, <3>4
    <3> QED
      BY <1>6, <3>2, <3>3, <3>4, <3>5, <3>6
  <2>3. /\ listing'[q][k] = n /\ listing[q][k] = o /\ \A j \in Places : j # k => listing'[q][j] = listing[q][j]
        /\ \A s \in Slots : bag'[q][s] = bag[q][s]
        /\ UNCHANGED <<presence, stall>>
    BY <1>2, <1>7, <1>10
  <2>4. n.price # 0 => o.price # 0
    BY <1>6
  <2>5. StillBacked(o, n, t, Claims(task, q, k), bag'[q])
    <3> HIDE DEF t, k, o
    <3> QED
      BY <2>2, <2>4 DEF StillBacked
  <2>6. StillBacked(listing[q][task[p].place], listing'[q][task[p].place], task[p],
                    Claims(task, q, task[p].place), bag'[q])
    BY <2>3, <2>5
  <2> QED
    BY <1>4, <1>10, <2>1, <2>3, <2>6, LetGoCovers
<1> QED
  BY <1>8, <1>9, <1>10

\* The sale is settled: the units leave the bag as they leave the reservations, and
\* a place whose slot is cleared has no price any more.
LEMMA SettleCovers ==
  ASSUME Sound, Inv', NEW p \in Players, tidy' = tidy, Settle(p), NEW q \in tidy
  PROVE  Covers(q)'
<1> DEFINE t == task[p]
           k == t.place
           o == listing[q][k]
<1>1. /\ q \in Players /\ Covers(q) /\ Inv /\ task \in [Players -> Task]
      /\ listing \in [Players -> [Places -> Offer]] /\ bag \in [Players -> Bag]
  BY DEF Sound, Inv, TypeOK, Players
<1>2. /\ t \in Task /\ t.of \in Players /\ k \in Places /\ t.n \in Nat /\ t.n >= 1 /\ t.item \in Item /\ t.at = "settle"
      /\ UNCHANGED <<presence, stall>>
  BY <1>1, BuyFacts DEF Settle
<1>3. /\ task'[p].at = "close" /\ task'[p].of = t.of /\ \A r \in Players : r # p => task'[r] = task[r]
  BY <1>1 DEF Settle, Goto, Task
<1>4. CASE t.of # q
  <2>1. ~OnStall(task[p], q) /\ ~OnStall(task'[p], q) /\ task'[p].of # q
    BY <1>3, <1>4 DEF OnStall
  <2>2. listing'[q] = listing[q] /\ bag'[q] = bag[q]
    BY <1>1, <1>4 DEF Settle
  <2> QED
    BY <1>2, <1>3, <2>1, <2>2, ElsewhereCovers
<1>5. CASE t.of = q /\ stall[q] = "closed"
  <2>1. \A j \in Places : listing[q][j].price = 0
    BY <1>1, <1>5 DEF Covers, Shut
  <2>2. [NoOffer EXCEPT !.soldOut = TRUE].price = 0
    BY DEF NoOffer
  <2>3. \A j \in Places : listing'[q][j].price = 0
    BY <1>1, <1>2, <1>5, <2>1, <2>2 DEF Settle
  <2> QED
    BY <1>1, <1>2, <1>5, <2>3, ClosedCovers
<1>6. CASE t.of = q /\ stall[q] # "closed"
  <2>1. presence[q] # "gone"
    BY <1>1, <1>6 DEF Covers, Present
  <2>2. OnStall(task[p], q) /\ task'[p].at \notin Claimed
    BY <1>2, <1>3, <1>6 DEF OnStall, Claimed, Stages
  <2>3. bag' = [bag EXCEPT ![q] = SettledBag(bag[q], t)]
    BY <1>6, <2>1 DEF Settle
  <2>4. \A s \in Slots : bag'[q][s] = IF s = t.snap.slot THEN Settled(bag[q][s], t) ELSE bag[q][s]
    BY <1>1, <2>3 DEF SettledBag
  <2>5. CASE FullySold(t)
    <3>1. listing' = [listing EXCEPT ![q][k] = [NoOffer EXCEPT !.soldOut = TRUE]]
      BY <1>6, <2>1, <2>5 DEF Settle
    <3>2. listing'[q][k].price = 0 /\ \A j \in Places : j # k => listing'[q][j] = listing[q][j]
      BY <1>1, <1>2, <3>1 DEF NoOffer
    <3>3. StillBacked(listing[q][task[p].place], listing'[q][task[p].place], task[p],
                      Claims(task, q, task[p].place), bag'[q])
      BY <3>2 DEF StillBacked
    <3> QED
      BY <1>2, <1>3, <1>6, <2>2, <2>4, <3>2, <3>3, LetGoCovers
  <2>6. CASE ~FullySold(t)
    <3>1. listing' = listing
      BY <2>6 DEF Settle
    <3>2. ASSUME o.price # 0
          PROVE  /\ bag'[q][o.slot].item = o.item
                 /\ \A d \in Nat : d + t.n = Claims(task, q, k) => o.count + d <= bag'[q][o.slot].count
      <4>1. /\ bag[q][o.slot].item = o.item /\ bag[q][o.slot].count \in Nat /\ o.slot \in Slots /\ o.count \in Nat
            /\ o.count + Claims(task, q, k) <= bag[q][o.slot].count /\ Claims(task, q, k) \in Nat
        BY <1>1, <1>2, <3>2, PricedIs
      <4>2. t.snap.slot = o.slot /\ t.item = o.item
        BY <1>1, <1>2, <2>2, <3>2 DEF Covers, Honours, Matches
      <4>3. Claim(task[p], q, k) = t.n
        BY <2>2 DEF Claim, OnStall
      <4>4. t.n < bag[q][o.slot].count
        <5>1. CASE o.count # 0
          <6>1. t.n <= Claims(task, q, k)
            BY <1>1, <4>3, ClaimsChange
          <6> QED
            BY <1>2, <4>1, <5>1, <6>1
        <5>2. CASE o.count = 0
          <6>1. PICK r \in Players : OnStall(task[r], q) /\ task[r].place = k /\ FullySold(task[r])
            BY <1>1, <1>2, <3>2, <5>2 DEF Covers, Spent
          <6>2. r # p
            BY <2>6, <6>1
          <6>3. Claim(task[r], q, k) = task[r].n /\ task[r].n >= 1 /\ task[r].n \in Nat
            <7>1. Claim(task[r], q, k) = task[r].n
              BY <6>1 DEF Claim, OnStall
            <7>2. task[r].at \notin {"idle", "look", "cut"}
              BY <6>1 DEF OnStall, Claimed
            <7> QED
              BY <1>1, <7>1, <7>2, BuyFacts
          <6>4. Claim(task[p], q, k) + Claim(task[r], q, k) <= Claims(task, q, k)
            BY <1>1, <6>2, TwoClaims
          <6> QED
            BY <1>2, <4>1, <4>3, <5>2, <6>3, <6>4
        <5> QED
          BY <5>1, <5>2
      <4>5. bag[q][o.slot] \in Stack
        BY <1>1, <4>1 DEF Bag
      <4>6. Settled(bag[q][o.slot], t).item = o.item /\ Settled(bag[q][o.slot], t).count = bag[q][o.slot].count - t.n
        BY <1>2, <2>6, <4>1, <4>2, <4>4, <4>5, SettledIs
      <4>7. bag'[q][o.slot] = Settled(bag[q][o.slot], t)
        BY <2>4, <4>1, <4>2
      <4> HIDE DEF t, k, o
      <4>8. \A d \in Nat : d + t.n = Claims(task, q, k) => o.count + d <= bag[q][o.slot].count - t.n
        BY <1>2, <4>1
      <4> QED
        BY <4>6, <4>7, <4>8
    <3>3. StillBacked(listing[q][task[p].place], listing'[q][task[p].place], task[p],
                      Claims(task, q, task[p].place), bag'[q])
      BY <2>6, <3>1, <3>2 DEF StillBacked
    <3>4. \A j \in Places : listing'[q][j] = listing[q][j]
      BY <3>1
    <3> QED
      BY <1>2, <1>3, <1>6, <2>2, <2>4, <3>3, <3>4, LetGoCovers
  <2> QED
    BY <2>5, <2>6
<1> QED
  BY <1>4, <1>5, <1>6

\* The buyer's last step closes an empty stall.
LEMMA CloseIfSoldCovers ==
  ASSUME Sound, Inv', NEW p \in Players, tidy' = tidy, CloseIfSold(p), NEW q \in tidy
  PROVE  Covers(q)'
<1> DEFINE of == task[p].of
<1>1. /\ q \in Players /\ Covers(q) /\ Inv /\ task \in [Players -> Task] /\ of \in Players
      /\ listing \in [Players -> [Places -> Offer]] /\ presence \in [Players -> {"here", "away", "gone"}]
      /\ stall \in [Players -> {"closed", "preparing", "open"}]
  BY BuyFacts DEF Sound, Inv, TypeOK, Players, CloseIfSold
<1>2. task'[p] = Idle /\ (\A r \in Players : r # p => task'[r] = task[r]) /\ bag' = bag /\ task[p].at = "close"
  BY <1>1 DEF CloseIfSold, Done
<1>3. \/ UNCHANGED <<presence, shop>>
      \/ /\ stall' = [stall EXCEPT ![of] = "closed"] /\ listing' = [listing EXCEPT ![of] = [k \in Places |-> NoOffer]]
         /\ presence' = [presence EXCEPT ![of] = IF @ = "away" THEN "gone" ELSE @]
  BY DEF CloseIfSold, CloseStall
<1>4. CASE of = q /\ stall' = [stall EXCEPT ![of] = "closed"] /\ listing' = [listing EXCEPT ![of] = [k \in Places |-> NoOffer]]
  <2>1. stall'[q] = "closed" /\ \A k \in Places : listing'[q][k].price = 0
    BY <1>1, <1>4, EmptyIs
  <2> QED
    BY <1>1, <2>1, ClosedCovers
<1>5. CASE of # q \/ UNCHANGED <<presence, shop>>
  <2> HIDE DEF of
  <2>1. stall'[q] = stall[q] /\ listing'[q] = listing[q] /\ presence'[q] = presence[q]
    BY <1>1, <1>3, <1>5 DEF shop
  <2>2. ~OnStall(task[p], q) /\ ~OnStall(task'[p], q) /\ task'[p].at = "idle"
    BY <1>2, IdleIs DEF OnStall, Claimed
  <2> QED
    BY <1>2, <2>1, <2>2, ElsewhereCovers
<1> QED
  BY <1>3, <1>4, <1>5

LEMMA HangUpCovers ==
  ASSUME Sound, Inv', NEW p \in Players, tidy' = tidy, HangUp(p), NEW q \in tidy
  PROVE  Covers(q)'
<1>1. q \in Players /\ Inv
  BY DEF Sound, Inv, TypeOK, Players
<1>2. /\ task'[p].at = "cut" /\ (\A r \in Players : r # p => task'[r] = task[r]) /\ task[p].at = "close" /\ bag' = bag /\ Vanished(p)
  BY <1>1, HangUpIs
<1>3. CASE p = q
  <2>1. stall'[q] = "closed" /\ \A k \in Places : listing'[q][k].price = 0
    BY <1>1, <1>2, <1>3, EmptyIs DEF Vanished, Inv, TypeOK
  <2> QED
    BY <1>1, <2>1, ClosedCovers
<1>4. CASE p # q
  <2>1. stall'[q] = stall[q] /\ listing'[q] = listing[q] /\ presence'[q] = presence[q]
    BY <1>1, <1>2, <1>4 DEF Vanished, Inv, TypeOK
  <2>2. ~OnStall(task[p], q) /\ ~OnStall(task'[p], q)
    BY <1>2 DEF OnStall, Claimed
  <2> QED
    BY <1>2, <2>1, <2>2, ElsewhereCovers
<1> QED
  BY <1>3, <1>4

LEMMA LookingCovers ==
  ASSUME Sound, Inv', NEW p \in Players, tidy' = tidy, NEW q \in tidy,
         (\E r \in Keepers : Browse(p, r)) \/ Look(p) \/ StopBrowsing(p)
         \/ (\E k \in Places, n \in Amounts, d \in Slots : StartBuy(p, k, n, d))
  PROVE  Covers(q)'
<1>1. Inv /\ task \in [Players -> Task] /\ q \in Players
  BY DEF Sound, Inv, TypeOK, Players
<1>2. CASE (\E r \in Keepers : Browse(p, r)) \/ Look(p) \/ StopBrowsing(p)
  <2>1. UNCHANGED <<presence, shop, bag>> /\ task[p].at \notin Claimed
        /\ \E t \in Task : t.at \in {"idle", "look", "cut"} /\ task' = [task EXCEPT ![p] = t]
    <3>1. ASSUME NEW r \in Keepers, Browse(p, r)
          PROVE  UNCHANGED <<presence, shop, bag>> /\ task[p].at = "idle"
                 /\ \E t \in Task : t.at = "look" /\ task' = [task EXCEPT ![p] = t]
      <4> DEFINE t == [Idle EXCEPT !.at = "look", !.of = r]
      <4>1. t \in Task /\ t.at = "look"
        BY IdleIs DEF Task, Stages, Players
      <4>2. task' = [task EXCEPT ![p] = t]
        BY <3>1 DEF Browse
      <4> HIDE DEF t
      <4> QED
        BY <3>1, <4>1, <4>2 DEF Browse, Ready
    <3>2. CASE Look(p)
      BY <3>2, IdleIs DEF Look, Claimed
    <3>3. CASE StopBrowsing(p)
      <4>1. task[p] \in Task /\ task[p].at = "idle" /\ task' = [task EXCEPT ![p] = task[p]]
        BY <1>1, <3>3 DEF StopBrowsing, Ready
      <4>2. UNCHANGED <<presence, shop, bag>>
        BY <3>3 DEF StopBrowsing
      <4> QED
        BY <4>1, <4>2 DEF Claimed
    <3> QED
      BY <1>2, <3>1, <3>2, <3>3 DEF Claimed
  <2>2. PICK t \in Task : t.at \in {"idle", "look", "cut"} /\ task' = [task EXCEPT ![p] = t]
    BY <2>1
  <2>3. t.at \notin Claimed
    BY <2>2 DEF Claimed
  <2> QED
    BY <2>1, <2>2, <2>3, ShopperCovers
<1>3. ASSUME NEW k \in Places, NEW n \in Amounts, NEW d \in Slots, StartBuy(p, k, n, d) PROVE Covers(q)'
  <2>1. PICK r \in Players, t \in Task :
          /\ r # p /\ stall[r] = "open" /\ stall[p] = "closed" /\ task[p].at = "idle"
          /\ Known(t) /\ t.at = "reserve" /\ t.of = r /\ task' = [task EXCEPT ![p] = t]
          /\ UNCHANGED <<presence, shop, view, money, bag>>
    BY <1>1, <1>3, StartBuyIs
  <2>2. t.at \notin Claimed /\ task[p].at \notin Claimed
    BY <2>1 DEF Claimed
  <2> QED
    BY <2>1, <2>2, ShopperCovers
<1> QED
  BY <1>2, <1>3

LEMMA PlaceCovers ==
  ASSUME Sound, Inv', NEW p \in Players, tidy' = tidy, NEW q \in tidy, Reserve(p) \/ Restore(p)
  PROVE  Covers(q)'
<1> DEFINE t == task[p]
<1>1. Inv /\ task \in [Players -> Task] /\ q \in Players /\ listing \in [Players -> [Places -> Offer]]
  BY DEF Sound, Inv, TypeOK, Players
<1>2. CASE Restore(p)
  BY <1>2, RestoreCovers
<1>3. CASE Reserve(p) /\ ~Offers(listing[t.of][t.place], t.item, t.n)
  <2>1. task' = [task EXCEPT ![p] = Idle] /\ UNCHANGED <<presence, shop, bag>> /\ task[p].at = "reserve"
    BY <1>3 DEF Reserve, Done, shop
  <2>2. Idle \in Task /\ Idle.at = "idle" /\ Idle.at \notin Claimed /\ task[p].at \notin Claimed
    BY <2>1, IdleIs DEF Claimed
  <2> QED
    BY <2>1, <2>2, ShopperCovers
<1>4. CASE Reserve(p) /\ Offers(listing[t.of][t.place], t.item, t.n)
  <2>1. CASE t.of = q
    BY <1>4, <2>1, ReserveCovers
  <2>2. CASE t.of # q
    <3>1. /\ task'[p].of = t.of /\ \A r \in Players : r # p => task'[r] = task[r]
          /\ listing'[q] = listing[q] /\ UNCHANGED <<presence, stall, bag>>
      BY <1>1, <1>4, <2>2 DEF Reserve, Task
    <3> QED
      BY <2>2, <3>1, ElsewhereCovers DEF OnStall
  <2> QED
    BY <2>1, <2>2
<1> QED
  BY <1>2, <1>3, <1>4

\* Who buys keeps no stall.
LEMMA BuyerKeepsNoStall ==
  ASSUME Sound, NEW p \in Players, Step(p), NEW r \in Players, task'[r].at \notin {"idle", "look", "cut"}
  PROVE  stall'[r] = "closed"
<1>1. /\ Inv /\ task \in [Players -> Task] /\ stall \in [Players -> {"closed", "preparing", "open"}]
      /\ task[r].at \notin {"idle", "look", "cut"} => stall[r] = "closed"
  BY DEF Sound, Inv, TypeOK
<1>2. CASE KeeperStep(p) \/ Quit(p) \/ (\E f \in Finds : FindItem(p, f[1], f[2])) \/ (\E m \in Moves : MoveItem(p, m[1], m[2]))
  <2>1. task' = task /\ stall[r] = "closed"
    BY <1>1, <1>2 DEF KeeperStep, Quit, Open, Close, Insert, GoAway, Expire, Post, Withdraw, FindItem, MoveItem
  <2>2. CASE p # r
    BY <1>1, <1>2, <2>1, <2>2 DEF KeeperStep, Quit, Open, Close, Insert, GoAway, Expire, CloseStall, Post, Withdraw, FindItem, MoveItem, shop
  <2>3. CASE p = r
    BY <1>1, <1>2, <2>1, <2>3 DEF KeeperStep, Quit, Open, Close, Insert, GoAway, Expire, CloseStall, Post, Withdraw, FindItem, MoveItem, shop, Ready
  <2> QED
    BY <2>2, <2>3
<1>3. CASE (\E q \in Keepers : Browse(p, q)) \/ Look(p) \/ StopBrowsing(p)
  <2>1. stall' = stall
    BY <1>3 DEF Browse, Look, StopBrowsing, shop
  <2>2. r # p \/ Look(p) \/ StopBrowsing(p) => task'[r] = task[r] \/ task'[r] = Idle
    BY <1>1, <1>3 DEF Browse, Look, StopBrowsing
  <2>3. (\E q \in Keepers : Browse(p, q)) => task'[p].at = "look"
    BY <1>1, IdleIs DEF Browse, Task
  <2> QED
    BY <1>1, <1>3, <2>1, <2>2, <2>3, IdleIs
<1>4. CASE \E k \in Places, n \in Amounts, d \in Slots : StartBuy(p, k, n, d)
  BY <1>1, <1>4 DEF StartBuy, shop
<1>5. CASE BuyStep(p)
  <2>1. task[p].at \notin {"idle", "look", "cut"} /\ \A x \in Players : x # p => task'[x] = task[x]
    BY <1>1, <1>5 DEF BuyStep, Reserve, CheckGold, PayCash, Restore, Charge, Credit, CashRead, CashWrite,
                      Deliver, Settle, CloseIfSold, Goto, Done
  <2>2. stall[r] = "closed"
    BY <1>1, <2>1
  <2>3. CASE ~CloseIfSold(p)
    BY <1>5, <2>2, <2>3 DEF BuyStep, Reserve, CheckGold, PayCash, Restore, Charge, Credit, CashRead, CashWrite,
                      Deliver, Settle, shop
  <2>4. CASE CloseIfSold(p)
    BY <1>1, <2>2, <2>4 DEF CloseIfSold, CloseStall, shop
  <2> QED
    BY <2>3, <2>4
<1>6. CASE HangUp(p)
  <2>1. r # p /\ task'[r] = task[r] /\ stall' = [stall EXCEPT ![p] = "closed"]
    BY <1>1, <1>6, HangUpIs DEF Vanished
  <2> QED
    BY <1>1, <2>1
<1> QED
  BY <1>2, <1>3, <1>4, <1>5, <1>6 DEF Step, ShopperStep

LEMMA SoundStep == Sound /\ [Next]_vars => Sound'
<1> SUFFICES ASSUME Sound, [Next]_vars PROVE Sound'
  OBVIOUS
<1>1. Inv'
  BY StepInv DEF Sound
<1>2. CASE UNCHANGED vars
  <2>1. /\ presence' = presence /\ stall' = stall /\ listing' = listing /\ bag' = bag /\ task' = task /\ tidy' = tidy
    BY <1>2 DEF vars, shop, money, view
  <2>2. ASSUME NEW q \in tidy PROVE Covers(q)'
    <3>1. Covers(q)
      BY DEF Sound
    <3>2. Shut(q)' /\ Unbothered(q)' /\ Present(q)' /\ Apart(q)' /\ Honours(q)' /\ Spent(q)'
      BY <2>1, <3>1 DEF Covers, Shut, Unbothered, Present, Apart, Honours, Spent
    <3>3. Backs(q)'
      BY <2>1, <3>1 DEF Covers, Backs, ReservedAt
    <3> QED
      BY <3>2, <3>3 DEF Covers
  <2> QED
    BY <1>1, <2>1, <2>2 DEF Sound
<1>3. ASSUME NEW p \in Players, Step(p), tidy' = tidy PROVE Sound'
  <2>1. \A r \in Players : task'[r].at \notin {"idle", "look", "cut"} => stall'[r] = "closed"
    BY <1>3, BuyerKeepsNoStall
  <2>2. ASSUME NEW q \in tidy PROVE Covers(q)'
    <3>1. CASE KeeperStep(p) \/ Quit(p)
      BY <1>1, <1>3, <3>1, KeeperCovers
    <3>2. CASE (\E f \in Finds : FindItem(p, f[1], f[2])) \/ (\E m \in Moves : MoveItem(p, m[1], m[2]))
      BY <1>1, <1>3, <3>2, ServerCovers
    <3>3. CASE ShopperStep(p) /\ ~BuyStep(p)
      BY <1>1, <1>3, <3>3, LookingCovers DEF ShopperStep
    <3>4. CASE BuyStep(p)
      BY <1>1, <1>3, <3>4, PlaceCovers, AdvanceCovers, SettleCovers, CloseIfSoldCovers DEF BuyStep
    <3>5. CASE HangUp(p)
      BY <1>1, <1>3, <3>5, HangUpCovers
    <3> QED
      BY <1>3, <3>1, <3>2, <3>3, <3>4, <3>5 DEF Step, ShopperStep
  <2> QED
    BY <1>1, <1>3, <2>1, <2>2 DEF Sound
<1> QED
  BY <1>2, <1>3 DEF Next

\* No unit is promised to two shoppers: what a tidy keeper has on offer and what
\* purchases hold reserved is in the slot it was posted from, at every point of any
\* number of simultaneous purchases (try_merchant_buy and its undo).
THEOREM StockIsCovered == Spec => []StockCovers
<1>1. Init => Sound
  BY InitSound
<1>2. Sound /\ [Next]_vars => Sound'
  BY SoundStep
<1>3. Sound => StockCovers
  BY SoundCovers
<1> QED
  BY <1>1, <1>2, <1>3, PTL DEF Spec

-----------------------------------------------------------------------------
(* GoldNeverGrows.  A purse that was large enough when it was looked at    *)
(* still is when the gold is taken: nobody else takes gold from it.        *)

Paid == \A p \in Players : task[p].at = "charge" => gold[p] >= Cost(p)

Due(t) == IF t.at = "credit" THEN t.snap.price * t.n ELSE 0

LEMMA InTransitIs == InTransit = SumFunction([p \in Players |-> Due(task[p])])
BY DEF InTransit, Due, Cost

LEMMA DueTyped ==
  ASSUME NEW tk \in [Players -> Task]
  PROVE  [p \in Players |-> Due(tk[p])] \in [Players -> Nat]
<1>1. ASSUME NEW p \in Players PROVE Due(tk[p]) \in Nat
  <2>1. tk[p].snap \in Offer /\ tk[p].n \in Nat
    BY DEF Task
  <2>2. tk[p].snap.price \in Nat
    BY <2>1 DEF Offer
  <2> QED
    BY <2>1, <2>2 DEF Due
<1> QED
  BY <1>1

\* Every step that is not one of the three at a purse.
LEMMA OtherSteps ==
  ASSUME Inv, NEW p \in Players, Step(p), ~CheckGold(p), ~Charge(p), ~Credit(p)
  PROVE  /\ gold' = gold
         /\ \A r \in Players : r # p => task'[r] = task[r]
         /\ task'[p] = task[p] \/ (task[p].at # "credit" /\ task'[p].at \notin {"charge", "credit"})
<1>1. task \in [Players -> Task] /\ task[p] \in Task
  BY DEF Inv, TypeOK
<1>2. CASE KeeperStep(p) \/ Quit(p) \/ (\E f \in Finds : FindItem(p, f[1], f[2])) \/ (\E m \in Moves : MoveItem(p, m[1], m[2]))
  BY <1>2 DEF KeeperStep, Quit, Open, Close, Insert, GoAway, Expire, Post, Withdraw, FindItem, MoveItem, money
<1>3. CASE (\E q \in Keepers : Browse(p, q)) \/ Look(p) \/ StopBrowsing(p)
  <2>1. gold' = gold /\ \A r \in Players : r # p => task'[r] = task[r]
    BY <1>1, <1>3 DEF Browse, Look, StopBrowsing, Done, money
  <2>3. (\E q \in Keepers : Browse(p, q)) => task[p].at = "idle" /\ task'[p].at = "look"
    BY <1>1, IdleIs DEF Browse, Task, Ready
  <2>4. Look(p) => task[p].at = "look" /\ task'[p].at = "idle"
    BY <1>1, IdleIs DEF Look
  <2>5. StopBrowsing(p) => task'[p] = task[p]
    BY DEF StopBrowsing
  <2> QED
    BY <1>3, <2>1, <2>3, <2>4, <2>5
<1>4. ASSUME NEW k \in Places, NEW n \in Amounts, NEW d \in Slots, StartBuy(p, k, n, d)
      PROVE  gold' = gold /\ (\A r \in Players : r # p => task'[r] = task[r])
             /\ task[p].at = "idle" /\ task'[p].at = "reserve"
  <2>1. PICK q \in Players, t \in Task :
          /\ q # p /\ stall[q] = "open" /\ stall[p] = "closed" /\ task[p].at = "idle"
          /\ Known(t) /\ t.at = "reserve" /\ t.of = q /\ task' = [task EXCEPT ![p] = t]
          /\ UNCHANGED <<presence, shop, view, money, bag>>
    BY <1>4, StartBuyIs
  <2> QED
    BY <1>1, <2>1 DEF money
<1>5. CASE BuyStep(p)
  <2>1. gold' = gold /\ \A r \in Players : r # p => task'[r] = task[r]
    BY <1>1, <1>5 DEF BuyStep, Reserve, PayCash, Restore, CashRead, CashWrite, Deliver, Settle, CloseIfSold, Goto, Done, money
  <2>2. CASE Reserve(p)
    BY <1>1, <2>1, <2>2, IdleIs DEF Reserve, Done, Task
  <2>3. CASE Restore(p) \/ CloseIfSold(p)
    BY <1>1, <2>1, <2>3, IdleIs DEF Restore, CloseIfSold, Done
  <2>4. CASE PayCash(p) \/ CashWrite(p) \/ Deliver(p) \/ Settle(p)
    BY <1>1, <2>1, <2>4 DEF PayCash, CashWrite, Deliver, Settle, Goto, Task
  <2>5. CASE CashRead(p)
    BY <1>1, <2>1, <2>5 DEF CashRead, Task
  <2> QED
    BY <1>5, <2>1, <2>2, <2>3, <2>4, <2>5 DEF BuyStep
<1>6. CASE HangUp(p)
  BY <1>1, <1>6, HangUpIs
<1> QED
  BY <1>2, <1>3, <1>4, <1>5, <1>6 DEF Step, ShopperStep

\* The three steps at a purse: what is due and what is in the purses moves.
LEMMA PurseSteps ==
  ASSUME Inv, NEW p \in Players, CheckGold(p) \/ Charge(p) \/ Credit(p)
  PROVE  /\ task'[p].snap = task[p].snap /\ task'[p].n = task[p].n
         /\ \A r \in Players : r # p => task'[r] = task[r]
         /\ CheckGold(p) => gold' = gold /\ task[p].at = "pay" /\ task'[p].at \in {"charge", "restore"}
                            /\ (task'[p].at = "charge" => gold[p] >= Cost(p))
         /\ Charge(p) => /\ task[p].at = "charge" /\ task'[p].at = "credit"
                         /\ gold' = [gold EXCEPT ![p] = IF @ >= Cost(p) THEN @ - Cost(p) ELSE @]
         /\ Credit(p) => /\ task[p].at = "credit" /\ task'[p].at = "deliver" /\ task[p].of \in Players
                         /\ \/ gold' = gold
                            \/ gold' = [gold EXCEPT ![task[p].of] = GoldGain(@, Cost(p))]
<1>1. task \in [Players -> Task] /\ task[p] \in Task
  BY DEF Inv, TypeOK
<1>2. /\ task'[p].snap = task[p].snap /\ task'[p].n = task[p].n
      /\ \A r \in Players : r # p => task'[r] = task[r]
  BY <1>1 DEF CheckGold, Charge, Credit, Goto, Task
<1>3. CheckGold(p) => gold' = gold /\ task[p].at = "pay" /\ task'[p].at \in {"charge", "restore"}
                      /\ (task'[p].at = "charge" => gold[p] >= Cost(p))
  BY <1>1 DEF CheckGold, Goto, Task, money
<1>4. Charge(p) => /\ task[p].at = "charge" /\ task'[p].at = "credit"
                   /\ gold' = [gold EXCEPT ![p] = IF @ >= Cost(p) THEN @ - Cost(p) ELSE @]
  BY <1>1 DEF Charge, Goto, Task
<1>5. Credit(p) => /\ task[p].at = "credit" /\ task'[p].at = "deliver" /\ task[p].of \in Players
                   /\ \/ gold' = gold
                      \/ gold' = [gold EXCEPT ![task[p].of] = GoldGain(@, Cost(p))]
  BY <1>1, BuyFacts DEF Credit, Goto, Task
<1> QED
  BY <1>2, <1>3, <1>4, <1>5

LEMMA GoldGainIs ==
  ASSUME NEW coins \in 0 .. CoinMax, NEW n \in Nat
  PROVE  GoldGain(coins, n) \in Nat /\ coins <= GoldGain(coins, n) /\ GoldGain(coins, n) <= coins + n
BY DEF GoldGain, Clamp

LEMMA CostIs ==
  ASSUME Inv, NEW p \in Players
  PROVE  Cost(p) \in Nat /\ Cost(p) = task[p].snap.price * task[p].n
<1>1. task[p].snap \in Offer /\ task[p].n \in Nat
  BY DEF Inv, TypeOK, Task
<1>2. task[p].snap.price \in Nat
  BY <1>1 DEF Offer
<1> QED
  BY <1>1, <1>2 DEF Cost

LEMMA PaidStep ==
  ASSUME Inv, Inv', Paid, NEW p \in Players, Step(p)
  PROVE  Paid'
<1> SUFFICES ASSUME NEW r \in Players, task'[r].at = "charge"
             PROVE  gold'[r] >= task'[r].snap.price * task'[r].n
  BY DEF Paid, Cost
<1>1. Cost(r) \in Nat /\ Cost(r) = task[r].snap.price * task[r].n /\ Cost(p) \in Nat
  BY CostIs
<1>2. gold \in [Players -> 0 .. CoinMax] /\ task \in [Players -> Task]
  BY DEF Inv, TypeOK
<1>3. CASE ~CheckGold(p) /\ ~Charge(p) /\ ~Credit(p)
  <2>1. gold' = gold /\ task'[r] = task[r]
    BY <1>3, OtherSteps
  <2> QED
    BY <1>1, <2>1 DEF Paid
<1>4. CASE CheckGold(p)
  <2>1. gold' = gold /\ task'[r].snap = task[r].snap /\ task'[r].n = task[r].n
        /\ (r = p => gold[p] >= Cost(p)) /\ (r # p => task[r].at = "charge")
    BY <1>4, PurseSteps
  <2> QED
    BY <1>1, <2>1 DEF Paid
<1>5. CASE Charge(p)
  <2>1. r # p
    BY <1>5, PurseSteps
  <2>2. gold'[r] = gold[r] /\ task'[r] = task[r]
    BY <1>2, <1>5, <2>1, PurseSteps
  <2> QED
    BY <1>1, <2>2 DEF Paid
<1>6. CASE Credit(p)
  <2>1. r # p
    BY <1>6, PurseSteps
  <2>2. task'[r] = task[r]
    BY <1>6, <2>1, PurseSteps
  <2>3. gold'[r] = gold[r] \/ gold'[r] = GoldGain(gold[r], Cost(p))
    BY <1>2, <1>6, PurseSteps
  <2>4. GoldGain(gold[r], Cost(p)) >= gold[r] /\ GoldGain(gold[r], Cost(p)) \in Nat /\ gold[r] \in Nat
    BY <1>1, <1>2, GoldGainIs
  <2>5. gold[r] >= Cost(r) /\ gold'[r] >= gold[r] /\ gold'[r] \in Nat
    BY <2>2, <2>3, <2>4 DEF Paid
  <2> QED
    BY <1>1, <2>2, <2>4, <2>5
<1> QED
  BY <1>3, <1>4, <1>5, <1>6

LEMMA GoldStep ==
  ASSUME Inv, Inv', Paid, NEW p \in Players, Step(p)
  PROVE  SumFunction(gold)' + InTransit' <= SumFunction(gold) + InTransit
<1> DEFINE f == [r \in Players |-> Due(task[r])]
           g == [r \in Players |-> Due(task'[r])]
<1>1. task \in [Players -> Task] /\ task' \in [Players -> Task] /\ gold \in [Players -> 0 .. CoinMax] /\ gold' \in [Players -> 0 .. CoinMax]
  BY DEF Inv, TypeOK
<1>2. f \in [Players -> Nat] /\ g \in [Players -> Nat] /\ gold \in [Players -> Nat] /\ gold' \in [Players -> Nat]
  BY <1>1, DueTyped
<1>3. InTransit = SumFunction(f) /\ InTransit' = SumFunction(g)
  BY InTransitIs DEF InTransit, Due, Cost
<1>4. \A r \in Players : r # p => task'[r] = task[r]
  BY OtherSteps, PurseSteps
<1>5. f[p] = Due(task[p]) /\ g[p] = Due(task'[p]) /\ \A r \in Players : r # p => g[r] = f[r]
  BY <1>4
<1> HIDE DEF f, g
<1>6. /\ SumFunction(g) + f[p] = SumFunction(f) + g[p]
      /\ SumFunction(f) \in Nat /\ SumFunction(g) \in Nat /\ f[p] \in Nat /\ g[p] \in Nat
  BY <1>2, <1>5, OneChanges
<1>7. SumFunction(gold) \in Nat /\ SumFunction(gold') \in Nat
  BY <1>2, SumFunctionIs
<1>8. Cost(p) \in Nat /\ Cost(p) = task[p].snap.price * task[p].n
  BY CostIs
<1>9. CASE ~CheckGold(p) /\ ~Charge(p) /\ ~Credit(p)
  <2>1. gold' = gold /\ g[p] = f[p]
    BY <1>5, <1>9, OtherSteps DEF Due
  <2> QED
    BY <1>3, <1>6, <1>7, <2>1
<1>10. CASE CheckGold(p)
  <2>1. gold' = gold /\ g[p] = f[p]
    BY <1>5, <1>10, PurseSteps DEF Due
  <2> QED
    BY <1>3, <1>6, <1>7, <2>1
<1>11. CASE Charge(p)
  <2>1. f[p] = 0 /\ g[p] = Cost(p)
    BY <1>5, <1>8, <1>11, PurseSteps DEF Due
  <2>2. gold[p] >= Cost(p)
    BY <1>11, PurseSteps DEF Paid
  <2>3. gold'[p] = gold[p] - Cost(p) /\ \A r \in Players : r # p => gold'[r] = gold[r]
    BY <1>1, <1>11, <2>2, PurseSteps
  <2>4. SumFunction(gold') + gold[p] = SumFunction(gold) + gold'[p] /\ gold[p] \in Nat
    BY <1>2, <2>3, OneChanges
  <2> QED
    BY <1>3, <1>6, <1>7, <1>8, <2>1, <2>2, <2>3, <2>4
<1>12. CASE Credit(p)
  <2>1. f[p] = Cost(p) /\ g[p] = 0
    BY <1>5, <1>8, <1>12, PurseSteps DEF Due
  <2>2. SumFunction(gold') <= SumFunction(gold) + Cost(p)
    <3> DEFINE q == task[p].of
    <3>1. q \in Players
      BY <1>12, PurseSteps
    <3> HIDE DEF q
    <3>2. gold' = gold \/ gold' = [gold EXCEPT ![q] = GoldGain(gold[q], Cost(p))]
      BY <1>12, PurseSteps DEF q
    <3>3. GoldGain(gold[q], Cost(p)) <= gold[q] + Cost(p) /\ GoldGain(gold[q], Cost(p)) \in Nat /\ gold[q] \in Nat
      BY <1>1, <1>8, <3>1, GoldGainIs
    <3>4. gold'[q] <= gold[q] + Cost(p) /\ \A r \in Players : r # q => gold'[r] = gold[r]
      BY <1>1, <1>8, <3>1, <3>2, <3>3
    <3>5. SumFunction(gold') + gold[q] = SumFunction(gold) + gold'[q] /\ gold'[q] \in Nat
      BY <1>2, <3>1, <3>4, OneChanges
    <3> QED
      BY <1>7, <1>8, <3>3, <3>4, <3>5
  <2> QED
    BY <1>3, <1>6, <1>7, <1>8, <2>1, <2>2
<1> QED
  BY <1>9, <1>10, <1>11, <1>12

\* Stalls create no gold: the buyer's purse is looked at in one step and charged in
\* a later one, and between the two nothing is taken from it (gold_lose cannot fail,
\* although merchant_item_buy ignores its answer), hasty keepers included.
THEOREM GoldIsNotMade == Spec => GoldNeverGrows
<1> DEFINE I == Inv /\ Paid
<1>1. Init => I
  <2>1. ASSUME Init PROVE Paid
    <3>1. \A p \in Players : task[p].at = "idle"
      BY <2>1, IdleIs DEF Init
    <3> QED
      BY <3>1 DEF Paid
  <2> QED
    BY <2>1, InitInv
<1>2. I /\ [Next]_vars => I' /\ [SumFunction(gold)' + InTransit' <= SumFunction(gold) + InTransit]_vars
  <2> SUFFICES ASSUME Inv, Paid, [Next]_vars PROVE Inv' /\ Paid' /\ [SumFunction(gold)' + InTransit' <= SumFunction(gold) + InTransit]_vars
    OBVIOUS
  <2>1. Inv'
    BY StepInv
  <2>2. CASE UNCHANGED vars
    <3>1. task' = task /\ gold' = gold
      BY <2>2 DEF vars, money
    <3> QED
      BY <2>1, <2>2, <3>1 DEF Paid, Cost
  <2>3. ASSUME NEW p \in Players, Step(p) PROVE Paid' /\ SumFunction(gold)' + InTransit' <= SumFunction(gold) + InTransit
    BY <2>1, <2>3, PaidStep, GoldStep
  <2> QED
    BY <2>1, <2>2, <2>3 DEF Next
<1> HIDE DEF I
<1> QED
  BY <1>1, <1>2, PTL DEF Spec, GoldNeverGrows

-----------------------------------------------------------------------------
(* SalesAreAtomic.  The sums of the mapping, over the purchases under way.   *)

Under == {"pay", "restore", "charge", "credit", "deliver", "settle"}

\* What purchase t counts for slot x of q, for item x of q, for the purse of q.
Term(kind, t, q, x) ==
  IF kind = "slot" THEN IF t.at \in Under /\ t.of = q /\ t.snap.slot = x THEN t.n ELSE 0
  ELSE IF kind = "item" THEN IF t.at \in {"pay", "restore"} /\ t.of = q /\ t.item = x THEN t.n ELSE 0
  ELSE IF t.at \in {"charge", "credit"} /\ t.of = q THEN t.snap.price * t.n ELSE 0
TermOf(kind, tk, q, x) == [r \in Players |-> Term(kind, tk[r], q, x)]
Sums(kind, tk, q, x) == SumFunction(TermOf(kind, tk, q, x))

LEMMA SumsAre ==
  ASSUME NEW q, NEW x
  PROVE  /\ Taken(q, x) = Sums("slot", task, q, x)
         /\ Promised(q, x) = Sums("item", task, q, x)
         /\ Earned(q) = Sums("gold", task, q, x)
<1>1. Taken(q, x) = Sums("slot", task, q, x)
  <2>1. ASSUME NEW r \in Players
        PROVE  (IF r \in {p \in From(q, Unsettled) : task[p].snap.slot = x} THEN task[r].n ELSE 0) = Term("slot", task[r], q, x)
    BY DEF Term, From, Unsettled, Reserving, Committed, Under
  <2> QED
    BY <2>1 DEF Taken, UnitsFor, Sums, TermOf
<1>2. Promised(q, x) = Sums("item", task, q, x)
  <2>1. ASSUME NEW r \in Players
        PROVE  (IF r \in {p \in From(q, Reserving) : task[p].item = x} THEN task[r].n ELSE 0) = Term("item", task[r], q, x)
    BY DEF Term, From, Reserving
  <2> QED
    BY <2>1 DEF Promised, UnitsFor, Sums, TermOf
<1>3. Earned(q) = Sums("gold", task, q, x)
  <2>1. ASSUME NEW r \in Players
        PROVE  (IF r \in From(q, Committed) /\ task[r].at # "deliver" THEN Cost(r) ELSE 0) = Term("gold", task[r], q, x)
    BY DEF Term, From, Committed, Cost
  <2> QED
    BY <2>1 DEF Earned, Sums, TermOf
<1> QED
  BY <1>1, <1>2, <1>3

LEMMA SumsAreNext ==
  ASSUME NEW q, NEW x
  PROVE  /\ Taken(q, x)' = Sums("slot", task', q, x)
         /\ Promised(q, x)' = Sums("item", task', q, x)
         /\ Earned(q)' = Sums("gold", task', q, x)
<1>1. Taken(q, x)' = Sums("slot", task', q, x)
  <2>1. ASSUME NEW r \in Players
        PROVE  (IF r \in {p \in From(q, Unsettled)' : task'[p].snap.slot = x} THEN task'[r].n ELSE 0) = Term("slot", task'[r], q, x)
    BY DEF Term, From, Unsettled, Reserving, Committed, Under
  <2> QED
    BY <2>1 DEF Taken, UnitsFor, Sums, TermOf
<1>2. Promised(q, x)' = Sums("item", task', q, x)
  <2>1. ASSUME NEW r \in Players
        PROVE  (IF r \in {p \in From(q, Reserving)' : task'[p].item = x} THEN task'[r].n ELSE 0) = Term("item", task'[r], q, x)
    BY DEF Term, From, Reserving
  <2> QED
    BY <2>1 DEF Promised, UnitsFor, Sums, TermOf
<1>3. Earned(q)' = Sums("gold", task', q, x)
  <2>1. ASSUME NEW r \in Players
        PROVE  (IF r \in From(q, Committed)' /\ task'[r].at # "deliver" THEN Cost(r)' ELSE 0) = Term("gold", task'[r], q, x)
    BY DEF Term, From, Committed, Cost
  <2> QED
    BY <2>1 DEF Earned, Sums, TermOf
<1> QED
  BY <1>1, <1>2, <1>3

LEMMA TermTyped ==
  ASSUME NEW tk \in [Players -> Task], NEW kind, NEW q, NEW x
  PROVE  TermOf(kind, tk, q, x) \in [Players -> Nat]
<1>1. ASSUME NEW r \in Players PROVE Term(kind, tk[r], q, x) \in Nat
  <2>1. tk[r].n \in Nat /\ tk[r].snap \in Offer
    BY DEF Task
  <2>2. tk[r].snap.price * tk[r].n \in Nat
    BY <2>1 DEF Offer
  <2> QED
    BY <2>1, <2>2 DEF Term
<1> QED
  BY <1>1 DEF TermOf

\* The task of one player changes.
LEMMA SumsChange ==
  ASSUME NEW tk \in [Players -> Task], NEW tl \in [Players -> Task], NEW kind, NEW q, NEW x, NEW p \in Players,
         \A r \in Players : r # p => tl[r] = tk[r]
  PROVE  /\ Sums(kind, tl, q, x) + Term(kind, tk[p], q, x) = Sums(kind, tk, q, x) + Term(kind, tl[p], q, x)
         /\ Sums(kind, tk, q, x) \in Nat /\ Sums(kind, tl, q, x) \in Nat
         /\ Term(kind, tk[p], q, x) \in Nat /\ Term(kind, tl[p], q, x) \in Nat
         /\ Term(kind, tk[p], q, x) <= Sums(kind, tk, q, x)
<1> DEFINE f == TermOf(kind, tk, q, x)
           g == TermOf(kind, tl, q, x)
<1>1. f \in [Players -> Nat] /\ g \in [Players -> Nat]
  BY TermTyped
<1>2. /\ f[p] = Term(kind, tk[p], q, x) /\ g[p] = Term(kind, tl[p], q, x)
      /\ \A r \in Players : r # p => g[r] = f[r]
  BY DEF TermOf
<1>3. Sums(kind, tk, q, x) = SumFunction(f) /\ Sums(kind, tl, q, x) = SumFunction(g)
  BY DEF Sums
<1> HIDE DEF f, g
<1>4. /\ SumFunction(g) + f[p] = SumFunction(f) + g[p] /\ SumFunction(f) \in Nat /\ SumFunction(g) \in Nat
      /\ f[p] \in Nat /\ g[p] \in Nat /\ f[p] <= SumFunction(f)
  BY <1>1, <1>2, OneChanges
<1> QED
  BY <1>2, <1>3, <1>4

\* Two purchases at one slot.
LEMMA TwoTerms ==
  ASSUME NEW tk \in [Players -> Task], NEW q, NEW x, NEW p \in Players, NEW r \in Players, p # r
  PROVE  /\ Term("slot", tk[p], q, x) + Term("slot", tk[r], q, x) <= Sums("slot", tk, q, x)
         /\ Term("slot", tk[p], q, x) \in Nat /\ Term("slot", tk[r], q, x) \in Nat /\ Sums("slot", tk, q, x) \in Nat
<1> DEFINE tl == [tk EXCEPT ![p] = Idle]
<1>1. tl \in [Players -> Task] /\ tl[p] = Idle /\ tl[r] = tk[r] /\ \A y \in Players : y # p => tl[y] = tk[y]
  BY IdleIs
<1> HIDE DEF tl
<1>2. Term("slot", tl[p], q, x) = 0
  BY <1>1, IdleIs DEF Term, Under
<1>3. /\ Sums("slot", tl, q, x) + Term("slot", tk[p], q, x) = Sums("slot", tk, q, x) + 0
      /\ Sums("slot", tk, q, x) \in Nat /\ Sums("slot", tl, q, x) \in Nat /\ Term("slot", tk[p], q, x) \in Nat
  BY <1>1, <1>2, SumsChange
<1>4. Term("slot", tl[r], q, x) <= Sums("slot", tl, q, x) /\ Term("slot", tl[r], q, x) \in Nat
  BY <1>1, SumsChange
<1> QED
  BY <1>1, <1>3, <1>4

LEMMA SumsSame ==
  ASSUME NEW tk, NEW tl, NEW kind, NEW q, NEW x, \A r \in Players : Term(kind, tl[r], q, x) = Term(kind, tk[r], q, x)
  PROVE  Sums(kind, tl, q, x) = Sums(kind, tk, q, x)
<1>1. TermOf(kind, tl, q, x) = TermOf(kind, tk, q, x)
  BY DEF TermOf
<1> QED
  BY <1>1 DEF Sums

LEMMA SumsNone ==
  ASSUME NEW tk \in [Players -> Task], NEW kind, NEW q, NEW x, \A r \in Players : Term(kind, tk[r], q, x) = 0
  PROVE  Sums(kind, tk, q, x) = 0
<1>1. TermOf(kind, tk, q, x) \in [Players -> Nat] /\ \A r \in Players : TermOf(kind, tk, q, x)[r] = 0
  BY TermTyped DEF TermOf
<1> QED
  BY <1>1, AllZero DEF Sums

-----------------------------------------------------------------------------
(* What makes sales atomic, on top of Sound and Paid.                        *)

Neat(b) == \A s \in Slots : b[s].item = NoItem => b[s].count = 0

\* Keepers who wait for their customers, offer whole stacks for gold and do nothing
\* but keep a stall, in a world without rewards.
Orderly ==
  /\ ~Hasty /\ ~Splitting /\ Finds = {} /\ Leavers \cap Keepers = {} /\ Keepers \cap Shoppers = {}
  /\ \A o \in Postings : ~o.kc
  /\ \A n \in Amounts : n <= StackMax
  /\ \A s \in Starts, p \in Players : Neat(s.bag[p])

\* Keepers leave the bag alone while they prepare a stall, and stacks are merged
\* only where the whole fits.
Patient ==
  /\ tidy = Keepers
  /\ \A p \in Players, m \in Moves :
       bag[p][m[1]].item \in Countable /\ bag[p][m[2]].item = bag[p][m[1]].item =>
         bag[p][m[2]].count + bag[p][m[1]].count <= StackMax

Asked == {o.price : o \in Postings}

\* Keepers are there and keep to their stall; shoppers buy from them, for gold.
Actors ==
  /\ \A q \in Keepers : presence[q] = "here" /\ task[q].at = "idle" /\ browsing[q] = NoPlayer
  /\ \A p \in Players :
       /\ stall[p] # "closed" => p \in Keepers
       /\ task[p].at # "idle" => task[p].of \in Keepers
       /\ task[p].at \notin {"cashRead", "cashWrite"} /\ ~task[p].kc

\* The slot a purchase was checked to fit into still has room for it.
Roomy(p) ==
  task[p].at \in {"reserve", "pay", "restore", "charge", "credit", "deliver"} =>
    /\ bag[p][task[p].dest].item \in {NoItem, task[p].item}
    /\ bag[p][task[p].dest].count + task[p].n <= StackMax

\* A purchase from q that has reserved goods and is not settled.
OnDeal(t, q) == t.at \in Under /\ t.of = q

\* A place and the purchases under way account for its whole slot.
Balanced(q) ==
  \A k \in Places :
    LET o == listing[q][k] IN
    o.price # 0 =>
      /\ o.price \in Asked /\ ~o.kc
      /\ o.count + Sums("slot", task, q, o.slot) = bag[q][o.slot].count

\* The units of purchase t are in the slot, with those of the others at it, ...
Stocked(q, t) ==
  LET stack == bag[q][t.snap.slot]
      all == Sums("slot", task, q, t.snap.slot)
  IN  /\ stack.item = t.item /\ all <= stack.count
      /\ stall[q] = "open" => listing[q][t.place].price # 0

\* ... or one that took the last of the offer has cleared the slot.
Cleared(q, t) ==
  /\ bag[q][t.snap.slot].item = NoItem
  /\ stall[q] = "open" => listing[q][t.place].price = 0

Holds(q, t) == t.snap.slot \in Slots /\ t.snap.price \in Asked /\ (Stocked(q, t) \/ Cleared(q, t))

\* Two purchases from one stall: one place is one slot.
Alone(t, u) == t.place = u.place => t.snap.slot = u.snap.slot

Ledger(q) ==
  /\ Balanced(q)
  /\ \A p \in Players : OnDeal(task[p], q) => Holds(q, task[p])
  /\ \A p, r \in Players : p # r /\ OnDeal(task[p], q) /\ OnDeal(task[r], q) => Alone(task[p], task[r])

Trade ==
  /\ Sound /\ Paid /\ Actors
  /\ \A p \in Players : Neat(bag[p]) /\ Roomy(p)
  /\ \A q \in Keepers : Ledger(q)

-----------------------------------------------------------------------------
(* Who acts.                                                                 *)

LEMMA TradeIs ==
  ASSUME Trade
  PROVE  /\ Inv /\ Sound /\ Actors
         /\ presence \in [Players -> {"here", "away", "gone"}]
         /\ stall \in [Players -> {"closed", "preparing", "open"}]
         /\ listing \in [Players -> [Places -> Offer]]
         /\ browsing \in [Players -> Players \cup {NoPlayer}]
         /\ gold \in [Players -> 0 .. CoinMax]
         /\ bag \in [Players -> Bag]
         /\ task \in [Players -> Task]
         /\ \A p \in Players : Neat(bag[p]) /\ Roomy(p)
         /\ \A q \in Keepers : q \in Players /\ Ledger(q)
BY DEF Trade, Sound, Inv, TypeOK, Players

\* A purchase is a shopper's, from a keeper.
LEMMA BuyerIs ==
  ASSUME Trade, NEW p \in Players, task[p].at # "idle"
  PROVE  p \notin Keepers /\ task[p].of \in Keepers /\ task[p].of \in Players /\ task[p].of # p /\ ~task[p].kc
BY DEF Trade, Actors, Players

LEMMA Onward ==
  ASSUME Inv, NEW p \in Players, NEW stage \in Stages, Goto(p, stage)
  PROVE  /\ task'[p].at = stage /\ task'[p].of = task[p].of /\ task'[p].place = task[p].place
         /\ task'[p].item = task[p].item /\ task'[p].n = task[p].n /\ task'[p].dest = task[p].dest
         /\ task'[p].kc = task[p].kc /\ task'[p].snap = task[p].snap
         /\ \A r \in Players : r # p => task'[r] = task[r]
<1>1. task \in [Players -> Task] /\ task[p] \in Task
  BY DEF Inv, TypeOK
<1> QED
  BY <1>1 DEF Goto, Task

LEMMA Finished ==
  ASSUME Inv, NEW p \in Players, Done(p)
  PROVE  task'[p] = Idle /\ task'[p].at = "idle" /\ ~task'[p].kc /\ \A r \in Players : r # p => task'[r] = task[r]
<1>1. task \in [Players -> Task]
  BY DEF Inv, TypeOK
<1> QED
  BY <1>1 DEF Done, Idle

\* What a step of a purchase leaves of its local variables.
Stays(p) ==
  /\ task'[p].of = task[p].of /\ task'[p].place = task[p].place /\ task'[p].item = task[p].item
  /\ task'[p].n = task[p].n /\ task'[p].dest = task[p].dest /\ task'[p].kc = task[p].kc
Others(p) == \A r \in Players : r # p => task'[r] = task[r]

LEMMA ReserveTask ==
  ASSUME Trade, NEW p \in Players, Reserve(p)
  PROVE  /\ Others(p) /\ task[p].at = "reserve"
         /\ \/ /\ Offers(listing[task[p].of][task[p].place], task[p].item, task[p].n)
               /\ Stays(p) /\ task'[p].at = "pay" /\ task'[p].snap = listing[task[p].of][task[p].place]
               /\ listing' = [listing EXCEPT ![task[p].of][task[p].place] =
                                Reserved(listing[task[p].of][task[p].place], task[p].n)]
            \/ task'[p] = Idle /\ listing' = listing
<1>1. Inv /\ task \in [Players -> Task] /\ task[p] \in Task
  BY TradeIs
<1>2. CASE Offers(listing[task[p].of][task[p].place], task[p].item, task[p].n)
  BY <1>1, <1>2 DEF Reserve, Task, Stays, Others
<1>3. CASE ~Offers(listing[task[p].of][task[p].place], task[p].item, task[p].n)
  BY <1>1, <1>3, Finished DEF Reserve, Others
<1> QED
  BY <1>2, <1>3 DEF Reserve

\* The other steps: where a purchase goes.
LEMMA BuyTask ==
  ASSUME Trade, NEW p \in Players, BuyStep(p)
  PROVE  /\ ~PayCash(p) /\ ~CashRead(p) /\ ~CashWrite(p)
         /\ Others(p) /\ task[p].at \notin {"idle", "look", "cut"}
         /\ task'[p] = Idle \/ (Stays(p) /\ task'[p].at \notin {"idle", "look", "cashRead", "cashWrite"})
         /\ CheckGold(p) => /\ Stays(p) /\ task'[p].snap = task[p].snap /\ task[p].at = "pay"
                            /\ task'[p].at \in {"charge", "restore"}
         /\ Restore(p) => task'[p] = Idle /\ task[p].at = "restore"
         /\ Charge(p) => Stays(p) /\ task'[p].snap = task[p].snap /\ task[p].at = "charge" /\ task'[p].at = "credit"
         /\ Credit(p) => Stays(p) /\ task'[p].snap = task[p].snap /\ task[p].at = "credit" /\ task'[p].at = "deliver"
         /\ Deliver(p) => Stays(p) /\ task'[p].snap = task[p].snap /\ task[p].at = "deliver" /\ task'[p].at = "settle"
         /\ Settle(p) => Stays(p) /\ task'[p].snap = task[p].snap /\ task[p].at = "settle" /\ task'[p].at = "close"
         /\ CloseIfSold(p) => task'[p] = Idle /\ task[p].at = "close"
<1>1. Inv /\ task[p].at \notin {"cashRead", "cashWrite"} /\ ~task[p].kc
  BY DEF Trade, Sound, Actors
<1>2. ~PayCash(p) /\ ~CashRead(p) /\ ~CashWrite(p)
  BY <1>1 DEF PayCash, CashRead, CashWrite
<1>3. {"charge", "restore", "credit", "deliver", "settle", "close"} \subseteq Stages
  BY DEF Stages
<1>4. CheckGold(p) => /\ Stays(p) /\ task'[p].snap = task[p].snap /\ task[p].at = "pay" /\ Others(p)
                      /\ task'[p].at \in {"charge", "restore"}
  <2> SUFFICES ASSUME CheckGold(p)
               PROVE  /\ Stays(p) /\ task'[p].snap = task[p].snap /\ task[p].at = "pay" /\ Others(p)
                      /\ task'[p].at \in {"charge", "restore"}
    OBVIOUS
  <2>1. PICK stage \in {"charge", "restore"} : Goto(p, stage)
    BY DEF CheckGold
  <2> QED
    BY <1>1, <1>3, <2>1, Onward DEF CheckGold, Stays, Others
<1>5. Restore(p) => task'[p] = Idle /\ task[p].at = "restore" /\ Others(p)
  BY <1>1, Finished DEF Restore, Others
<1>6. Charge(p) => Stays(p) /\ task'[p].snap = task[p].snap /\ task[p].at = "charge" /\ task'[p].at = "credit" /\ Others(p)
  BY <1>1, <1>3, Onward DEF Charge, Stays, Others
<1>7. Credit(p) => Stays(p) /\ task'[p].snap = task[p].snap /\ task[p].at = "credit" /\ task'[p].at = "deliver" /\ Others(p)
  BY <1>1, <1>3, Onward DEF Credit, Stays, Others
<1>8. Deliver(p) => Stays(p) /\ task'[p].snap = task[p].snap /\ task[p].at = "deliver" /\ task'[p].at = "settle" /\ Others(p)
  BY <1>1, <1>3, Onward DEF Deliver, Stays, Others
<1>9. Settle(p) => Stays(p) /\ task'[p].snap = task[p].snap /\ task[p].at = "settle" /\ task'[p].at = "close" /\ Others(p)
  BY <1>1, <1>3, Onward DEF Settle, Stays, Others
<1>10. CloseIfSold(p) => task'[p] = Idle /\ task[p].at = "close" /\ Others(p)
  BY <1>1, Finished DEF CloseIfSold, Others
<1>11. Reserve(p) => /\ Others(p) /\ task[p].at = "reserve"
                     /\ task'[p] = Idle \/ (Stays(p) /\ task'[p].at = "pay")
  BY ReserveTask
<1> QED
  BY <1>2, <1>4, <1>5, <1>6, <1>7, <1>8, <1>9, <1>10, <1>11 DEF BuyStep

\* A purchase begins.
LEMMA StartTask ==
  ASSUME Trade, NEW p \in Players, NEW k \in Places, NEW n \in Amounts, NEW d \in Slots, StartBuy(p, k, n, d)
  PROVE  LET q == browsing[p]
             o == listing[q][k]
         IN  /\ Others(p) /\ task[p].at = "idle" /\ q \in Keepers /\ q # p /\ p \notin Keepers /\ stall[q] = "open"
             /\ o.price # 0 /\ ~o.kc /\ o.item \in Item /\ Fits(bag[p][d], o.item, n)
             /\ task'[p].at = "reserve" /\ task'[p].of = q /\ task'[p].place = k /\ task'[p].item = o.item
             /\ task'[p].n = n /\ task'[p].dest = d /\ task'[p].kc = o.kc
             /\ UNCHANGED <<presence, shop, view, money, bag>>
<1> DEFINE q == browsing[p]
           o == listing[q][k]
<1>1. task \in [Players -> Task] /\ browsing[p] \in Players \cup {NoPlayer}
  BY TradeIs
<1>2. q \in Players /\ q # p /\ stall[q] = "open" /\ task[p].at = "idle" /\ o.item \in Item /\ o.price # 0 /\ Fits(bag[p][d], o.item, n)
  BY <1>1 DEF StartBuy, Ready, Offers
<1>3. q \in Keepers /\ p \notin Keepers
  BY <1>1, <1>2 DEF Trade, Actors
<1>4. ~o.kc
  BY <1>2, <1>3 DEF Trade, Ledger, Balanced
<1>5. task' = [task EXCEPT ![p] = Begun(q, k, o.item, n, d, o.kc)] /\ UNCHANGED <<presence, shop, view, money, bag>>
  BY DEF StartBuy, Begun
<1>6. task'[p] = Begun(q, k, o.item, n, d, o.kc) /\ Others(p)
  BY <1>1, <1>5 DEF Others
<1> HIDE DEF q, o
<1>7. /\ Begun(q, k, o.item, n, d, o.kc).at = "reserve" /\ Begun(q, k, o.item, n, d, o.kc).of = q
      /\ Begun(q, k, o.item, n, d, o.kc).place = k /\ Begun(q, k, o.item, n, d, o.kc).item = o.item
      /\ Begun(q, k, o.item, n, d, o.kc).n = n /\ Begun(q, k, o.item, n, d, o.kc).dest = d
      /\ Begun(q, k, o.item, n, d, o.kc).kc = o.kc
  BY DEF Begun, Idle
<1> QED
  BY <1>2, <1>3, <1>4, <1>5, <1>6, <1>7 DEF q, o

LEMMA ActorsStep ==
  ASSUME Orderly, Trade, Inv', NEW p \in Players, Step(p)
  PROVE  Actors'
<1>1. /\ presence \in [Players -> {"here", "away", "gone"}] /\ stall \in [Players -> {"closed", "preparing", "open"}]
      /\ task \in [Players -> Task] /\ browsing \in [Players -> Players \cup {NoPlayer}] /\ Actors
      /\ Keepers \subseteq Players /\ Leavers \cap Keepers = {} /\ Keepers \cap Shoppers = {} /\ Finds = {}
  BY TradeIs DEF Orderly
<1>2. CASE KeeperStep(p) \/ Quit(p)
  <2>1. task' = task
    BY <1>2 DEF KeeperStep, Quit, Open, Close, Insert, GoAway, Expire, Post, Withdraw
  <2>2. browsing' = browsing \/ browsing' = [browsing EXCEPT ![p] = NoPlayer]
    BY <1>2 DEF KeeperStep, Quit, StopLooking, Open, Close, Insert, GoAway, Expire, Post, Withdraw, view
  <2>3. presence' = presence \/ (p \notin Keepers /\ \E v : presence' = [presence EXCEPT ![p] = v])
    <3>1. CASE Open(p) \/ Close(p) \/ Insert(p) \/ (\E s \in Slots, k \in Places, o \in Postings : Post(p, s, k, o)) \/ (\E k \in Places : Withdraw(p, k))
      BY <3>1 DEF Open, Close, Insert, Post, Withdraw
    <3>2. CASE Quit(p) \/ GoAway(p)
      BY <1>1, <3>2 DEF Quit, GoAway
    <3>3. CASE Expire(p)
      BY <1>1, <3>3 DEF Expire, Actors
    <3> QED
      BY <1>2, <3>1, <3>2, <3>3 DEF KeeperStep
  <2>4. stall' = stall \/ \E v : stall' = [stall EXCEPT ![p] = v] /\ (v = "closed" \/ p \in Keepers)
    <3>1. CASE Open(p)
      BY <3>1 DEF Open
    <3>2. CASE Insert(p)
      <4>1. p \in Keepers
        BY <1>1, <3>2 DEF Insert, Actors
      <4> QED
        BY <3>2, <4>1 DEF Insert
    <3>3. CASE Close(p) \/ Expire(p) \/ Quit(p)
      BY <3>3 DEF Close, Expire, Quit, CloseStall
    <3>4. CASE GoAway(p) \/ (\E s \in Slots, k \in Places, o \in Postings : Post(p, s, k, o)) \/ (\E k \in Places : Withdraw(p, k))
      BY <3>4 DEF GoAway, Post, Withdraw, shop
    <3> QED
      BY <1>2, <3>1, <3>2, <3>3, <3>4 DEF KeeperStep
  <2>5. \A q \in Keepers : presence'[q] = presence[q] /\ (browsing[q] = NoPlayer => browsing'[q] = NoPlayer)
    BY <1>1, <2>2, <2>3
  <2>6. \A q \in Players : stall'[q] # "closed" => q \in Keepers
    BY <1>1, <2>4 DEF Actors
  <2> QED
    BY <1>1, <2>1, <2>5, <2>6 DEF Actors
<1>3. CASE (\E q \in Keepers : Browse(p, q)) \/ Look(p) \/ StopBrowsing(p)
  <2>1. UNCHANGED <<presence, stall>>
    BY <1>3 DEF Browse, Look, StopBrowsing, shop
  <2>2. ASSUME NEW q \in Keepers, Browse(p, q) PROVE Actors'
    <3>1. /\ task'[p].at = "look" /\ task'[p].of = q /\ ~task'[p].kc /\ \A r \in Players : r # p => task'[r] = task[r]
          /\ browsing' = browsing /\ p \notin Keepers
      BY <1>1, <2>2 DEF Browse, view, Idle
    <3> QED
      BY <1>1, <2>1, <3>1 DEF Actors
  <2>3. CASE Look(p)
    <3>1. p \notin Keepers
      BY <2>3, BuyerIs DEF Look
    <3>2. task'[p].at = "idle" /\ ~task'[p].kc /\ \A r \in Players : r # p => task'[r] = task[r]
      BY <1>1, <2>3 DEF Look, Idle
    <3>3. \A q \in Keepers : browsing'[q] = browsing[q]
      BY <1>1, <2>3, <3>1 DEF Look
    <3> QED
      BY <1>1, <2>1, <3>1, <3>2, <3>3 DEF Actors
  <2>4. CASE StopBrowsing(p)
    <3>1. task' = task /\ browsing' = [browsing EXCEPT ![p] = NoPlayer]
      BY <2>4 DEF StopBrowsing, StopLooking
    <3> QED
      BY <1>1, <2>1, <3>1 DEF Actors
  <2> QED
    BY <1>3, <2>2, <2>3, <2>4
<1>4. ASSUME NEW k \in Places, NEW n \in Amounts, NEW d \in Slots, StartBuy(p, k, n, d)
      PROVE  Actors'
  <2>1. /\ Others(p) /\ browsing[p] \in Keepers /\ p \notin Keepers /\ task'[p].at = "reserve" /\ task'[p].of = browsing[p]
        /\ ~task'[p].kc /\ UNCHANGED <<presence, shop, view, money, bag>>
    BY <1>4, StartTask
  <2>2. presence' = presence /\ stall' = stall /\ browsing' = browsing
    BY <2>1 DEF shop, view
  <2> QED
    BY <1>1, <2>1, <2>2 DEF Actors, Others
<1>5. CASE BuyStep(p)
  <2>1. /\ Others(p) /\ p \notin Keepers /\ task[p].of \in Keepers /\ ~task[p].kc
        /\ task'[p] = Idle \/ (Stays(p) /\ task'[p].at \notin {"idle", "look", "cashRead", "cashWrite"})
        /\ ~PayCash(p) /\ ~CashRead(p) /\ ~CashWrite(p)
    BY <1>5, BuyTask, BuyerIs
  <2>2. /\ task'[p].at # "idle" => task'[p].of \in Keepers
        /\ task'[p].at \notin {"cashRead", "cashWrite"} /\ ~task'[p].kc
    BY <2>1 DEF Stays, Idle
  <2>3. browsing' = browsing
    BY <1>5, <2>1 DEF BuyStep, Reserve, CheckGold, Restore, Charge, Credit, Deliver, Settle, CloseIfSold, view
  <2>4. /\ \A q \in Keepers : presence'[q] = "here"
        /\ \A q \in Players : stall'[q] # "closed" => stall[q] # "closed"
    <3>1. CASE ~CloseIfSold(p)
      BY <1>1, <1>5, <2>1, <3>1 DEF BuyStep, Reserve, CheckGold, Restore, Charge, Credit, Deliver, Settle, shop, Actors
    <3>2. CASE CloseIfSold(p)
      <4>1. presence' = presence \/ presence' = [presence EXCEPT ![task[p].of] = IF presence[task[p].of] = "away" THEN "gone" ELSE presence[task[p].of]]
        BY <3>2 DEF CloseIfSold
      <4>2. stall' = stall \/ stall' = [stall EXCEPT ![task[p].of] = "closed"]
        BY <3>2 DEF CloseIfSold, CloseStall, shop
      <4>3. presence[task[p].of] = "here"
        BY <1>1, <2>1 DEF Actors
      <4> QED
        BY <1>1, <4>1, <4>2, <4>3 DEF Actors
    <3> QED
      BY <3>1, <3>2
  <2> QED
    BY <1>1, <2>1, <2>2, <2>3, <2>4 DEF Actors, Others
<1>6. CASE \E m \in Moves : MoveItem(p, m[1], m[2])
  BY <1>1, <1>6 DEF MoveItem, Actors, shop, view
<1>7. CASE HangUp(p)
  <2>1. Inv /\ task[p].at = "close" /\ p \in Leavers
    BY <1>7, TradeIs, HangUpIs
  <2>2. p \notin Keepers /\ task[p].of \in Keepers
    BY <2>1, BuyerIs
  <2>3. /\ task'[p].at = "cut" /\ task'[p].of \in Keepers /\ ~task'[p].kc /\ \A r \in Players : r # p => task'[r] = task[r]
        /\ Vanished(p) /\ browsing' = [browsing EXCEPT ![p] = NoPlayer]
    BY <1>7, <2>1, <2>2, HangUpIs
  <2> QED
    BY <1>1, <2>2, <2>3 DEF Actors, Vanished
<1> QED
  BY <1>1, <1>2, <1>3, <1>4, <1>5, <1>6, <1>7 DEF Step, ShopperStep

\* Goods: what a step does to the bags.
LEMMA BagSteps ==
  ASSUME Orderly, Trade, NEW p \in Players, Step(p)
  PROVE  \/ bag' = bag
         \/ Deliver(p)
         \/ Settle(p)
         \/ \E m \in Moves : MoveItem(p, m[1], m[2])
<1>1. CASE KeeperStep(p) \/ Quit(p)
  BY <1>1 DEF KeeperStep, Quit, Open, Close, Insert, GoAway, Expire, Post, Withdraw
<1>2. CASE ShopperStep(p)
  BY <1>2 DEF ShopperStep, Browse, Look, StopBrowsing, StartBuy, BuyStep, Reserve, CheckGold, PayCash, Restore, Charge, Credit,
              CashRead, CashWrite, CloseIfSold
<1> QED
  BY <1>1, <1>2 DEF Step, HangUp, Orderly

-----------------------------------------------------------------------------
(* The bags.                                                                 *)

\* item_move, where the whole of a stack fits.
LEMMA MovedTo ==
  ASSUME NEW b \in Bag, NEW s \in Slots, NEW d \in Slots, s # d,
         b[s].item \in Countable /\ b[d].item = b[s].item => b[d].count + b[s].count <= StackMax
  PROVE  /\ Moved(b, s, d) \in Bag
         /\ \A x \in Slots : x # s /\ x # d => Moved(b, s, d)[x] = b[x]
         /\ \/ Moved(b, s, d)[s] = b[d] /\ Moved(b, s, d)[d] = b[s]
            \/ /\ Moved(b, s, d)[s] = Empty /\ b[d].item = b[s].item /\ Moved(b, s, d)[d].item = b[d].item
               /\ Moved(b, s, d)[d].count = b[d].count + b[s].count
         /\ Neat(b) => Neat(Moved(b, s, d))
<1>1. /\ b \in [Slots -> Stack] /\ b[s] \in Stack /\ b[d] \in Stack /\ b[s].count \in Nat /\ b[d].count \in Nat
      /\ Empty \in Stack /\ Empty.item = NoItem /\ Empty.count = 0
  BY EmptyIs DEF Bag, Stack, Empty
<1>2. Moved(b, s, d) \in Bag
  BY MovedIs
<1>3. CASE b[s].item \in Countable /\ b[d].item = b[s].item
  <2> DEFINE e == [b[d] EXCEPT !.count = b[d].count + b[s].count]
  <2>1. Clamp(b[d].count + b[s].count, StackMax) = b[d].count + b[s].count
    BY <1>1, <1>3 DEF Clamp
  <2>2. Moved(b, s, d) = [[b EXCEPT ![d] = e] EXCEPT ![s] = Empty]
    BY <1>3, <2>1 DEF Moved, Bag
  <2>3. e.item = b[d].item /\ e.count = b[d].count + b[s].count
    BY <1>1 DEF Stack
  <2> HIDE DEF e
  <2>4. Moved(b, s, d)[s] = Empty /\ Moved(b, s, d)[d] = e /\ \A x \in Slots : x # s /\ x # d => Moved(b, s, d)[x] = b[x]
    BY <1>1, <2>2
  <2>5. b[d].item # NoItem
    BY <1>3
  <2>6. Neat(b) => Neat(Moved(b, s, d))
    BY <1>1, <2>3, <2>4, <2>5 DEF Neat
  <2> QED
    BY <1>2, <1>3, <2>3, <2>4, <2>6
<1>4. CASE ~(b[s].item \in Countable /\ b[d].item = b[s].item)
  <2>1. Moved(b, s, d) = [[b EXCEPT ![s] = b[d]] EXCEPT ![d] = b[s]]
    BY <1>4 DEF Moved
  <2>2. Moved(b, s, d)[s] = b[d] /\ Moved(b, s, d)[d] = b[s] /\ \A x \in Slots : x # s /\ x # d => Moved(b, s, d)[x] = b[x]
    BY <1>1, <2>1
  <2>3. Neat(b) => Neat(Moved(b, s, d))
    BY <2>2 DEF Neat
  <2> QED
    BY <1>2, <2>2, <2>3
<1> QED
  BY <1>3, <1>4

\* A stack after a sale.
LEMMA NeatSettled ==
  ASSUME NEW b \in Bag, NEW t \in Task, Neat(b)
  PROVE  Neat(SettledBag(b, t))
<1> SUFFICES ASSUME NEW s \in Slots, SettledBag(b, t)[s].item = NoItem PROVE SettledBag(b, t)[s].count = 0
  BY DEF Neat
<1>1. b[s] \in Stack /\ b[s].count \in Nat /\ t.n \in Nat /\ Empty.count = 0 /\ (b[s].item = NoItem => b[s].count = 0)
  BY DEF Bag, Stack, Task, Empty, Neat
<1>2. CASE s # t.snap.slot
  BY <1>1, <1>2 DEF SettledBag
<1>3. CASE s = t.snap.slot
  <2>1. SettledBag(b, t)[s] = Settled(b[s], t)
    BY <1>3 DEF SettledBag
  <2>2. CASE b[s].item = t.item /\ ~FullySold(t) /\ t.n < b[s].count
    <3>1. Settled(b[s], t).item = b[s].item /\ b[s].count # 0
      BY <1>1, <2>2, SettledIs
    <3> QED
      BY <1>1, <2>1, <3>1
  <2>3. CASE ~(b[s].item = t.item /\ ~FullySold(t) /\ t.n < b[s].count)
    <3>1. Settled(b[s], t) \in {b[s], Empty}
      <4>1. CASE b[s].item # t.item
        BY <4>1, <1>1, SettledIs
      <4>2. CASE b[s].item = t.item /\ (FullySold(t) \/ b[s].count <= t.n)
        BY <4>2 DEF Settled, FullySold
      <4> QED
        BY <1>1, <2>3, <4>1, <4>2
    <3> QED
      BY <1>1, <2>1, <3>1
  <2> QED
    BY <2>2, <2>3
<1> QED
  BY <1>2, <1>3

\* The goods arrive in a slot that has room for them.
LEMMA DeliverTo ==
  ASSUME Trade, NEW p \in Players, Deliver(p)
  PROVE  LET d == task[p].dest IN
         /\ d \in Slots /\ task[p].item \in Item /\ task[p].n \in Nat /\ task[p].at = "deliver"
         /\ bag[p][d].item \in {NoItem, task[p].item} /\ (bag[p][d].item = NoItem => bag[p][d].count = 0)
         /\ bag'[p][d].item = task[p].item /\ bag'[p][d].count = bag[p][d].count + task[p].n
         /\ \A x \in Slots : x # d => bag'[p][x] = bag[p][x]
         /\ \A r \in Players : r # p => bag'[r] = bag[r]
<1> DEFINE t == task[p]
           d == t.dest
<1>1. /\ Inv /\ bag \in [Players -> Bag] /\ bag[p] \in [Slots -> Stack] /\ Neat(bag[p]) /\ Roomy(p) /\ t \in Task
      /\ t.at = "deliver"
  BY TradeIs DEF Deliver, Bag
<1>2. d \in Slots /\ t.item \in Item /\ t.n \in Nat /\ t.item # NoItem
  <2>1. d \in Slots /\ t.item \in Item /\ t.n \in Nat
    BY <1>1, BuyFacts
  <2> QED
    BY <2>1 DEF Item
<1>3. /\ bag[p][d].item \in {NoItem, t.item} /\ bag[p][d].count + t.n <= StackMax
      /\ bag[p][d].count \in Nat /\ (bag[p][d].item = NoItem => bag[p][d].count = 0)
  BY <1>1, <1>2 DEF Roomy, Neat, Stack
<1>4. Clamp(bag[p][d].count + t.n, StackMax) = bag[p][d].count + t.n
  BY <1>2, <1>3 DEF Clamp
<1>5. bag' = [bag EXCEPT ![p] = [bag[p] EXCEPT ![d] = [item |-> t.item, count |-> bag[p][d].count + t.n]]]
  BY <1>1, <1>2, <1>4 DEF Deliver
<1> QED
  BY <1>1, <1>2, <1>3, <1>5

\* item_move: of a shopper, or of a keeper whose stall is closed and who serves nobody.
LEMMA MoveIs ==
  ASSUME Orderly, Patient, Trade, NEW p \in Players, \E m \in Moves : MoveItem(p, m[1], m[2])
  PROVE  \E s \in Slots, d \in Slots :
           /\ s # d /\ bag' = [bag EXCEPT ![p] = Moved(bag[p], s, d)]
           /\ bag[p][s].item \in Countable /\ bag[p][d].item = bag[p][s].item => bag[p][d].count + bag[p][s].count <= StackMax
           /\ task[p].at = "idle" /\ UNCHANGED <<presence, shop, view, money, task>>
           /\ p \in Keepers => stall[p] = "closed" /\ \A r \in Players : task[r].at \notin {"idle", "look", "cut"} => task[r].of # p
<1>1. PICK m \in Moves : MoveItem(p, m[1], m[2])
  OBVIOUS
<1>2. m[1] \in Slots /\ m[2] \in Slots
  OBVIOUS
<1>3. p \in Keepers => stall[p] = "closed" /\ \A r \in Players : task[r].at \notin {"idle", "look", "cut"} => task[r].of # p
  BY <1>1 DEF MoveItem, Patient, Orderly, AtEase, Buying
<1>4. bag[p][m[1]].item \in Countable /\ bag[p][m[2]].item = bag[p][m[1]].item => bag[p][m[2]].count + bag[p][m[1]].count <= StackMax
  BY DEF Patient
<1>5. /\ m[1] # m[2] /\ bag' = [bag EXCEPT ![p] = Moved(bag[p], m[1], m[2])] /\ task[p].at = "idle"
      /\ UNCHANGED <<presence, shop, view, money, task>>
  BY <1>1 DEF MoveItem, Ready
<1> QED
  BY <1>2, <1>3, <1>4, <1>5

\* The keeper's bag after a sale.
LEMMA SettleTo ==
  ASSUME Trade, NEW p \in Players, Settle(p)
  PROVE  LET q == task[p].of IN
         /\ q \in Keepers /\ q \in Players /\ q # p /\ task[p].at = "settle"
         /\ bag'[q] = SettledBag(bag[q], task[p]) /\ \A r \in Players : r # q => bag'[r] = bag[r]
         /\ FullySold(task[p]) => listing' = [listing EXCEPT ![q][task[p].place] = [NoOffer EXCEPT !.soldOut = TRUE]]
         /\ ~FullySold(task[p]) => listing' = listing
         /\ UNCHANGED <<presence, stall, view, money>>
<1>1. task[p].at = "settle" /\ bag \in [Players -> Bag]
  BY TradeIs DEF Settle
<1>2. task[p].of \in Keepers /\ task[p].of \in Players /\ task[p].of # p /\ presence[task[p].of] = "here"
  BY <1>1, BuyerIs DEF Trade, Actors
<1> QED
  BY <1>1, <1>2 DEF Settle

LEMMA NeatStep ==
  ASSUME Orderly, Patient, Trade, NEW p \in Players, Step(p), NEW r \in Players
  PROVE  Neat(bag'[r])
<1>1. bag \in [Players -> Bag] /\ bag[p] \in Bag /\ bag[r] \in Bag /\ Neat(bag[r]) /\ Neat(bag[p]) /\ task \in [Players -> Task]
  BY TradeIs
<1>2. CASE Deliver(p)
  <2>1. task[p].item # NoItem
    BY <1>2, DeliverTo DEF Item
  <2> QED
    BY <1>1, <1>2, <2>1, DeliverTo DEF Neat
<1>3. CASE Settle(p)
  <2>1. PICK q \in Players : bag'[q] = SettledBag(bag[q], task[p]) /\ \A x \in Players : x # q => bag'[x] = bag[x]
    BY <1>3, SettleTo
  <2>2. task[p] \in Task
    BY <1>1
  <2> QED
    BY <1>1, <2>1, <2>2, NeatSettled
<1>4. CASE \E m \in Moves : MoveItem(p, m[1], m[2])
  <2>1. PICK s \in Slots, d \in Slots :
           /\ s # d /\ bag' = [bag EXCEPT ![p] = Moved(bag[p], s, d)]
           /\ bag[p][s].item \in Countable /\ bag[p][d].item = bag[p][s].item => bag[p][d].count + bag[p][s].count <= StackMax
    BY <1>4, MoveIs
  <2>2. Neat(Moved(bag[p], s, d))
    BY <1>1, <2>1, MovedTo
  <2> QED
    BY <1>1, <2>1, <2>2
<1> QED
  BY <1>1, <1>2, <1>3, <1>4, BagSteps

LEMMA RoomyStep ==
  ASSUME Orderly, Patient, Trade, Inv', NEW p \in Players, Step(p), NEW r \in Players
  PROVE  Roomy(r)'
<1> DEFINE Waiting == {"reserve", "pay", "restore", "charge", "credit", "deliver"}
<1> SUFFICES ASSUME task'[r].at \in Waiting
             PROVE  /\ bag'[r][task'[r].dest].item \in {NoItem, task'[r].item}
                    /\ bag'[r][task'[r].dest].count + task'[r].n <= StackMax
  BY DEF Roomy
<1>1. /\ Inv /\ bag \in [Players -> Bag] /\ Roomy(r) /\ Neat(bag[r]) /\ task \in [Players -> Task]
      /\ "idle" \notin Waiting /\ "look" \notin Waiting /\ "settle" \notin Waiting /\ "close" \notin Waiting /\ "cut" \notin Waiting
  BY TradeIs
<1> HIDE DEF Waiting
\* The request of r was already waiting, and nobody else touches the shopper's bag.
<1>2. ASSUME task[r].at \in Waiting, task'[r].item = task[r].item, task'[r].n = task[r].n, task'[r].dest = task[r].dest,
             bag'[r] = bag[r]
      PROVE  /\ bag'[r][task'[r].dest].item \in {NoItem, task'[r].item}
             /\ bag'[r][task'[r].dest].count + task'[r].n <= StackMax
  BY <1>1, <1>2 DEF Roomy, Waiting
<1>3. CASE \E k \in Places, n \in Amounts, d \in Slots : StartBuy(p, k, n, d)
  <2>1. PICK k \in Places, n \in Amounts, d \in Slots : StartBuy(p, k, n, d)
    BY <1>3
  <2> DEFINE o == listing[browsing[p]][k]
  <2>2. /\ Others(p) /\ task[p].at = "idle" /\ o.item \in Item /\ Fits(bag[p][d], o.item, n)
        /\ task'[p].item = o.item /\ task'[p].n = n /\ task'[p].dest = d /\ UNCHANGED <<presence, shop, view, money, bag>>
    BY <2>1, StartTask
  <2> HIDE DEF o
  <2>3. CASE r = p
    <3>1. n \in Nat /\ n <= StackMax /\ bag[p][d].count \in Nat /\ (bag[p][d].item = NoItem => bag[p][d].count = 0) /\ bag' = bag
      <4>1. n \in Nat /\ n <= StackMax /\ bag' = bag
        BY <2>2 DEF Orderly
      <4>2. bag[p] \in [Slots -> Stack] /\ Neat(bag[p])
        BY <1>1, TradeIs DEF Bag
      <4> QED
        BY <4>1, <4>2 DEF Neat, Stack
    <3> QED
      BY <2>2, <2>3, <3>1 DEF Fits
  <2>4. CASE r # p
    BY <1>2, <2>2, <2>4 DEF Others
  <2> QED
    BY <2>3, <2>4
<1>4. CASE BuyStep(p)
  <2>1. /\ Others(p) /\ task[p].at \notin {"idle", "look", "cut"} /\ p \notin Keepers /\ task[p].of \in Keepers
        /\ task'[p] = Idle \/ Stays(p)
    BY <1>4, BuyTask, BuyerIs
  <2>2. task[r].at \notin {"idle", "look", "cut"}
    <3>1. CASE r = p
      BY <2>1, <3>1
    <3>2. CASE r # p
      BY <1>1, <2>1, <3>2 DEF Others, Waiting
    <3> QED
      BY <3>1, <3>2
  <2>3. r \notin Keepers
    BY <2>2, BuyerIs
  <2>4. task'[r].item = task[r].item /\ task'[r].n = task[r].n /\ task'[r].dest = task[r].dest
    BY <1>1, <2>1 DEF Others, Stays, Idle
  <2>5. CASE Deliver(p)
    <3>1. r # p
      BY <1>1, <2>5, BuyTask, <1>4
    <3> QED
      BY <1>2, <2>1, <2>4, <2>5, <3>1, DeliverTo DEF Others
  <2>6. CASE Settle(p)
    <3>1. bag'[r] = bag[r]
      BY <2>3, <2>6, SettleTo
    <3>2. task'[p].at = "close"
      BY <1>4, <2>6, BuyTask
    <3>3. r # p
      BY <3>2 DEF Waiting
    <3> QED
      BY <1>2, <2>1, <2>4, <3>1, <3>3 DEF Others
  <2>7. CASE ~Deliver(p) /\ ~Settle(p)
    <3>1. bag' = bag
      BY <1>4, <2>1, <2>7, BuyTask DEF BuyStep, Reserve, CheckGold, Restore, Charge, Credit, CloseIfSold
    <3>2. task[r].at \in Waiting
      <4>1. CASE r # p
        BY <2>1, <4>1 DEF Others
      <4>2. CASE r = p
        <5>1. ~CloseIfSold(p)
          BY <1>1, <1>4, <4>2, BuyTask DEF Idle
        <5> QED
          BY <1>4, <2>1, <2>7, <4>2, <5>1, BuyTask DEF BuyStep, Reserve, CheckGold, Restore, Charge, Credit, Waiting
      <4> QED
        BY <4>1, <4>2
    <3> QED
      BY <1>2, <2>4, <3>1, <3>2
  <2> QED
    BY <2>5, <2>6, <2>7
<1>5. CASE \E m \in Moves : MoveItem(p, m[1], m[2])
  <2>1. PICK s \in Slots, d \in Slots :
           /\ bag' = [bag EXCEPT ![p] = Moved(bag[p], s, d)]
           /\ task[p].at = "idle" /\ UNCHANGED <<presence, shop, view, money, task>>
    BY <1>5, MoveIs
  <2>2. r # p
    BY <1>1, <2>1
  <2> QED
    BY <1>1, <1>2, <2>1, <2>2
<1>6. CASE KeeperStep(p) \/ Quit(p)
  <2>1. task' = task /\ bag' = bag
    BY <1>6 DEF KeeperStep, Quit, Open, Close, Insert, GoAway, Expire, Post, Withdraw
  <2> QED
    BY <1>2, <2>1
<1>7. CASE (\E q \in Keepers : Browse(p, q)) \/ Look(p) \/ StopBrowsing(p)
  <2>1. bag' = bag /\ \A x \in Players : x # p => task'[x] = task[x]
    BY <1>1, <1>7 DEF Browse, Look, StopBrowsing, Done
  <2>2. (\E q \in Keepers : Browse(p, q)) => task'[p].at = "look"
    BY <1>1, IdleIs DEF Browse, Task
  <2>3. Look(p) => task'[p].at = "idle"
    BY <1>1, IdleIs DEF Look
  <2>4. StopBrowsing(p) => task'[p] = task[p]
    BY DEF StopBrowsing
  <2> QED
    BY <1>1, <1>2, <1>7, <2>1, <2>2, <2>3, <2>4
<1>8. CASE HangUp(p)
  <2>1. r # p => task'[r] = task[r] /\ bag' = bag
    BY <1>1, <1>8, HangUpIs
  <2>2. r # p
    BY <1>1, <1>8, HangUpIs
  <2> QED
    BY <1>1, <1>2, <2>1, <2>2
<1> QED
  BY <1>3, <1>4, <1>5, <1>6, <1>7, <1>8 DEF Step, ShopperStep, Orderly

-----------------------------------------------------------------------------
(* The ledger of one stall.                                                  *)

\* The purchases from q are the same ones before and after.
SameDeals(q) ==
  \A r \in Players :
    /\ OnDeal(task'[r], q) <=> OnDeal(task[r], q)
    /\ OnDeal(task[r], q) => /\ task'[r].place = task[r].place /\ task'[r].item = task[r].item
                             /\ task'[r].n = task[r].n /\ task'[r].snap = task[r].snap

LEMMA SameSums ==
  ASSUME NEW q, SameDeals(q), NEW x
  PROVE  Sums("slot", task', q, x) = Sums("slot", task, q, x)
<1>1. \A r \in Players : Term("slot", task'[r], q, x) = Term("slot", task[r], q, x)
  BY DEF SameDeals, OnDeal, Term
<1> QED
  BY <1>1, SumsSame

LEMMA AloneSame ==
  ASSUME NEW q, SameDeals(q), Ledger(q)
  PROVE  \A p, r \in Players : p # r /\ OnDeal(task'[p], q) /\ OnDeal(task'[r], q) => Alone(task'[p], task'[r])
<1> SUFFICES ASSUME NEW p \in Players, NEW r \in Players, p # r, OnDeal(task'[p], q), OnDeal(task'[r], q)
             PROVE  Alone(task'[p], task'[r])
  OBVIOUS
<1>1. OnDeal(task[p], q) /\ OnDeal(task[r], q)
  BY DEF SameDeals
<1>2. Alone(task[p], task[r])
  BY <1>1 DEF Ledger
<1>3. /\ task'[p].place = task[p].place /\ task'[p].n = task[p].n /\ task'[p].snap = task[p].snap
      /\ task'[r].place = task[r].place /\ task'[r].n = task[r].n /\ task'[r].snap = task[r].snap
  BY <1>1 DEF SameDeals
<1> QED
  BY <1>2, <1>3 DEF Alone, FullySold

\* Nothing at q's stall changes.
LEMMA FrameLedger ==
  ASSUME NEW q \in Keepers, Ledger(q), SameDeals(q),
         stall'[q] = stall[q], listing'[q] = listing[q], bag'[q] = bag[q]
  PROVE  Ledger(q)'
<1>1. Balanced(q)'
  BY SameSums DEF Ledger, Balanced
<1>2. ASSUME NEW p \in Players, OnDeal(task'[p], q) PROVE Holds(q, task[p])'
  <2>1. /\ OnDeal(task[p], q) /\ task'[p].place = task[p].place /\ task'[p].item = task[p].item
        /\ task'[p].n = task[p].n /\ task'[p].snap = task[p].snap
    BY <1>2 DEF SameDeals
  <2>2. Holds(q, task[p])
    BY <2>1 DEF Ledger
  <2>3. FullySold(task'[p]) <=> FullySold(task[p])
    BY <2>1 DEF FullySold
  <2>4. Sums("slot", task', q, task[p].snap.slot) = Sums("slot", task, q, task[p].snap.slot)
    BY SameSums
  <2>5. Stocked(q, task[p]) => Stocked(q, task[p])'
    BY <2>1, <2>3, <2>4 DEF Stocked
  <2>6. Cleared(q, task[p]) => Cleared(q, task[p])'
    BY <2>1, <2>3 DEF Cleared
  <2> QED
    BY <2>1, <2>2, <2>5, <2>6 DEF Holds
<1> QED
  BY <1>1, <1>2, AloneSame DEF Ledger

\* The stall is closed: there is nothing left to buy.
LEMMA ClosedLedger ==
  ASSUME NEW q \in Keepers, Ledger(q), SameDeals(q),
         stall'[q] # "open", \A k \in Places : listing'[q][k].price = 0, bag'[q] = bag[q]
  PROVE  Ledger(q)'
<1>1. Balanced(q)'
  BY DEF Balanced
<1>2. ASSUME NEW p \in Players, OnDeal(task'[p], q) PROVE Holds(q, task[p])'
  <2>1. /\ OnDeal(task[p], q) /\ task'[p].place = task[p].place /\ task'[p].item = task[p].item
        /\ task'[p].n = task[p].n /\ task'[p].snap = task[p].snap
    BY <1>2 DEF SameDeals
  <2>2. Holds(q, task[p])
    BY <2>1 DEF Ledger
  <2>3. FullySold(task'[p]) <=> FullySold(task[p])
    BY <2>1 DEF FullySold
  <2>4. Sums("slot", task', q, task[p].snap.slot) = Sums("slot", task, q, task[p].snap.slot)
    BY SameSums
  <2>5. Stocked(q, task[p]) => Stocked(q, task[p])'
    BY <2>1, <2>3, <2>4 DEF Stocked
  <2>6. Cleared(q, task[p]) => Cleared(q, task[p])'
    BY <2>1, <2>3 DEF Cleared
  <2> QED
    BY <2>1, <2>2, <2>5, <2>6 DEF Holds
<1> QED
  BY <1>1, <1>2, AloneSame DEF Ledger

\* Nobody buys from q.
LEMMA QuietLedger ==
  ASSUME NEW q \in Keepers, \A r \in Players : ~OnDeal(task'[r], q), Balanced(q)'
  PROVE  Ledger(q)'
BY DEF Ledger

\* The keeper's own steps: all but item_move wait until nobody is buying.
LEMMA KeeperLedger ==
  ASSUME Orderly, Patient, Trade, Inv', NEW q \in Keepers, Step(q)
  PROVE  Ledger(q)'
<1>1. /\ Inv /\ q \in Players /\ Ledger(q) /\ task[q].at = "idle" /\ presence[q] = "here" /\ browsing[q] = NoPlayer
      /\ listing \in [Players -> [Places -> Offer]] /\ bag \in [Players -> Bag] /\ stall \in [Players -> {"closed", "preparing", "open"}]
      /\ Covers(q) /\ q \notin Shoppers /\ q \notin Leavers /\ ~Hasty /\ ~Splitting /\ task \in [Players -> Task]
  BY TradeIs DEF Trade, Actors, Sound, Patient, Orderly
<1>2. ~ShopperStep(q) /\ ~GoAway(q) /\ ~Expire(q) /\ ~Quit(q) /\ ~HangUp(q) /\ ~(\E f \in Finds : FindItem(q, f[1], f[2]))
  <2>1. ~BuyStep(q) /\ ~Look(q)
    BY <1>1, BuyTask DEF Look
  <2>2. ~StopBrowsing(q) /\ ~(\E r \in Keepers : Browse(q, r)) /\ ~(\E k \in Places, n \in Amounts, d \in Slots : StartBuy(q, k, n, d))
    BY <1>1 DEF StopBrowsing, Browse, StartBuy
  <2> QED
    BY <1>1, <2>1, <2>2 DEF ShopperStep, GoAway, Expire, Quit, HangUp, Orderly
<1>3. CASE Open(q) \/ Close(q) \/ Insert(q) \/ (\E s \in Slots, k \in Places, o \in Postings : Post(q, s, k, o)) \/ (\E k \in Places : Withdraw(q, k))
  <2>1. AtEase(q) /\ task' = task /\ bag' = bag
    BY <1>3 DEF Open, Close, Insert, Post, Withdraw
  <2>2. \A r \in Players : ~OnDeal(task[r], q)
    BY <1>1, <2>1 DEF AtEase, Buying, OnDeal, Under
  <2>3. \A r \in Players : ~OnDeal(task'[r], q)
    BY <2>1, <2>2
  <2>4. \A x : Sums("slot", task', q, x) = 0
    <3> SUFFICES ASSUME NEW x PROVE Sums("slot", task, q, x) = 0
      BY <2>1
    <3>1. \A r \in Players : Term("slot", task[r], q, x) = 0
      BY <2>2 DEF OnDeal, Term
    <3> QED
      BY <1>1, <3>1, SumsNone
  <2>5. \A x : Sums("slot", task, q, x) = 0
    BY <2>1, <2>4
  <2>6. CASE Open(q) \/ Insert(q)
    BY <1>1, <2>1, <2>3, <2>6, QuietLedger DEF Open, Insert, Ledger, Balanced
  <2>7. CASE Close(q)
    <3>1. \A k \in Places : listing'[q][k] = NoOffer
      BY <1>1, <2>7 DEF Close, CloseStall
    <3>2. Balanced(q)'
      BY <3>1, EmptyIs DEF Balanced
    <3> QED
      BY <2>3, <3>2, QuietLedger
  <2>8. ASSUME NEW s \in Slots, NEW k \in Places, NEW o \in Postings, Post(q, s, k, o) PROVE Ledger(q)'
    <3>1. listing'[q] = [listing[q] EXCEPT ![k] = [item |-> bag[q][s].item, count |-> o.count, price |-> o.price, kc |-> o.kc, slot |-> s, soldOut |-> FALSE]]
      BY <1>1, <2>8 DEF Post
    <3>2. o.count = bag[q][s].count /\ ~o.kc /\ o.price \in Asked /\ o.count \in Nat
      BY <1>1, <2>8 DEF Post, Orderly, Asked
    <3>3. ASSUME NEW j \in Places, listing'[q][j].price # 0
          PROVE  LET new == listing'[q][j] IN
                 new.price \in Asked /\ ~new.kc /\ new.count + Sums("slot", task', q, new.slot) = bag'[q][new.slot].count
      <4>1. CASE j = k
        <5>1. listing'[q][j] = [item |-> bag[q][s].item, count |-> o.count, price |-> o.price, kc |-> o.kc, slot |-> s, soldOut |-> FALSE]
          BY <1>1, <3>1, <4>1
        <5>2. listing'[q][j].price = o.price /\ listing'[q][j].kc = o.kc /\ listing'[q][j].count = o.count /\ listing'[q][j].slot = s
          BY <5>1
        <5> QED
          BY <2>1, <2>4, <3>2, <5>2
      <4>2. CASE j # k
        <5>1. listing'[q][j] = listing[q][j]
          BY <1>1, <3>1, <4>2
        <5> QED
          BY <1>1, <2>1, <3>3, <5>1 DEF Ledger, Balanced
      <4> QED
        BY <4>1, <4>2
    <3>4. Balanced(q)'
      BY <3>3 DEF Balanced
    <3> QED
      BY <2>3, <3>4, QuietLedger
  <2>9. ASSUME NEW k \in Places, Withdraw(q, k) PROVE Ledger(q)'
    <3>1. listing'[q][k] = NoOffer /\ \A j \in Places : j # k => listing'[q][j] = listing[q][j]
      BY <1>1, <2>9 DEF Withdraw
    <3>2. Balanced(q)'
      <4> SUFFICES ASSUME NEW j \in Places, listing'[q][j].price # 0
                   PROVE  LET new == listing'[q][j] IN
                          new.price \in Asked /\ ~new.kc /\ new.count + Sums("slot", task', q, new.slot) = bag'[q][new.slot].count
        BY DEF Balanced
      <4>1. listing'[q][j] = listing[q][j]
        BY <3>1, EmptyIs
      <4> QED
        BY <1>1, <2>1, <4>1 DEF Ledger, Balanced
    <3> QED
      BY <2>3, <3>2, QuietLedger
  <2> QED
    BY <1>3, <2>6, <2>7, <2>8, <2>9
<1>4. CASE \E m \in Moves : MoveItem(q, m[1], m[2])
  <2>1. UNCHANGED <<shop, task>> /\ stall[q] = "closed" /\ \A r \in Players : task[r].at \notin {"idle", "look", "cut"} => task[r].of # q
    BY <1>1, <1>4, MoveIs
  <2>2. \A r \in Players : ~OnDeal(task'[r], q)
    BY <2>1 DEF OnDeal, Under
  <2>3. \A k \in Places : listing'[q][k].price = 0
    BY <1>1, <2>1 DEF Covers, Shut, shop
  <2> QED
    BY <2>2, <2>3, QuietLedger DEF Balanced
<1> QED
  BY <1>2, <1>3, <1>4 DEF Step, KeeperStep

\* What is known of a purchase from q, and of q's places.
LEMMA DealIs ==
  ASSUME Patient, Trade, NEW q \in Keepers, NEW p \in Players, task[p].of = q, task[p].at \notin {"idle", "look", "cut"}
  PROVE  /\ q \in Players /\ Covers(q) /\ Ledger(q) /\ Inv /\ stall[q] \in {"closed", "open"} /\ presence[q] = "here"
         /\ task \in [Players -> Task] /\ listing \in [Players -> [Places -> Offer]] /\ bag \in [Players -> Bag]
         /\ task[p] \in Task /\ task[p].place \in Places /\ task[p].item \in Item /\ task[p].item # NoItem
         /\ task[p].n \in Nat /\ task[p].n >= 1 /\ task[p].snap \in Offer /\ task[p].snap.count < CountMod
         /\ \A k \in Places : listing[q][k].price # 0 => stall[q] = "open"
         /\ OnDeal(task[p], q) => \A k \in Places : Matches(task[p], k, listing[q][k])
<1>1. /\ q \in Players /\ Covers(q) /\ Ledger(q) /\ Inv /\ presence[q] = "here"
      /\ stall \in [Players -> {"closed", "preparing", "open"}]
      /\ task \in [Players -> Task] /\ listing \in [Players -> [Places -> Offer]] /\ bag \in [Players -> Bag]
  BY TradeIs DEF Trade, Sound, Patient, Actors
<1>2. /\ task[p] \in Task /\ task[p].place \in Places /\ task[p].item \in Item
      /\ task[p].n \in Nat /\ task[p].n >= 1 /\ task[p].snap \in Offer /\ task[p].snap.count < CountMod
  BY <1>1, BuyFacts
<1>3. task[p].item # NoItem
  BY <1>2 DEF Item
<1>4. stall[q] \in {"closed", "open"}
  BY <1>1 DEF Covers, Unbothered
<1>5. \A k \in Places : listing[q][k].price # 0 => stall[q] = "open"
  BY <1>1, <1>4 DEF Covers, Shut
<1>6. OnDeal(task[p], q) => \A k \in Places : Matches(task[p], k, listing[q][k])
  <2>1. OnDeal(task[p], q) => OnStall(task[p], q)
    BY DEF OnDeal, OnStall, Under, Claimed, Stages
  <2> QED
    BY <1>1, <2>1 DEF Covers, Honours
<1> QED
  BY <1>1, <1>2, <1>3, <1>4, <1>5, <1>6

\* What a purchase counts for at a slot.
LEMMA SlotTerm ==
  ASSUME NEW t, NEW q, NEW x
  PROVE  Term("slot", t, q, x) = IF OnDeal(t, q) /\ t.snap.slot = x THEN t.n ELSE 0
BY DEF Term, OnDeal

\* A step of p changes a sum by what the purchase of p counts for in it.
LEMMA KindStep ==
  ASSUME task \in [Players -> Task], task' \in [Players -> Task], NEW p \in Players, Others(p), NEW kind, NEW q, NEW y
  PROVE  /\ Sums(kind, task', q, y) + Term(kind, task[p], q, y) = Sums(kind, task, q, y) + Term(kind, task'[p], q, y)
         /\ Sums(kind, task, q, y) \in Nat /\ Sums(kind, task', q, y) \in Nat
         /\ Term(kind, task[p], q, y) \in Nat /\ Term(kind, task'[p], q, y) \in Nat
         /\ Term(kind, task[p], q, y) <= Sums(kind, task, q, y)
<1>1. PICK tk \in [Players -> Task], tl \in [Players -> Task] : tk = task /\ tl = task'
  OBVIOUS
<1>2. \A r \in Players : r # p => tl[r] = tk[r]
  BY <1>1 DEF Others
<1>3. /\ Sums(kind, tl, q, y) + Term(kind, tk[p], q, y) = Sums(kind, tk, q, y) + Term(kind, tl[p], q, y)
      /\ Sums(kind, tk, q, y) \in Nat /\ Sums(kind, tl, q, y) \in Nat
      /\ Term(kind, tk[p], q, y) \in Nat /\ Term(kind, tl[p], q, y) \in Nat
      /\ Term(kind, tk[p], q, y) <= Sums(kind, tk, q, y)
  BY <1>2, SumsChange
<1> QED
  BY <1>1, <1>3

LEMMA SlotStep ==
  ASSUME task \in [Players -> Task], task' \in [Players -> Task], NEW p \in Players, Others(p), NEW q, NEW y
  PROVE  /\ Sums("slot", task', q, y) + Term("slot", task[p], q, y) = Sums("slot", task, q, y) + Term("slot", task'[p], q, y)
         /\ Sums("slot", task, q, y) \in Nat /\ Sums("slot", task', q, y) \in Nat
BY KindStep

\* try_merchant_buy.
LEMMA ReserveLedger ==
  ASSUME Patient, Trade, Inv', NEW q \in Keepers, NEW p \in Players, Reserve(p), task[p].of = q,
         Offers(listing[q][task[p].place], task[p].item, task[p].n)
  PROVE  Ledger(q)'
<1> DEFINE t == task[p]
           k == t.place
           o == listing[q][k]
           x == o.slot
           S(y) == Sums("slot", task, q, y)
<1>1. /\ q \in Players /\ Covers(q) /\ Ledger(q) /\ Inv
      /\ task \in [Players -> Task] /\ listing \in [Players -> [Places -> Offer]]
      /\ t \in Task /\ k \in Places /\ t.item \in Item /\ t.n \in Nat /\ t.n >= 1 /\ t.at = "reserve"
      /\ \A j \in Places : listing[q][j].price # 0 => stall[q] = "open"
  BY DealIs DEF Reserve
<1>2. /\ Others(p) /\ Stays(p) /\ task'[p].at = "pay" /\ task'[p].snap = o
      /\ listing' = [listing EXCEPT ![q][k] = Reserved(o, t.n)] /\ stall' = stall /\ bag' = bag /\ task' \in [Players -> Task]
  <2>1. task' \in [Players -> Task] /\ task'[p] # Idle
    BY <1>1 DEF Inv, TypeOK, Reserve, Idle
  <2> QED
    BY <2>1, ReserveTask DEF Reserve
<1>3. o \in Offer /\ o.price # 0 /\ o.item = t.item /\ o.count >= t.n /\ o.count \in Nat
  BY <1>1 DEF Offers, Offer
<1>4. o.slot \in Slots /\ bag[q][x].item = t.item /\ bag[q][x].count \in Nat /\ stall[q] = "open" /\ t.item # NoItem
  BY <1>1, <1>3, PricedIs DEF Item
<1>5. /\ listing'[q][k].count = o.count - t.n /\ listing'[q][k].price = o.price /\ listing'[q][k].slot = x
      /\ listing'[q][k].kc = o.kc
      /\ \A j \in Places : j # k => listing'[q][j] = listing[q][j]
  <2>1. listing'[q][k] = Reserved(o, t.n)
    BY <1>1, <1>2
  <2>2. Reserved(o, t.n).kc = o.kc
    BY <1>3 DEF Reserved, Offer
  <2> QED
    BY <1>1, <1>2, <1>3, <2>1, <2>2, ReservedIs
<1>6. o.price \in Asked /\ ~o.kc /\ o.count + S(x) = bag[q][x].count
  BY <1>1, <1>3 DEF Ledger, Balanced
<1>7. \A y : /\ Sums("slot", task', q, y) = IF y = x THEN S(y) + t.n ELSE S(y)
             /\ S(y) \in Nat
  <2> SUFFICES ASSUME NEW y PROVE Sums("slot", task', q, y) = (IF y = x THEN S(y) + t.n ELSE S(y)) /\ S(y) \in Nat
    OBVIOUS
  <2>1. Term("slot", task[p], q, y) = 0
    BY <1>1, SlotTerm DEF OnDeal, Under
  <2>2. Term("slot", task'[p], q, y) = IF y = x THEN t.n ELSE 0
    BY <1>1, <1>2, SlotTerm DEF OnDeal, Under, Stays
  <2>3. /\ Sums("slot", task', q, y) + Term("slot", task[p], q, y) = Sums("slot", task, q, y) + Term("slot", task'[p], q, y)
        /\ Sums("slot", task, q, y) \in Nat /\ Sums("slot", task', q, y) \in Nat
    BY <1>1, <1>2, SlotStep
  <2> QED
    BY <1>1, <2>1, <2>2, <2>3
<1>8. OnDeal(task'[p], q) /\ ~OnDeal(task[p], q) /\ task'[p].place = k /\ task'[p].item = t.item /\ task'[p].n = t.n
  BY <1>1, <1>2 DEF OnDeal, Under, Stays
<1>9. ASSUME NEW r \in Players, r # p, OnDeal(task'[r], q)
      PROVE  /\ task'[r] = task[r] /\ OnDeal(task[r], q) /\ Holds(q, task[r])
             /\ \A j \in Places : Matches(task[r], j, listing[q][j])
  <2>1. task'[r] = task[r] /\ OnDeal(task[r], q)
    BY <1>2, <1>9 DEF Others
  <2>2. Holds(q, task[r]) /\ \A j \in Places : Matches(task[r], j, listing[q][j])
    BY <1>1, <2>1, DealIs DEF Ledger, OnDeal, Under
  <2> QED
    BY <2>1, <2>2
<1> HIDE DEF S, x, o, k, t
<1>10. Balanced(q)'
  <2> SUFFICES ASSUME NEW j \in Places, listing'[q][j].price # 0
               PROVE  LET n == listing'[q][j] IN
                      n.price \in Asked /\ ~n.kc /\ n.count + Sums("slot", task', q, n.slot) = bag[q][n.slot].count
    BY <1>2 DEF Balanced
  <2>1. CASE j = k
    <3>1. listing'[q][j].count + Sums("slot", task', q, x) = bag[q][x].count
      <4>1. /\ listing'[q][j].count = o.count - t.n /\ Sums("slot", task', q, x) = S(x) + t.n
            /\ o.count + S(x) = bag[q][x].count /\ S(x) \in Nat /\ o.count \in Nat /\ t.n \in Nat
        BY <1>1, <1>3, <1>5, <1>6, <1>7, <2>1
      <4> QED
        BY <4>1
    <3>2. listing'[q][j].slot = x /\ listing'[q][j].price \in Asked /\ ~listing'[q][j].kc
      BY <1>5, <1>6, <2>1
    <3> QED
      BY <3>1, <3>2
  <2>2. CASE j # k
    <3>1. listing'[q][j] = listing[q][j]
      BY <1>5, <2>2
    <3>2. listing[q][j].slot # x
      BY <1>1, <1>3, <2>2, <3>1 DEF Covers, Apart, x, o
    <3>3. listing[q][j].price \in Asked /\ ~listing[q][j].kc /\ listing[q][j].count + S(listing[q][j].slot) = bag[q][listing[q][j].slot].count
      BY <1>1, <3>1 DEF Ledger, Balanced, S
    <3> QED
      BY <1>7, <3>1, <3>2, <3>3
  <2> QED
    BY <2>1, <2>2
<1>11. ASSUME NEW r \in Players, OnDeal(task'[r], q) PROVE Holds(q, task[r])'
  <2>1. CASE r = p
    <3>1. Stocked(q, task[p])'
      <4>1. bag'[q][x].item = t.item /\ Sums("slot", task', q, x) = S(x) + t.n /\ S(x) \in Nat /\ bag'[q][x].count = o.count + S(x)
        BY <1>2, <1>4, <1>6, <1>7
      <4>2. listing'[q][k].price # 0
        BY <1>3, <1>5
      <4>3. task'[p].snap.slot = x /\ task'[p].item = t.item /\ task'[p].place = k
        BY <1>2, <1>8 DEF x
      <4> QED
        BY <1>1, <1>3, <4>1, <4>2, <4>3 DEF Stocked
    <3>2. task'[p].snap.slot \in Slots /\ task'[p].snap.price \in Asked
      BY <1>2, <1>4, <1>6
    <3> QED
      BY <2>1, <3>1, <3>2 DEF Holds
  <2>2. CASE r # p
    <3>1. task'[r] = task[r] /\ Holds(q, task[r]) /\ \A j \in Places : Matches(task[r], j, listing[q][j])
      BY <1>9, <1>11, <2>2
    <3> DEFINE y == task[r].snap.slot
    <3>2. task[r].place \in Places
      BY <1>1, <1>9, <1>11, <2>2, DealIs DEF OnDeal, Under
    <3>3. listing'[q][task[r].place].price = listing[q][task[r].place].price
      BY <1>5, <3>2 DEF o
    <3>4. CASE Stocked(q, task[r])
      <4>1. /\ bag[q][y].item = task[r].item /\ S(y) <= bag[q][y].count
            /\ listing[q][task[r].place].price # 0
        BY <1>4, <3>4 DEF Stocked, S
      <4>2. Sums("slot", task', q, y) <= bag[q][y].count
        BY <1>1, <1>3, <1>6, <1>7, <3>1, <4>1
      <4>3. Stocked(q, task[r])'
        BY <1>2, <3>1, <3>3, <4>1, <4>2 DEF Stocked
      <4> QED
        BY <3>1, <4>3 DEF Holds
    <3>5. CASE Cleared(q, task[r])
      <4>1. Cleared(q, task[r])'
        BY <1>2, <3>1, <3>3, <3>5 DEF Cleared
      <4> QED
        BY <3>1, <4>1 DEF Holds
    <3> QED
      BY <3>1, <3>4, <3>5 DEF Holds
  <2> QED
    BY <2>1, <2>2
<1>12. ASSUME NEW r \in Players, r # p, OnDeal(task'[r], q) PROVE Alone(task'[p], task'[r]) /\ Alone(task'[r], task'[p])
  <2>1. task'[r] = task[r] /\ \A j \in Places : Matches(task[r], j, listing[q][j])
    BY <1>9, <1>12
  <2>2. task[r].place = k => task[r].snap.slot = x
    BY <1>1, <1>3, <2>1 DEF Matches, x, o
  <2>3. task'[p].snap.slot = x /\ task'[p].place = k
    BY <1>2, <1>8 DEF x
  <2> QED
    BY <2>1, <2>2, <2>3 DEF Alone
<1>13. \A r, u \in Players : r # u /\ OnDeal(task'[r], q) /\ OnDeal(task'[u], q) => Alone(task'[r], task'[u])
  BY <1>1, <1>9, <1>12 DEF Ledger
<1> QED
  BY <1>10, <1>11, <1>13 DEF Ledger

\* Purchase p is over: what it counted for is gone from its slot.
LEMMA LeaveIs ==
  ASSUME task \in [Players -> Task], task' \in [Players -> Task], NEW p \in Players, Others(p),
         NEW q \in Keepers, Ledger(q), OnDeal(task[p], q), ~OnDeal(task'[p], q)
  PROVE  /\ \A y : /\ Sums("slot", task, q, y) \in Nat
                   /\ Sums("slot", task', q, y) = IF y = task[p].snap.slot THEN Sums("slot", task, q, y) - task[p].n
                                                                          ELSE Sums("slot", task, q, y)
         /\ task[p].n <= Sums("slot", task, q, task[p].snap.slot)
         /\ \A r \in Players : OnDeal(task'[r], q) =>
              /\ r # p /\ task'[r] = task[r] /\ OnDeal(task[r], q) /\ Holds(q, task[r]) /\ Alone(task[p], task[r])
              /\ task[r].snap.slot = task[p].snap.slot =>
                   task[p].n + task[r].n <= Sums("slot", task, q, task[p].snap.slot)
         /\ \A r, u \in Players : r # u /\ OnDeal(task'[r], q) /\ OnDeal(task'[u], q) => Alone(task'[r], task'[u])
<1> DEFINE x == task[p].snap.slot
<1>1. task[p] \in Task /\ task[p].n \in Nat
  BY DEF Task
<1>2. ASSUME NEW y
      PROVE  /\ Sums("slot", task, q, y) \in Nat
             /\ Sums("slot", task', q, y) = IF y = x THEN Sums("slot", task, q, y) - task[p].n ELSE Sums("slot", task, q, y)
             /\ y = x => task[p].n <= Sums("slot", task, q, y)
  <2>1. Term("slot", task[p], q, y) = IF y = x THEN task[p].n ELSE 0
    BY SlotTerm
  <2>2. Term("slot", task'[p], q, y) = 0
    BY SlotTerm
  <2>3. /\ Sums("slot", task', q, y) + Term("slot", task[p], q, y) = Sums("slot", task, q, y) + Term("slot", task'[p], q, y)
        /\ Sums("slot", task, q, y) \in Nat /\ Sums("slot", task', q, y) \in Nat
    BY SlotStep
  <2> QED
    BY <1>1, <2>1, <2>2, <2>3
<1>3. ASSUME NEW r \in Players, OnDeal(task'[r], q)
      PROVE  /\ r # p /\ task'[r] = task[r] /\ OnDeal(task[r], q) /\ Holds(q, task[r]) /\ Alone(task[p], task[r])
             /\ task[r].snap.slot = x => task[p].n + task[r].n <= Sums("slot", task, q, x)
  <2>1. r # p /\ task'[r] = task[r] /\ OnDeal(task[r], q)
    BY <1>3 DEF Others
  <2>2. Holds(q, task[r]) /\ Alone(task[p], task[r])
    BY <2>1 DEF Ledger
  <2>3. task[r].snap.slot = x => task[p].n + task[r].n <= Sums("slot", task, q, x)
    <3> SUFFICES ASSUME task[r].snap.slot = x PROVE task[p].n + task[r].n <= Sums("slot", task, q, x)
      OBVIOUS
    <3>1. Term("slot", task[p], q, x) + Term("slot", task[r], q, x) <= Sums("slot", task, q, x)
      BY <2>1, TwoTerms
    <3>2. Term("slot", task[p], q, x) = task[p].n /\ Term("slot", task[r], q, x) = task[r].n
      BY <2>1, SlotTerm
    <3> QED
      BY <3>1, <3>2
  <2> QED
    BY <2>1, <2>2, <2>3
<1>4. \A r, u \in Players : r # u /\ OnDeal(task'[r], q) /\ OnDeal(task'[u], q) => Alone(task'[r], task'[u])
  BY <1>3 DEF Ledger
<1> QED
  BY <1>2, <1>3, <1>4

\* restore_merchant_buy.
LEMMA RestoreLedger ==
  ASSUME Patient, Trade, Inv', NEW q \in Keepers, NEW p \in Players, Restore(p), task[p].of = q
  PROVE  Ledger(q)'
<1> DEFINE t == task[p]
           k == t.place
           o == listing[q][k]
           x == t.snap.slot
           S(y) == Sums("slot", task, q, y)
<1>1. /\ q \in Players /\ Covers(q) /\ Ledger(q) /\ Inv /\ t.at = "restore" /\ OnDeal(t, q)
      /\ task \in [Players -> Task] /\ task' \in [Players -> Task] /\ listing \in [Players -> [Places -> Offer]]
      /\ t \in Task /\ k \in Places /\ t.item \in Item /\ t.item # NoItem /\ t.n \in Nat /\ t.n >= 1 /\ t.snap.count < CountMod
      /\ bag \in [Players -> Bag]
  <2>1. t.at = "restore" /\ OnDeal(t, q) /\ task' \in [Players -> Task]
    BY DEF Restore, OnDeal, Under, Inv, TypeOK
  <2> QED
    BY <2>1, DealIs
<1>2. /\ \A j \in Places : Matches(t, j, listing[q][j])
      /\ \A j \in Places : listing[q][j].price # 0 => stall[q] = "open"
  BY <1>1, DealIs
<1>3. /\ Others(p) /\ ~OnDeal(task'[p], q) /\ stall' = stall /\ bag' = bag
      /\ listing' = [listing EXCEPT ![q][k] = Restored(@, t.item, t.n)]
  BY <1>1, BuyTask, IdleIs DEF Restore, BuyStep, OnDeal, Under
<1>4. o \in Offer
  BY <1>1
<1>5. /\ listing'[q][k].price = o.price /\ listing'[q][k].slot = o.slot /\ listing'[q][k].kc = o.kc
      /\ o.item = t.item => listing'[q][k].count = Clamp(o.count + t.n, CountMod - 1)
      /\ \A j \in Places : j # k => listing'[q][j] = listing[q][j]
  <2>1. listing'[q][k] = Restored(o, t.item, t.n)
    BY <1>1, <1>3
  <2>2. Restored(o, t.item, t.n).kc = o.kc
    BY <1>4 DEF Restored, Offer
  <2>3. /\ Restored(o, t.item, t.n).price = o.price /\ Restored(o, t.item, t.n).slot = o.slot
        /\ o.item = t.item => Restored(o, t.item, t.n).count = Clamp(o.count + t.n, CountMod - 1)
    <3>1. \A a \in Offer, i \in Item, n \in Nat :
            /\ Restored(a, i, n).price = a.price /\ Restored(a, i, n).slot = a.slot
            /\ a.item = i => Restored(a, i, n).count = Clamp(a.count + n, CountMod - 1)
      BY RestoredIs
    <3> QED
      BY <1>1, <1>4, <3>1
  <2>4. \A j \in Places : j # k => listing'[q][j] = listing[q][j]
    BY <1>1, <1>3
  <2> QED
    BY <2>1, <2>2, <2>3, <2>4
<1>6. Holds(q, t) /\ x \in Slots
  BY <1>1 DEF Ledger, Holds
<1>7. bag[q][x].count \in 0 .. CountMod - 1
  BY <1>1, <1>6, InventoryAssumption DEF Bag, Stack
<1>8. /\ \A y : S(y) \in Nat /\ Sums("slot", task', q, y) = IF y = x THEN S(y) - t.n ELSE S(y)
      /\ t.n <= S(x)
      /\ \A r \in Players : OnDeal(task'[r], q) =>
           r # p /\ task'[r] = task[r] /\ OnDeal(task[r], q) /\ Holds(q, task[r]) /\ Alone(t, task[r])
      /\ \A r, u \in Players : r # u /\ OnDeal(task'[r], q) /\ OnDeal(task'[u], q) => Alone(task'[r], task'[u])
  BY <1>1, <1>3, LeaveIs
<1> HIDE DEF S, x, o, k, t
<1>9. ASSUME listing'[q][k].price # 0
      PROVE  /\ o.slot = x /\ o.price \in Asked /\ ~o.kc /\ o.count \in Nat /\ o.count + S(x) = bag[q][x].count
             /\ listing'[q][k].count = o.count + t.n
  <2>1. o.price # 0 /\ o.slot = x /\ o.item = t.item
    BY <1>1, <1>2, <1>5, <1>9 DEF Matches, o, x, k
  <2>2. o.price \in Asked /\ ~o.kc /\ o.count + S(x) = bag[q][x].count
    BY <1>1, <2>1 DEF Ledger, Balanced, o, S
  <2>3. o.count \in Nat /\ S(x) \in Nat /\ t.n <= S(x) /\ t.n \in Nat
    BY <1>1, <1>4, <1>8 DEF Offer
  <2>4. o.count + t.n <= CountMod - 1
    BY <1>7, <2>2, <2>3
  <2> QED
    BY <1>5, <2>1, <2>2, <2>3, <2>4 DEF Clamp
<1>10. Balanced(q)'
  <2> SUFFICES ASSUME NEW j \in Places, listing'[q][j].price # 0
               PROVE  LET n == listing'[q][j] IN
                      n.price \in Asked /\ ~n.kc /\ n.count + Sums("slot", task', q, n.slot) = bag[q][n.slot].count
    BY <1>3 DEF Balanced
  <2>2. CASE j = k
    <3>1. /\ o.slot = x /\ o.price \in Asked /\ ~o.kc /\ o.count \in Nat /\ o.count + S(x) = bag[q][x].count
          /\ listing'[q][k].count = o.count + t.n
      BY <1>9, <2>2
    <3>2. o.count + t.n + Sums("slot", task', q, x) = bag[q][x].count
      BY <1>1, <1>8, <3>1
    <3> QED
      BY <1>5, <2>2, <3>1, <3>2
  <2>3. CASE j # k
    <3>1. listing'[q][j] = listing[q][j]
      BY <1>5, <2>3
    <3>2. listing[q][j].slot # x
      BY <1>2, <2>3, <3>1 DEF Matches, x, k
    <3>3. listing[q][j].price \in Asked /\ ~listing[q][j].kc /\ listing[q][j].count + S(listing[q][j].slot) = bag[q][listing[q][j].slot].count
      BY <1>1, <3>1 DEF Ledger, Balanced, S
    <3> QED
      BY <1>8, <3>1, <3>2, <3>3
  <2> QED
    BY <2>2, <2>3
<1>11. ASSUME NEW r \in Players, OnDeal(task'[r], q) PROVE Holds(q, task[r])'
  <2>1. task'[r] = task[r] /\ OnDeal(task[r], q) /\ Holds(q, task[r]) /\ Alone(t, task[r])
    BY <1>8, <1>11
  <2> DEFINE y == task[r].snap.slot
  <2>2. task[r].place \in Places
    BY <2>1, DealIs DEF OnDeal, Under
  <2>3. listing'[q][task[r].place].price = listing[q][task[r].place].price
    BY <1>5, <2>2 DEF o
  <2>4. CASE Stocked(q, task[r])
    <3>1. /\ bag[q][y].item = task[r].item /\ S(y) <= bag[q][y].count
          /\ stall[q] = "open" => listing[q][task[r].place].price # 0
      BY <2>4 DEF Stocked, S
    <3>2. y \in Slots /\ bag[q][y].count \in Nat
      BY <1>1, <2>1 DEF Holds, Bag, Stack
    <3>3. Sums("slot", task', q, y) <= bag[q][y].count
      BY <1>1, <1>8, <3>1, <3>2
    <3>4. Stocked(q, task[r])'
      BY <1>3, <2>1, <2>3, <3>1, <3>3 DEF Stocked
    <3> QED
      BY <2>1, <3>4 DEF Holds
  <2>5. CASE Cleared(q, task[r])
    <3>1. Cleared(q, task[r])'
      BY <1>3, <2>1, <2>3, <2>5 DEF Cleared
    <3> QED
      BY <2>1, <3>1 DEF Holds
  <2> QED
    BY <2>1, <2>4, <2>5 DEF Holds
<1> QED
  BY <1>8, <1>10, <1>11 DEF Ledger

\* The keeper's stack after a sale, and the place.
LEMMA SettleLedger ==
  ASSUME Patient, Trade, Inv', NEW q \in Keepers, NEW p \in Players, Settle(p), task[p].of = q
  PROVE  Ledger(q)'
<1> DEFINE t == task[p]
           k == t.place
           x == t.snap.slot
           S(y) == Sums("slot", task, q, y)
           new == bag'[q][x]
<1>1. /\ q \in Players /\ Covers(q) /\ Ledger(q) /\ Inv /\ t.at = "settle" /\ OnDeal(t, q)
      /\ task \in [Players -> Task] /\ task' \in [Players -> Task] /\ listing \in [Players -> [Places -> Offer]]
      /\ t \in Task /\ k \in Places /\ t.item \in Item /\ t.item # NoItem /\ t.n \in Nat /\ t.n >= 1
      /\ bag \in [Players -> Bag]
  <2>1. t.at = "settle" /\ OnDeal(t, q) /\ task' \in [Players -> Task]
    BY DEF Settle, OnDeal, Under, Inv, TypeOK
  <2> QED
    BY <2>1, DealIs
<1>2. /\ \A j \in Places : Matches(t, j, listing[q][j])
      /\ \A j \in Places : listing[q][j].price # 0 => stall[q] = "open"
  BY <1>1, DealIs
<1>3. /\ Others(p) /\ ~OnDeal(task'[p], q)
  BY <1>1, BuyTask DEF BuyStep, OnDeal, Under
<1>4. /\ stall' = stall /\ bag'[q] = SettledBag(bag[q], t)
      /\ FullySold(t) => listing' = [listing EXCEPT ![q][k] = [NoOffer EXCEPT !.soldOut = TRUE]]
      /\ ~FullySold(t) => listing' = listing
  BY SettleTo
<1>5. Holds(q, t) /\ x \in Slots
  BY <1>1 DEF Ledger, Holds
<1>6. new = Settled(bag[q][x], t) /\ \A y \in Slots : y # x => bag'[q][y] = bag[q][y]
  BY <1>4, <1>5 DEF SettledBag
<1>7. bag[q][x] \in Stack /\ bag[q][x].count \in Nat
  BY <1>1, <1>5 DEF Bag, Stack
<1>8. /\ \A y : S(y) \in Nat /\ Sums("slot", task', q, y) = IF y = x THEN S(y) - t.n ELSE S(y)
      /\ t.n <= S(x)
      /\ \A r \in Players : OnDeal(task'[r], q) =>
           /\ r # p /\ task'[r] = task[r] /\ OnDeal(task[r], q) /\ Holds(q, task[r]) /\ Alone(t, task[r])
           /\ task[r].snap.slot = x => t.n + task[r].n <= S(x)
      /\ \A r, u \in Players : r # u /\ OnDeal(task'[r], q) /\ OnDeal(task'[u], q) => Alone(task'[r], task'[u])
  BY <1>1, <1>3, LeaveIs
<1> HIDE DEF S, x, k, t, new
\* Elsewhere in the bag nothing changes.
<1>9. ASSUME NEW j \in Places, listing[q][j].price # 0, listing[q][j].slot # x
      PROVE  LET o == listing[q][j] IN
             o.price \in Asked /\ ~o.kc /\ o.count + Sums("slot", task', q, o.slot) = bag'[q][o.slot].count
  <2> DEFINE o == listing[q][j]
  <2>1. o.price \in Asked /\ ~o.kc /\ o.count + S(o.slot) = bag[q][o.slot].count
    BY <1>1, <1>9 DEF Ledger, Balanced, S
  <2>2. o.slot \in Slots
    BY <1>1, <1>9, PricedIs
  <2> QED
    BY <1>6, <1>8, <1>9, <2>1, <2>2
<1>10. ASSUME NEW r \in Players, OnDeal(task'[r], q), task[r].snap.slot # x,
              listing'[q][task[r].place].price = listing[q][task[r].place].price
       PROVE  Holds(q, task[r])'
  <2> DEFINE y == task[r].snap.slot
  <2>1. task'[r] = task[r] /\ OnDeal(task[r], q) /\ Holds(q, task[r]) /\ y \in Slots
    BY <1>8, <1>10 DEF Holds
  <2>2. bag'[q][y] = bag[q][y] /\ Sums("slot", task', q, y) = S(y)
    BY <1>6, <1>8, <1>10, <2>1
  <2>3. CASE Stocked(q, task[r])
    <3>1. Stocked(q, task[r])'
      BY <1>4, <1>10, <2>1, <2>2, <2>3 DEF Stocked, S
    <3> QED
      BY <2>1, <3>1 DEF Holds
  <2>4. CASE Cleared(q, task[r])
    <3>1. Cleared(q, task[r])'
      BY <1>4, <1>10, <2>1, <2>2, <2>4 DEF Cleared
    <3> QED
      BY <2>1, <3>1 DEF Holds
  <2> QED
    BY <2>1, <2>3, <2>4 DEF Holds
\* The sale took the last of the offer: the slot is cleared.
<1>11. CASE FullySold(t) /\ Stocked(q, t)
  <2>1. bag[q][x].item = t.item
    BY <1>11 DEF Stocked, t, x
  <2>2. new = Empty
    BY <1>6, <1>11, <2>1 DEF Settled, FullySold
  <2>3. listing'[q][k].price = 0 /\ \A j \in Places : j # k => listing'[q][j] = listing[q][j]
    BY <1>1, <1>4, <1>11, EmptyIs DEF NoOffer
  <2>4. Balanced(q)'
    <3> SUFFICES ASSUME NEW j \in Places, listing'[q][j].price # 0
                 PROVE  LET n == listing'[q][j] IN
                        n.price \in Asked /\ ~n.kc /\ n.count + Sums("slot", task', q, n.slot) = bag'[q][n.slot].count
      BY DEF Balanced
    <3>1. j # k /\ listing'[q][j] = listing[q][j]
      BY <2>3
    <3>2. listing[q][j].slot # x
      BY <1>2, <3>1 DEF Matches, x, k
    <3> QED
      BY <1>9, <3>1, <3>2
  <2>5. ASSUME NEW r \in Players, OnDeal(task'[r], q) PROVE Holds(q, task[r])'
    <3>1. /\ task'[r] = task[r] /\ OnDeal(task[r], q) /\ Holds(q, task[r]) /\ Alone(t, task[r]) /\ task[r].place \in Places
      BY <1>8, <2>5, DealIs DEF OnDeal, Under
    <3>2. CASE task[r].snap.slot # x
      <4>1. task[r].place # k
        BY <3>1, <3>2 DEF Alone, x, k
      <4> QED
        BY <1>10, <2>3, <2>5, <3>1, <3>2, <4>1
    <3>3. CASE task[r].snap.slot = x
      <4>2. Stocked(q, task[r])
        BY <1>1, <2>1, <3>1, <3>3 DEF Holds, Cleared
      <4>3. stall[q] = "open" => task[r].place = k
        <5> SUFFICES ASSUME stall[q] = "open" PROVE task[r].place = k
          OBVIOUS
        <5>1. listing[q][task[r].place].price # 0
          BY <4>2 DEF Stocked
        <5>2. Matches(task[r], task[r].place, listing[q][task[r].place])
          BY <3>1, DealIs DEF OnDeal, Under
        <5>3. Matches(t, task[r].place, listing[q][task[r].place])
          BY <1>2, <3>1
        <5> QED
          BY <3>3, <5>1, <5>2, <5>3 DEF Matches, x, k
      <4>4. Cleared(q, task[r])'
        <5>1. bag'[q][task'[r].snap.slot].item = NoItem
          BY <2>2, <3>1, <3>3 DEF new, Empty
        <5>2. stall'[q] = "open" => listing'[q][task'[r].place].price = 0
          BY <1>4, <2>3, <3>1, <4>3
        <5> QED
          BY <3>1, <5>1, <5>2 DEF Cleared
      <4> QED
        BY <3>1, <4>4 DEF Holds
    <3> QED
      BY <3>2, <3>3
  <2> QED
    BY <1>8, <2>4, <2>5 DEF Ledger
\* Somebody else took the last of it first: there is nothing to take from.
<1>12. CASE Cleared(q, t)
  <2>1. /\ bag[q][x].item = NoItem
        /\ stall[q] = "open" => listing[q][k].price = 0 /\ listing'[q][k].price = 0
        /\ \A j \in Places : listing'[q][j].price # 0 => j # k /\ listing'[q][j] = listing[q][j]
        /\ \A j \in Places : listing'[q][j].price = listing[q][j].price
    <3>1. bag[q][x].item = NoItem /\ (stall[q] = "open" => listing[q][k].price = 0)
      BY <1>12 DEF Cleared, x, k, t
    <3>2. listing[q][k].price = 0
      BY <1>1, <1>2, <3>1
    <3>3. CASE FullySold(t)
      BY <1>1, <1>4, <3>1, <3>2, <3>3, EmptyIs DEF NoOffer
    <3>4. CASE ~FullySold(t)
      BY <1>1, <1>4, <3>1, <3>2, <3>4
    <3> QED
      BY <3>3, <3>4
  <2>2. new = bag[q][x]
    BY <1>1, <1>6, <1>7, <2>1, SettledIs
  <2>3. Balanced(q)'
    <3> SUFFICES ASSUME NEW j \in Places, listing'[q][j].price # 0
                 PROVE  LET n == listing'[q][j] IN
                        n.price \in Asked /\ ~n.kc /\ n.count + Sums("slot", task', q, n.slot) = bag'[q][n.slot].count
      BY DEF Balanced
    <3>1. listing'[q][j] = listing[q][j]
      BY <2>1
    <3>2. listing[q][j].slot # x
      <4>1. bag[q][listing[q][j].slot].item = listing[q][j].item /\ listing[q][j].item \in Item
        BY <1>1, <3>1, PricedIs
      <4> QED
        BY <2>1, <4>1 DEF Item
    <3> QED
      BY <1>9, <3>1, <3>2
  <2>4. ASSUME NEW r \in Players, OnDeal(task'[r], q) PROVE Holds(q, task[r])'
    <3>1. /\ task'[r] = task[r] /\ OnDeal(task[r], q) /\ Holds(q, task[r])
          /\ task[r].item # NoItem /\ task[r].place \in Places
      BY <1>8, <2>4, DealIs DEF OnDeal, Under
    <3>2. CASE task[r].snap.slot # x
      BY <1>10, <2>1, <2>4, <3>1, <3>2
    <3>3. CASE task[r].snap.slot = x
      <4>1. Cleared(q, task[r])
        BY <2>1, <3>1, <3>3 DEF Holds, Stocked
      <4>2. Cleared(q, task[r])'
        <5>1. bag'[q][task'[r].snap.slot].item = NoItem
          BY <2>1, <2>2, <3>1, <3>3 DEF new
        <5>2. stall'[q] = "open" => listing'[q][task'[r].place].price = 0
          BY <1>4, <2>1, <3>1, <4>1 DEF Cleared
        <5> QED
          BY <3>1, <5>1, <5>2 DEF Cleared
      <4> QED
        BY <3>1, <4>2 DEF Holds
    <3> QED
      BY <3>2, <3>3
  <2> QED
    BY <1>8, <2>3, <2>4 DEF Ledger
\* Part of the offer: the units leave the stack.
<1>13. CASE ~FullySold(t) /\ Stocked(q, t)
  <2>1. bag[q][x].item = t.item /\ S(x) <= bag[q][x].count /\ listing' = listing
    BY <1>4, <1>13 DEF Stocked, x, S, t
  <2>2. /\ t.n <= bag[q][x].count
        /\ t.n < bag[q][x].count => new.item = t.item
        /\ new.count = bag[q][x].count - t.n
    <3>1. t.n <= bag[q][x].count
      BY <1>1, <1>7, <1>8, <2>1
    <3>2. CASE t.n < bag[q][x].count
      <4>1. Settled(bag[q][x], t).item = bag[q][x].item /\ Settled(bag[q][x], t).count = bag[q][x].count - t.n
        BY <1>1, <1>7, <1>13, <2>1, <3>2, SettledIs
      <4> QED
        BY <1>6, <2>1, <3>1, <4>1
    <3>3. CASE t.n = bag[q][x].count
      <4>1. new = Empty
        BY <1>1, <1>6, <1>7, <2>1, <3>3 DEF Settled
      <4> QED
        BY <1>1, <3>3, <4>1 DEF Empty
    <3>4. t.n \in Nat /\ bag[q][x].count \in Nat
      BY <1>1, <1>7
    <3>5. t.n < bag[q][x].count \/ t.n = bag[q][x].count
      BY <3>1, <3>4
    <3> QED
      BY <3>2, <3>3, <3>5
  <2>3. Balanced(q)'
    <3> SUFFICES ASSUME NEW j \in Places, listing[q][j].price # 0
                 PROVE  LET n == listing[q][j] IN
                        n.price \in Asked /\ ~n.kc /\ n.count + Sums("slot", task', q, n.slot) = bag'[q][n.slot].count
      BY <2>1 DEF Balanced
    <3>1. CASE listing[q][j].slot = x
      <4>1. listing[q][j].price \in Asked /\ ~listing[q][j].kc /\ listing[q][j].count + S(x) = bag[q][x].count
        BY <1>1, <3>1 DEF Ledger, Balanced, S
      <4>2. listing[q][j].count \in Nat
        BY <1>1 DEF Offer
      <4>3. listing[q][j].count + Sums("slot", task', q, x) = new.count
        BY <1>1, <1>7, <1>8, <2>2, <4>1, <4>2
      <4> QED
        BY <3>1, <4>1, <4>3 DEF new
    <3>2. CASE listing[q][j].slot # x
      BY <1>9, <3>2
    <3> QED
      BY <3>1, <3>2
  <2>4. ASSUME NEW r \in Players, OnDeal(task'[r], q) PROVE Holds(q, task[r])'
    <3>1. /\ task'[r] = task[r] /\ OnDeal(task[r], q) /\ Holds(q, task[r])
          /\ task[r].item # NoItem /\ task[r].n \in Nat /\ task[r].n >= 1
          /\ task[r].snap.slot = x => t.n + task[r].n <= S(x)
      BY <1>8, <2>4, DealIs DEF OnDeal, Under
    <3>2. CASE task[r].snap.slot # x
      BY <1>10, <2>1, <2>4, <3>2
    <3>3. CASE task[r].snap.slot = x
      <4>1. Stocked(q, task[r])
        BY <1>1, <2>1, <3>1, <3>3 DEF Holds, Cleared
      <4>2. /\ task[r].item = t.item
            /\ stall[q] = "open" => listing[q][task[r].place].price # 0
        BY <2>1, <3>3, <4>1 DEF Stocked, S
      <4>3. t.n < bag[q][x].count /\ new.item = t.item
        BY <1>1, <1>7, <1>8, <2>1, <2>2, <3>1, <3>3
      <4>4. Sums("slot", task', q, x) <= new.count
        BY <1>1, <1>7, <1>8, <2>1, <2>2, <4>2
      <4>5. Stocked(q, task[r])'
        BY <1>4, <2>1, <3>1, <3>3, <4>2, <4>3, <4>4 DEF Stocked, new
      <4> QED
        BY <3>1, <4>5 DEF Holds
    <3> QED
      BY <3>2, <3>3
  <2> QED
    BY <1>8, <2>3, <2>4 DEF Ledger
<1> QED
  BY <1>5, <1>11, <1>12, <1>13 DEF Holds

LEMMA SameDealsIs ==
  ASSUME NEW q, NEW p \in Players, Others(p),
         \/ ~OnDeal(task[p], q) /\ ~OnDeal(task'[p], q)
         \/ task'[p] = task[p]
         \/ OnDeal(task[p], q) /\ OnDeal(task'[p], q) /\ Stays(p) /\ task'[p].snap = task[p].snap
  PROVE  SameDeals(q)
BY DEF SameDeals, Others, Stays

\* Every purchase is at home in the ledger of its keeper.
LEMMA PurchaseLedger ==
  ASSUME Orderly, Patient, Trade, Inv', NEW p \in Players, BuyStep(p), NEW q \in Keepers
  PROVE  Ledger(q)'
<1>1. /\ q \in Players /\ Ledger(q) /\ p \notin Keepers /\ p # q /\ task[p].of \in Keepers /\ Others(p)
      /\ task \in [Players -> Task] /\ listing \in [Players -> [Places -> Offer]] /\ bag \in [Players -> Bag]
      /\ stall \in [Players -> {"closed", "preparing", "open"}]
      /\ ~PayCash(p) /\ ~CashRead(p) /\ ~CashWrite(p) /\ ~OnDeal(Idle, q)
  BY TradeIs, BuyTask, BuyerIs, IdleIs DEF OnDeal, Under
<1>2. CASE Reserve(p)
  <2>1. CASE task[p].of = q /\ Offers(listing[q][task[p].place], task[p].item, task[p].n)
    BY <1>2, <2>1, ReserveLedger
  <2>2. CASE ~(task[p].of = q /\ Offers(listing[q][task[p].place], task[p].item, task[p].n))
    <3>1. listing'[q] = listing[q] /\ stall' = stall /\ bag' = bag
      BY <1>1, <1>2, <2>2 DEF Reserve
    <3>2. ~OnDeal(task[p], q) /\ ~OnDeal(task'[p], q)
      <4>1. task[p].at = "reserve"
        BY <1>2 DEF Reserve
      <4>2. CASE task[p].of # q
        BY <1>1, <1>2, <4>1, <4>2, ReserveTask DEF OnDeal, Under, Stays
      <4>3. CASE task[p].of = q
        <5>1. Done(p)
          BY <1>2, <2>2, <4>3 DEF Reserve
        <5>2. task'[p] = Idle
          BY <1>1, <5>1 DEF Done
        <5> QED
          BY <1>1, <4>1, <5>2 DEF OnDeal, Under
      <4> QED
        BY <4>2, <4>3
    <3> QED
      BY <1>1, <3>1, <3>2, SameDealsIs, FrameLedger
  <2> QED
    BY <2>1, <2>2
<1>3. CASE Restore(p) \/ Settle(p)
  <2>1. CASE task[p].of = q
    BY <1>3, <2>1, RestoreLedger, SettleLedger
  <2>2. CASE task[p].of # q
    <3>1. listing'[q] = listing[q] /\ stall' = stall /\ bag'[q] = bag[q]
      BY <1>1, <1>3, <2>2 DEF Restore, Settle
    <3>2. ~OnDeal(task[p], q) /\ ~OnDeal(task'[p], q)
      BY <1>1, <1>3, <2>2, BuyTask DEF BuyStep, OnDeal, Stays
    <3> QED
      BY <1>1, <3>1, <3>2, SameDealsIs, FrameLedger
  <2> QED
    BY <2>1, <2>2
<1>4. CASE CheckGold(p) \/ Charge(p) \/ Credit(p) \/ Deliver(p)
  <2>1. listing' = listing /\ stall' = stall /\ bag'[q] = bag[q]
    <3>1. listing' = listing /\ stall' = stall
      BY <1>4 DEF CheckGold, Charge, Credit, Deliver, shop
    <3>2. bag' = bag \/ Deliver(p)
      BY <1>4 DEF CheckGold, Charge, Credit
    <3> QED
      BY <1>1, <3>1, <3>2, DeliverTo
  <2>2. Stays(p) /\ task'[p].snap = task[p].snap /\ task[p].at \in Under /\ task'[p].at \in Under
    BY <1>4, BuyTask DEF BuyStep, Under
  <2>3. task'[p].of = task[p].of
    BY <2>2 DEF Stays
  <2>4. SameDeals(q)
    <3>1. CASE task[p].of = q
      BY <1>1, <2>2, <2>3, <3>1, SameDealsIs DEF OnDeal
    <3>2. CASE task[p].of # q
      BY <1>1, <2>2, <2>3, <3>2, SameDealsIs DEF OnDeal
    <3> QED
      BY <3>1, <3>2
  <2> QED
    BY <1>1, <2>1, <2>4, FrameLedger
<1>5. CASE CloseIfSold(p)
  <2>1. ~OnDeal(task[p], q) /\ ~OnDeal(task'[p], q)
    BY <1>1, <1>5, BuyTask DEF BuyStep, OnDeal, Under
  <2>2. SameDeals(q)
    BY <1>1, <2>1, SameDealsIs
  <2>3. bag' = bag
    BY <1>5 DEF CloseIfSold
  <2>4. CASE NothingLeft(task[p].of) /\ task[p].of = q
    <3>1. stall'[q] = "closed" /\ \A k \in Places : listing'[q][k] = NoOffer
      BY <1>1, <1>5, <2>4 DEF CloseIfSold, CloseStall
    <3> QED
      BY <1>1, <2>2, <2>3, <3>1, EmptyIs, ClosedLedger
  <2>5. CASE ~(NothingLeft(task[p].of) /\ task[p].of = q)
    <3>1. stall'[q] = stall[q] /\ listing'[q] = listing[q]
      BY <1>1, <1>5, <2>5 DEF CloseIfSold, CloseStall, shop
    <3> QED
      BY <1>1, <2>2, <2>3, <3>1, FrameLedger
  <2> QED
    BY <2>4, <2>5
<1> QED
  BY <1>1, <1>2, <1>3, <1>4, <1>5 DEF BuyStep

LEMMA LedgerStep ==
  ASSUME Orderly, Patient, Trade, Inv', NEW p \in Players, Step(p), NEW q \in Keepers
  PROVE  Ledger(q)'
<1>1. /\ q \in Players /\ Ledger(q) /\ listing \in [Players -> [Places -> Offer]] /\ bag \in [Players -> Bag]
      /\ stall \in [Players -> {"closed", "preparing", "open"}] /\ task \in [Players -> Task]
  BY TradeIs
<1>2. CASE p = q
  BY <1>2, KeeperLedger
<1>3. CASE BuyStep(p)
  BY <1>3, PurchaseLedger
<1>4. CASE p # q /\ ~BuyStep(p)
  <2>1. stall'[q] = stall[q] /\ listing'[q] = listing[q] /\ bag'[q] = bag[q] /\ SameDeals(q)
    <3>1. CASE KeeperStep(p) \/ Quit(p)
      <4>1. task' = task /\ bag' = bag
        BY <3>1 DEF KeeperStep, Quit, Open, Close, Insert, GoAway, Expire, Post, Withdraw
      <4>2. stall'[q] = stall[q] /\ listing'[q] = listing[q]
        BY <1>1, <1>4, <3>1 DEF KeeperStep, Quit, Open, Close, Insert, GoAway, Expire, CloseStall, Post, Withdraw, shop
      <4> QED
        BY <4>1, <4>2 DEF SameDeals
    <3>2. CASE (\E r \in Keepers : Browse(p, r)) \/ Look(p) \/ StopBrowsing(p)
      <4>1. bag' = bag /\ stall' = stall /\ listing' = listing /\ Others(p)
        BY <1>1, <3>2 DEF Browse, Look, StopBrowsing, Done, shop, Others
      <4>2. (\E r \in Keepers : Browse(p, r)) => task[p].at = "idle" /\ task'[p].at = "look"
        BY <1>1, IdleIs DEF Browse, Task, Ready
      <4>3. Look(p) => task[p].at = "look" /\ task'[p].at = "idle"
        BY <1>1, IdleIs DEF Look
      <4>4. StopBrowsing(p) => task'[p] = task[p]
        BY DEF StopBrowsing
      <4>5. (~OnDeal(task[p], q) /\ ~OnDeal(task'[p], q)) \/ task'[p] = task[p]
        BY <3>2, <4>2, <4>3, <4>4 DEF OnDeal, Under
      <4> QED
        BY <4>1, <4>5, SameDealsIs
    <3>3. ASSUME NEW k \in Places, NEW n \in Amounts, NEW d \in Slots, StartBuy(p, k, n, d)
          PROVE  bag' = bag /\ stall' = stall /\ listing' = listing /\ SameDeals(q)
      <4>1. bag' = bag /\ stall' = stall /\ listing' = listing /\ Others(p) /\ task[p].at = "idle" /\ task'[p].at = "reserve"
        BY <3>3, StartTask DEF shop
      <4>2. ~OnDeal(task[p], q) /\ ~OnDeal(task'[p], q)
        BY <4>1 DEF OnDeal, Under
      <4> QED
        BY <4>1, <4>2, SameDealsIs
    <3>4. CASE \E m \in Moves : MoveItem(p, m[1], m[2])
      <4>1. task' = task /\ stall' = stall /\ listing' = listing /\ bag'[q] = bag[q]
        BY <1>1, <1>4, <3>4 DEF MoveItem, shop
      <4> QED
        BY <4>1 DEF SameDeals
    <3>5. CASE HangUp(p)
      <4>1. Vanished(p) /\ bag' = bag /\ Others(p) /\ task[p].at = "close" /\ task'[p].at = "cut"
        BY <3>5, TradeIs, HangUpIs DEF Others
      <4>2. ~OnDeal(task[p], q) /\ ~OnDeal(task'[p], q)
        BY <4>1 DEF OnDeal, Under
      <4>3. stall'[q] = stall[q] /\ listing'[q] = listing[q] /\ bag'[q] = bag[q]
        BY <1>1, <1>4, <4>1 DEF Vanished
      <4> QED
        BY <4>1, <4>2, <4>3, SameDealsIs
    <3> QED
      BY <1>4, <3>1, <3>2, <3>3, <3>4, <3>5 DEF Step, ShopperStep, Orderly
  <2> QED
    BY <1>1, <2>1, FrameLedger
<1> QED
  BY <1>2, <1>3, <1>4

LEMMA TradeStep == Orderly /\ Patient /\ Trade /\ [Next]_vars => Trade'
<1> SUFFICES ASSUME Orderly, Patient, Trade, [Next]_vars PROVE Trade'
  OBVIOUS
<1>1. Sound' /\ Inv /\ Inv' /\ Paid
  BY SoundStep DEF Trade, Sound
<1>2. CASE UNCHANGED vars
  <2>1. /\ presence' = presence /\ stall' = stall /\ listing' = listing /\ bag' = bag /\ task' = task
        /\ gold' = gold /\ browsing' = browsing
    BY <1>2 DEF vars, shop, money, view
  <2>2. Paid' /\ Actors'
    BY <2>1 DEF Trade, Paid, Cost, Actors
  <2>3. ASSUME NEW p \in Players PROVE Neat(bag'[p]) /\ Roomy(p)'
    BY <2>1 DEF Trade, Roomy
  <2>4. ASSUME NEW q \in Keepers PROVE Ledger(q)'
    <3>1. Ledger(q) /\ SameDeals(q)
      BY <2>1 DEF Trade, SameDeals
    <3> QED
      BY <2>1, <3>1, FrameLedger
  <2> QED
    BY <1>1, <2>2, <2>3, <2>4 DEF Trade
<1>3. ASSUME NEW p \in Players, Step(p) PROVE Trade'
  <2>1. Paid'
    BY <1>1, <1>3, PaidStep
  <2>2. Actors'
    BY <1>1, <1>3, ActorsStep
  <2>3. \A r \in Players : Neat(bag'[r])
    BY <1>3, NeatStep
  <2>4. \A r \in Players : Roomy(r)'
    BY <1>1, <1>3, RoomyStep
  <2>5. \A q \in Keepers : Ledger(q)'
    BY <1>1, <1>3, LedgerStep
  <2> QED
    BY <1>1, <2>1, <2>2, <2>3, <2>4, <2>5 DEF Trade
<1> QED
  BY <1>2, <1>3 DEF Next

LEMMA InitTrade == Orderly /\ Init => Trade
<1> SUFFICES ASSUME Orderly, Init PROVE Trade
  OBVIOUS
<1>1. Sound
  BY InitSound
<1>2. \A p \in Players : task[p] = Idle /\ stall[p] = "closed" /\ presence[p] = "here" /\ browsing[p] = NoPlayer
  BY DEF Init
<1>3. \A p \in Players : task[p].at = "idle" /\ ~task[p].kc
  BY <1>2 DEF Idle
<1>4. Paid /\ Actors
  BY <1>2, <1>3 DEF Paid, Actors, Players
<1>5. ASSUME NEW p \in Players PROVE Neat(bag[p]) /\ Roomy(p)
  BY <1>3 DEF Init, Orderly, Roomy
<1>6. ASSUME NEW q \in Keepers PROVE Ledger(q)
  <2>1. \A k \in Places : listing[q][k] = NoOffer
    BY DEF Init, Players
  <2>2. Balanced(q)
    BY <2>1, EmptyIs DEF Balanced
  <2>3. \A p \in Players : ~OnDeal(task[p], q)
    BY <1>3 DEF OnDeal, Under
  <2> QED
    BY <2>2, <2>3 DEF Ledger
<1> QED
  BY <1>1, <1>4, <1>5, <1>6 DEF Trade

-----------------------------------------------------------------------------
(* The steps as sales.                                                       *)

\* What purchases take from a slot is in it.
Covered ==
  \A r \in Players, s \in Slots :
    bag[r][s].item # NoItem => Sums("slot", task, r, s) <= bag[r][s].count

LEMMA TradeCovered == Trade => Covered
<1> SUFFICES ASSUME Trade, NEW r \in Players, NEW s \in Slots, bag[r][s].item # NoItem
             PROVE  Sums("slot", task, r, s) <= bag[r][s].count
  BY DEF Covered
<1>1. task \in [Players -> Task] /\ bag[r][s].count \in Nat
  BY TradeIs DEF Bag, Stack
<1>2. CASE \E p \in Players : OnDeal(task[p], r) /\ task[p].snap.slot = s
  <2>1. PICK p \in Players : OnDeal(task[p], r) /\ task[p].snap.slot = s
    BY <1>2
  <2>2. r \in Keepers
    BY <2>1, BuyerIs DEF OnDeal, Under
  <2>3. Holds(r, task[p])
    BY <2>1, <2>2 DEF Trade, Ledger
  <2> QED
    BY <2>1, <2>3 DEF Holds, Stocked, Cleared
<1>3. CASE ~\E p \in Players : OnDeal(task[p], r) /\ task[p].snap.slot = s
  <2>1. \A p \in Players : Term("slot", task[p], r, s) = 0
    BY <1>3, SlotTerm
  <2> QED
    BY <1>1, <2>1, SumsNone
<1> QED
  BY <1>2, <1>3

LEMMA NextCovered == Trade' => Covered'
BY TradeCovered, PTL

\* The mapping, over one bag, one purse and the tasks.
Slice(b, tk, q, i, s) == IF b[s].item = i THEN b[s].count - Sums("slot", tk, q, s) ELSE 0
Slices(b, tk, q, i) == [s \in Slots |-> Slice(b, tk, q, i, s)]
Coming(t, i) == IF t.at \in {"charge", "credit", "deliver"} /\ t.item = i THEN t.n ELSE 0
Owing(t) == IF t.at = "charge" THEN t.snap.price * t.n ELSE 0
Goods(b, tk, q, i) == SumFunction(Slices(b, tk, q, i)) + Sums("item", tk, q, i) + Coming(tk[q], i)
Purse(coins, tk, q) == GoldGain(coins, Sums("gold", tk, q, 0)) - Owing(tk[q])

LEMMA MapIs ==
  /\ goods = [p \in Players |-> [i \in Item |-> Goods(bag[p], task, p, i)]]
  /\ purse = [p \in Players |-> Purse(gold[p], task, p)]
<1>1. ASSUME NEW p \in Players, NEW i \in Item
      PROVE  Unsold(p, i) + Promised(p, i) + Bought(p, i) = Goods(bag[p], task, p, i)
  <2>1. \A s \in Slots : Taken(p, s) = Sums("slot", task, p, s)
    BY SumsAre
  <2>2. [s \in Slots |-> IF bag[p][s].item = i THEN bag[p][s].count - Taken(p, s) ELSE 0] = Slices(bag[p], task, p, i)
    BY <2>1 DEF Slices, Slice
  <2>3. Unsold(p, i) = SumFunction(Slices(bag[p], task, p, i))
    BY <2>2 DEF Unsold
  <2>4. Promised(p, i) = Sums("item", task, p, i)
    BY SumsAre
  <2>5. Bought(p, i) = Coming(task[p], i)
    BY DEF Bought, Coming, Committed
  <2> QED
    BY <2>3, <2>4, <2>5 DEF Goods
<1>2. ASSUME NEW p \in Players PROVE GoldGain(gold[p], Earned(p)) - Owed(p) = Purse(gold[p], task, p)
  <2>1. Earned(p) = Sums("gold", task, p, 0)
    BY SumsAre
  <2>2. Owed(p) = Owing(task[p])
    BY DEF Owed, Owing, Cost
  <2> QED
    BY <2>1, <2>2 DEF Purse
<1>3. goods = [p \in Players |-> [i \in Item |-> Goods(bag[p], task, p, i)]]
  BY <1>1 DEF goods
<1> QED
  BY <1>2, <1>3 DEF purse

Mapped ==
  /\ goods = [p \in Players |-> [i \in Item |-> Goods(bag[p], task, p, i)]]
  /\ purse = [p \in Players |-> Purse(gold[p], task, p)]

LEMMA MapIsNext ==
  /\ goods' = [p \in Players |-> [i \in Item |-> Goods(bag'[p], task', p, i)]]
  /\ purse' = [p \in Players |-> Purse(gold'[p], task', p)]
<1>1. Mapped
  BY MapIs DEF Mapped
<1>2. Mapped'
  BY <1>1, PTL
<1> QED
  BY <1>2 DEF Mapped

LEMMA SliceTyped ==
  ASSUME NEW b \in Bag, NEW tk \in [Players -> Task], NEW q, NEW i \in Item,
         \A s \in Slots : b[s].item # NoItem => Sums("slot", tk, q, s) <= b[s].count
  PROVE  Slices(b, tk, q, i) \in [Slots -> Nat] /\ SumFunction(Slices(b, tk, q, i)) \in Nat /\ IsFiniteSet(Slots)
<1>1. ASSUME NEW s \in Slots PROVE Slice(b, tk, q, i, s) \in Nat
  <2>1. b[s].count \in Nat /\ i # NoItem
    BY DEF Bag, Stack, Item
  <2>2. Sums("slot", tk, q, s) \in Nat
    <3>1. TermOf("slot", tk, q, s) \in [Players -> Nat]
      BY TermTyped
    <3> QED
      BY <3>1, SumFunctionIs DEF Sums
  <2> QED
    BY <2>1, <2>2 DEF Slice
<1>2. Slices(b, tk, q, i) \in [Slots -> Nat]
  BY <1>1 DEF Slices
<1>3. IsFiniteSet(Slots)
  BY FS_Interval DEF Slots
<1> QED
  BY <1>2, <1>3, SumFunctionIs

LEMMA SumsTyped ==
  ASSUME NEW tk \in [Players -> Task], NEW kind, NEW q, NEW x
  PROVE  Sums(kind, tk, q, x) \in Nat
<1>1. TermOf(kind, tk, q, x) \in [Players -> Nat]
  BY TermTyped
<1> QED
  BY <1>1, SumFunctionIs DEF Sums

LEMMA SlotsFinite == IsFiniteSet(Slots)
BY FS_Interval DEF Slots

\* Slot x of a bag, or what is taken from it, changes, and no other.
OneSlot(b, c, tk, tl, q, x) ==
  /\ b \in Bag /\ c \in Bag /\ tk \in [Players -> Task] /\ tl \in [Players -> Task] /\ x \in Slots
  /\ \A s \in Slots : b[s].item # NoItem => Sums("slot", tk, q, s) <= b[s].count
  /\ \A s \in Slots : c[s].item # NoItem => Sums("slot", tl, q, s) <= c[s].count
  /\ \A s \in Slots : s # x => c[s] = b[s] /\ Sums("slot", tl, q, s) = Sums("slot", tk, q, s)

LEMMA SliceChange ==
  ASSUME NEW b, NEW c, NEW tk, NEW tl, NEW q, NEW x, NEW i \in Item, OneSlot(b, c, tk, tl, q, x)
  PROVE  /\ SumFunction(Slices(c, tl, q, i)) + Slice(b, tk, q, i, x) = SumFunction(Slices(b, tk, q, i)) + Slice(c, tl, q, i, x)
         /\ SumFunction(Slices(c, tl, q, i)) \in Nat /\ SumFunction(Slices(b, tk, q, i)) \in Nat
         /\ Slice(b, tk, q, i, x) \in Nat /\ Slice(c, tl, q, i, x) \in Nat
<1> DEFINE f == Slices(b, tk, q, i)
           g == Slices(c, tl, q, i)
<1>1. f \in [Slots -> Nat] /\ g \in [Slots -> Nat] /\ x \in Slots
  BY SliceTyped DEF OneSlot
<1>2. f[x] = Slice(b, tk, q, i, x) /\ g[x] = Slice(c, tl, q, i, x) /\ \A s \in Slots : s # x => g[s] = f[s]
  BY DEF Slices, Slice, OneSlot
<1> HIDE DEF f, g
<1>3. /\ SumFunction(g) + f[x] = SumFunction(f) + g[x] /\ SumFunction(f) \in Nat /\ SumFunction(g) \in Nat
      /\ f[x] \in Nat /\ g[x] \in Nat
  BY <1>1, <1>2, SlotsFinite, OneChanges
<1> QED
  BY <1>2, <1>3 DEF f, g

LEMMA SlicesSame ==
  ASSUME NEW b, NEW c, NEW tk, NEW tl, NEW q, NEW i,
         \A s \in Slots : Slice(c, tl, q, i, s) = Slice(b, tk, q, i, s)
  PROVE  Slices(c, tl, q, i) = Slices(b, tk, q, i)
BY DEF Slices

LEMMA GoodsSame ==
  ASSUME \A r \in Players, i \in Item : Goods(bag'[r], task', r, i) = Goods(bag[r], task, r, i)
  PROVE  goods' = goods
<1>1. [p \in Players |-> [i \in Item |-> Goods(bag'[p], task', p, i)]] = [p \in Players |-> [i \in Item |-> Goods(bag[p], task, p, i)]]
  OBVIOUS
<1> QED
  BY <1>1, MapIs, MapIsNext

LEMMA PurseSame ==
  ASSUME \A r \in Players : Purse(gold'[r], task', r) = Purse(gold[r], task, r)
  PROVE  purse' = purse
<1>1. [p \in Players |-> Purse(gold'[p], task', p)] = [p \in Players |-> Purse(gold[p], task, p)]
  OBVIOUS
<1> QED
  BY <1>1, MapIs, MapIsNext

\* No sum changes when the purchase of p counts for the same.
LEMMA KindSame ==
  ASSUME NEW p \in Players, Others(p), NEW kind, NEW q, NEW x,
         Term(kind, task'[p], q, x) = Term(kind, task[p], q, x)
  PROVE  Sums(kind, task', q, x) = Sums(kind, task, q, x)
<1>1. \A r \in Players : Term(kind, task'[r], q, x) = Term(kind, task[r], q, x)
  BY DEF Others
<1> QED
  BY <1>1, SumsSame

\* The purchase of p counts for the same goods, for the same gold.
SameGoods(p) ==
  /\ \A q, x : Term("slot", task'[p], q, x) = Term("slot", task[p], q, x)
  /\ \A q, x : Term("item", task'[p], q, x) = Term("item", task[p], q, x)
  /\ \A i : Coming(task'[p], i) = Coming(task[p], i)
SameGold(p) ==
  /\ \A q, x : Term("gold", task'[p], q, x) = Term("gold", task[p], q, x)
  /\ Owing(task'[p]) = Owing(task[p])

LEMMA QuietGoods ==
  ASSUME NEW p \in Players, Others(p), bag' = bag, SameGoods(p)
  PROVE  goods' = goods
<1>1. ASSUME NEW r \in Players, NEW i \in Item PROVE Goods(bag'[r], task', r, i) = Goods(bag[r], task, r, i)
  <2>1. \A s \in Slots : Sums("slot", task', r, s) = Sums("slot", task, r, s)
    BY KindSame DEF SameGoods
  <2>2. \A s \in Slots : Slice(bag'[r], task', r, i, s) = Slice(bag[r], task, r, i, s)
    BY <2>1 DEF Slice
  <2>3. Slices(bag'[r], task', r, i) = Slices(bag[r], task, r, i)
    BY <2>2, SlicesSame
  <2>4. Sums("item", task', r, i) = Sums("item", task, r, i)
    BY KindSame DEF SameGoods
  <2>5. Coming(task'[r], i) = Coming(task[r], i)
    BY DEF SameGoods, Others
  <2> QED
    BY <2>3, <2>4, <2>5 DEF Goods
<1> QED
  BY <1>1, GoodsSame

LEMMA QuietGold ==
  ASSUME NEW p \in Players, Others(p), gold' = gold, SameGold(p)
  PROVE  purse' = purse
<1>1. ASSUME NEW r \in Players PROVE Purse(gold'[r], task', r) = Purse(gold[r], task, r)
  <2>1. Sums("gold", task', r, 0) = Sums("gold", task, r, 0)
    BY KindSame DEF SameGold
  <2>2. Owing(task'[r]) = Owing(task[r])
    BY DEF SameGold, Others
  <2> QED
    BY <2>1, <2>2 DEF Purse
<1> QED
  BY <1>1, PurseSame

LEMMA Resting ==
  ASSUME NEW p \in Players, task'[p] = task[p] \/ (task[p].at \notin Under /\ task'[p].at \notin Under)
  PROVE  SameGoods(p) /\ SameGold(p)
BY DEF SameGoods, SameGold, Term, Coming, Owing, Under

\* What does not touch the goods or the gold of a purchase.
LEMMA RestingStep ==
  ASSUME Orderly, Patient, Trade, Inv', NEW p \in Players, Step(p), ~BuyStep(p)
  PROVE  purse' = purse /\ (goods' = goods \/ \E m \in Moves : MoveItem(p, m[1], m[2]))
<1>1. task \in [Players -> Task]
  BY TradeIs
<1>2. CASE KeeperStep(p) \/ Quit(p)
  <2>1. task' = task /\ bag' = bag /\ gold' = gold
    BY <1>2 DEF KeeperStep, Quit, Open, Close, Insert, GoAway, Expire, Post, Withdraw, money
  <2>2. Others(p) /\ SameGoods(p) /\ SameGold(p)
    BY <2>1, Resting DEF Others
  <2> QED
    BY <2>1, <2>2, QuietGoods, QuietGold
<1>3. CASE (\E r \in Keepers : Browse(p, r)) \/ Look(p) \/ StopBrowsing(p)
  <2>1. bag' = bag /\ gold' = gold /\ Others(p)
    BY <1>1, <1>3 DEF Browse, Look, StopBrowsing, Done, money, Others
  <2>2. (\E r \in Keepers : Browse(p, r)) => task[p].at = "idle" /\ task'[p].at = "look"
    BY <1>1, IdleIs DEF Browse, Task, Ready
  <2>3. Look(p) => task[p].at = "look" /\ task'[p].at = "idle"
    BY <1>1, IdleIs DEF Look
  <2>4. StopBrowsing(p) => task'[p] = task[p]
    BY DEF StopBrowsing
  <2>5. SameGoods(p) /\ SameGold(p)
    BY <1>3, <2>2, <2>3, <2>4, Resting DEF Under
  <2> QED
    BY <2>1, <2>5, QuietGoods, QuietGold
<1>4. ASSUME NEW k \in Places, NEW n \in Amounts, NEW d \in Slots, StartBuy(p, k, n, d)
      PROVE  purse' = purse /\ goods' = goods
  <2>1. bag' = bag /\ gold' = gold /\ Others(p) /\ task[p].at = "idle" /\ task'[p].at = "reserve"
    BY <1>4, StartTask DEF money
  <2>2. SameGoods(p) /\ SameGold(p)
    BY <2>1, Resting DEF Under
  <2> QED
    BY <2>1, <2>2, QuietGoods, QuietGold
<1>5. CASE \E m \in Moves : MoveItem(p, m[1], m[2])
  <2>1. task' = task /\ gold' = gold
    BY <1>5 DEF MoveItem, money
  <2>2. Others(p) /\ SameGold(p)
    BY <2>1, Resting DEF Others
  <2> QED
    BY <1>5, <2>1, <2>2, QuietGold
<1>6. CASE HangUp(p)
  <2>1. bag' = bag /\ gold' = gold /\ Others(p) /\ task[p].at = "close" /\ task'[p].at = "cut"
    BY <1>6, TradeIs, HangUpIs DEF Others
  <2>2. SameGoods(p) /\ SameGold(p)
    BY <2>1, Resting DEF Under
  <2> QED
    BY <2>1, <2>2, QuietGoods, QuietGold
<1> QED
  BY <1>2, <1>3, <1>4, <1>5, <1>6 DEF Step, ShopperStep, Orderly

\* item_move: the bag holds the same.
LEMMA MoveGoods ==
  ASSUME Orderly, Patient, Trade, Covered, Inv', Covered', NEW p \in Players, \E m \in Moves : MoveItem(p, m[1], m[2])
  PROVE  goods' = goods
<1>1. PICK s \in Slots, d \in Slots :
         /\ s # d /\ bag' = [bag EXCEPT ![p] = Moved(bag[p], s, d)]
         /\ bag[p][s].item \in Countable /\ bag[p][d].item = bag[p][s].item => bag[p][d].count + bag[p][s].count <= StackMax
         /\ task[p].at = "idle" /\ UNCHANGED <<presence, shop, view, money, task>>
         /\ p \in Keepers => stall[p] = "closed" /\ \A r \in Players : task[r].at \notin {"idle", "look", "cut"} => task[r].of # p
  BY MoveIs
<1>2. /\ bag \in [Players -> Bag] /\ bag[p] \in Bag /\ bag' \in [Players -> Bag] /\ task \in [Players -> Task] /\ task' = task
      /\ IsFiniteSet(Slots)
  <2>1. bag \in [Players -> Bag] /\ task \in [Players -> Task] /\ bag' \in [Players -> Bag]
    BY TradeIs DEF Inv, TypeOK
  <2>2. IsFiniteSet(Slots)
    BY SlotsFinite
  <2> QED
    BY <1>1, <2>1, <2>2
\* Nobody buys from p.
<1>3. \A r \in Players : task[r].at \in Under => task[r].of # p
  BY <1>1, BuyerIs DEF Under
<1>4. \A x : Sums("slot", task, p, x) = 0
  <2> SUFFICES ASSUME NEW x PROVE Sums("slot", task, p, x) = 0
    OBVIOUS
  <2>1. \A r \in Players : Term("slot", task[r], p, x) = 0
    BY <1>3 DEF Term
  <2> QED
    BY <1>2, <2>1, SumsNone
<1>5. ASSUME NEW i \in Item PROVE SumFunction(Slices(bag'[p], task', p, i)) = SumFunction(Slices(bag[p], task, p, i))
  <2> DEFINE f == Slices(bag[p], task, p, i)
             g == Slices(bag'[p], task', p, i)
  <2>1. f \in [Slots -> Nat] /\ g \in [Slots -> Nat]
    <3>1. \A x \in Slots : bag[p][x].item # NoItem => Sums("slot", task, p, x) <= bag[p][x].count
      BY DEF Covered
    <3>2. \A x \in Slots : bag'[p][x].item # NoItem => Sums("slot", task', p, x) <= bag'[p][x].count
      BY DEF Covered
    <3> QED
      BY <1>2, <3>1, <3>2, SliceTyped
  <2>2. \A x \in Slots : f[x] = UnitsOf(bag[p][x], i) /\ g[x] = UnitsOf(bag'[p][x], i)
    <3>1. \A x \in Slots : bag[p][x].count \in Nat /\ bag'[p][x].count \in Nat
      BY <1>2 DEF Bag, Stack
    <3> QED
      BY <1>2, <1>4, <3>1 DEF Slices, Slice, UnitsOf
  <2>3. bag'[p] = Moved(bag[p], s, d)
    BY <1>1, <1>2
  <2>4. \A x \in Slots : x # s /\ x # d => g[x] = f[x]
    <3>1. \A x \in Slots : x # s /\ x # d => Moved(bag[p], s, d)[x] = bag[p][x]
      BY <1>1, <1>2, MovedTo
    <3> QED
      BY <2>2, <2>3, <3>1
  <2>5. g[s] + g[d] = f[s] + f[d]
    <3>1. \/ Moved(bag[p], s, d)[s] = bag[p][d] /\ Moved(bag[p], s, d)[d] = bag[p][s]
          \/ /\ Moved(bag[p], s, d)[s] = Empty /\ bag[p][d].item = bag[p][s].item /\ Moved(bag[p], s, d)[d].item = bag[p][d].item
             /\ Moved(bag[p], s, d)[d].count = bag[p][d].count + bag[p][s].count
      BY <1>1, <1>2, MovedTo
    <3>2. bag[p][s].count \in Nat /\ bag[p][d].count \in Nat /\ i # NoItem /\ Empty.item = NoItem
      BY <1>2 DEF Bag, Stack, Item, Empty
    <3>3. f[s] = UnitsOf(bag[p][s], i) /\ f[d] = UnitsOf(bag[p][d], i)
          /\ g[s] = UnitsOf(Moved(bag[p], s, d)[s], i) /\ g[d] = UnitsOf(Moved(bag[p], s, d)[d], i)
      BY <2>2, <2>3
    <3> HIDE DEF f, g
    <3>4. CASE Moved(bag[p], s, d)[s] = bag[p][d] /\ Moved(bag[p], s, d)[d] = bag[p][s]
      BY <3>2, <3>3, <3>4 DEF UnitsOf
    <3>5. CASE /\ Moved(bag[p], s, d)[s] = Empty /\ bag[p][d].item = bag[p][s].item /\ Moved(bag[p], s, d)[d].item = bag[p][d].item
               /\ Moved(bag[p], s, d)[d].count = bag[p][d].count + bag[p][s].count
      BY <3>2, <3>3, <3>5 DEF UnitsOf
    <3> QED
      BY <3>1, <3>4, <3>5
  <2> HIDE DEF f, g
  <2>6. Redivided(Slots, f, g, s, d)
    BY <1>1, <2>1, <2>4, <2>5 DEF Redivided
  <2>7. SumFunction(g) = SumFunction(f)
    BY <1>2, <2>6, TwoBalance
  <2> QED
    BY <2>7 DEF f, g
<1>6. ASSUME NEW r \in Players, NEW i \in Item PROVE Goods(bag'[r], task', r, i) = Goods(bag[r], task, r, i)
  <2>1. CASE r = p
    BY <1>2, <1>5, <2>1 DEF Goods
  <2>2. CASE r # p
    <3>1. bag'[r] = bag[r]
      BY <1>1, <1>2, <2>2
    <3> QED
      BY <1>2, <3>1
  <2> QED
    BY <2>1, <2>2
<1> QED
  BY <1>6, GoodsSame

\* Nobody buys from a shopper.
LEMMA ShopperSells ==
  ASSUME Trade, NEW p \in Players, p \notin Keepers, NEW kind, NEW x
  PROVE  Sums(kind, task, p, x) = 0
<1>1. task \in [Players -> Task] /\ \A r \in Players : task[r].at # "idle" => task[r].of # p
  BY TradeIs, BuyerIs
<1>2. \A r \in Players : Term(kind, task[r], p, x) = 0
  BY <1>1 DEF Term, Under
<1> QED
  BY <1>1, <1>2, SumsNone

\* Whose bag stays and whom the purchase of p does not concern.
LEMMA GoodsOf ==
  ASSUME NEW p \in Players, Others(p), NEW r \in Players, NEW i \in Item, bag'[r] = bag[r],
         \A s \in Slots : Term("slot", task'[p], r, s) = Term("slot", task[p], r, s),
         Term("item", task'[p], r, i) = Term("item", task[p], r, i),
         r = p => Coming(task'[p], i) = Coming(task[p], i)
  PROVE  Goods(bag'[r], task', r, i) = Goods(bag[r], task, r, i)
<1>1. \A s \in Slots : Sums("slot", task', r, s) = Sums("slot", task, r, s)
  BY KindSame
<1>2. \A s \in Slots : Slice(bag'[r], task', r, i, s) = Slice(bag[r], task, r, i, s)
  BY <1>1 DEF Slice
<1>3. Slices(bag'[r], task', r, i) = Slices(bag[r], task, r, i)
  BY <1>2, SlicesSame
<1>4. Sums("item", task', r, i) = Sums("item", task, r, i)
  BY KindSame
<1>5. Coming(task'[r], i) = Coming(task[r], i)
  BY DEF Others
<1> QED
  BY <1>3, <1>4, <1>5 DEF Goods

\* The units of item j that the purchase of p takes from slot x of q, and those it
\* still has to pay for, change by the same number.
LEMMA SwapGoods ==
  ASSUME Trade, Covered, Inv', Covered', NEW p \in Players, Others(p), NEW q \in Players, p # q, bag' = bag,
         NEW x \in Slots, NEW j \in Item, bag[q][x].item = j, NEW a \in Nat, NEW c \in Nat,
         \A s \in Slots : /\ Term("slot", task[p], q, s) = IF s = x THEN a ELSE 0
                          /\ Term("slot", task'[p], q, s) = IF s = x THEN c ELSE 0,
         \A i \in Item : /\ Term("item", task[p], q, i) = IF i = j THEN a ELSE 0
                         /\ Term("item", task'[p], q, i) = IF i = j THEN c ELSE 0,
         NEW i \in Item
  PROVE  Goods(bag'[q], task', q, i) = Goods(bag[q], task, q, i)
<1>1. bag[q] \in Bag /\ task \in [Players -> Task] /\ task' \in [Players -> Task] /\ bag[q][x].count \in Nat
  BY TradeIs DEF Inv, TypeOK, Bag, Stack
<1>2. ASSUME NEW s \in Slots
      PROVE  /\ Sums("slot", task', q, s) + (IF s = x THEN a ELSE 0) = Sums("slot", task, q, s) + (IF s = x THEN c ELSE 0)
             /\ Sums("slot", task, q, s) \in Nat /\ Sums("slot", task', q, s) \in Nat
  <2>1. /\ Sums("slot", task', q, s) + Term("slot", task[p], q, s) = Sums("slot", task, q, s) + Term("slot", task'[p], q, s)
        /\ Sums("slot", task, q, s) \in Nat /\ Sums("slot", task', q, s) \in Nat
    BY <1>1, KindStep
  <2> QED
    BY <2>1
<1>3. \A s \in Slots : s # x => Sums("slot", task', q, s) = Sums("slot", task, q, s)
  BY <1>2
<1>4. /\ SumFunction(Slices(bag[q], task', q, i)) + Slice(bag[q], task, q, i, x) = SumFunction(Slices(bag[q], task, q, i)) + Slice(bag[q], task', q, i, x)
      /\ SumFunction(Slices(bag[q], task', q, i)) \in Nat /\ SumFunction(Slices(bag[q], task, q, i)) \in Nat
      /\ Slice(bag[q], task, q, i, x) \in Nat /\ Slice(bag[q], task', q, i, x) \in Nat
  <2>1. \A s \in Slots : bag[q][s].item # NoItem => Sums("slot", task, q, s) <= bag[q][s].count
    BY DEF Covered
  <2>2. \A s \in Slots : bag[q][s].item # NoItem => Sums("slot", task', q, s) <= bag[q][s].count
    BY DEF Covered
  <2>3. OneSlot(bag[q], bag[q], task, task', q, x)
    BY <1>1, <1>3, <2>1, <2>2 DEF OneSlot
  <2>4. PICK tk, tl, b : tk = task /\ tl = task' /\ b = bag[q]
    OBVIOUS
  <2>5. OneSlot(b, b, tk, tl, q, x)
    BY <2>3, <2>4
  <2>6. /\ SumFunction(Slices(b, tl, q, i)) + Slice(b, tk, q, i, x) = SumFunction(Slices(b, tk, q, i)) + Slice(b, tl, q, i, x)
        /\ SumFunction(Slices(b, tl, q, i)) \in Nat /\ SumFunction(Slices(b, tk, q, i)) \in Nat
        /\ Slice(b, tk, q, i, x) \in Nat /\ Slice(b, tl, q, i, x) \in Nat
    BY <2>5, SliceChange
  <2> QED
    BY <2>4, <2>6
<1>5. /\ Sums("item", task', q, i) + (IF i = j THEN a ELSE 0) = Sums("item", task, q, i) + (IF i = j THEN c ELSE 0)
      /\ Sums("item", task, q, i) \in Nat /\ Sums("item", task', q, i) \in Nat
  <2>1. /\ Sums("item", task', q, i) + Term("item", task[p], q, i) = Sums("item", task, q, i) + Term("item", task'[p], q, i)
        /\ Sums("item", task, q, i) \in Nat /\ Sums("item", task', q, i) \in Nat
    BY <1>1, KindStep
  <2> QED
    BY <2>1
<1>6. Coming(task'[q], i) = Coming(task[q], i)
  BY DEF Others
<1>7. CASE i = j
  <2>1. /\ Slice(bag[q], task, q, i, x) = bag[q][x].count - Sums("slot", task, q, x)
        /\ Slice(bag[q], task', q, i, x) = bag[q][x].count - Sums("slot", task', q, x)
    BY <1>7 DEF Slice
  <2>2. /\ Sums("slot", task', q, x) + a = Sums("slot", task, q, x) + c
        /\ Sums("slot", task, q, x) \in Nat /\ Sums("slot", task', q, x) \in Nat
    BY <1>2
  <2>3. /\ Sums("item", task', q, i) + a = Sums("item", task, q, i) + c
        /\ Sums("item", task, q, i) \in Nat /\ Sums("item", task', q, i) \in Nat
    BY <1>5, <1>7
  <2>4. SumFunction(Slices(bag[q], task', q, i)) + Sums("item", task', q, i) = SumFunction(Slices(bag[q], task, q, i)) + Sums("item", task, q, i)
    BY <1>1, <1>4, <2>1, <2>2, <2>3
  <2> QED
    BY <1>6, <2>4 DEF Goods
<1>8. CASE i # j
  <2>1. Slice(bag[q], task, q, i, x) = 0 /\ Slice(bag[q], task', q, i, x) = 0
    BY <1>8 DEF Slice
  <2>2. SumFunction(Slices(bag[q], task', q, i)) = SumFunction(Slices(bag[q], task, q, i))
    BY <1>4, <2>1
  <2>3. Sums("item", task', q, i) = Sums("item", task, q, i)
    BY <1>5, <1>8
  <2> QED
    BY <1>6, <2>2, <2>3 DEF Goods
<1> QED
  BY <1>7, <1>8

\* A reservation, or its return, moves no goods.
LEMMA ReserveGoods ==
  ASSUME Orderly, Patient, Trade, Covered, Inv', Covered', NEW p \in Players, Reserve(p)
  PROVE  goods' = goods /\ purse' = purse
<1> DEFINE q == task[p].of
           o == listing[q][task[p].place]
<1>1. /\ q \in Keepers /\ q \in Players /\ q # p /\ task \in [Players -> Task] /\ Others(p) /\ task[p].at = "reserve"
      /\ bag' = bag /\ gold' = gold /\ p \notin Keepers
  BY TradeIs, BuyerIs, ReserveTask DEF Reserve, money
<1>2. CASE task'[p] = Idle
  <2>1. SameGoods(p) /\ SameGold(p)
    BY <1>1, <1>2, Resting, IdleIs DEF Under
  <2> QED
    BY <1>1, <2>1, QuietGoods, QuietGold
<1>3. CASE /\ Offers(o, task[p].item, task[p].n) /\ Stays(p) /\ task'[p].at = "pay" /\ task'[p].snap = o
  <2>1. /\ Covers(q) /\ Inv /\ task[p].place \in Places /\ task[p].item \in Item /\ task[p].n \in Nat
    BY <1>1, DealIs
  <2>2. o.price # 0 /\ o.item = task[p].item
    BY <1>3 DEF Offers
  <2>3. o.slot \in Slots /\ bag[q][o.slot].item = task[p].item
    BY <1>1, <2>1, <2>2, PricedIs
  <2>4. \A r, s : /\ Term("slot", task[p], r, s) = 0
                  /\ Term("slot", task'[p], r, s) = IF r = q /\ s = o.slot THEN task[p].n ELSE 0
                  /\ Term("item", task[p], r, s) = 0
                  /\ Term("item", task'[p], r, s) = IF r = q /\ s = task[p].item THEN task[p].n ELSE 0
    BY <1>1, <1>3 DEF Term, Under, Stays
  <2>5. SameGold(p) /\ \A i : Coming(task'[p], i) = Coming(task[p], i)
    BY <1>1, <1>3 DEF SameGold, Term, Owing, Coming
  <2> HIDE DEF q, o
  <2>6. ASSUME NEW r \in Players, NEW i \in Item PROVE Goods(bag'[r], task', r, i) = Goods(bag[r], task, r, i)
    <3>1. CASE r = q
      <4>1. /\ 0 \in Nat /\ p # q
            /\ \A s \in Slots : /\ Term("slot", task[p], q, s) = IF s = o.slot THEN 0 ELSE 0
                                /\ Term("slot", task'[p], q, s) = IF s = o.slot THEN task[p].n ELSE 0
            /\ \A y \in Item : /\ Term("item", task[p], q, y) = IF y = task[p].item THEN 0 ELSE 0
                               /\ Term("item", task'[p], q, y) = IF y = task[p].item THEN task[p].n ELSE 0
        BY <1>1, <2>4
      <4>2. Goods(bag'[q], task', q, i) = Goods(bag[q], task, q, i)
        BY <1>1, <2>1, <2>3, <4>1, SwapGoods
      <4> QED
        BY <3>1, <4>2
    <3>2. CASE r # q
      BY <1>1, <2>4, <2>5, <3>2, GoodsOf
    <3> QED
      BY <3>1, <3>2
  <2>7. goods' = goods
    BY <2>6, GoodsSame
  <2> QED
    BY <1>1, <2>5, <2>7, QuietGold
<1> QED
  BY <1>2, <1>3, ReserveTask

\* A step of p after which q has n units of item j fewer.
Lighter(q, j, n) ==
  \A r \in Players, i \in Item :
    Goods(bag'[r], task', r, i) = Goods(bag[r], task, r, i) - (IF r = q /\ i = j THEN n ELSE 0)

\* Such a step loses the units that the step of p wastes, or none.
LEMMA LighterLoses ==
  ASSUME NEW p \in Players, NEW q \in Players, q = task[p].of, NEW j \in Item, j = task[p].item,
         NEW n \in Nat, n = Wasted(p), Lighter(q, j, n), purse' = purse,
         \A r \in Players, i \in Item : Goods(bag[r], task, r, i) \in Int,
         n <= Goods(bag[q], task, q, j)
  PROVE  goods' = goods \/ Sales!Lose(task[p].of, task[p].item, Wasted(p))
<1>1. CASE n = 0
  <2>1. \A r \in Players, i \in Item : Goods(bag'[r], task', r, i) = Goods(bag[r], task, r, i)
    BY <1>1 DEF Lighter
  <2> QED
    BY <2>1, GoodsSame
<1>2. CASE n > 0
  <2>1. /\ \A r \in Players, i \in Item : goods[r][i] = Goods(bag[r], task, r, i) /\ goods'[r][i] = Goods(bag'[r], task', r, i)
        /\ goods = [r \in Players |-> [i \in Item |-> goods[r][i]]] /\ goods' = [r \in Players |-> [i \in Item |-> goods'[r][i]]]
    BY MapIs, MapIsNext
  <2> DEFINE new(r, i) == IF i = j /\ r = q THEN goods[q][j] - n ELSE goods[r][i]
  <2>2. [goods EXCEPT ![q][j] = @ - n] = [r \in Players |-> [i \in Item |-> new(r, i)]]
    <3>1. goods = [r \in Players |-> [i \in Item |-> goods[r][i]]]
      BY <2>1
    <3> QED
      BY <3>1
  <2>3. \A r \in Players, i \in Item : goods'[r][i] = new(r, i)
    BY <2>1 DEF Lighter
  <2>4. [r \in Players |-> [i \in Item |-> goods'[r][i]]] = [r \in Players |-> [i \in Item |-> new(r, i)]]
    BY <2>3
  <2>5. goods' = [goods EXCEPT ![q][j] = @ - n]
    BY <2>1, <2>2, <2>4, Zenon
  <2>6. n <= goods[q][j]
    BY <2>1
  <2>7. Sales!Lose(q, j, n)
    BY <1>2, <2>5, <2>6 DEF Sales!Lose
  <2> QED
    BY <2>7
<1> QED
  BY <1>1, <1>2

\* The parts of what a player owns.
LEMMA GoodsParts ==
  ASSUME Trade, Covered, NEW r \in Players, NEW i \in Item
  PROVE  /\ SumFunction(Slices(bag[r], task, r, i)) \in Nat /\ Sums("item", task, r, i) \in Nat
         /\ Coming(task[r], i) \in Nat /\ Goods(bag[r], task, r, i) \in Nat
         /\ Goods(bag[r], task, r, i) = SumFunction(Slices(bag[r], task, r, i)) + Sums("item", task, r, i) + Coming(task[r], i)
<1>1. task \in [Players -> Task] /\ bag[r] \in Bag /\ \A s \in Slots : bag[r][s].item # NoItem => Sums("slot", task, r, s) <= bag[r][s].count
  BY TradeIs DEF Covered
<1>2. SumFunction(Slices(bag[r], task, r, i)) \in Nat
  BY <1>1, SliceTyped
<1>3. Sums("item", task, r, i) \in Nat
  BY <1>1, SumsTyped
<1>4. Coming(task[r], i) \in Nat
  BY <1>1 DEF Coming, Task
<1> QED
  BY <1>2, <1>3, <1>4 DEF Goods

LEMMA GoodsNext ==
  ASSUME Inv', Covered', NEW r \in Players, NEW i \in Item
  PROVE  Goods(bag'[r], task', r, i) \in Nat
<1>1. task' \in [Players -> Task] /\ bag' \in [Players -> Bag]
  BY DEF Inv, TypeOK
<1>2. PICK tk, b : tk = task' /\ b = bag'[r]
  OBVIOUS
<1>3. tk \in [Players -> Task] /\ b \in Bag /\ \A s \in Slots : b[s].item # NoItem => Sums("slot", tk, r, s) <= b[s].count
  BY <1>1, <1>2 DEF Covered
<1>4. SumFunction(Slices(b, tk, r, i)) \in Nat
  BY <1>3, SliceTyped
<1>5. Sums("item", tk, r, i) \in Nat
  BY <1>3, SumsTyped
<1>6. Coming(tk[r], i) \in Nat
  BY <1>3 DEF Coming, Task
<1> QED
  BY <1>2, <1>4, <1>5, <1>6 DEF Goods

LEMMA RestoreGoods ==
  ASSUME Orderly, Patient, Trade, Covered, Inv', Covered', NEW p \in Players, Restore(p)
  PROVE  (goods' = goods \/ Sales!Lose(task[p].of, task[p].item, Wasted(p))) /\ purse' = purse
<1> DEFINE q == task[p].of
           x == task[p].snap.slot
<1>1. /\ q \in Keepers /\ q \in Players /\ q # p /\ task \in [Players -> Task] /\ Others(p) /\ task[p].at = "restore"
      /\ bag' = bag /\ gold' = gold /\ task'[p] = Idle
  BY TradeIs, BuyerIs, BuyTask DEF Restore, money, BuyStep
<1>2. OnDeal(task[p], q)
  BY <1>1 DEF OnDeal, Under
<1>3. task[p].item \in Item /\ task[p].n \in Nat /\ task[p].item # NoItem
  BY <1>1, DealIs
<1>4. Holds(q, task[p]) /\ x \in Slots
  BY <1>1, <1>2 DEF Trade, Ledger, Holds
<1>5. \A r, s : /\ Term("slot", task'[p], r, s) = 0
                /\ Term("slot", task[p], r, s) = IF r = q /\ s = x THEN task[p].n ELSE 0
                /\ Term("item", task'[p], r, s) = 0
                /\ Term("item", task[p], r, s) = IF r = q /\ s = task[p].item THEN task[p].n ELSE 0
  BY <1>1, IdleIs DEF Term, Under
<1>6. SameGold(p) /\ \A i : Coming(task'[p], i) = Coming(task[p], i)
  BY <1>1, IdleIs DEF SameGold, Term, Owing, Coming
<1>7. purse' = purse
  BY <1>1, <1>6, QuietGold
\* The units go back to the place, and the slot still has them.
<1>8. CASE bag[q][x].item = task[p].item
  <2> HIDE DEF q, x
  <2>1. ASSUME NEW r \in Players, NEW i \in Item PROVE Goods(bag'[r], task', r, i) = Goods(bag[r], task, r, i)
    <3>1. CASE r = q
      <4>1. /\ 0 \in Nat /\ p # q
            /\ \A s \in Slots : /\ Term("slot", task[p], q, s) = IF s = x THEN task[p].n ELSE 0
                                /\ Term("slot", task'[p], q, s) = IF s = x THEN 0 ELSE 0
            /\ \A y \in Item : /\ Term("item", task[p], q, y) = IF y = task[p].item THEN task[p].n ELSE 0
                               /\ Term("item", task'[p], q, y) = IF y = task[p].item THEN 0 ELSE 0
        BY <1>1, <1>5
      <4>2. /\ x \in Slots /\ task[p].item \in Item /\ bag[q][x].item = task[p].item /\ task[p].n \in Nat
            /\ bag' = bag /\ Others(p) /\ q \in Players
        BY <1>1, <1>3, <1>4, <1>8
      <4>3. Goods(bag'[q], task', q, i) = Goods(bag[q], task, q, i)
        BY <4>1, <4>2, SwapGoods
      <4> QED
        BY <3>1, <4>3
    <3>2. CASE r # q
      BY <1>1, <1>5, <1>6, <3>2, GoodsOf
    <3> QED
      BY <3>1, <3>2
  <2> QED
    BY <1>7, <2>1, GoodsSame
\* The slot has been cleared meanwhile: the units are lost.
<1>9. CASE bag[q][x].item # task[p].item
  <2>1. bag[q][x].item = NoItem
    BY <1>4, <1>9 DEF Holds, Stocked, Cleared
  <2>2. Wasted(p) = task[p].n
    BY <1>1, <1>9 DEF Wasted
  <2> HIDE DEF q, x
  <2>3. ASSUME NEW r \in Players, NEW i \in Item
        PROVE  Goods(bag'[r], task', r, i) = Goods(bag[r], task, r, i) - (IF r = q /\ i = task[p].item THEN task[p].n ELSE 0)
    <3>1. CASE r = q
      <4>1. ASSUME NEW s \in Slots PROVE Slice(bag'[q], task', q, i, s) = Slice(bag[q], task, q, i, s)
        <5>1. CASE s = x
          BY <1>1, <2>1, <5>1 DEF Slice, Item
        <5>2. CASE s # x
          <6>1. Term("slot", task'[p], q, s) = Term("slot", task[p], q, s)
            BY <1>5, <5>2
          <6>2. Sums("slot", task', q, s) = Sums("slot", task, q, s)
            BY <1>1, <6>1, KindSame
          <6> QED
            BY <1>1, <6>2 DEF Slice
        <5> QED
          BY <5>1, <5>2
      <4>2. SumFunction(Slices(bag'[q], task', q, i)) = SumFunction(Slices(bag[q], task, q, i))
        BY <4>1, SlicesSame
      <4>3. Coming(task'[q], i) = Coming(task[q], i)
        BY <1>1 DEF Others
      <4>4. Sums("item", task', q, i) + (IF i = task[p].item THEN task[p].n ELSE 0) = Sums("item", task, q, i)
            /\ Sums("item", task', q, i) \in Nat
        <5>1. task' \in [Players -> Task]
          BY DEF Inv, TypeOK
        <5>2. /\ Sums("item", task', q, i) + Term("item", task[p], q, i) = Sums("item", task, q, i) + Term("item", task'[p], q, i)
              /\ Sums("item", task, q, i) \in Nat /\ Sums("item", task', q, i) \in Nat
          BY <1>1, <5>1, KindStep
        <5> QED
          BY <1>3, <1>5, <5>2
      <4>5. /\ SumFunction(Slices(bag[q], task, q, i)) \in Nat /\ Coming(task[q], i) \in Nat
        BY <1>1, GoodsParts
      <4> QED
        BY <1>3, <3>1, <4>2, <4>3, <4>4, <4>5 DEF Goods
    <3>2. CASE r # q
      <4>1. Goods(bag'[r], task', r, i) = Goods(bag[r], task, r, i)
        BY <1>1, <1>5, <1>6, <3>2, GoodsOf
      <4>2. Goods(bag[r], task, r, i) \in Nat
        BY GoodsParts
      <4> QED
        BY <3>2, <4>1, <4>2
    <3> QED
      BY <3>1, <3>2
  <2>4. Lighter(q, task[p].item, task[p].n)
    BY <2>3 DEF Lighter
  <2>5. \A r \in Players, i \in Item : Goods(bag[r], task, r, i) \in Int
    BY GoodsParts
  <2>6. task[p].n <= Goods(bag[q], task, q, task[p].item)
    <3>1. Term("item", task[p], q, task[p].item) <= Sums("item", task, q, task[p].item)
      BY <1>1, KindStep DEF Inv, TypeOK
    <3>2. Term("item", task[p], q, task[p].item) = task[p].n
      BY <1>5
    <3>3. /\ SumFunction(Slices(bag[q], task, q, task[p].item)) \in Nat /\ Sums("item", task, q, task[p].item) \in Nat
          /\ Coming(task[q], task[p].item) \in Nat
          /\ Goods(bag[q], task, q, task[p].item) = SumFunction(Slices(bag[q], task, q, task[p].item))
               + Sums("item", task, q, task[p].item) + Coming(task[q], task[p].item)
      BY <1>1, <1>3, GoodsParts
    <3> QED
      BY <1>3, <3>1, <3>2, <3>3
  <2>7. q = task[p].of
    BY DEF q
  <2> QED
    BY <1>1, <1>3, <1>7, <2>2, <2>4, <2>5, <2>6, <2>7, LighterLoses
<1> QED
  BY <1>7, <1>8, <1>9

\* What was bought has been counted as the shopper's.
LEMMA DeliverGoods ==
  ASSUME Orderly, Patient, Trade, Covered, Inv', Covered', NEW p \in Players, Deliver(p)
  PROVE  goods' = goods /\ purse' = purse
<1> DEFINE q == task[p].of
           d == task[p].dest
           j == task[p].item
           n == task[p].n
<1>1. /\ q \in Keepers /\ q \in Players /\ q # p /\ p \notin Keepers /\ Others(p) /\ task[p].at = "deliver" /\ task'[p].at = "settle"
      /\ Stays(p) /\ task'[p].snap = task[p].snap /\ gold' = gold
  BY BuyerIs, BuyTask DEF Deliver, money, BuyStep
<1>2. /\ d \in Slots /\ j \in Item /\ n \in Nat
      /\ bag[p][d].item \in {NoItem, j} /\ (bag[p][d].item = NoItem => bag[p][d].count = 0)
      /\ bag'[p][d].item = j /\ bag'[p][d].count = bag[p][d].count + n
      /\ \A y \in Slots : y # d => bag'[p][y] = bag[p][y]
      /\ \A r \in Players : r # p => bag'[r] = bag[r]
  BY DeliverTo
<1>3. bag[p] \in Bag /\ bag'[p] \in Bag /\ task \in [Players -> Task] /\ task' \in [Players -> Task] /\ bag[p][d].count \in Nat /\ j # NoItem
  <2>1. bag[p] \in Bag /\ bag'[p] \in Bag /\ task \in [Players -> Task] /\ task' \in [Players -> Task]
    BY TradeIs DEF Inv, TypeOK
  <2> QED
    BY <1>2, <2>1 DEF Bag, Stack, Item
<1>4. \A r, s : /\ Term("slot", task'[p], r, s) = Term("slot", task[p], r, s)
                /\ Term("item", task'[p], r, s) = Term("item", task[p], r, s)
  BY <1>1 DEF Term, Under, Stays
<1>5. SameGold(p)
  BY <1>1 DEF SameGold, Term, Owing
<1>6. \A s : Sums("slot", task, p, s) = 0 /\ Sums("slot", task', p, s) = 0
  BY <1>1, <1>4, ShopperSells, KindSame
<1>7. \A i : /\ Coming(task[p], i) = IF i = j THEN n ELSE 0
             /\ Coming(task'[p], i) = 0
  BY <1>1 DEF Coming
<1> HIDE DEF q, d, j, n
<1>8. ASSUME NEW i \in Item PROVE Goods(bag'[p], task', p, i) = Goods(bag[p], task, p, i)
  <2>1. OneSlot(bag[p], bag'[p], task, task', p, d)
    BY <1>2, <1>3, <1>6 DEF OneSlot, Covered
  <2>2. PICK tk, tl, b, c : tk = task /\ tl = task' /\ b = bag[p] /\ c = bag'[p]
    OBVIOUS
  <2>3. OneSlot(b, c, tk, tl, p, d)
    BY <2>1, <2>2
  <2>4. /\ SumFunction(Slices(c, tl, p, i)) + Slice(b, tk, p, i, d) = SumFunction(Slices(b, tk, p, i)) + Slice(c, tl, p, i, d)
        /\ SumFunction(Slices(c, tl, p, i)) \in Nat /\ SumFunction(Slices(b, tk, p, i)) \in Nat
    BY <2>3, SliceChange
  <2>5. /\ Slice(b, tk, p, i, d) = IF i = j THEN b[d].count ELSE 0
        /\ Slice(c, tl, p, i, d) = IF i = j THEN b[d].count + n ELSE 0
    <3>1. b[d].count \in Nat /\ n \in Nat /\ c[d].item = j /\ c[d].count = b[d].count + n
          /\ b[d].item \in {NoItem, j} /\ (b[d].item = NoItem => b[d].count = 0)
          /\ Sums("slot", tk, p, d) = 0 /\ Sums("slot", tl, p, d) = 0 /\ i # NoItem
      BY <1>2, <1>3, <1>6, <2>2 DEF Item
    <3> QED
      BY <3>1 DEF Slice
  <2>6. SumFunction(Slices(c, tl, p, i)) = SumFunction(Slices(b, tk, p, i)) + (IF i = j THEN n ELSE 0)
    BY <1>2, <1>3, <2>2, <2>4, <2>5
  <2>7. Sums("item", task', p, i) = Sums("item", task, p, i) /\ Sums("item", task, p, i) \in Nat
    BY <1>1, <1>3, <1>4, KindSame, SumsTyped
  <2> QED
    BY <1>2, <1>7, <2>2, <2>4, <2>6, <2>7 DEF Goods
<1>9. ASSUME NEW r \in Players, NEW i \in Item PROVE Goods(bag'[r], task', r, i) = Goods(bag[r], task, r, i)
  <2>1. CASE r = p
    BY <1>8, <2>1
  <2>2. CASE r # p
    BY <1>1, <1>2, <1>4, <2>2, GoodsOf
  <2> QED
    BY <2>1, <2>2
<1>10. goods' = goods
  BY <1>9, GoodsSame
<1> QED
  BY <1>1, <1>5, <1>10, QuietGold

\* What leaves the keeper's bag had been counted as sold.
LEMMA SettleGoods ==
  ASSUME Orderly, Patient, Trade, Covered, Inv', Covered', NEW p \in Players, Settle(p)
  PROVE  (goods' = goods \/ Sales!Lose(task[p].of, task[p].item, Wasted(p))) /\ purse' = purse
<1> DEFINE q == task[p].of
           t == task[p]
           x == task[p].snap.slot
           S == Sums("slot", task, q, x)
<1>1. /\ q \in Keepers /\ q \in Players /\ q # p /\ p \notin Keepers /\ Others(p) /\ t.at = "settle" /\ task'[p].at = "close"
      /\ Stays(p) /\ gold' = gold
  BY BuyerIs, BuyTask DEF Settle, money, BuyStep
<1>2. bag'[q] = SettledBag(bag[q], t) /\ \A r \in Players : r # q => bag'[r] = bag[r]
  BY SettleTo
<1>3. OnDeal(t, q) /\ ~OnDeal(task'[p], q)
  BY <1>1 DEF OnDeal, Under
<1>4. /\ Ledger(q) /\ task \in [Players -> Task] /\ task' \in [Players -> Task] /\ bag[q] \in Bag /\ bag'[q] \in Bag
      /\ t \in Task /\ t.item \in Item /\ t.item # NoItem /\ t.n \in Nat /\ t.n >= 1
  <2>1. bag[q] \in Bag /\ bag'[q] \in Bag /\ task \in [Players -> Task] /\ task' \in [Players -> Task]
    BY <1>1, TradeIs DEF Inv, TypeOK
  <2> QED
    BY <1>1, <2>1, DealIs
<1>5. Holds(q, t) /\ x \in Slots
  BY <1>1, <1>3, <1>4 DEF Ledger, Holds
<1>6. /\ \A y : /\ Sums("slot", task, q, y) \in Nat
                /\ Sums("slot", task', q, y) = IF y = x THEN Sums("slot", task, q, y) - t.n ELSE Sums("slot", task, q, y)
      /\ t.n <= S
  BY <1>1, <1>3, <1>4, LeaveIs
<1>7. /\ bag'[q][x] = Settled(bag[q][x], t) /\ \A y \in Slots : y # x => bag'[q][y] = bag[q][y]
      /\ bag[q][x] \in Stack /\ bag[q][x].count \in Nat
  BY <1>2, <1>4, <1>5 DEF SettledBag, Bag, Stack
<1>8. \A r, s : /\ Term("item", task'[p], r, s) = Term("item", task[p], r, s)
                /\ r # q => Term("slot", task'[p], r, s) = Term("slot", task[p], r, s)
  BY <1>1 DEF Term, Under, Stays
<1>9. SameGold(p) /\ \A i : Coming(task'[p], i) = Coming(task[p], i)
  BY <1>1 DEF SameGold, Term, Owing, Coming
<1>10. Wasted(p) = IF FullySold(t) /\ bag[q][x].item = t.item THEN bag[q][x].count - S ELSE 0
  <2>1. Taken(q, x) = S
    BY SumsAre
  <2> QED
    BY <1>1, <2>1 DEF Wasted
<1> HIDE DEF q, t, x, S
<1> DEFINE w == IF FullySold(t) /\ bag[q][x].item = t.item THEN bag[q][x].count - S ELSE 0
<1>11. w \in Nat
  <2>1. bag[q][x].item = t.item => S <= bag[q][x].count
    BY <1>1, <1>4, <1>5 DEF Covered, S
  <2>2. S \in Nat
    BY <1>6 DEF S
  <2> QED
    BY <1>7, <2>1, <2>2
<1>12. ASSUME NEW i \in Item PROVE Slice(bag'[q], task', q, i, x) + (IF i = t.item THEN w ELSE 0) = Slice(bag[q], task, q, i, x)
  <2>1. /\ Slice(bag'[q], task', q, i, x) = IF bag'[q][x].item = i THEN bag'[q][x].count - (S - t.n) ELSE 0
        /\ Slice(bag[q], task, q, i, x) = IF bag[q][x].item = i THEN bag[q][x].count - S ELSE 0
    BY <1>6 DEF Slice, S
  <2>2. i # NoItem /\ Empty.item = NoItem /\ S \in Nat
    BY <1>6 DEF Item, Empty, S
  <2>3. CASE FullySold(t) /\ Stocked(q, t)
    <3>1. bag[q][x].item = t.item
      BY <2>3 DEF Stocked, x, t
    <3>2. bag'[q][x] = Empty
      BY <1>7, <2>3, <3>1 DEF Settled, FullySold
    <3>3. w = bag[q][x].count - S
      BY <2>3, <3>1
    <3> HIDE DEF w
    <3> QED
      BY <1>7, <2>1, <2>2, <3>1, <3>2, <3>3
  <2>4. CASE Cleared(q, t)
    <3>1. bag[q][x].item = NoItem
      BY <2>4 DEF Cleared, x, t
    <3>2. bag'[q][x] = bag[q][x]
      BY <1>4, <1>7, <3>1, SettledIs
    <3> QED
      BY <2>1, <2>2, <3>1, <3>2
  <2>5. CASE ~FullySold(t) /\ Stocked(q, t)
    <3>1. bag[q][x].item = t.item /\ S <= bag[q][x].count
      BY <2>5 DEF Stocked, x, S, t
    <3>2. t.n \in Nat /\ bag[q][x].count \in Nat /\ t.n <= S /\ w = 0
      BY <1>4, <1>6, <1>7, <2>5
    <3> HIDE DEF w
    <3>3. CASE t.n < bag[q][x].count
      <4>1. Settled(bag[q][x], t).item = bag[q][x].item /\ Settled(bag[q][x], t).count = bag[q][x].count - t.n
        BY <1>4, <1>7, <2>5, <3>1, <3>3, SettledIs
      <4> QED
        BY <1>7, <2>1, <2>2, <3>2, <4>1
    <3>4. CASE t.n = bag[q][x].count
      <4>1. bag'[q][x] = Empty
        BY <1>7, <3>1, <3>2, <3>4 DEF Settled
      <4> QED
        BY <2>1, <2>2, <3>1, <3>2, <3>4, <4>1
    <3>5. t.n < bag[q][x].count \/ t.n = bag[q][x].count
      BY <2>2, <3>1, <3>2
    <3> QED
      BY <3>3, <3>4, <3>5
  <2> QED
    BY <1>5, <2>3, <2>4, <2>5 DEF Holds
<1>13. ASSUME NEW i \in Item
       PROVE  Goods(bag'[q], task', q, i) + (IF i = t.item THEN w ELSE 0) = Goods(bag[q], task, q, i)
  <2>1. OneSlot(bag[q], bag'[q], task, task', q, x)
    BY <1>1, <1>4, <1>5, <1>6, <1>7 DEF OneSlot, Covered
  <2>2. PICK tk, tl, b, c : tk = task /\ tl = task' /\ b = bag[q] /\ c = bag'[q]
    OBVIOUS
  <2>3. OneSlot(b, c, tk, tl, q, x)
    BY <2>1, <2>2
  <2>4. /\ SumFunction(Slices(c, tl, q, i)) + Slice(b, tk, q, i, x) = SumFunction(Slices(b, tk, q, i)) + Slice(c, tl, q, i, x)
        /\ SumFunction(Slices(c, tl, q, i)) \in Nat /\ SumFunction(Slices(b, tk, q, i)) \in Nat
        /\ Slice(b, tk, q, i, x) \in Nat /\ Slice(c, tl, q, i, x) \in Nat
    BY <2>3, SliceChange
  <2>5. Slice(c, tl, q, i, x) + (IF i = t.item THEN w ELSE 0) = Slice(b, tk, q, i, x)
    BY <1>12, <2>2
  <2>6. SumFunction(Slices(c, tl, q, i)) + (IF i = t.item THEN w ELSE 0) = SumFunction(Slices(b, tk, q, i))
    BY <1>11, <2>4, <2>5
  <2>7. Sums("item", task', q, i) = Sums("item", task, q, i)
    BY <1>1, <1>8, KindSame
  <2>8. Coming(task'[q], i) = Coming(task[q], i)
    BY <1>1 DEF Others
  <2>9. Sums("item", task, q, i) \in Nat /\ Coming(task[q], i) \in Nat
    BY <1>1, GoodsParts
  <2> QED
    BY <1>11, <2>2, <2>4, <2>6, <2>7, <2>8, <2>9 DEF Goods
<1>14. \A r \in Players, i \in Item : Goods(bag[r], task, r, i) \in Nat
  BY GoodsParts
<1>15. Lighter(q, t.item, w)
  <2> SUFFICES ASSUME NEW r \in Players, NEW i \in Item
               PROVE  Goods(bag'[r], task', r, i) = Goods(bag[r], task, r, i) - (IF r = q /\ i = t.item THEN w ELSE 0)
    BY DEF Lighter
  <2>1. CASE r = q
    <3>1. Goods(bag'[q], task', q, i) \in Int
      BY <1>1, <1>13, GoodsNext
    <3> QED
      BY <1>11, <1>1, <1>13, <1>14, <2>1, <3>1
  <2>2. CASE r # q
    <3>1. Goods(bag'[r], task', r, i) = Goods(bag[r], task, r, i)
      BY <1>1, <1>2, <1>8, <1>9, <2>2, GoodsOf
    <3> QED
      BY <1>14, <2>2, <3>1
  <2> QED
    BY <2>1, <2>2
<1>16. w <= Goods(bag[q], task, q, t.item)
  <2>1. Goods(bag'[q], task', q, t.item) + w = Goods(bag[q], task, q, t.item)
    BY <1>4, <1>13
  <2> QED
    BY <1>11, <1>1, <1>4, <1>14, <2>1, GoodsNext
<1>17. purse' = purse
  BY <1>1, <1>9, QuietGold
<1>18. q = task[p].of /\ t.item = task[p].item /\ w = Wasted(p) /\ t.item \in Item
  BY <1>4, <1>10 DEF q, t
<1> HIDE DEF w
<1> QED
  BY <1>11, <1>1, <1>14, <1>15, <1>16, <1>17, <1>18, LighterLoses

\* gold_lose: the shopper's gold was already counted as the keeper's.
LEMMA ChargeGoods ==
  ASSUME Orderly, Patient, Trade, NEW p \in Players, Charge(p)
  PROVE  goods' = goods /\ purse' = purse
<1>1. /\ Others(p) /\ Stays(p) /\ task'[p].snap = task[p].snap /\ task[p].at = "charge" /\ task'[p].at = "credit"
      /\ p \notin Keepers /\ bag' = bag
  BY BuyTask, BuyerIs DEF Charge, BuyStep
<1>2. SameGoods(p) /\ \A q, x : Term("gold", task'[p], q, x) = Term("gold", task[p], q, x)
  BY <1>1 DEF SameGoods, Term, Coming, Under, Stays
<1>3. gold \in [Players -> 0 .. CoinMax] /\ Cost(p) \in Nat /\ gold[p] >= Cost(p) /\ Inv
  BY <1>1, TradeIs, CostIs DEF Trade, Paid
<1>4. gold' = [gold EXCEPT ![p] = gold[p] - Cost(p)]
  BY <1>3 DEF Charge
<1>5. Sums("gold", task, p, 0) = 0 /\ Sums("gold", task', p, 0) = 0
  BY <1>1, <1>2, ShopperSells, KindSame
<1>6. ASSUME NEW r \in Players PROVE Purse(gold'[r], task', r) = Purse(gold[r], task, r)
  <2>1. CASE r = p
    <3>1. Owing(task[p]) = Cost(p) /\ Owing(task'[p]) = 0
      BY <1>1 DEF Owing, Cost
    <3>2. gold'[p] = gold[p] - Cost(p) /\ gold[p] \in 0 .. CoinMax
      BY <1>3, <1>4
    <3>3. GoldGain(gold[p], 0) = gold[p] /\ GoldGain(gold[p] - Cost(p), 0) = gold[p] - Cost(p)
      BY <1>3, <3>2 DEF GoldGain, Clamp
    <3> QED
      BY <1>3, <1>5, <2>1, <3>1, <3>2, <3>3 DEF Purse
  <2>2. CASE r # p
    <3>1. gold'[r] = gold[r] /\ task'[r] = task[r]
      BY <1>1, <1>3, <1>4, <2>2 DEF Others
    <3>2. Sums("gold", task', r, 0) = Sums("gold", task, r, 0)
      BY <1>1, <1>2, KindSame
    <3> QED
      BY <3>1, <3>2 DEF Purse
  <2> QED
    BY <2>1, <2>2
<1> QED
  BY <1>1, <1>2, <1>6, QuietGoods, PurseSame

\* gold_gain: what arrives had been counted.
LEMMA CreditGoods ==
  ASSUME Orderly, Patient, Trade, Inv', NEW p \in Players, Credit(p)
  PROVE  goods' = goods /\ purse' = purse
<1> DEFINE q == task[p].of
<1>1. /\ Others(p) /\ Stays(p) /\ task'[p].snap = task[p].snap /\ task[p].at = "credit" /\ task'[p].at = "deliver"
      /\ p \notin Keepers /\ bag' = bag /\ q \in Keepers /\ q \in Players /\ q # p /\ presence[q] = "here"
  BY BuyTask, BuyerIs DEF Credit, BuyStep, Trade, Actors
<1>2. SameGoods(p) /\ \A r \in Players : Owing(task'[r]) = Owing(task[r])
  BY <1>1 DEF SameGoods, Term, Coming, Under, Stays, Owing, Others
<1>3. gold \in [Players -> 0 .. CoinMax] /\ Cost(p) \in Nat /\ task \in [Players -> Task] /\ task' \in [Players -> Task]
  BY <1>1, TradeIs, CostIs DEF Inv, TypeOK
<1>4. gold' = [gold EXCEPT ![q] = GoldGain(gold[q], Cost(p))]
  BY <1>1 DEF Credit
<1>5. \A r, x : /\ Term("gold", task'[p], r, x) = 0
                /\ Term("gold", task[p], r, x) = IF r = q THEN Cost(p) ELSE 0
  BY <1>1 DEF Term, Cost
<1> HIDE DEF q
<1>6. ASSUME NEW r \in Players PROVE Purse(gold'[r], task', r) = Purse(gold[r], task, r)
  <2>1. /\ Sums("gold", task', r, 0) + Term("gold", task[p], r, 0) = Sums("gold", task, r, 0) + Term("gold", task'[p], r, 0)
        /\ Sums("gold", task, r, 0) \in Nat /\ Sums("gold", task', r, 0) \in Nat
    BY <1>1, <1>3, KindStep
  <2>2. CASE r = q
    <3>1. Sums("gold", task', q, 0) + Cost(p) = Sums("gold", task, q, 0)
      BY <1>3, <1>5, <2>1, <2>2
    <3>2. gold'[q] = GoldGain(gold[q], Cost(p)) /\ gold[q] \in 0 .. CoinMax
      BY <1>1, <1>3, <1>4
    <3>3. GoldGain(GoldGain(gold[q], Cost(p)), Sums("gold", task', q, 0)) = GoldGain(gold[q], Sums("gold", task, q, 0))
      BY <1>3, <2>1, <2>2, <3>1, <3>2 DEF GoldGain, Clamp
    <3> QED
      BY <1>2, <2>2, <3>2, <3>3 DEF Purse
  <2>3. CASE r # q
    <3>1. gold'[r] = gold[r] /\ Sums("gold", task', r, 0) = Sums("gold", task, r, 0)
      BY <1>3, <1>4, <1>5, <2>1, <2>3
    <3> QED
      BY <1>2, <3>1 DEF Purse
  <2> QED
    BY <2>2, <2>3
<1> QED
  BY <1>1, <1>2, <1>6, QuietGoods, PurseSame

\* An empty stall is closed; a refused shopper has paid nothing.
LEMMA CloseGoods ==
  ASSUME Orderly, Trade, NEW p \in Players, CloseIfSold(p)
  PROVE  goods' = goods /\ purse' = purse
<1>1. Others(p) /\ task[p].at = "close" /\ task'[p] = Idle /\ bag' = bag /\ gold' = gold
  BY BuyTask, TradeIs DEF CloseIfSold, BuyStep, money
<1>2. SameGoods(p) /\ SameGold(p)
  BY <1>1, Resting, IdleIs DEF Under
<1> QED
  BY <1>1, <1>2, QuietGoods, QuietGold

LEMMA RefuseGoods ==
  ASSUME Orderly, Trade, NEW p \in Players, CheckGold(p), task'[p].at = "restore"
  PROVE  goods' = goods /\ purse' = purse
<1>1. /\ Others(p) /\ Stays(p) /\ task'[p].snap = task[p].snap /\ task[p].at = "pay"
      /\ bag' = bag /\ gold' = gold
  BY BuyTask DEF CheckGold, BuyStep, money
<1>2. SameGoods(p) /\ SameGold(p)
  BY <1>1 DEF SameGoods, SameGold, Term, Coming, Owing, Under, Stays
<1> QED
  BY <1>1, <1>2, QuietGoods, QuietGold

\* Once both purses have been checked a purchase is a sale.
LEMMA PurchaseSells ==
  ASSUME Orderly, Patient, Trade, Covered, Inv', Covered', NEW p \in Players, CheckGold(p), task'[p].at = "charge"
  PROVE  Sales!Next
<1> DEFINE q == task[p].of
           j == task[p].item
           n == task[p].n
           price == task[p].snap.price
           cost == task[p].snap.price * task[p].n
<1>1. /\ q \in Keepers /\ q \in Players /\ q # p /\ p \notin Keepers /\ Others(p) /\ Stays(p) /\ task'[p].snap = task[p].snap
      /\ task[p].at = "pay" /\ bag' = bag /\ gold' = gold /\ presence[q] = "here" /\ task[q].at = "idle"
  BY BuyTask, BuyerIs DEF CheckGold, BuyStep, money, Trade, Actors
<1>2. /\ j \in Item /\ n \in Nat /\ n >= 1 /\ gold \in [Players -> 0 .. CoinMax] /\ bag \in [Players -> Bag]
      /\ task \in [Players -> Task] /\ task' \in [Players -> Task]
  BY <1>1, DealIs, TradeIs DEF Inv, TypeOK
<1>3. price \in Asked
  BY <1>1 DEF Trade, Ledger, OnDeal, Under, Holds
<1>4. cost \in Nat /\ cost = price * n
  BY CostIs, TradeIs
<1>5. gold[p] >= cost /\ gold[q] + cost <= CoinMax
  <2>1. CASE gold[p] >= Cost(p) /\ gold[q] + Cost(p) <= CoinMax
    BY <2>1 DEF Cost
  <2>2. CASE ~(gold[p] >= Cost(p) /\ gold[q] + Cost(p) <= CoinMax)
    <3>1. Goto(p, "restore")
      BY <1>1, <2>2 DEF CheckGold
    <3>2. task'[p].at = "restore"
      BY <3>1, Onward, TradeIs DEF Stages
    <3> QED
      BY <3>2
  <2> QED
    BY <2>1, <2>2
<1>6. \A r, x : /\ Term("slot", task'[p], r, x) = Term("slot", task[p], r, x)
                /\ Term("item", task[p], r, x) = IF r = q /\ x = j THEN n ELSE 0
                /\ Term("item", task'[p], r, x) = 0
                /\ Term("gold", task[p], r, x) = 0
                /\ Term("gold", task'[p], r, x) = IF r = q THEN cost ELSE 0
  BY <1>1 DEF Term, Under, Stays
<1>7. /\ \A i : Coming(task[p], i) = 0 /\ Coming(task'[p], i) = IF i = j THEN n ELSE 0
      /\ Owing(task[p]) = 0 /\ Owing(task'[p]) = cost
      /\ \A i : Coming(task[q], i) = 0 /\ Coming(task'[q], i) = 0
      /\ Owing(task[q]) = 0 /\ Owing(task'[q]) = 0
  BY <1>1 DEF Coming, Owing, Stays, Others
<1> HIDE DEF q, j, n, price, cost
<1>8. ASSUME NEW r \in Players
      PROVE  /\ Sums("gold", task', r, 0) = Sums("gold", task, r, 0) + (IF r = q THEN cost ELSE 0)
             /\ Sums("gold", task, r, 0) \in Nat /\ Sums("gold", task', r, 0) \in Nat
  <2>1. /\ Sums("gold", task', r, 0) + Term("gold", task[p], r, 0) = Sums("gold", task, r, 0) + Term("gold", task'[p], r, 0)
        /\ Sums("gold", task, r, 0) \in Nat /\ Sums("gold", task', r, 0) \in Nat
    BY <1>1, <1>2, KindStep
  <2> QED
    BY <1>4, <1>6, <2>1
<1>9. Sums("gold", task, p, 0) = 0 /\ Sums("gold", task', p, 0) = 0
  BY <1>1, <1>8, ShopperSells
<1>10. ASSUME NEW r \in Players
       PROVE  Purse(gold'[r], task', r) = IF r = q THEN Sales!Gain(Purse(gold[q], task, q), cost)
                                          ELSE IF r = p THEN Purse(gold[p], task, p) - cost ELSE Purse(gold[r], task, r)
  <2>1. gold'[r] = gold[r] /\ gold[r] \in 0 .. CoinMax
    BY <1>1, <1>2
  <2>2. CASE r = q
    <3>1. GoldGain(gold[q], Sums("gold", task', q, 0)) = Sales!Gain(GoldGain(gold[q], Sums("gold", task, q, 0)), cost)
      BY <1>4, <1>8, <2>1, <2>2 DEF Sales!Gain, GoldGain, Clamp
    <3>2. GoldGain(gold[q], Sums("gold", task, q, 0)) \in Nat /\ GoldGain(gold[q], Sums("gold", task', q, 0)) \in Nat
      BY <1>8, <2>1, <2>2 DEF GoldGain, Clamp
    <3>3. Purse(gold[q], task, q) = GoldGain(gold[q], Sums("gold", task, q, 0))
      BY <1>7, <3>2 DEF Purse
    <3>4. Purse(gold'[q], task', q) = GoldGain(gold[q], Sums("gold", task', q, 0))
      BY <1>7, <2>1, <2>2, <3>2 DEF Purse
    <3> QED
      BY <2>2, <3>1, <3>3, <3>4
  <2>3. CASE r = p
    <3>1. GoldGain(gold[p], 0) = gold[p]
      BY <2>1, <2>3 DEF GoldGain, Clamp
    <3> QED
      BY <1>1, <1>4, <1>5, <1>7, <1>9, <2>1, <2>3, <3>1 DEF Purse
  <2>4. CASE r # p /\ r # q
    <3>1. task'[r] = task[r] /\ Sums("gold", task', r, 0) = Sums("gold", task, r, 0)
      BY <1>1, <1>8, <2>4 DEF Others
    <3> QED
      BY <2>1, <2>4, <3>1 DEF Purse
  <2> QED
    BY <2>2, <2>3, <2>4
<1>11. ASSUME NEW r \in Players, NEW i \in Item
       PROVE  /\ Sums("item", task', r, i) + (IF r = q /\ i = j THEN n ELSE 0) = Sums("item", task, r, i)
              /\ Sums("item", task, r, i) \in Nat /\ Sums("item", task', r, i) \in Nat
              /\ SumFunction(Slices(bag'[r], task', r, i)) = SumFunction(Slices(bag[r], task, r, i))
              /\ SumFunction(Slices(bag[r], task, r, i)) \in Nat
  <2>1. /\ Sums("item", task', r, i) + Term("item", task[p], r, i) = Sums("item", task, r, i) + Term("item", task'[p], r, i)
        /\ Sums("item", task, r, i) \in Nat /\ Sums("item", task', r, i) \in Nat
    BY <1>1, <1>2, KindStep
  <2>2. \A s \in Slots : Sums("slot", task', r, s) = Sums("slot", task, r, s)
    BY <1>1, <1>6, KindSame
  <2>3. \A s \in Slots : Slice(bag'[r], task', r, i, s) = Slice(bag[r], task, r, i, s)
    BY <1>1, <2>2 DEF Slice
  <2>4. SumFunction(Slices(bag'[r], task', r, i)) = SumFunction(Slices(bag[r], task, r, i))
    BY <2>3, SlicesSame
  <2>5. SumFunction(Slices(bag[r], task, r, i)) \in Nat
    <3>1. bag[r] \in Bag /\ \A s \in Slots : bag[r][s].item # NoItem => Sums("slot", task, r, s) <= bag[r][s].count
      BY <1>2 DEF Covered
    <3> QED
      BY <1>2, <3>1, SliceTyped
  <2>6. Sums("item", task', r, i) + (IF r = q /\ i = j THEN n ELSE 0) = Sums("item", task, r, i)
    BY <1>2, <1>6, <2>1
  <2> QED
    BY <2>1, <2>4, <2>5, <2>6
<1>12. Goods(bag[q], task, q, j) \in Nat /\ n <= Goods(bag[q], task, q, j)
  <2>1. /\ Sums("item", task', q, j) + n = Sums("item", task, q, j)
        /\ Sums("item", task, q, j) \in Nat /\ Sums("item", task', q, j) \in Nat
        /\ SumFunction(Slices(bag[q], task, q, j)) \in Nat
    BY <1>1, <1>2, <1>11
  <2> QED
    BY <1>2, <1>7, <2>1 DEF Goods
<1>13. ASSUME NEW r \in Players, NEW i \in Item
       PROVE  Goods(bag'[r], task', r, i) = IF i = j /\ r = q THEN Goods(bag[q], task, q, j) - n
                                            ELSE IF i = j /\ r = p THEN Goods(bag[p], task, p, j) + n
                                            ELSE Goods(bag[r], task, r, i)
  <2>1. /\ Sums("item", task', r, i) + (IF r = q /\ i = j THEN n ELSE 0) = Sums("item", task, r, i)
        /\ Sums("item", task, r, i) \in Nat /\ Sums("item", task', r, i) \in Nat
        /\ SumFunction(Slices(bag'[r], task', r, i)) = SumFunction(Slices(bag[r], task, r, i))
        /\ SumFunction(Slices(bag[r], task, r, i)) \in Nat
    BY <1>11
  <2>2. CASE r = q
    BY <1>1, <1>2, <1>7, <2>1, <2>2 DEF Goods
  <2>3. CASE r = p
    BY <1>1, <1>2, <1>7, <2>1, <2>3 DEF Goods
  <2>4. CASE r # p /\ r # q
    <3>1. task'[r] = task[r]
      BY <1>1, <2>4 DEF Others
    <3> QED
      BY <2>1, <2>4, <3>1 DEF Goods
  <2> QED
    BY <2>2, <2>3, <2>4
<1>14. /\ \A r \in Players : purse[r] = Purse(gold[r], task, r) /\ purse'[r] = Purse(gold'[r], task', r)
       /\ \A r \in Players, i \in Item : goods[r][i] = Goods(bag[r], task, r, i) /\ goods'[r][i] = Goods(bag'[r], task', r, i)
       /\ purse = [r \in Players |-> purse[r]] /\ purse' = [r \in Players |-> purse'[r]]
       /\ goods = [r \in Players |-> [i \in Item |-> goods[r][i]]] /\ goods' = [r \in Players |-> [i \in Item |-> goods'[r][i]]]
  BY MapIs, MapIsNext
<1>15. purse[p] >= cost
  <2>1. GoldGain(gold[p], 0) = gold[p] /\ gold[p] \in 0 .. CoinMax
    BY <1>2 DEF GoldGain, Clamp
  <2>2. purse[p] = gold[p]
    BY <1>7, <1>9, <1>14, <2>1 DEF Purse
  <2> QED
    BY <1>5, <2>2
<1>16. n \in 1 .. goods[q][j]
  BY <1>1, <1>2, <1>12, <1>14
<1>17. purse' = [purse EXCEPT ![p] = @ - price * n, ![q] = Sales!Gain(@, price * n)]
  <2>1. [purse EXCEPT ![p] = @ - price * n, ![q] = Sales!Gain(@, price * n)]
          = [r \in Players |-> IF r = q THEN Sales!Gain(purse[q], cost) ELSE IF r = p THEN purse[p] - cost ELSE purse[r]]
    BY <1>1, <1>4, <1>14
  <2>2. [r \in Players |-> purse'[r]] = [r \in Players |-> IF r = q THEN Sales!Gain(purse[q], cost) ELSE IF r = p THEN purse[p] - cost ELSE purse[r]]
    BY <1>1, <1>10, <1>14
  <2> QED
    BY <1>14, <2>1, <2>2, Zenon
<1>18. goods' = [goods EXCEPT ![q][j] = @ - n, ![p][j] = @ + n]
  <2> DEFINE new(r, i) == IF i = j /\ r = q THEN goods[q][j] - n ELSE IF i = j /\ r = p THEN goods[p][j] + n ELSE goods[r][i]
  <2>1. [goods EXCEPT ![q][j] = @ - n, ![p][j] = @ + n] = [r \in Players |-> [i \in Item |-> new(r, i)]]
    <3>1. goods = [r \in Players |-> [i \in Item |-> goods[r][i]]]
      BY <1>14
    <3>2. q \in Players /\ p \in Players /\ q # p /\ j \in Item
      BY <1>1, <1>2
    <3> QED
      BY <3>1, <3>2
  <2>2. \A r \in Players, i \in Item : goods'[r][i] = new(r, i)
    BY <1>1, <1>2, <1>13, <1>14
  <2>3. [r \in Players |-> [i \in Item |-> goods'[r][i]]] = [r \in Players |-> [i \in Item |-> new(r, i)]]
    BY <2>2
  <2> QED
    BY <1>14, <2>1, <2>3, Zenon
<1>19. Sales!Sell(q, p, j, n, price)
  BY <1>1, <1>4, <1>15, <1>16, <1>17, <1>18 DEF Sales!Sell
<1> QED
  BY <1>1, <1>2, <1>3, <1>16, <1>19 DEF Sales!Next, Asked

LEMMA InitSells == Orderly /\ Init => Sales!Init
<1> SUFFICES ASSUME Orderly, Init PROVE Sales!Init
  OBVIOUS
<1>1. /\ Trade /\ Covered /\ gold \in [Players -> 0 .. CoinMax] /\ bag \in [Players -> Bag] /\ task \in [Players -> Task]
      /\ \A p \in Players : task[p] = Idle
  BY InitTrade, TradeCovered, TradeIs DEF Init
<1>2. \A p \in Players : \A kind, q, x : Term(kind, task[p], q, x) = 0
  BY <1>1, IdleIs DEF Term, Under
<1>3. \A kind, q, x : Sums(kind, task, q, x) = 0
  BY <1>1, <1>2, SumsNone
<1>4. ASSUME NEW p \in Players PROVE Purse(gold[p], task, p) \in Nat
  <2>1. Owing(task[p]) = 0 /\ Sums("gold", task, p, 0) = 0
    BY <1>1, <1>3, IdleIs DEF Owing
  <2> QED
    BY <1>1, <2>1 DEF Purse, GoldGain, Clamp
<1>5. ASSUME NEW p \in Players, NEW i \in Item PROVE Goods(bag[p], task, p, i) \in Nat
  <2>1. Coming(task[p], i) = 0 /\ Sums("item", task, p, i) = 0
    BY <1>1, <1>3, IdleIs DEF Coming
  <2>2. bag[p] \in Bag /\ \A s \in Slots : bag[p][s].item # NoItem => Sums("slot", task, p, s) <= bag[p][s].count
    BY <1>1 DEF Covered
  <2>3. SumFunction(Slices(bag[p], task, p, i)) \in Nat
    BY <1>1, <2>2, SliceTyped
  <2> QED
    BY <2>1, <2>3 DEF Goods
<1> QED
  BY <1>4, <1>5, MapIs DEF Sales!Init

LEMMA NextSells ==
  ASSUME Orderly
  PROVE  Patient /\ Trade /\ Trade' /\ [Next]_vars
           => [Sales!Next \/ \E p \in Players : Sales!Lose(task[p].of, task[p].item, Wasted(p))]_<<purse, goods>>
<1> DEFINE Losing == \E p \in Players : Sales!Lose(task[p].of, task[p].item, Wasted(p))
<1> SUFFICES ASSUME Patient, Trade, Trade', [Next]_vars PROVE Sales!Next \/ Losing \/ UNCHANGED <<purse, goods>>
  OBVIOUS
<1>1. Covered /\ Covered' /\ Inv'
  BY TradeCovered, NextCovered DEF Trade, Sound
<1>2. CASE UNCHANGED vars
  <2>1. UNCHANGED <<gold, bag, task>>
    BY <1>2 DEF vars, money
  <2>2. \A r \in Players : Purse(gold'[r], task', r) = Purse(gold[r], task, r)
    BY <2>1
  <2>3. \A r \in Players, i \in Item : Goods(bag'[r], task', r, i) = Goods(bag[r], task, r, i)
    BY <2>1
  <2> QED
    BY <2>2, <2>3, PurseSame, GoodsSame
<1>3. ASSUME NEW p \in Players, Step(p)
      PROVE  Sales!Next \/ Sales!Lose(task[p].of, task[p].item, Wasted(p)) \/ UNCHANGED <<purse, goods>>
  <2>1. CASE BuyStep(p)
    <3>1. CASE CheckGold(p)
      BY <1>1, <2>1, <3>1, BuyTask, PurchaseSells, RefuseGoods
    <3>2. CASE ~CheckGold(p)
      BY <1>1, <2>1, <3>2, BuyTask, ReserveGoods, RestoreGoods, ChargeGoods, CreditGoods, DeliverGoods, SettleGoods, CloseGoods
         DEF BuyStep
    <3> QED
      BY <3>1, <3>2
  <2>2. CASE ~BuyStep(p)
    BY <1>1, <1>3, <2>2, RestingStep, MoveGoods
  <2> QED
    BY <2>1, <2>2
<1> QED
  BY <1>2, <1>3 DEF Next

\* Whatever the order in which shoppers reserve, pay, are refused and are served,
\* a purchase happens at the moment both purses have been checked: the price and
\* the goods change hands there, and every other write of merchant_item_buy, a
\* reservation, its return to the place (restore_merchant_buy), the two purses, the
\* two bags, only prepares or carries out that exchange.  The one thing that
\* escapes it is what Wasted counts: units given back around the sale of the last
\* of their offer.
THEOREM SalesFromStallsAreAtomic ==
  ASSUME Orderly PROVE Spec /\ []Patient => SalesAreAtomic
<1>1. Init => Trade
  BY InitTrade
<1>2. Patient /\ Trade /\ [Next]_vars => Trade'
  BY TradeStep
<1>3. Patient /\ Trade /\ Trade' /\ [Next]_vars
        => [Sales!Next \/ \E p \in Players : Sales!Lose(task[p].of, task[p].item, Wasted(p))]_<<purse, goods>>
  BY NextSells
<1>4. Init => Sales!Init
  BY InitSells
<1> QED
  BY <1>1, <1>2, <1>3, <1>4, PTL DEF Spec, SalesAreAtomic
=============================================================================
