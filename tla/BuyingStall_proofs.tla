------------------------ MODULE BuyingStall_proofs ------------------------
(***************************************************************************)
(* Proofs about BuyingStall, for any number of collectors and suppliers.   *)
(*                                                                         *)
(* TypeOK needs what a handler knows of its sale (Known): the want and the *)
(* supplier's stack were at least as large as the sale when it began.      *)
(* OrderFunded needs more: one sale at a time (OneSale), that a list which *)
(* is being prepared is empty and nobody sells to it (Fresh), and that a   *)
(* sale not yet struck off finds the want it began with (Agreed).          *)
(* SalesAreAtomic needs that purse, slots and want are still what each     *)
(* handler read when it began (Trade).                                     *)
(***************************************************************************)
EXTENDS BuyingStall, Sums_proofs

USE BuyingStallAssumption, InventoryAssumption DEF BuyingStallAssumption, InventoryAssumption

Known(t) ==
  /\ t \in Task
  /\ t.at # "idle" => t.of \in Players
  /\ t.at \notin {"idle", "look", "cut"} =>
       /\ t.place \in Places /\ t.slot \in Slots /\ t.dest \in Slots
       /\ t.n >= 1 /\ t.n <= t.want.count /\ t.n <= t.held /\ t.held < CountMod

Inv == TypeOK /\ \A p \in Players : Known(task[p])

LEMMA IdleIs == Idle \in Task /\ Idle.at = "idle" /\ Known(Idle)
BY DEF Idle, Task, Stages, Known, Want, NoWant, Places, Slots, Players

LEMMA EmptyIs == Empty \in Stack /\ NoWant \in Want
BY DEF Empty, Stack, NoWant, Want

\* find_slot_for_item answers a slot of the bag that is free or has room for the item.
LEMMA FindSlotIs ==
  ASSUME NEW b \in Bag, NEW i, NEW n, NEW d \in FindSlot(b, i, n)
  PROVE  d \in Fitting(b, i, n) \cup FreeSlots(b) /\ d \in Slots
<1>1. PICK found \in SUBSET Slots :
        found \in {Fitting(b, i, n), FreeSlots(b)} /\ found # {} /\ d = Min(found)
  BY DEF FindSlot, Fitting, FreeSlots
<1>2. found \subseteq Nat
  BY <1>1 DEF Slots
<1>3. \E x \in found : \A y \in found : x <= y
  <2>1. PICK z \in found : TRUE
    BY <1>1
  <2>2. \E x \in Nat : x \in found /\ \A y \in Nat : y \in found => x <= y
    BY <1>2, <2>1, LeastNatural
  <2> QED
    BY <1>2, <2>2
<1>4. Min(found) \in found
  BY <1>3 DEF Min
<1> QED
  BY <1>1, <1>4

\* A step that writes p's task.
LEMMA TaskWritten ==
  ASSUME Inv, NEW p \in Players, NEW t, Known(t), task' = [task EXCEPT ![p] = t]
  PROVE  task' \in [Players -> Task] /\ \A q \in Players : Known(task'[q])
BY DEF Inv, TypeOK, Known

LEMMA GotoIs ==
  ASSUME Inv, NEW p \in Players, NEW stage \in Stages, Goto(p, stage)
  PROVE  /\ task' = [task EXCEPT ![p] = [task[p] EXCEPT !.at = stage]]
         /\ [task[p] EXCEPT !.at = stage] \in Task
         /\ [task[p] EXCEPT !.at = stage].at = stage
         /\ \A f \in {"of", "place", "want", "n", "slot", "held", "dest"} :
              [task[p] EXCEPT !.at = stage][f] = task[p][f]
<1>1. task \in [Players -> Task] /\ task[p] \in Task
  BY DEF Inv, TypeOK
<1>2. task' = [task EXCEPT ![p] = [task[p] EXCEPT !.at = stage]]
  BY <1>1 DEF Goto
<1> QED
  BY <1>1, <1>2 DEF Task

\* A sale goes on: what it knows stays.
LEMMA GotoKeeps ==
  ASSUME Inv, NEW p \in Players, NEW stage \in Stages \ {"idle", "look", "cut"}, Goto(p, stage),
         task[p].at \notin {"idle", "look", "cut"}
  PROVE  task' \in [Players -> Task] /\ \A q \in Players : Known(task'[q])
<1> DEFINE t == [task[p] EXCEPT !.at = stage]
<1>1. task' = [task EXCEPT ![p] = t] /\ t \in Task /\ t.at = stage
  BY GotoIs
<1>2. /\ t["of"] = task[p]["of"] /\ t["place"] = task[p]["place"] /\ t["want"] = task[p]["want"]
      /\ t["n"] = task[p]["n"] /\ t["slot"] = task[p]["slot"] /\ t["held"] = task[p]["held"]
      /\ t["dest"] = task[p]["dest"]
  BY GotoIs
<1> HIDE DEF t
<1>3. Known(task[p])
  BY DEF Inv
<1>4. Known(t)
  BY <1>1, <1>2, <1>3 DEF Known
<1> QED
  BY <1>1, <1>4, TaskWritten

LEMMA DoneKeeps ==
  ASSUME Inv, NEW p \in Players, Done(p)
  PROVE  task' \in [Players -> Task] /\ \A q \in Players : Known(task'[q])
BY IdleIs, TaskWritten DEF Done

LEMMA SameTasks ==
  ASSUME Inv, UNCHANGED task
  PROVE  task' \in [Players -> Task] /\ \A q \in Players : Known(task'[q])
BY DEF Inv, TypeOK

\* What a handler in the middle of a sale knows, in one place.
LEMMA SaleFacts ==
  ASSUME Inv, NEW p \in Players, task[p].at \notin {"idle", "look", "cut"}
  PROVE  /\ task[p] \in Task /\ task[p].of \in Players /\ task[p].place \in Places
         /\ task[p].slot \in Slots /\ task[p].dest \in Slots /\ task[p].want \in Want
         /\ task[p].n \in Nat /\ task[p].n >= 1 /\ task[p].n <= task[p].want.count
         /\ task[p].held \in Nat /\ task[p].n <= task[p].held /\ task[p].held < CountMod
         /\ Cost(p) \in Nat
<1>1. Known(task[p]) /\ task[p] \in Task
  BY DEF Inv, TypeOK
<1>2. task[p].want \in Want /\ task[p].n \in Nat /\ task[p].held \in Nat
  BY <1>1 DEF Task
<1>3. task[p].want.price \in Nat
  BY <1>2 DEF Want
<1>4. Cost(p) \in Nat
  BY <1>2, <1>3 DEF Cost
<1> QED
  BY <1>1, <1>2, <1>4 DEF Known

LEMMA InitInv == Init => Inv
<1> SUFFICES ASSUME Init PROVE Inv
  OBVIOUS
<1>1. Idle \in Task /\ Known(Idle) /\ NoWant \in Want
  BY IdleIs, EmptyIs
<1> QED
  BY <1>1 DEF Init, Inv, TypeOK

-----------------------------------------------------------------------------
(* One lemma per group of actions. *)

LEMMA CollectorInv ==
  ASSUME Inv, NEW p \in Players, hasty' = hasty, Open(p) \/ Close(p) \/ \E order \in Orders : Insert(p, order)
  PROVE  Inv'
<1>1. NoWant \in Want /\ UNCHANGED <<gold, bag, task>>
  BY EmptyIs DEF Open, Close, Insert, vars
<1>2. task' \in [Players -> Task] /\ \A q \in Players : Known(task'[q])
  BY <1>1, SameTasks
<1>3. ASSUME NEW order \in Orders, Insert(p, order) PROVE wanted' \in [Players -> [Places -> Want]]
  <2>1. Posted(wanted[p], order) \in [Places -> Want]
    BY DEF Posted, Inv, TypeOK
  <2> QED
    BY <1>3, <2>1 DEF Insert, Inv, TypeOK
<1>4. /\ stall' \in [Players -> {"closed", "preparing", "open"}]
      /\ wanted' \in [Players -> [Places -> Want]]
      /\ looker' \in [Players -> Players \cup {NoPlayer}]
      /\ browsing' \in [Players -> Players \cup {NoPlayer}]
  <2>1. CASE Open(p)
    BY <1>1, <2>1 DEF Open, Inv, TypeOK, view
  <2>2. CASE Close(p)
    <3>1. wanted' \in [Players -> [Places -> Want]]
      BY <1>1, <2>2 DEF Close, CloseStall, Inv, TypeOK
    <3>2. stall' \in [Players -> {"closed", "preparing", "open"}]
      BY <2>2 DEF Close, CloseStall, Inv, TypeOK
    <3>3. looker' \in [Players -> Players \cup {NoPlayer}] /\ browsing' \in [Players -> Players \cup {NoPlayer}]
      BY <2>2 DEF Close, CloseStall, Inv, TypeOK
    <3> QED
      BY <3>1, <3>2, <3>3
  <2>3. ASSUME NEW order \in Orders, Insert(p, order)
        PROVE  /\ stall' \in [Players -> {"closed", "preparing", "open"}]
               /\ looker' \in [Players -> Players \cup {NoPlayer}]
               /\ browsing' \in [Players -> Players \cup {NoPlayer}]
    BY <2>3 DEF Insert, Inv, TypeOK, view
  <2> QED
    BY <1>3, <2>1, <2>2, <2>3
<1> QED
  BY <1>1, <1>2, <1>4 DEF Inv, TypeOK

LEMMA LookInv ==
  ASSUME Inv, NEW p \in Players, hasty' = hasty,
         (\E q \in Collectors : Browse(p, q)) \/ Look(p) \/ StopBrowsing(p)
  PROVE  Inv'
<1>1. UNCHANGED <<shop, gold, bag>>
  BY DEF Browse, Look, StopBrowsing
<1>2. ASSUME NEW q \in Collectors, Browse(p, q) PROVE Inv'
  <2> DEFINE t == [Idle EXCEPT !.at = "look", !.of = q]
  <2>1. t \in Task /\ t.at = "look" /\ t.of = q
    BY IdleIs DEF Task, Stages, Players
  <2>2. task' = [task EXCEPT ![p] = t] /\ UNCHANGED view
    BY <1>2 DEF Browse
  <2> HIDE DEF t
  <2>3. Known(t)
    BY <2>1 DEF Known, Players
  <2>4. task' \in [Players -> Task] /\ \A r \in Players : Known(task'[r])
    BY <2>2, <2>3, TaskWritten
  <2> QED
    BY <1>1, <2>2, <2>4 DEF Inv, TypeOK, shop, view
<1>3. CASE Look(p)
  <2>1. task[p].of \in Players
    BY <1>3 DEF Look, Inv, Known
  <2>2. task' \in [Players -> Task] /\ \A r \in Players : Known(task'[r])
    BY <1>3, DoneKeeps DEF Look
  <2> QED
    BY <1>1, <1>3, <2>1, <2>2 DEF Look, Inv, TypeOK, shop
<1>4. CASE StopBrowsing(p)
  BY <1>1, <1>4, SameTasks DEF StopBrowsing, Inv, TypeOK, shop
<1> QED
  BY <1>2, <1>3, <1>4

\* The record a sale starts with.
Begun(q, k, w, n, s, held, d) ==
  [Idle EXCEPT !.at = "charge", !.of = q, !.place = k, !.want = w, !.n = n, !.slot = s, !.held = held, !.dest = d]

LEMMA BegunIs ==
  ASSUME NEW q \in Players, NEW k \in Places, NEW w \in Want, NEW n \in Nat, NEW s \in Slots, NEW held \in Nat, NEW d \in Slots
  PROVE  /\ Begun(q, k, w, n, s, held, d) \in Task
         /\ Begun(q, k, w, n, s, held, d).at = "charge" /\ Begun(q, k, w, n, s, held, d).of = q
         /\ Begun(q, k, w, n, s, held, d).place = k /\ Begun(q, k, w, n, s, held, d).want = w
         /\ Begun(q, k, w, n, s, held, d).n = n /\ Begun(q, k, w, n, s, held, d).slot = s
         /\ Begun(q, k, w, n, s, held, d).held = held /\ Begun(q, k, w, n, s, held, d).dest = d
BY DEF Begun, Idle, Task, Stages

LEMMA StartSaleIs ==
  ASSUME Inv, NEW p \in Players, NEW s \in Slots, NEW k \in Places, NEW n \in Amounts, StartSale(p, s, k, n)
  PROVE  \E q \in Players, w \in Want, held \in Nat, d \in Slots :
           /\ q = browsing[p] /\ q # p /\ stall[q] = "open" /\ w = wanted[q][k] /\ held = bag[p][s].count
           /\ n >= 1 /\ n <= w.count /\ n <= held /\ held < CountMod
           /\ d \in Fitting(bag[q], w.item, n) \cup FreeSlots(bag[q])
           /\ task' = [task EXCEPT ![p] = Begun(q, k, w, n, s, held, d)]
<1> DEFINE q == browsing[p]
           w == wanted[q][k]
           held == bag[p][s].count
<1>1. q \in Players /\ q # p /\ stall[q] = "open"
  BY DEF StartSale, Inv, TypeOK
<1>2. w \in Want /\ bag[p][s] \in Stack
  BY <1>1 DEF Inv, TypeOK, Bag
<1>3. held \in Nat /\ held < CountMod
  BY <1>2 DEF Stack
<1>4. w.count >= n /\ held >= n /\ n \in Nat \ {0}
  BY DEF StartSale, Has
<1>5. PICK d \in FindSlot(bag[q], w.item, n) : task' = [task EXCEPT ![p] = Begun(q, k, w, n, s, held, d)]
  BY DEF StartSale, Begun
<1>6. d \in Slots /\ d \in Fitting(bag[q], w.item, n) \cup FreeSlots(bag[q])
  BY <1>1, <1>5, FindSlotIs DEF Inv, TypeOK
<1>7. n >= 1 /\ n <= w.count /\ n <= held
  <2>1. w.count \in Nat
    BY <1>2 DEF Want
  <2> QED
    BY <1>3, <1>4, <2>1
<1>8. q = browsing[p] /\ w = wanted[q][k] /\ held = bag[p][s].count
  OBVIOUS
<1> HIDE DEF q, w, held
<1> QED
  BY <1>1, <1>2, <1>3, <1>5, <1>6, <1>7, <1>8

LEMMA StartSaleInv ==
  ASSUME Inv, NEW p \in Players, hasty' = hasty, NEW s \in Slots, NEW k \in Places, NEW n \in Amounts, StartSale(p, s, k, n)
  PROVE  Inv'
<1>1. PICK q \in Players, w \in Want, held \in Nat, d \in Slots :
        /\ n >= 1 /\ n <= w.count /\ n <= held /\ held < CountMod
        /\ task' = [task EXCEPT ![p] = Begun(q, k, w, n, s, held, d)]
  BY StartSaleIs
<1> DEFINE t == Begun(q, k, w, n, s, held, d)
<1>0. n \in Nat
  OBVIOUS
<1>2. /\ t \in Task /\ t.at = "charge" /\ t.of = q /\ t.place = k /\ t.want = w /\ t.n = n /\ t.slot = s
      /\ t.held = held /\ t.dest = d
  BY <1>0, BegunIs
<1> HIDE DEF t
<1>3. Known(t)
  BY <1>1, <1>2 DEF Known
<1>4. task' \in [Players -> Task] /\ \A r \in Players : Known(task'[r])
  BY <1>1, <1>3, TaskWritten DEF t
<1> QED
  BY <1>4 DEF StartSale, Inv, TypeOK, shop, view

LEMMA LeftIs ==
  ASSUME NEW w \in Want, NEW n \in Nat, n <= w.count
  PROVE  /\ Left(w, n) \in Want
         /\ Left(w, n).price * Left(w, n).count + w.price * n = w.price * w.count
         /\ w.price \in Nat /\ w.count \in Nat /\ Left(w, n).price * Left(w, n).count \in Nat
<1>1. w.price \in Nat /\ w.count \in Nat /\ w.count < CountMod
  BY DEF Want
<1>2. CASE w.count = n
  <2>1. Left(w, n) = NoWant
    BY <1>2 DEF Left
  <2>2. NoWant.price = 0 /\ NoWant.count = 0 /\ NoWant \in Want
    BY EmptyIs DEF NoWant
  <2> QED
    BY <1>1, <1>2, <2>1, <2>2
<1>3. CASE w.count # n
  <2> DEFINE v == [w EXCEPT !.count = w.count - n]
  <2>1. Left(w, n) = v
    BY <1>3 DEF Left
  <2>2. v.price = w.price /\ v.count = w.count - n
    BY DEF Want
  <2>3. w.count - n \in 0 .. CountMod - 1
    BY <1>1
  <2>4. v \in Want
    BY <2>3 DEF Want
  <2>5. w.price * (w.count - n) + w.price * n = w.price * w.count /\ w.price * (w.count - n) \in Nat
    BY <1>1, <2>3
  <2> HIDE DEF v
  <2> QED
    BY <1>1, <2>1, <2>2, <2>4, <2>5
<1> QED
  BY <1>2, <1>3

LEMMA SaleStepInv ==
  ASSUME Inv, NEW p \in Players, hasty' = hasty, SaleStep(p)
  PROVE  Inv'
<1> DEFINE t == task[p]
<1>1. t.at \notin {"idle", "look", "cut"}
  BY DEF SaleStep, Charge, Credit, Strike, Store, HandOver, CloseIfDone
<1>2. /\ t \in Task /\ t.of \in Players /\ t.place \in Places /\ t.slot \in Slots /\ t.dest \in Slots
      /\ t.want \in Want /\ t.n \in Nat /\ t.n >= 1 /\ t.n <= t.want.count
      /\ t.held \in Nat /\ t.n <= t.held /\ t.held < CountMod /\ Cost(p) \in Nat
  BY <1>1, SaleFacts
<1>3. /\ stall \in [Players -> {"closed", "preparing", "open"}] /\ wanted \in [Players -> [Places -> Want]]
      /\ looker \in [Players -> Players \cup {NoPlayer}] /\ browsing \in [Players -> Players \cup {NoPlayer}]
      /\ gold \in [Players -> 0 .. CoinMax] /\ bag \in [Players -> Bag] /\ hasty \subseteq Collectors
  BY DEF Inv, TypeOK
<1>4. CASE Charge(p) \/ Credit(p)
  <2>1. gold' \in [Players -> 0 .. CoinMax]
    <3>1. CASE Charge(p)
      BY <1>2, <1>3, <3>1 DEF Charge
    <3>2. CASE Credit(p)
      <4>1. GoldGain(gold[p], Cost(p)) \in 0 .. CoinMax
        BY <1>2, <1>3 DEF GoldGain, Clamp
      <4> QED
        BY <1>3, <3>2, <4>1 DEF Credit
    <3> QED
      BY <1>4, <3>1, <3>2
  <2>2. (Goto(p, "credit") \/ Goto(p, "strike")) /\ UNCHANGED <<shop, view, bag>>
    BY <1>4 DEF Charge, Credit
  <2>3. task' \in [Players -> Task] /\ \A r \in Players : Known(task'[r])
    BY <1>1, <2>2, GotoKeeps DEF Stages
  <2> QED
    BY <1>3, <2>1, <2>2, <2>3 DEF Inv, TypeOK, shop, view
<1>5. CASE Strike(p)
  <2>1. Left(t.want, t.n) \in Want
    BY <1>2, LeftIs
  <2>2. wanted' = [wanted EXCEPT ![t.of][t.place] = Left(t.want, t.n)] /\ Goto(p, "store") /\ UNCHANGED <<stall, view, gold, bag>>
    BY <1>5 DEF Strike
  <2>3. wanted' \in [Players -> [Places -> Want]]
    BY <1>2, <1>3, <2>1, <2>2
  <2>4. task' \in [Players -> Task] /\ \A r \in Players : Known(task'[r])
    BY <1>1, <2>2, GotoKeeps DEF Stages
  <2> QED
    BY <1>3, <2>2, <2>3, <2>4 DEF Inv, TypeOK, view
<1>6. CASE Store(p)
  <2> DEFINE old == bag[t.of][t.dest]
             new == AddedTo(old, t)
  <2>1. old \in Stack
    BY <1>2, <1>3 DEF Bag
  <2>2. Clamp(old.count + t.n, CountMod - 1) \in 0 .. CountMod - 1
    BY <1>2, <2>1 DEF Stack, Clamp
  <2>3. t.n \in 0 .. CountMod - 1
    BY <1>2
  <2>4. new \in Stack
    BY <1>2, <2>1, <2>2, <2>3 DEF Stack, Want, AddedTo
  <2>5. bag' = [bag EXCEPT ![t.of][t.dest] = new] /\ Goto(p, "handOver") /\ UNCHANGED <<shop, view, gold>>
    BY <1>2, <1>3, <1>6 DEF Store, Bag
  <2> HIDE DEF new
  <2>6. bag' \in [Players -> Bag]
    BY <1>2, <1>3, <2>4, <2>5 DEF Bag
  <2>7. task' \in [Players -> Task] /\ \A r \in Players : Known(task'[r])
    BY <1>1, <2>5, GotoKeeps DEF Stages
  <2> QED
    BY <1>3, <2>5, <2>6, <2>7 DEF Inv, TypeOK, shop, view
<1>7. CASE HandOver(p)
  <2> DEFINE old == bag[p][t.slot]
             new == HandedOver(old, t)
  <2>1. old \in Stack
    BY <1>2, <1>3 DEF Bag
  <2>2. t.held - t.n \in 0 .. CountMod - 1
    BY <1>2
  <2>3. new \in Stack
    BY <2>1, <2>2, EmptyIs DEF Stack, HandedOver
  <2>4. bag' = [bag EXCEPT ![p][t.slot] = new] /\ Goto(p, "close") /\ UNCHANGED <<shop, view, gold>>
    BY <1>2, <1>3, <1>7 DEF HandOver, Bag
  <2> HIDE DEF new
  <2>5. bag' \in [Players -> Bag]
    BY <1>2, <1>3, <2>3, <2>4 DEF Bag
  <2>6. task' \in [Players -> Task] /\ \A r \in Players : Known(task'[r])
    BY <1>1, <2>4, GotoKeeps DEF Stages
  <2> QED
    BY <1>3, <2>4, <2>5, <2>6 DEF Inv, TypeOK, shop, view
<1>8. CASE CloseIfDone(p)
  <2>1. NoWant \in Want
    BY EmptyIs
  <2>2. task' \in [Players -> Task] /\ \A r \in Players : Known(task'[r])
    BY <1>8, DoneKeeps DEF CloseIfDone
  <2>3. wanted' \in [Players -> [Places -> Want]]
    BY <1>3, <1>8, <2>1 DEF CloseIfDone, CloseStall, shop
  <2>4. stall' \in [Players -> {"closed", "preparing", "open"}] /\ looker' \in [Players -> Players \cup {NoPlayer}]
    BY <1>3, <1>8 DEF CloseIfDone, CloseStall, shop
  <2> QED
    BY <1>3, <1>8, <2>2, <2>3, <2>4 DEF CloseIfDone, Inv, TypeOK
<1> QED
  BY <1>4, <1>5, <1>6, <1>7, <1>8 DEF SaleStep

\* A supplier who is cut off: its own stall is gone, and its task notes whose it left.
LEMMA HangUpIs ==
  ASSUME Inv, NEW p \in Players, HangUp(p)
  PROVE  /\ task[p] \in Task /\ task[p].at = "close" /\ task[p].of \in Players
         /\ \E t \in Task : t.at = "cut" /\ t.of = task[p].of /\ Known(t) /\ task' = [task EXCEPT ![p] = t]
<1> DEFINE t == [Idle EXCEPT !.at = "cut", !.of = task[p].of]
<1>1. task[p].at = "close" /\ task' = [task EXCEPT ![p] = t]
  BY DEF HangUp
<1>2. task[p] \in Task /\ task[p].of \in Players
  BY <1>1, SaleFacts
<1>3. t \in Task /\ t.at = "cut" /\ t.of = task[p].of
  BY <1>2, IdleIs DEF Task, Stages, Players
<1> HIDE DEF t
<1>4. Known(t)
  BY <1>2, <1>3 DEF Known
<1> QED
  BY <1>1, <1>2, <1>3, <1>4

LEMMA HangUpInv ==
  ASSUME Inv, NEW p \in Players, hasty' = hasty, HangUp(p)
  PROVE  Inv'
<1>1. task' \in [Players -> Task] /\ \A r \in Players : Known(task'[r])
  BY HangUpIs, TaskWritten
<1>2. stall' \in [Players -> {"closed", "preparing", "open"}] /\ wanted' \in [Players -> [Places -> Want]]
  BY EmptyIs DEF HangUp, Inv, TypeOK
<1>3. /\ looker' \in [Players -> Players \cup {NoPlayer}] /\ browsing' \in [Players -> Players \cup {NoPlayer}]
      /\ UNCHANGED <<gold, bag>>
  BY DEF HangUp, Inv, TypeOK
<1> QED
  BY <1>1, <1>2, <1>3 DEF Inv, TypeOK

LEMMA StepInv == Inv /\ [Next]_vars => Inv'
<1> SUFFICES ASSUME Inv, [Next]_vars PROVE Inv'
  OBVIOUS
<1>1. CASE UNCHANGED vars
  BY <1>1 DEF vars, shop, view, Inv, TypeOK
<1>2. ASSUME NEW p \in Players, Step(p), hasty' = hasty PROVE Inv'
  BY <1>2, CollectorInv, LookInv, StartSaleInv, SaleStepInv, HangUpInv DEF Step
<1> QED
  BY <1>1, <1>2 DEF Next

\* The fields of the sessions and the locals of the handlers keep their types: no
\* count leaves u16, no purse its cap and no write a bag or a list, however sales
\* overlap (two suppliers at once included).
THEOREM TypeCorrect == Spec => []TypeOK
<1>1. Init => Inv
  BY InitInv
<1>2. Inv /\ [Next]_vars => Inv'
  BY StepInv
<1>3. Inv => TypeOK
  BY DEF Inv
<1> QED
  BY <1>1, <1>2, <1>3, PTL DEF Spec

-----------------------------------------------------------------------------
(* The purse covers the list. *)

OneSale == \A p, r \in Selling : task[p].of = task[r].of => p = r

SoundStall(q) ==
  /\ stall[q] = "preparing" =>
       (\A k \in Places : wanted[q][k] = NoWant) /\ \A r \in Selling : task[r].of # q
  /\ stall[q] = "open" =>
       /\ \A r \in Players : task[r].of = q /\ task[r].at \in Pending => wanted[q][task[r].place] = task[r].want
       /\ OrderCost(wanted[q]) + Owed(q) <= gold[q] + Unstruck(q)

Funding == Inv /\ OneSale /\ \A q \in Collectors \ hasty : SoundStall(q)

LEMMA DueIs ==
  ASSUME NEW t \in Task, NEW q, NEW stages
  PROVE  /\ Due(t, q, stages) \in Nat /\ t.want.price \in Nat /\ t.n \in Nat /\ t.want.price * t.n \in Nat
         /\ t.of = q /\ t.at \in stages => Due(t, q, stages) = t.want.price * t.n
         /\ t.of # q \/ t.at \notin stages => Due(t, q, stages) = 0
<1>1. t.want.price \in Nat /\ t.n \in Nat
  BY DEF Task, Want
<1>2. t.want.price * t.n \in Nat
  BY <1>1
<1> QED
  BY <1>1, <1>2 DEF Due

\* The sums over all players: unchanged when p's part is, zero without a sale, and
\* p's part when p is the only one who sells to q.
LEMMA SumsSame ==
  ASSUME Inv, NEW p \in Players, NEW t \in Task, task' = [task EXCEPT ![p] = t], NEW q,
         Due(t, q, {"charge"}) = Due(task[p], q, {"charge"}), Due(t, q, Pending) = Due(task[p], q, Pending)
  PROVE  Owed(q)' = Owed(q) /\ Unstruck(q)' = Unstruck(q)
<1>1. \A r \in Players : task'[r] = IF r = p THEN t ELSE task[r]
  BY DEF Inv, TypeOK
<1>2. [r \in Players |-> Due(task'[r], q, {"charge"})] = [r \in Players |-> Due(task[r], q, {"charge"})]
  BY <1>1
<1>3. [r \in Players |-> Due(task'[r], q, Pending)] = [r \in Players |-> Due(task[r], q, Pending)]
  BY <1>1
<1>4. /\ Owed(q)' = SumFunction([r \in Players |-> Due(task'[r], q, {"charge"})])
      /\ Unstruck(q)' = SumFunction([r \in Players |-> Due(task'[r], q, Pending)])
  BY DEF Owed, Unstruck, Due, Pending
<1> QED
  BY <1>2, <1>3, <1>4 DEF Owed, Unstruck

LEMMA OneSum ==
  ASSUME NEW tk \in [Players -> Task], NEW q, NEW stages, NEW p \in Players,
         \A r \in Players : r # p => Due(tk[r], q, stages) = 0
  PROVE  SumFunction([r \in Players |-> Due(tk[r], q, stages)]) = Due(tk[p], q, stages)
<1> DEFINE g == [r \in Players |-> Due(tk[r], q, stages)]
           zero == [r \in Players |-> 0]
<1>1. g \in [Players -> Nat] /\ zero \in [Players -> Nat] /\ zero[p] = 0 /\ g[p] = Due(tk[p], q, stages)
  BY DueIs
<1>2. \A r \in Players : r # p => g[r] = zero[r]
  OBVIOUS
<1>3. SumFunction(zero) = 0
  <2>1. \A r \in Players : zero[r] = 0
    OBVIOUS
  <2> HIDE DEF zero
  <2> QED
    BY <1>1, <2>1, AllZero
<1> HIDE DEF g, zero
<1>4. SumFunction(g) + zero[p] = SumFunction(zero) + g[p] /\ SumFunction(g) \in Nat /\ g[p] \in Nat
  BY <1>1, <1>2, OneChanges
<1>5. SumFunction(g) = Due(tk[p], q, stages)
  BY <1>1, <1>3, <1>4
<1> QED
  BY <1>5 DEF g

LEMMA SumsAre ==
  ASSUME Inv, NEW q
  PROVE  /\ Owed(q) \in Nat /\ Unstruck(q) \in Nat
         /\ (\A r \in Selling : task[r].of # q) => Owed(q) = 0 /\ Unstruck(q) = 0
         /\ \A p \in Selling : OneSale /\ task[p].of = q =>
              Owed(q) = Due(task[p], q, {"charge"}) /\ Unstruck(q) = Due(task[p], q, Pending)
<1> DEFINE f(stages) == [r \in Players |-> Due(task[r], q, stages)]
<1>1. task \in [Players -> Task] /\ Owed(q) = SumFunction(f({"charge"})) /\ Unstruck(q) = SumFunction(f(Pending))
  BY DEF Inv, TypeOK, Owed, Unstruck
<1>2. \A stages : f(stages) \in [Players -> Nat]
  BY <1>1, DueIs
<1>3. ASSUME NEW stages \in {{"charge"}, Pending}, NEW r \in Players, r \notin Selling \/ task[r].of # q
      PROVE  f(stages)[r] = 0
  BY <1>1, <1>3, DueIs DEF Selling, Pending
<1>4. \A stages \in {{"charge"}, Pending}, r \in Players : f(stages)[r] = Due(task[r], q, stages)
  OBVIOUS
<1> HIDE DEF f
<1>5. Owed(q) \in Nat /\ Unstruck(q) \in Nat
  BY <1>1, <1>2, SumFunctionIs
<1>6. ASSUME \A r \in Selling : task[r].of # q PROVE Owed(q) = 0 /\ Unstruck(q) = 0
  <2>1. \A stages \in {{"charge"}, Pending}, r \in Players : f(stages)[r] = 0
    BY <1>3, <1>6
  <2> QED
    BY <1>1, <1>2, <2>1, AllZero
<1>7. ASSUME NEW p \in Selling, OneSale, task[p].of = q
      PROVE  Owed(q) = Due(task[p], q, {"charge"}) /\ Unstruck(q) = Due(task[p], q, Pending)
  <2>1. p \in Players
    BY DEF Selling
  <2>2. \A r \in Players : r # p => Due(task[r], q, {"charge"}) = 0 /\ Due(task[r], q, Pending) = 0
    BY <1>3, <1>4, <1>7 DEF OneSale
  <2> QED
    BY <1>1, <2>1, <2>2, OneSum DEF f
<1> QED
  BY <1>5, <1>6, <1>7

\* What a list costs, and what one place of it does.
LEMMA CostIs ==
  ASSUME NEW list \in [Places -> Want]
  PROVE  OrderCost(list) \in Nat
<1> DEFINE f == [k \in Places |-> list[k].price * list[k].count]
<1>1. \A k \in Places : list[k].price \in Nat /\ list[k].count \in Nat
  BY DEF Want
<1>2. f \in [Places -> Nat]
  BY <1>1
<1>3. IsFiniteSet(Places)
  BY FS_Interval DEF Places
<1> HIDE DEF f
<1>4. SumFunction(f) \in Nat
  BY <1>2, <1>3, SumFunctionIs
<1> QED
  BY <1>4 DEF OrderCost, f

LEMMA CostChanges ==
  ASSUME NEW list \in [Places -> Want], NEW new \in [Places -> Want], NEW k \in Places,
         \A j \in Places : j # k => new[j] = list[j]
  PROVE  /\ OrderCost(new) + list[k].price * list[k].count = OrderCost(list) + new[k].price * new[k].count
         /\ list[k].price * list[k].count <= OrderCost(list)
<1> DEFINE f == [j \in Places |-> list[j].price * list[j].count]
           g == [j \in Places |-> new[j].price * new[j].count]
<1>1. \A j \in Places : list[j].price \in Nat /\ list[j].count \in Nat /\ new[j].price \in Nat /\ new[j].count \in Nat
  BY DEF Want
<1>2. f \in [Places -> Nat] /\ g \in [Places -> Nat] /\ \A j \in Places : j # k => g[j] = f[j]
  BY <1>1
<1>3. IsFiniteSet(Places) /\ f[k] = list[k].price * list[k].count /\ g[k] = new[k].price * new[k].count
  BY FS_Interval DEF Places
<1> HIDE DEF f, g
<1>4. SumFunction(g) + f[k] = SumFunction(f) + g[k] /\ f[k] <= SumFunction(f)
  BY <1>2, <1>3, OneChanges
<1> QED
  BY <1>3, <1>4 DEF OrderCost, f, g

\* No new sale: there is still one at a time.
LEMMA OneSaleKept ==
  ASSUME Inv, OneSale, NEW p \in Players, NEW t, task' = [task EXCEPT ![p] = t],
         t.at \notin {"idle", "look", "cut"} => p \in Selling /\ t.of = task[p].of
  PROVE  OneSale'
<1>1. \A r \in Players : task'[r] = IF r = p THEN t ELSE task[r]
  BY DEF Inv, TypeOK
<1>2. \A r \in Players : task'[r].at \notin {"idle", "look", "cut"} => r \in Selling /\ task'[r].of = task[r].of
  BY <1>1 DEF Selling
<1> QED
  BY <1>2 DEF OneSale, Selling

\* q's stall is untouched, its purse no smaller, and p's part of it the same.
LEMMA Elsewhere ==
  ASSUME Inv, Inv', NEW q \in Players, SoundStall(q), stall'[q] = stall[q], wanted'[q] = wanted[q], gold[q] <= gold'[q],
         NEW p \in Players, NEW t \in Task, task' = [task EXCEPT ![p] = t],
         Due(t, q, {"charge"}) = Due(task[p], q, {"charge"}), Due(t, q, Pending) = Due(task[p], q, Pending),
         t.at \notin {"idle", "look", "cut"} /\ t.of = q => p \in Selling /\ task[p].of = q,
         t.at \in Pending /\ t.of = q => task[p].at \in Pending /\ t.place = task[p].place /\ t.want = task[p].want
  PROVE  SoundStall(q)'
<1>1. \A r \in Players : task'[r] = IF r = p THEN t ELSE task[r]
  BY DEF Inv, TypeOK
<1>2. Owed(q)' = Owed(q) /\ Unstruck(q)' = Unstruck(q) /\ Owed(q) \in Nat /\ Unstruck(q) \in Nat
  <2>1. Owed(q) \in Nat /\ Unstruck(q) \in Nat
    BY SumsAre
  <2>2. Owed(q)' = Owed(q) /\ Unstruck(q)' = Unstruck(q)
    BY SumsSame
  <2> QED
    BY <2>1, <2>2
<1>3. \A r \in Players : task'[r].at \notin {"idle", "look", "cut"} /\ task'[r].of = q => r \in Selling /\ task[r].of = q
  BY <1>1 DEF Selling
<1>4. stall[q] = "preparing" => (\A r \in Selling : task[r].of # q)' /\ \A k \in Places : wanted'[q][k] = NoWant
  BY <1>3 DEF Selling, SoundStall
<1>5. ASSUME stall[q] = "open", NEW r \in Players, task'[r].of = q, task'[r].at \in Pending
      PROVE  wanted'[q][task'[r].place] = task'[r].want
  <2>1. task[r].of = q /\ task[r].at \in Pending
    BY <1>1, <1>3, <1>5 DEF Pending
  <2>2. task'[r].place = task[r].place /\ task'[r].want = task[r].want
    BY <1>1, <1>5
  <2> QED
    BY <1>5, <2>1, <2>2 DEF SoundStall
<1>6. stall[q] = "open" => OrderCost(wanted'[q]) + Owed(q)' <= gold'[q] + Unstruck(q)'
  <2>1. gold[q] \in Nat /\ gold'[q] \in Nat
    BY DEF Inv, TypeOK
  <2>2. OrderCost(wanted[q]) \in Nat
    BY CostIs DEF Inv, TypeOK
  <2> QED
    BY <1>2, <2>1, <2>2 DEF SoundStall
<1>7. OrderCost(wanted'[q]) = OrderCost(wanted[q])'
  BY DEF OrderCost
<1> QED
  BY <1>4, <1>5, <1>6 DEF SoundStall, Pending, OrderCost

\* The steps that leave the tasks alone.
LEMMA Untouched ==
  ASSUME Funding, Inv', UNCHANGED task, NEW q \in Players, SoundStall(q),
         stall'[q] = stall[q], wanted'[q] = wanted[q], gold[q] <= gold'[q]
  PROVE  SoundStall(q)'
<1>1. Inv /\ task \in [Players -> Task]
  BY DEF Funding, Inv, TypeOK
<1>2. task' = [task EXCEPT ![q] = task[q]] /\ task[q] \in Task
  BY <1>1
<1>3. task[q].at \notin {"idle", "look", "cut"} /\ task[q].of = q => q \in Selling
  BY DEF Selling
<1> QED
  BY <1>1, <1>2, <1>3, Elsewhere

LEMMA ClosedIsSound == ASSUME NEW q, stall'[q] = "closed" PROVE SoundStall(q)'
BY DEF SoundStall

LEMMA CollectorFunds ==
  ASSUME Funding, Inv', NEW p \in Players, hasty' = hasty,
         Open(p) \/ Close(p) \/ StopBrowsing(p) \/ \E order \in Orders : Insert(p, order)
  PROVE  Funding'
<1>1. UNCHANGED <<gold, task>> /\ OneSale /\ Inv
  BY DEF Open, Close, StopBrowsing, Insert, Funding
<1>2. OneSale'
  BY <1>1 DEF OneSale, Selling
<1>3. /\ stall \in [Players -> {"closed", "preparing", "open"}] /\ wanted \in [Players -> [Places -> Want]]
      /\ gold \in [Players -> 0 .. CoinMax] /\ task \in [Players -> Task]
  BY <1>1 DEF Inv, TypeOK
<1>4. ASSUME NEW q \in Collectors \ hasty PROVE SoundStall(q)'
  <2>1. q \in Players /\ SoundStall(q) /\ gold[q] <= gold'[q]
    BY <1>1, <1>3 DEF Players, Funding
  <2>2. CASE stall'[q] = stall[q] /\ wanted'[q] = wanted[q]
    BY <1>1, <2>1, <2>2, Untouched
  <2>3. CASE p # q \/ StopBrowsing(p)
    <3>1. stall'[q] = stall[q] /\ wanted'[q] = wanted[q]
      BY <1>3, <2>1, <2>3 DEF Open, Close, CloseStall, StopBrowsing, Insert, shop
    <3> QED
      BY <2>2, <3>1
  <2>4. CASE p = q /\ Open(p)
    <3>1. stall'[q] = "preparing" /\ (\A k \in Places : wanted'[q][k] = NoWant) /\ \A r \in Selling : task[r].of # q
      BY <1>3, <2>1, <2>4 DEF Open, AtEase
    <3>2. (\A r \in Selling : task[r].of # q)'
      BY <1>1, <3>1 DEF Selling
    <3> QED
      BY <3>1, <3>2 DEF SoundStall
  <2>5. CASE p = q /\ Close(p)
    BY <1>3, <2>1, <2>5, ClosedIsSound DEF Close, CloseStall
  <2>6. ASSUME p = q, NEW order \in Orders, Insert(p, order) PROVE SoundStall(q)'
    <3>1. /\ stall[q] = "preparing" /\ stall'[q] = "open" /\ OrderCost(order) <= gold[q]
          /\ wanted'[q] = Posted(wanted[q], order)
      BY <1>3, <2>1, <2>6 DEF Insert
    <3>2. (\A k \in Places : wanted[q][k] = NoWant) /\ \A r \in Selling : task[r].of # q
      BY <2>1, <3>1 DEF SoundStall
    <3>3. Posted(wanted[q], order) = order
      BY <3>2 DEF Posted
    <3>4. (\A r \in Selling : task[r].of # q)'
      BY <1>1, <3>2 DEF Selling
    <3>5. Owed(q)' = 0 /\ Unstruck(q)' = 0
      <4>1. Owed(q) = 0 /\ Unstruck(q) = 0
        BY <1>1, <3>2, SumsAre
      <4> QED
        BY <1>1, <4>1 DEF Owed, Unstruck
    <3>6. OrderCost(wanted[q])' + Owed(q)' <= gold'[q] + Unstruck(q)'
      <4>1. OrderCost(wanted[q])' = OrderCost(order) /\ gold'[q] = gold[q]
        BY <1>1, <3>1, <3>3 DEF OrderCost
      <4>2. OrderCost(order) \in Nat /\ gold[q] \in Nat
        BY <1>3, <2>1, CostIs
      <4> QED
        BY <3>1, <3>5, <4>1, <4>2
    <3>7. \A r \in Players : ~(task'[r].of = q /\ task'[r].at \in Pending)
      BY <3>4 DEF Selling, Pending
    <3> QED
      BY <3>1, <3>6, <3>7 DEF SoundStall, Pending
  <2> QED
    BY <2>3, <2>4, <2>5, <2>6
<1> QED
  BY <1>2, <1>4 DEF Funding

\* The list and the purses stay, and p is not in a sale after the step.
LEMMA LookFunds ==
  ASSUME Funding, Inv', NEW p \in Players, hasty' = hasty, Look(p) \/ \E q \in Collectors : Browse(p, q)
  PROVE  Funding'
<1>1. UNCHANGED <<shop, gold>> /\ OneSale /\ Inv /\ task[p].at \in {"idle", "look", "cut"} /\ task[p] \in Task
  BY DEF Look, Browse, Ready, Funding, Inv, TypeOK
<1>2. PICK t \in Task : task' = [task EXCEPT ![p] = t] /\ t.at \in {"idle", "look", "cut"}
  <2>1. CASE Look(p)
    BY <2>1, IdleIs DEF Look, Done
  <2>2. ASSUME NEW q \in Collectors, Browse(p, q)
        PROVE  \E t \in Task : task' = [task EXCEPT ![p] = t] /\ t.at \in {"idle", "look", "cut"}
    <3> DEFINE t == [Idle EXCEPT !.at = "look", !.of = q]
    <3>1. t \in Task /\ t.at = "look" /\ task' = [task EXCEPT ![p] = t]
      BY <2>2, IdleIs DEF Task, Stages, Players, Browse
    <3> HIDE DEF t
    <3> QED
      BY <3>1
  <2> QED
    BY <2>1, <2>2
<1>3. OneSale'
  BY <1>1, <1>2, OneSaleKept
<1>4. ASSUME NEW q \in Collectors \ hasty PROVE SoundStall(q)'
  <2>1. q \in Players /\ SoundStall(q) /\ stall'[q] = stall[q] /\ wanted'[q] = wanted[q] /\ gold[q] <= gold'[q]
    <3>1. gold[q] \in Nat
      BY <1>1 DEF Inv, TypeOK, Players
    <3> QED
      BY <1>1, <3>1 DEF Players, Funding, shop
  <2>2. \A stages \in {{"charge"}, Pending} : Due(t, q, stages) = 0 /\ Due(task[p], q, stages) = 0
    BY <1>1, <1>2, DueIs DEF Pending
  <2>3. t.at \notin Pending
    BY <1>2 DEF Pending
  <2> QED
    BY <1>1, <1>2, <2>1, <2>2, <2>3, Elsewhere
<1> QED
  BY <1>3, <1>4 DEF Funding

\* The steps of a sale that mean nothing to q's purse and list.
LEMMA GotoFunds ==
  ASSUME Funding, Inv', NEW p \in Players, NEW stage \in Stages \ {"idle", "look", "cut"}, Goto(p, stage),
         task[p].at \notin {"idle", "look", "cut"}, NEW q \in Players, SoundStall(q),
         stall'[q] = stall[q], wanted'[q] = wanted[q], gold[q] <= gold'[q],
         \/ task[p].of # q
         \/ task[p].at = "credit" /\ stage = "strike"
         \/ task[p].at \notin Pending /\ stage \notin Pending
  PROVE  SoundStall(q)'
<1> DEFINE t == [task[p] EXCEPT !.at = stage]
<1>1. Inv /\ task[p] \in Task /\ p \in Selling
  BY DEF Funding, Inv, TypeOK, Selling
<1>2. task' = [task EXCEPT ![p] = t] /\ t \in Task /\ t.at = stage
  BY <1>1, GotoIs
<1>3. t["of"] = task[p]["of"] /\ t["place"] = task[p]["place"] /\ t["want"] = task[p]["want"] /\ t["n"] = task[p]["n"]
  BY <1>1, GotoIs
<1> HIDE DEF t
<1>4. Due(t, q, {"charge"}) = Due(task[p], q, {"charge"}) /\ Due(t, q, Pending) = Due(task[p], q, Pending)
  BY <1>2, <1>3 DEF Due, Pending
<1>5. /\ t.at \notin {"idle", "look", "cut"} /\ t.of = q => task[p].of = q
      /\ t.at \in Pending /\ t.of = q => task[p].at \in Pending /\ t.place = task[p].place /\ t.want = task[p].want
  BY <1>2, <1>3 DEF Pending
<1> QED
  BY <1>1, <1>2, <1>4, <1>5, Elsewhere

LEMMA GotoOneSale ==
  ASSUME Funding, NEW p \in Players, NEW stage \in Stages, Goto(p, stage), task[p].at \notin {"idle", "look", "cut"}
  PROVE  OneSale'
<1> DEFINE t == [task[p] EXCEPT !.at = stage]
<1>1. Inv /\ OneSale /\ p \in Selling
  BY DEF Funding, Selling
<1>2. task' = [task EXCEPT ![p] = t]
  BY <1>1, GotoIs
<1>3. t["of"] = task[p]["of"]
  BY <1>1, GotoIs
<1> HIDE DEF t
<1> QED
  BY <1>1, <1>2, <1>3, OneSaleKept

LEMMA PlainFunds ==
  ASSUME Funding, Inv', NEW p \in Players, hasty' = hasty, Credit(p) \/ Store(p) \/ HandOver(p)
  PROVE  Funding'
<1>1. UNCHANGED shop /\ Inv /\ task[p].at \in {"credit", "store", "handOver"}
  BY DEF Credit, Store, HandOver, Funding, shop
<1>2. PICK stage \in {"strike", "handOver", "close"} :
        Goto(p, stage) /\ ((task[p].at = "credit" /\ stage = "strike") \/ (task[p].at \notin Pending /\ stage \notin Pending))
  BY DEF Credit, Store, HandOver, Pending
<1>3. OneSale'
  BY <1>1, <1>2, GotoOneSale DEF Stages
<1>4. ASSUME NEW q \in Players PROVE gold[q] <= gold'[q]
  <2>1. gold[q] \in Nat /\ gold[q] <= CoinMax /\ gold \in [Players -> 0 .. CoinMax]
    BY <1>1 DEF Inv, TypeOK
  <2>2. CASE Credit(p)
    <3>1. Cost(p) \in Nat
      BY <1>1, SaleFacts
    <3>2. gold[p] <= GoldGain(gold[p], Cost(p))
      <4>1. gold[p] \in Nat /\ gold[p] <= CoinMax
        BY <2>1
      <4> QED
        BY <3>1, <4>1 DEF GoldGain, Clamp
    <3> QED
      BY <2>1, <2>2, <3>2 DEF Credit
  <2>3. CASE ~Credit(p)
    BY <2>1, <2>3 DEF Store, HandOver
  <2> QED
    BY <2>2, <2>3
<1>5. ASSUME NEW q \in Collectors \ hasty PROVE SoundStall(q)'
  <2>1. q \in Players /\ SoundStall(q) /\ stall'[q] = stall[q] /\ wanted'[q] = wanted[q]
    BY <1>1 DEF Players, Funding, shop
  <2> QED
    BY <1>1, <1>2, <1>4, <2>1, GotoFunds DEF Stages
<1> QED
  BY <1>3, <1>5 DEF Funding

LEMMA CloseFunds ==
  ASSUME Funding, Inv', NEW p \in Players, hasty' = hasty, CloseIfDone(p)
  PROVE  Funding'
<1>1. /\ Inv /\ OneSale /\ task[p].at = "close" /\ task' = [task EXCEPT ![p] = Idle] /\ UNCHANGED gold /\ task[p] \in Task
      /\ stall \in [Players -> {"closed", "preparing", "open"}] /\ wanted \in [Players -> [Places -> Want]]
      /\ task[p].of \in Players
  BY DEF CloseIfDone, Done, Funding, Inv, TypeOK, Known
<1>2. Idle \in Task /\ Idle.at = "idle"
  BY IdleIs
<1>3. OneSale'
  BY <1>1, <1>2, OneSaleKept
<1>4. ASSUME NEW q \in Collectors \ hasty PROVE SoundStall(q)'
  <2>1. q \in Players /\ SoundStall(q) /\ gold[q] <= gold'[q]
    <3>1. gold[q] \in Nat
      BY <1>1 DEF Inv, TypeOK, Players
    <3> QED
      BY <1>1, <3>1 DEF Players, Funding
  <2>2. CASE stall'[q] = stall[q] /\ wanted'[q] = wanted[q]
    <3>1. ASSUME NEW t \in Task, t.at \in {"idle", "close"}, NEW stages \in {{"charge"}, Pending}
          PROVE  Due(t, q, stages) = 0
      BY <3>1, DueIs DEF Pending
    <3>2. Idle.at \notin Pending
      BY <1>2 DEF Pending
    <3> QED
      BY <1>1, <1>2, <2>1, <2>2, <3>1, <3>2, Elsewhere
  <2>3. (stall'[q] = stall[q] /\ wanted'[q] = wanted[q]) \/ stall'[q] = "closed"
    BY <1>1, <2>1 DEF CloseIfDone, CloseStall, shop
  <2> QED
    BY <2>2, <2>3, ClosedIsSound
<1> QED
  BY <1>3, <1>4 DEF Funding

LEMMA HangUpFunds ==
  ASSUME Funding, Inv', NEW p \in Players, hasty' = hasty, HangUp(p)
  PROVE  Funding'
<1>1. /\ Inv /\ OneSale /\ UNCHANGED gold
      /\ stall \in [Players -> {"closed", "preparing", "open"}] /\ wanted \in [Players -> [Places -> Want]]
  BY DEF HangUp, Funding, Inv, TypeOK
<1>2. task[p] \in Task /\ task[p].at = "close"
  BY <1>1, HangUpIs
<1>3. PICK t \in Task : t.at = "cut" /\ task' = [task EXCEPT ![p] = t]
  BY <1>1, HangUpIs
<1>4. OneSale'
  BY <1>1, <1>3, OneSaleKept
<1>5. ASSUME NEW q \in Collectors \ hasty PROVE SoundStall(q)'
  <2>1. q \in Players /\ SoundStall(q) /\ gold[q] <= gold'[q]
    <3>1. gold[q] \in Nat
      BY <1>1 DEF Inv, TypeOK, Players
    <3> QED
      BY <1>1, <3>1 DEF Players, Funding
  <2>2. CASE q = p
    <3>1. stall'[q] = "closed"
      BY <1>1, <2>1, <2>2 DEF HangUp
    <3> QED
      BY <3>1, ClosedIsSound
  <2>3. CASE q # p
    <3>1. stall'[q] = stall[q] /\ wanted'[q] = wanted[q]
      BY <1>1, <2>1, <2>3 DEF HangUp
    <3>2. ASSUME NEW x \in Task, x.at \in {"cut", "close"}, NEW stages \in {{"charge"}, Pending}
          PROVE  Due(x, q, stages) = 0
      BY <3>2, DueIs DEF Pending
    <3>3. t.at \notin Pending
      BY <1>3 DEF Pending
    <3> QED
      BY <1>1, <1>2, <1>3, <2>1, <3>1, <3>2, <3>3, Elsewhere
  <2> QED
    BY <2>2, <2>3
<1> QED
  BY <1>4, <1>5 DEF Funding

\* The other sales, and what they know of q's list, when p is the only one who sells to q.
LEMMA OnlySale ==
  ASSUME Funding, Inv', OneSale', NEW p \in Selling', NEW q, task'[p].of = q,
         stall'[q] = "open", task'[p].at \in Pending => wanted'[q][task'[p].place] = task'[p].want,
         OrderCost(wanted'[q]) + Due(task'[p], q, {"charge"}) <= gold'[q] + Due(task'[p], q, Pending)
  PROVE  SoundStall(q)'
<1>1. task' \in [Players -> Task] /\ p \in Players
  BY DEF Inv, TypeOK, Selling
<1>2. ASSUME NEW r \in Players, r # p, task'[r].of = q PROVE task'[r].at \notin Pending
  BY <1>2 DEF OneSale, Selling, Pending
<1>3. \A r \in Players : r # p => Due(task'[r], q, {"charge"}) = 0 /\ Due(task'[r], q, Pending) = 0
  BY <1>1, <1>2, DueIs DEF Pending
<1>4. /\ Owed(q)' = SumFunction([r \in Players |-> Due(task'[r], q, {"charge"})])
      /\ Unstruck(q)' = SumFunction([r \in Players |-> Due(task'[r], q, Pending)])
  BY DEF Owed, Unstruck, Due, Pending
<1>5. Owed(q)' = Due(task'[p], q, {"charge"}) /\ Unstruck(q)' = Due(task'[p], q, Pending)
  BY <1>1, <1>3, <1>4, OneSum
<1>6. \A r \in Players : task'[r].of = q /\ task'[r].at \in Pending => wanted'[q][task'[r].place] = task'[r].want
  BY <1>2
<1>7. OrderCost(wanted[q])' + Owed(q)' <= gold'[q] + Unstruck(q)'
  BY <1>5 DEF OrderCost
<1> QED
  BY <1>6, <1>7 DEF SoundStall, Pending

LEMMA StartSaleFunds ==
  ASSUME Funding, Inv', ~Crowding, NEW p \in Players, hasty' = hasty,
         NEW s \in Slots, NEW k \in Places, NEW n \in Amounts, StartSale(p, s, k, n)
  PROVE  Funding'
<1>1. PICK c \in Players, w \in Want, held \in Nat, d \in Slots :
        /\ c = browsing[p] /\ c # p /\ stall[c] = "open" /\ w = wanted[c][k]
        /\ n >= 1 /\ n <= w.count /\ n <= held /\ held < CountMod
        /\ task' = [task EXCEPT ![p] = Begun(c, k, w, n, s, held, d)]
  BY StartSaleIs DEF Funding
<1> DEFINE t == Begun(c, k, w, n, s, held, d)
<1>0. n \in Nat
  OBVIOUS
<1>2. t \in Task /\ t.at = "charge" /\ t.of = c /\ t.place = k /\ t.want = w /\ t.n = n
  BY <1>0, BegunIs
<1>3. task' = [task EXCEPT ![p] = t]
  BY <1>1
<1> HIDE DEF t
<1>4. /\ Inv /\ OneSale /\ UNCHANGED <<shop, gold>> /\ (\A r \in Selling : task[r].of # c)
      /\ task[p].at = "idle" /\ task[p] \in Task /\ task \in [Players -> Task]
  BY <1>1 DEF StartSale, Ready, Funding, Inv, TypeOK
<1>5. \A r \in Players : task'[r] = IF r = p THEN t ELSE task[r]
  BY <1>3, <1>4
<1>6. OneSale'
  <2>1. \A r \in Players : r # p /\ task'[r].at \notin {"idle", "look", "cut"} => r \in Selling /\ task'[r].of = task[r].of
    BY <1>5 DEF Selling
  <2> QED
    BY <1>2, <1>4, <1>5, <2>1 DEF OneSale, Selling
<1>7. ASSUME NEW q \in Collectors \ hasty PROVE SoundStall(q)'
  <2>1. q \in Players /\ SoundStall(q) /\ stall'[q] = stall[q] /\ wanted'[q] = wanted[q] /\ gold'[q] = gold[q]
    BY <1>4 DEF Players, Funding, shop
  <2>2. gold[q] \in Nat /\ OrderCost(wanted[q]) \in Nat
    BY <1>4, <2>1, CostIs DEF Inv, TypeOK
  <2>3. CASE q # c
    <3>1. \A stages \in {{"charge"}, Pending} : Due(t, q, stages) = 0 /\ Due(task[p], q, stages) = 0
      BY <1>2, <1>4, <2>3, DueIs DEF Pending
    <3>2. gold[q] <= gold'[q] /\ t.of # q
      BY <1>2, <2>1, <2>2, <2>3
    <3>3. Due(t, q, {"charge"}) = Due(task[p], q, {"charge"}) /\ Due(t, q, Pending) = Due(task[p], q, Pending)
      BY <3>1
    <3> QED
      BY <1>2, <1>3, <1>4, <2>1, <3>2, <3>3, Elsewhere
  <2>4. CASE q = c
    <3>1. Owed(q) = 0 /\ Unstruck(q) = 0
      BY <1>4, <2>4, SumsAre
    <3>2. OrderCost(wanted[q]) <= gold[q]
      BY <1>1, <2>1, <2>2, <2>4, <3>1 DEF SoundStall
    <3>3. Due(t, q, {"charge"}) = Due(t, q, Pending) /\ Due(t, q, {"charge"}) \in Nat
      BY <1>2, <2>4, DueIs DEF Pending
    <3>4. task'[p] = t /\ (p \in Selling)'
      BY <1>2, <1>5 DEF Selling
    <3>5. OrderCost(wanted'[q]) + Due(task'[p], q, {"charge"}) <= gold'[q] + Due(task'[p], q, Pending)
      BY <2>1, <2>2, <3>2, <3>3, <3>4
    <3>6. task'[p].of = q /\ stall'[q] = "open" /\ wanted'[q][task'[p].place] = task'[p].want
      BY <1>1, <1>2, <2>1, <2>4, <3>4
    <3> QED
      BY <1>6, <3>4, <3>5, <3>6, OnlySale
  <2> QED
    BY <2>3, <2>4
<1> QED
  BY <1>6, <1>7 DEF Funding

\* gold_lose takes the cost: the want, and so its cost, is part of the list.
LEMMA ChargeFunds ==
  ASSUME Funding, Inv', NEW p \in Players, hasty' = hasty, Charge(p)
  PROVE  Funding'
<1> DEFINE t == task[p]
           c == t.of
<1>1. /\ Inv /\ OneSale /\ UNCHANGED shop /\ Goto(p, "credit") /\ t.at = "charge"
      /\ gold' = [gold EXCEPT ![c] = IF gold[c] >= Cost(p) THEN gold[c] - Cost(p) ELSE gold[c]]
  BY DEF Charge, Funding
<1>2. /\ c \in Players /\ t \in Task /\ t.place \in Places /\ t.want \in Want /\ t.n \in Nat /\ t.n <= t.want.count
      /\ Cost(p) \in Nat /\ gold \in [Players -> 0 .. CoinMax] /\ task \in [Players -> Task]
      /\ wanted \in [Players -> [Places -> Want]]
  BY <1>1, SaleFacts DEF Inv, TypeOK
<1>3. OneSale'
  BY <1>1, GotoOneSale DEF Stages
<1>4. ASSUME NEW q \in Collectors \ hasty PROVE SoundStall(q)'
  <2>1. q \in Players /\ SoundStall(q) /\ stall'[q] = stall[q] /\ wanted'[q] = wanted[q]
    BY <1>1 DEF Players, Funding, shop
  <2>2. gold[q] \in Nat /\ OrderCost(wanted[q]) \in Nat
    BY <1>2, <2>1, CostIs
  <2>3. CASE q # c
    <3>1. gold'[q] = gold[q] /\ task[p].of # q
      BY <1>1, <1>2, <2>1, <2>3
    <3>2. gold[q] <= gold'[q]
      BY <2>2, <3>1
    <3> QED
      BY <1>1, <2>1, <3>1, <3>2, GotoFunds DEF Stages
  <2>4. CASE q = c /\ stall[q] = "open"
    <3>1. p \in Selling /\ task[p].of = q
      BY <1>1, <2>4 DEF Selling
    <3>2. Owed(q) = Due(t, q, {"charge"}) /\ Unstruck(q) = Due(t, q, Pending)
      BY <1>1, <3>1, SumsAre
    <3>3. Due(t, q, {"charge"}) = Cost(p) /\ Due(t, q, Pending) = Cost(p)
      BY <1>1, <2>4 DEF Due, Pending, Cost
    <3>4. OrderCost(wanted[q]) <= gold[q]
      <4>1. OrderCost(wanted[q]) + Owed(q) <= gold[q] + Unstruck(q)
        BY <2>1, <2>4 DEF SoundStall
      <4> QED
        BY <1>2, <2>2, <3>2, <3>3, <4>1
    <3>5. wanted[q][t.place] = t.want
      BY <1>1, <2>1, <2>4 DEF SoundStall, Pending
    <3>6. Cost(p) <= OrderCost(wanted[q])
      <4>1. t.want.price * t.want.count <= OrderCost(wanted[q])
        BY <1>2, <2>1, <3>5, CostChanges
      <4> DEFINE rest == Left(t.want, t.n).price * Left(t.want, t.n).count
      <4>2. rest + Cost(p) = t.want.price * t.want.count /\ rest \in Nat
        BY <1>2, LeftIs DEF Cost
      <4> HIDE DEF rest
      <4> QED
        BY <1>2, <2>2, <4>1, <4>2
    <3>7. gold'[q] = gold[q] - Cost(p)
      BY <1>1, <1>2, <2>2, <2>4, <3>4, <3>6
    <3> DEFINE u == [task[p] EXCEPT !.at = "credit"]
    <3>8. task' = [task EXCEPT ![p] = u] /\ u.at = "credit"
      BY <1>1, GotoIs DEF Stages
    <3>9. u["of"] = t["of"] /\ u["place"] = t["place"] /\ u["want"] = t["want"] /\ u["n"] = t["n"]
      BY <1>1, GotoIs DEF Stages
    <3> HIDE DEF u
    <3>10. task'[p] = u /\ (p \in Selling)'
      BY <1>2, <3>8 DEF Selling
    <3>11. Due(u, q, {"charge"}) = 0 /\ Due(u, q, Pending) = Cost(p)
      BY <2>4, <3>8, <3>9 DEF Due, Pending, Cost
    <3>12. OrderCost(wanted'[q]) + Due(task'[p], q, {"charge"}) <= gold'[q] + Due(task'[p], q, Pending)
      BY <1>2, <2>1, <2>2, <3>4, <3>7, <3>10, <3>11
    <3>13. task'[p].of = q /\ stall'[q] = "open" /\ wanted'[q][task'[p].place] = task'[p].want
      BY <2>1, <2>4, <3>5, <3>9, <3>10
    <3> QED
      BY <1>3, <3>10, <3>12, <3>13, OnlySale
  <2>5. CASE q = c /\ stall[q] = "closed"
    BY <2>1, <2>5, ClosedIsSound
  <2>6. stall[q] = "preparing" => q # c
    BY <1>1, <2>1 DEF SoundStall, Selling
  <2>7. stall[q] \in {"closed", "preparing", "open"}
    BY <1>1, <2>1 DEF Inv, TypeOK
  <2> QED
    BY <2>3, <2>4, <2>5, <2>6, <2>7
<1> QED
  BY <1>3, <1>4 DEF Funding

\* The list gets cheaper by what was sold.
LEMMA StrikeFunds ==
  ASSUME Funding, Inv', NEW p \in Players, hasty' = hasty, Strike(p)
  PROVE  Funding'
<1> DEFINE t == task[p]
           c == t.of
<1>1. /\ Inv /\ OneSale /\ UNCHANGED <<stall, gold>> /\ Goto(p, "store") /\ t.at = "strike"
      /\ wanted' = [wanted EXCEPT ![c][t.place] = Left(t.want, t.n)]
  BY DEF Strike, Funding
<1>2. /\ c \in Players /\ t \in Task /\ t.place \in Places /\ t.want \in Want /\ t.n \in Nat /\ t.n <= t.want.count
      /\ Cost(p) \in Nat /\ gold \in [Players -> 0 .. CoinMax] /\ task \in [Players -> Task]
      /\ wanted \in [Players -> [Places -> Want]]
  BY <1>1, SaleFacts DEF Inv, TypeOK
<1>3. OneSale'
  BY <1>1, GotoOneSale DEF Stages
<1>4. ASSUME NEW q \in Collectors \ hasty PROVE SoundStall(q)'
  <2>1. q \in Players /\ SoundStall(q) /\ stall'[q] = stall[q] /\ gold'[q] = gold[q]
    BY <1>1 DEF Players, Funding
  <2>2. gold[q] \in Nat /\ OrderCost(wanted[q]) \in Nat /\ gold[q] <= gold'[q]
    BY <1>2, <2>1, CostIs
  <2>3. CASE q # c
    <3>1. wanted'[q] = wanted[q] /\ task[p].of # q
      BY <1>1, <1>2, <2>1, <2>3
    <3> QED
      BY <1>1, <2>1, <2>2, <3>1, GotoFunds DEF Stages
  <2>4. CASE q = c /\ stall[q] = "open"
    <3> DEFINE new == wanted'[q]
               left == Left(t.want, t.n)
    <3>1. p \in Selling /\ task[p].of = q
      BY <1>1, <2>4 DEF Selling
    <3>2. Owed(q) = Due(t, q, {"charge"}) /\ Unstruck(q) = Due(t, q, Pending)
      BY <1>1, <3>1, SumsAre
    <3>3. Due(t, q, {"charge"}) = 0 /\ Due(t, q, Pending) = Cost(p)
      BY <1>1, <2>4 DEF Due, Pending, Cost
    <3>4. OrderCost(wanted[q]) <= gold[q] + Cost(p)
      <4>1. OrderCost(wanted[q]) + Owed(q) <= gold[q] + Unstruck(q)
        BY <2>1, <2>4 DEF SoundStall
      <4> QED
        BY <1>2, <2>2, <3>2, <3>3, <4>1
    <3>5. wanted[q][t.place] = t.want
      BY <1>1, <2>1, <2>4 DEF SoundStall, Pending
    <3>6. /\ left \in Want /\ left.price * left.count + Cost(p) = t.want.price * t.want.count
          /\ left.price * left.count \in Nat /\ t.want.price * t.want.count \in Nat
      <4>1. /\ left \in Want /\ left.price * left.count + t.want.price * t.n = t.want.price * t.want.count
            /\ left.price * left.count \in Nat /\ t.want.price \in Nat /\ t.want.count \in Nat
        BY <1>2, LeftIs
      <4>2. t.want.price * t.want.count \in Nat
        BY <4>1
      <4> QED
        BY <4>1, <4>2 DEF Cost
    <3> HIDE DEF left
    <3>7. new \in [Places -> Want] /\ new[t.place] = left /\ \A j \in Places : j # t.place => new[j] = wanted[q][j]
      BY <1>1, <1>2, <2>4, <3>6 DEF left
    <3> HIDE DEF new
    <3>8. OrderCost(new) + t.want.price * t.want.count = OrderCost(wanted[q]) + left.price * left.count
      <4> DEFINE old == wanted[q]
                 k == t.place
      <4>1. old \in [Places -> Want] /\ k \in Places /\ old[k] = t.want /\ new[k] = left
        BY <1>2, <2>1, <3>5, <3>7
      <4>2. \A j \in Places : j # k => new[j] = old[j]
        BY <3>7
      <4> HIDE DEF old, k
      <4>3. OrderCost(new) + old[k].price * old[k].count = OrderCost(old) + new[k].price * new[k].count
        BY <3>7, <4>1, <4>2, CostChanges
      <4> QED
        BY <4>1, <4>3 DEF old
    <3>9. OrderCost(new) \in Nat
      BY <3>7, CostIs
    <3>10. OrderCost(new) <= gold[q]
      BY <1>2, <2>2, <3>4, <3>6, <3>8, <3>9
    <3> DEFINE u == [task[p] EXCEPT !.at = "store"]
    <3>11. task' = [task EXCEPT ![p] = u] /\ u.at = "store"
      BY <1>1, GotoIs DEF Stages
    <3>12. u["of"] = t["of"]
      BY <1>1, GotoIs DEF Stages
    <3> HIDE DEF u
    <3>13. task'[p] = u /\ (p \in Selling)'
      BY <1>2, <3>11 DEF Selling
    <3>14. Due(u, q, {"charge"}) = 0 /\ Due(u, q, Pending) = 0 /\ u.at \notin Pending
      BY <3>11 DEF Due, Pending
    <3>15. OrderCost(wanted'[q]) + Due(task'[p], q, {"charge"}) <= gold'[q] + Due(task'[p], q, Pending)
      BY <2>1, <2>2, <3>9, <3>10, <3>13, <3>14 DEF new
    <3>16. task'[p].of = q /\ stall'[q] = "open" /\ task'[p].at \notin Pending
      BY <2>1, <2>4, <3>12, <3>13, <3>14
    <3> QED
      BY <1>3, <3>13, <3>15, <3>16, OnlySale
  <2>5. CASE q = c /\ stall[q] = "closed"
    BY <2>1, <2>5, ClosedIsSound
  <2>6. stall[q] = "preparing" => q # c
    BY <1>1, <2>1 DEF SoundStall, Selling
  <2>7. stall[q] \in {"closed", "preparing", "open"}
    BY <1>1, <2>1 DEF Inv, TypeOK
  <2> QED
    BY <2>3, <2>4, <2>5, <2>6, <2>7
<1> QED
  BY <1>3, <1>4 DEF Funding

LEMMA InitFunding == Init => Funding
<1> SUFFICES ASSUME Init PROVE Funding
  OBVIOUS
<1>1. Inv
  BY InitInv
<1>2. \A p \in Players : task[p].at = "idle"
  BY IdleIs DEF Init
<1>3. OneSale
  BY <1>2 DEF OneSale, Selling
<1>4. \A q \in Collectors : stall[q] = "closed"
  BY DEF Init, Players
<1> QED
  BY <1>1, <1>3, <1>4 DEF Funding, SoundStall

LEMMA StepFunding == ASSUME ~Crowding PROVE Funding /\ [Next]_vars => Funding'
<1> SUFFICES ASSUME Funding, [Next]_vars PROVE Funding'
  OBVIOUS
<1>1. Inv'
  BY StepInv DEF Funding
<1>2. CASE UNCHANGED vars
  <2>1. UNCHANGED <<stall, wanted, gold, task, hasty>>
    BY <1>2 DEF vars, shop
  <2>2. OneSale'
    BY <2>1 DEF Funding, OneSale, Selling
  <2>3. ASSUME NEW q \in Collectors \ hasty PROVE SoundStall(q)'
    <3>1. q \in Players /\ SoundStall(q) /\ gold[q] <= gold'[q]
      <4>1. gold[q] \in Nat
        BY DEF Funding, Inv, TypeOK, Players
      <4> QED
        BY <2>1, <4>1 DEF Players, Funding
    <3> QED
      BY <1>1, <2>1, <3>1, Untouched
  <2> QED
    BY <1>1, <2>1, <2>2, <2>3 DEF Funding
<1>3. ASSUME NEW p \in Players, Step(p), hasty' = hasty PROVE Funding'
  BY <1>1, <1>3, CollectorFunds, LookFunds, StartSaleFunds, ChargeFunds, StrikeFunds, PlainFunds, CloseFunds, HangUpFunds
  DEF Step, SaleStep
<1> QED
  BY <1>2, <1>3 DEF Next

\* With one sale at a time the purse of an open buying stall covers everything the
\* stall still wants, for every collector who lets a sale finish before posting a
\* new list: the one check of buying_merchant_insert is enough, however far a sale
\* has come and whatever else the collector buys, sells or closes meanwhile.
THEOREM OrdersStayFunded == ASSUME ~Crowding PROVE Spec => []OrderFunded
<1>1. Init => Funding
  BY InitFunding
<1>2. Funding /\ [Next]_vars => Funding'
  BY StepFunding
<1>3. Funding => OrderFunded
  BY DEF Funding, SoundStall, OrderFunded
<1> QED
  BY <1>1, <1>2, <1>3, PTL DEF Spec

-----------------------------------------------------------------------------
(* A sale is a sale of Market.  Supplier and collector are different       *)
(* players, so what a sale read at its start is still there when it is     *)
(* written: the gold until it is charged, the slot of the collector until  *)
(* the goods are stored, the supplier's stack until they are handed over.  *)

Prices == {order[k].price : order \in Orders, k \in Places}
Free(stack, w, n) == stack.item = NoItem \/ (stack.item = w.item /\ stack.count + n < CountMod)

Honest(p) ==
  /\ browsing[p] # NoPlayer => p \in Suppliers /\ browsing[p] \in Collectors
  /\ task[p].at # "idle" => p \in Suppliers /\ task[p].of \in Collectors
  /\ task[p].at \notin {"idle", "look", "cut"} => task[p].want.item \in Item /\ task[p].want.price \in Prices
  /\ task[p].at = "charge" => task[p].want.price * task[p].n <= gold[task[p].of]
  /\ task[p].at \in Unstored => Free(bag[task[p].of][task[p].dest], task[p].want, task[p].n)
  /\ task[p].at \in Unstored \cup {"handOver"} =>
       bag[p][task[p].slot].item = task[p].want.item /\ bag[p][task[p].slot].count = task[p].held

Priced(w) == w = NoWant \/ w.price \in Prices

Trade ==
  /\ Funding
  /\ \A q \in Players, k \in Places : Priced(wanted[q][k])
  /\ \A p \in Players : Honest(p)

\* A step that leaves p's handler alone, and what it has read.
LEMMA StaysHonest ==
  ASSUME NEW p \in Players, Honest(p), task'[p] = task[p], browsing'[p] \in {browsing[p], NoPlayer},
         task[p].at = "charge" => gold[task[p].of] = gold'[task[p].of],
         task[p].at \in Unstored => bag'[task[p].of][task[p].dest] = bag[task[p].of][task[p].dest],
         task[p].at \in Unstored \cup {"handOver"} => bag'[p][task[p].slot] = bag[p][task[p].slot]
  PROVE  Honest(p)'
<1>1. (browsing[p] # NoPlayer)' => p \in Suppliers /\ (browsing[p] \in Collectors)'
  BY DEF Honest
<1>2. /\ (task[p].at # "idle")' => p \in Suppliers /\ (task[p].of \in Collectors)'
      /\ (task[p].at \notin {"idle", "look", "cut"})' => (task[p].want.item \in Item /\ task[p].want.price \in Prices)'
  BY DEF Honest, Prices
<1>3. /\ (task[p].at = "charge")' => (task[p].want.price * task[p].n <= gold[task[p].of])'
      /\ (task[p].at \in Unstored)' => Free(bag[task[p].of][task[p].dest], task[p].want, task[p].n)'
      /\ (task[p].at \in Unstored \cup {"handOver"})' =>
            (bag[p][task[p].slot].item = task[p].want.item /\ bag[p][task[p].slot].count = task[p].held)'
  BY DEF Honest, Free, Unstored
<1> QED
  BY <1>1, <1>2, <1>3 DEF Honest, Prices, Unstored, Free

\* Units of an item in a stack and in a bag.
LEMMA UnitsAre == ASSUME NEW x \in Stack, NEW i PROVE UnitsOf(x, i) \in Nat
BY DEF Stack, UnitsOf

LEMMA HeldIs ==
  ASSUME NEW b \in Bag, NEW i, NEW s \in Slots
  PROVE  Held(b, i) \in Nat /\ UnitsOf(b[s], i) \in Nat /\ UnitsOf(b[s], i) <= Held(b, i)
<1> DEFINE f == [x \in Slots |-> UnitsOf(b[x], i)]
<1>0. IsFiniteSet(Slots)
  BY FS_Interval DEF Slots
<1>1. f \in [Slots -> Nat] /\ f[s] = UnitsOf(b[s], i) /\ UnitsOf(b[s], i) \in Nat
  BY UnitsAre DEF Bag
<1> HIDE DEF f
<1>2. SumFunction(f) \in Nat /\ f[s] <= SumFunction(f)
  BY <1>0, <1>1, OneChanges
<1> QED
  BY <1>1, <1>2 DEF Held, f

LEMMA BagHolds == ASSUME NEW b \in Bag, NEW i PROVE Held(b, i) \in Nat
<1> DEFINE f == [x \in Slots |-> UnitsOf(b[x], i)]
<1>1. IsFiniteSet(Slots)
  BY FS_Interval DEF Slots
<1>2. f \in [Slots -> Nat]
  BY UnitsAre DEF Bag
<1> HIDE DEF f
<1>3. SumFunction(f) \in Nat
  BY <1>1, <1>2, SumFunctionIs
<1> QED
  BY <1>3 DEF Held, f

LEMMA HeldChanges ==
  ASSUME NEW b \in Bag, NEW s \in Slots, NEW x \in Stack, NEW i
  PROVE  /\ Held([b EXCEPT ![s] = x], i) + UnitsOf(b[s], i) = Held(b, i) + UnitsOf(x, i)
         /\ Held([b EXCEPT ![s] = x], i) \in Nat /\ Held(b, i) \in Nat
         /\ UnitsOf(b[s], i) \in Nat /\ UnitsOf(x, i) \in Nat
<1> DEFINE c == [b EXCEPT ![s] = x]
           f == [y \in Slots |-> UnitsOf(b[y], i)]
           g == [y \in Slots |-> UnitsOf(c[y], i)]
<1>1. c \in Bag /\ c[s] = x /\ \A y \in Slots : y # s => c[y] = b[y]
  BY DEF Bag
<1> HIDE DEF c
<1>0. IsFiniteSet(Slots)
  BY FS_Interval DEF Slots
<1>2. f \in [Slots -> Nat] /\ g \in [Slots -> Nat]
  BY <1>1, UnitsAre DEF Bag
<1>3. f[s] = UnitsOf(b[s], i) /\ g[s] = UnitsOf(x, i) /\ \A y \in Slots : y # s => g[y] = f[y]
  BY <1>1
<1>4. Held(b, i) = SumFunction(f) /\ Held(c, i) = SumFunction(g)
  BY DEF Held
<1> HIDE DEF f, g
<1>5. /\ SumFunction(g) + f[s] = SumFunction(f) + g[s]
      /\ SumFunction(f) \in Nat /\ SumFunction(g) \in Nat /\ f[s] \in Nat /\ g[s] \in Nat
  BY <1>0, <1>2, <1>3, OneChanges
<1> QED
  BY <1>3, <1>4, <1>5 DEF c

\* What one sale puts into the two sums of the mapping.
Coming(t, q, i) == IF t.of = q THEN Moving(t, i, Unstored) ELSE 0

LEMMA MovingIs ==
  ASSUME NEW t \in Task, NEW q, NEW i, NEW stages
  PROVE  Moving(t, i, stages) \in Nat /\ Coming(t, q, i) \in Nat
BY DEF Task, Moving, Coming

LEMMA SumsChange ==
  ASSUME Inv, NEW p \in Players, NEW t \in Task, task' = [task EXCEPT ![p] = t], NEW q, NEW i
  PROVE  /\ Owed(q)' + Due(task[p], q, {"charge"}) = Owed(q) + Due(t, q, {"charge"})
         /\ Expected(q, i)' + Coming(task[p], q, i) = Expected(q, i) + Coming(t, q, i)
         /\ Owed(q) \in Nat /\ Owed(q)' \in Nat /\ Expected(q, i) \in Nat /\ Expected(q, i)' \in Nat
<1> DEFINE f == [r \in Players |-> Due(task[r], q, {"charge"})]
           f1 == [r \in Players |-> Due(task'[r], q, {"charge"})]
           g == [r \in Players |-> Coming(task[r], q, i)]
           g1 == [r \in Players |-> Coming(task'[r], q, i)]
<1>1. task \in [Players -> Task] /\ task' \in [Players -> Task] /\ task'[p] = t /\ \A r \in Players : r # p => task'[r] = task[r]
  BY DEF Inv, TypeOK
<1>2. f \in [Players -> Nat] /\ f1 \in [Players -> Nat] /\ g \in [Players -> Nat] /\ g1 \in [Players -> Nat]
  BY <1>1, DueIs, MovingIs
<1>3. /\ f[p] = Due(task[p], q, {"charge"}) /\ f1[p] = Due(t, q, {"charge"})
      /\ g[p] = Coming(task[p], q, i) /\ g1[p] = Coming(t, q, i)
      /\ \A r \in Players : r # p => f1[r] = f[r]
      /\ \A r \in Players : r # p => g1[r] = g[r]
  BY <1>1
<1>4. /\ Owed(q) = SumFunction(f) /\ Owed(q)' = SumFunction(f1)
      /\ Expected(q, i) = SumFunction(g) /\ Expected(q, i)' = SumFunction(g1)
  BY DEF Owed, Due, Expected, Coming, Moving, Unstored
<1> HIDE DEF f, f1, g, g1
<1>5. SumFunction(f1) + f[p] = SumFunction(f) + f1[p] /\ SumFunction(f) \in Nat /\ SumFunction(f1) \in Nat
  BY <1>2, <1>3, OneChanges
<1>6. SumFunction(g1) + g[p] = SumFunction(g) + g1[p] /\ SumFunction(g) \in Nat /\ SumFunction(g1) \in Nat
  <2>1. g \in [Players -> Nat] /\ g1 \in [Players -> Nat] /\ \A r \in Players : r # p => g1[r] = g[r]
    BY <1>2, <1>3
  <2> QED
    BY <2>1, OneChanges
<1> QED
  BY <1>3, <1>4, <1>5, <1>6

\* Nothing is on its way to somebody whom nobody sells to.
LEMMA NothingComes ==
  ASSUME Inv, NEW q, NEW i, \A r \in Selling : task[r].of # q
  PROVE  Owed(q) = 0 /\ Expected(q, i) = 0
<1>1. Owed(q) = 0
  BY SumsAre
<1> DEFINE g == [r \in Players |-> Coming(task[r], q, i)]
<1>2. \A r \in Players : Coming(task[r], q, i) = 0
  BY DEF Coming, Moving, Unstored, Selling
<1>3. g \in [Players -> Nat] /\ \A r \in Players : g[r] = 0
  BY <1>2
<1>4. Expected(q, i) = SumFunction(g)
  BY DEF Expected, Coming
<1> HIDE DEF g
<1> QED
  BY <1>1, <1>3, <1>4, AllZero

\* What is posted and what is left of it keeps its price.
LEMMA PricesStay ==
  ASSUME Trade, NEW p \in Players, Step(p)
  PROVE  \A q \in Players, k \in Places : Priced(wanted'[q][k])
<1>1. Inv /\ wanted \in [Players -> [Places -> Want]] /\ \A q \in Players, k \in Places : Priced(wanted[q][k])
  BY DEF Trade, Funding, Inv, TypeOK
<1>2. CASE wanted' = wanted
  BY <1>1, <1>2
<1>3. ASSUME NEW c \in Players, wanted' = [wanted EXCEPT ![c] = [k \in Places |-> NoWant]]
      PROVE  \A q \in Players, k \in Places : Priced(wanted'[q][k])
  BY <1>1, <1>3 DEF Priced
<1>4. ASSUME NEW order \in Orders, Insert(p, order)
      PROVE  \A q \in Players, k \in Places : Priced(wanted'[q][k])
  <2>1. \A k \in Places : order[k].price \in Prices
    BY DEF Prices
  <2>2. \A k \in Places : Priced(Posted(wanted[p], order)[k])
    BY <1>1, <2>1 DEF Posted, Priced
  <2>3. wanted' = [wanted EXCEPT ![p] = Posted(wanted[p], order)]
    BY <1>4 DEF Insert
  <2> QED
    BY <1>1, <2>2, <2>3
<1>5. CASE Strike(p)
  <2> DEFINE t == task[p]
  <2>1. /\ t.of \in Players /\ t.place \in Places /\ t.want \in Want /\ t.want.price \in Prices
        /\ wanted' = [wanted EXCEPT ![t.of][t.place] = Left(t.want, t.n)]
    BY <1>1, <1>5, SaleFacts DEF Strike, Trade, Honest
  <2>2. Priced(Left(t.want, t.n))
    <3>1. CASE t.want.count = t.n
      BY <3>1 DEF Left, Priced
    <3>2. CASE t.want.count # t.n
      <4>1. Left(t.want, t.n).price = t.want.price
        BY <2>1, <3>2 DEF Left, Want
      <4> QED
        BY <2>1, <4>1 DEF Priced
    <3> QED
      BY <3>1, <3>2
  <2> QED
    BY <1>1, <2>1, <2>2
<1>6. CASE CloseIfDone(p)
  <2>1. task[p].of \in Players
    BY <1>1, <1>6, SaleFacts DEF CloseIfDone
  <2> QED
    BY <1>2, <1>3, <1>6, <2>1 DEF CloseIfDone, CloseStall, shop
<1>7. CASE Open(p) \/ Close(p) \/ HangUp(p)
  BY <1>3, <1>7 DEF Open, Close, CloseStall, HangUp
<1>8. CASE (\E q \in Collectors : Browse(p, q)) \/ Look(p) \/ StopBrowsing(p) \/ \E s \in Slots, k \in Places, n \in Amounts : StartSale(p, s, k, n)
  BY <1>2, <1>8 DEF Browse, Look, StopBrowsing, StartSale, shop
<1>9. CASE Charge(p) \/ Credit(p) \/ Store(p) \/ HandOver(p)
  BY <1>2, <1>9 DEF Charge, Credit, Store, HandOver, shop
<1> QED
  BY <1>4, <1>5, <1>6, <1>7, <1>8, <1>9 DEF Step, SaleStep

\* Steps that move neither gold nor goods leave every other handler honest.
LEMMA OthersHonest ==
  ASSUME Trade, NEW p \in Players, UNCHANGED <<gold, bag>>,
         \A r \in Players \ {p} : task'[r] = task[r] /\ browsing'[r] \in {browsing[r], NoPlayer}
  PROVE  \A r \in Players \ {p} : Honest(r)'
<1> SUFFICES ASSUME NEW r \in Players \ {p} PROVE Honest(r)'
  OBVIOUS
<1>1. Honest(r)
  BY DEF Trade
<1> QED
  BY <1>1, StaysHonest

LEMMA CollectorHonest ==
  ASSUME Trade, NEW p \in Players,
         Open(p) \/ Close(p) \/ StopBrowsing(p) \/ \E order \in Orders : Insert(p, order)
  PROVE  \A r \in Players : Honest(r)'
<1>1. UNCHANGED <<gold, bag, task>>
  BY DEF Open, Close, StopBrowsing, Insert
<1>2. browsing \in [Players -> Players \cup {NoPlayer}]
  BY DEF Trade, Funding, Inv, TypeOK
<1>3. \A r \in Players : browsing'[r] \in {browsing[r], NoPlayer}
  BY <1>2 DEF Open, Close, StopBrowsing, Insert, view
<1>4. Honest(p)
  BY DEF Trade
<1>5. Honest(p)'
  BY <1>1, <1>3, <1>4, StaysHonest
<1> QED
  BY <1>1, <1>3, <1>5, OthersHonest

LEMMA LookHonest ==
  ASSUME Trade, NEW p \in Players, Look(p) \/ \E q \in Collectors : Browse(p, q)
  PROVE  \A r \in Players : Honest(r)'
<1>1. /\ UNCHANGED <<gold, bag>> /\ task \in [Players -> Task] /\ browsing \in [Players -> Players \cup {NoPlayer}]
      /\ Honest(p)
  BY DEF Look, Browse, Trade, Funding, Inv, TypeOK
<1>2. \A r \in Players \ {p} : task'[r] = task[r] /\ browsing'[r] = browsing[r]
  BY <1>1 DEF Look, Browse, Done, view
<1>3. Honest(p)'
  <2>1. CASE Look(p)
    <3>1. task'[p].at = "idle" /\ browsing'[p] = task[p].of /\ p \in Suppliers /\ task[p].of \in Collectors
      BY <1>1, <2>1, IdleIs DEF Look, Done, Honest
    <3> QED
      BY <3>1 DEF Honest, Unstored
  <2>2. ASSUME NEW q \in Collectors, Browse(p, q) PROVE Honest(p)'
    <3> DEFINE t == [Idle EXCEPT !.at = "look", !.of = q]
    <3>1. t.at = "look" /\ t.of = q
      BY IdleIs DEF Task, Idle
    <3>2. task'[p] = t /\ browsing'[p] = browsing[p] /\ p \in Suppliers
      BY <1>1, <2>2 DEF Browse, view
    <3> HIDE DEF t
    <3> QED
      BY <1>1, <3>1, <3>2 DEF Honest, Unstored
  <2> QED
    BY <2>1, <2>2
<1> QED
  BY <1>1, <1>2, <1>3, OthersHonest

\* What a sale reads before it begins.
LEMMA StartFacts ==
  ASSUME Trade, ~Crowding, NEW p \in Players, NEW s \in Slots, NEW k \in Places, NEW n \in Amounts, StartSale(p, s, k, n)
  PROVE  \E q \in Collectors, w \in Want, held \in Nat, d \in Slots :
           /\ task' = [task EXCEPT ![p] = Begun(q, k, w, n, s, held, d)]
           /\ p \in Suppliers /\ q # p /\ q \in Players /\ task[p].at = "idle"
           /\ \A r \in Selling : task[r].of # q
           /\ w.item \in Item /\ w.price \in Prices /\ w.price * n <= gold[q] /\ n >= 1 /\ n <= held
           /\ bag[p][s].item = w.item /\ bag[p][s].count = held
           /\ Free(bag[q][d], w, n)
<1>1. PICK q \in Players, w \in Want, held \in Nat, d \in Slots :
           /\ q = browsing[p] /\ q # p /\ stall[q] = "open" /\ w = wanted[q][k] /\ held = bag[p][s].count
           /\ n >= 1 /\ n <= w.count /\ n <= held /\ held < CountMod
           /\ d \in Fitting(bag[q], w.item, n) \cup FreeSlots(bag[q])
           /\ task' = [task EXCEPT ![p] = Begun(q, k, w, n, s, held, d)]
  BY StartSaleIs DEF Trade, Funding
<1>2. q \in Collectors /\ p \in Suppliers /\ Priced(w)
  BY <1>1 DEF Trade, Honest
<1>3. /\ task[p].at = "idle" /\ (\A r \in Selling : task[r].of # q) /\ w.item # NoItem
      /\ bag[p][s].item = w.item /\ gold[q] >= w.price * n
  BY <1>1 DEF StartSale, Ready, Has
<1>4. w.item \in Item /\ w.price \in Prices
  BY <1>2, <1>3 DEF Want, Priced, NoWant
<1>5. bag[q][d] \in Stack /\ gold[q] \in Nat /\ w.price \in Nat
  BY <1>1 DEF Trade, Funding, Inv, TypeOK, Bag, Want
<1>6. w.price * n <= gold[q]
  BY <1>3, <1>5
<1>7. Free(bag[q][d], w, n)
  <2>1. bag[q][d].count \in Nat
    BY <1>5 DEF Stack
  <2> QED
    BY <1>1, <2>1 DEF Free, Fitting, FreeSlots
<1> QED
  BY <1>1, <1>2, <1>3, <1>4, <1>6, <1>7

LEMMA StartHonest ==
  ASSUME Trade, ~Crowding, NEW p \in Players, NEW s \in Slots, NEW k \in Places, NEW n \in Amounts, StartSale(p, s, k, n)
  PROVE  \A r \in Players : Honest(r)'
<1>1. /\ UNCHANGED <<gold, bag, browsing>> /\ task \in [Players -> Task] /\ Honest(p)
  BY DEF StartSale, Trade, Funding, Inv, TypeOK, view
<1>2. PICK q \in Collectors, w \in Want, held \in Nat, d \in Slots :
           /\ task' = [task EXCEPT ![p] = Begun(q, k, w, n, s, held, d)]
           /\ p \in Suppliers /\ q # p /\ q \in Players
           /\ w.item \in Item /\ w.price \in Prices /\ w.price * n <= gold[q]
           /\ bag[p][s].item = w.item /\ bag[p][s].count = held
           /\ Free(bag[q][d], w, n)
  BY StartFacts
<1> DEFINE t == Begun(q, k, w, n, s, held, d)
<1>3. n \in Nat
  OBVIOUS
<1>4. t.at = "charge" /\ t.of = q /\ t.want = w /\ t.n = n /\ t.slot = s /\ t.held = held /\ t.dest = d
  BY DEF Begun, Idle
<1>5. task'[p] = t /\ \A r \in Players \ {p} : task'[r] = task[r] /\ browsing'[r] = browsing[r]
  BY <1>1, <1>2
<1> HIDE DEF t
<1>6. Honest(p)'
  <2>1. (browsing[p] # NoPlayer)' => p \in Suppliers /\ (browsing[p] \in Collectors)'
    BY <1>1 DEF Honest
  <2> QED
    BY <1>1, <1>2, <1>4, <1>5, <2>1 DEF Honest, Unstored, Free
<1> QED
  BY <1>1, <1>5, <1>6, OthersHonest

\* A sale under way, in one place.
LEMMA SaleIs ==
  ASSUME Trade, NEW p \in Players, task[p].at \notin {"idle", "look", "cut"}
  PROVE  /\ task[p] \in Task /\ task[p].of \in Players /\ task[p].slot \in Slots /\ task[p].dest \in Slots
         /\ task[p].want \in Want /\ task[p].n \in Nat /\ task[p].n >= 1 /\ task[p].n <= task[p].held
         /\ task[p].held \in Nat /\ task[p].held < CountMod
         /\ task[p].want.price \in Nat /\ task[p].want.price * task[p].n \in Nat /\ Cost(p) = task[p].want.price * task[p].n
         /\ p \in Suppliers /\ task[p].of \in Collectors
         /\ \A r \in Players : task[r].at \notin {"idle", "look", "cut"} /\ task[r].of = task[p].of => r = p
<1>1. Inv /\ OneSale /\ Honest(p)
  BY DEF Trade, Funding
<1>2. Cost(p) = task[p].want.price * task[p].n /\ task[p].want.price \in Nat
  BY <1>1, SaleFacts DEF Cost, Want
<1>3. p \in Suppliers /\ task[p].of \in Collectors
  BY <1>1 DEF Honest
<1>4. \A r \in Players : task[r].at \notin {"idle", "look", "cut"} /\ task[r].of = task[p].of => r = p
  BY <1>1 DEF OneSale, Selling
<1> QED
  BY <1>1, <1>2, <1>3, <1>4, SaleFacts

\* The task of the player who takes a step of a sale, and everybody else's.
LEMMA SaleGoes ==
  ASSUME Trade, NEW p \in Players, task[p].at \notin {"idle", "look", "cut"}, NEW stage \in Stages \ {"idle", "look", "cut"}, Goto(p, stage)
  PROVE  \E t \in Task :
           /\ task' = [task EXCEPT ![p] = t] /\ task'[p] = t /\ t.at = stage
           /\ t.of = task[p].of /\ t.want = task[p].want /\ t.n = task[p].n /\ t.slot = task[p].slot
           /\ t.held = task[p].held /\ t.dest = task[p].dest
           /\ \A r \in Players \ {p} : task'[r] = task[r]
<1> DEFINE t == [task[p] EXCEPT !.at = stage]
<1>1. Inv /\ task \in [Players -> Task]
  BY DEF Trade, Funding, Inv, TypeOK
<1>2. /\ task' = [task EXCEPT ![p] = t] /\ t \in Task /\ t.at = stage
      /\ t["of"] = task[p]["of"] /\ t["want"] = task[p]["want"] /\ t["n"] = task[p]["n"]
      /\ t["slot"] = task[p]["slot"] /\ t["held"] = task[p]["held"] /\ t["dest"] = task[p]["dest"]
  BY <1>1, GotoIs
<1> HIDE DEF t
<1>3. task'[p] = t /\ \A r \in Players \ {p} : task'[r] = task[r]
  BY <1>1, <1>2
<1> QED
  BY <1>2, <1>3

\* No other sale reads what a step of p's sale writes.
LEMMA OtherSales ==
  ASSUME Trade, Collectors \cap Suppliers = {}, NEW p \in Players, task[p].at \notin {"idle", "look", "cut"},
         NEW r \in Players \ {p}, task'[r] = task[r], browsing'[r] = browsing[r],
         \A q \in Players : q # task[p].of /\ q # p => gold'[q] = gold[q] /\ bag'[q] = bag[q],
         bag'[task[p].of] = bag[task[p].of] \/ bag'[p] = bag[p]
  PROVE  Honest(r)'
<1>1. Honest(r)
  BY DEF Trade
<1>2. CASE task[r].at \in {"idle", "look", "cut"}
  <2>1. task[r].at \notin Unstored \cup {"handOver"} /\ task[r].at # "charge"
    BY <1>2 DEF Unstored
  <2> QED
    BY <1>1, <2>1, StaysHonest
<1>3. CASE task[r].at \notin {"idle", "look", "cut"}
  <2>1. p \in Suppliers /\ r \in Suppliers /\ task[p].of \in Collectors /\ task[r].of \in Collectors
        /\ task[r].of # task[p].of /\ task[r].of \in Players
    BY <1>3, SaleIs
  <2>2. r # task[p].of /\ task[r].of # p
    BY <2>1
  <2>3. gold'[task[r].of] = gold[task[r].of] /\ bag'[task[r].of] = bag[task[r].of] /\ bag'[r] = bag[r]
    BY <2>1, <2>2
  <2> QED
    BY <1>1, <2>3, StaysHonest
<1> QED
  BY <1>2, <1>3

LEMMA SaleHonest ==
  ASSUME Trade, Collectors \cap Suppliers = {}, NEW p \in Players, SaleStep(p)
  PROVE  \A r \in Players : Honest(r)'
<1> DEFINE o == task[p]
           c == o.of
<1>1. o.at \notin {"idle", "look", "cut"}
  BY DEF SaleStep, Charge, Credit, Strike, Store, HandOver, CloseIfDone
<1>2. /\ o \in Task /\ c \in Players /\ o.slot \in Slots /\ o.dest \in Slots
      /\ p \in Suppliers /\ c \in Collectors /\ c # p
      /\ Honest(p) /\ browsing \in [Players -> Players \cup {NoPlayer}]
      /\ gold \in [Players -> 0 .. CoinMax] /\ bag \in [Players -> Bag] /\ task \in [Players -> Task]
  BY <1>1, SaleIs DEF Trade, Funding, Inv, TypeOK
<1>3. UNCHANGED browsing
  BY DEF SaleStep, Charge, Credit, Strike, Store, HandOver, CloseIfDone, view
<1>4. /\ \A q \in Players : q # c /\ q # p => gold'[q] = gold[q] /\ bag'[q] = bag[q]
      /\ bag'[c] = bag[c] \/ bag'[p] = bag[p]
  <2>1. CASE Charge(p) \/ Credit(p)
    BY <1>2, <2>1 DEF Charge, Credit
  <2>2. CASE Strike(p) \/ CloseIfDone(p)
    BY <2>2 DEF Strike, CloseIfDone
  <2>3. CASE Store(p)
    BY <1>2, <2>3 DEF Store
  <2>4. CASE HandOver(p)
    BY <1>2, <2>4 DEF HandOver
  <2> QED
    BY <2>1, <2>2, <2>3, <2>4 DEF SaleStep
<1>5. \A r \in Players \ {p} : task'[r] = task[r]
  BY <1>2 DEF SaleStep, Charge, Credit, Strike, Store, HandOver, CloseIfDone, Goto, Done
<1>6. \A r \in Players \ {p} : Honest(r)'
  BY <1>1, <1>3, <1>4, <1>5, OtherSales
<1>7. Honest(p)'
  <2>0. (browsing[p] # NoPlayer)' => p \in Suppliers /\ (browsing[p] \in Collectors)'
    BY <1>2, <1>3 DEF Honest
  <2>1. CASE CloseIfDone(p)
    <3>1. task'[p].at = "idle"
      BY <1>2, <2>1, IdleIs DEF CloseIfDone, Done
    <3> QED
      BY <2>0, <3>1 DEF Honest, Unstored
  <2>2. ASSUME NEW stage \in {"credit", "strike", "store", "handOver", "close"}, Goto(p, stage),
               stage \in {"credit", "strike", "store"} => o.at \in Unstored /\ bag' = bag,
               stage = "handOver" => o.at \in Unstored /\ bag'[p] = bag[p]
        PROVE  Honest(p)'
    <3>1. PICK t \in Task :
           /\ task'[p] = t /\ t.at = stage
           /\ t.of = o.of /\ t.want = o.want /\ t.n = o.n /\ t.slot = o.slot /\ t.held = o.held /\ t.dest = o.dest
      BY <1>1, <2>2, SaleGoes DEF Stages
    <3>2. o.want.item \in Item /\ o.want.price \in Prices
      BY <1>1, <1>2 DEF Honest
    <3>3. o.at \in Unstored => /\ Free(bag[c][o.dest], o.want, o.n)
                               /\ bag[p][o.slot].item = o.want.item /\ bag[p][o.slot].count = o.held
      BY <1>2 DEF Honest
    <3>4. /\ (task[p].at # "idle")' => p \in Suppliers /\ (task[p].of \in Collectors)'
          /\ (task[p].at \notin {"idle", "look", "cut"})' => (task[p].want.item \in Item /\ task[p].want.price \in Prices)'
      BY <1>2, <3>1, <3>2 DEF Prices
    <3>5. (task[p].at \in Unstored)' => Free(bag[task[p].of][task[p].dest], task[p].want, task[p].n)'
      BY <2>2, <3>1, <3>3 DEF Free, Unstored
    <3>6. (task[p].at \in Unstored \cup {"handOver"})' =>
            (bag[p][task[p].slot].item = task[p].want.item /\ bag[p][task[p].slot].count = task[p].held)'
      BY <2>2, <3>1, <3>3 DEF Unstored
    <3>7. (task[p].at # "charge")'
      BY <3>1
    <3> QED
      BY <2>0, <3>4, <3>5, <3>6, <3>7 DEF Honest, Prices, Unstored, Free
  <2>3. CASE Charge(p)
    BY <2>2, <2>3 DEF Charge, Unstored
  <2>4. CASE Credit(p)
    BY <2>2, <2>4 DEF Credit, Unstored
  <2>5. CASE Strike(p)
    BY <2>2, <2>5 DEF Strike, Unstored
  <2>6. CASE Store(p)
    <3>1. bag'[p] = bag[p]
      BY <1>2, <2>6 DEF Store
    <3> QED
      BY <2>2, <2>6, <3>1 DEF Store, Unstored
  <2>7. CASE HandOver(p)
    BY <2>2, <2>7 DEF HandOver, Unstored
  <2> QED
    BY <2>1, <2>3, <2>4, <2>5, <2>6, <2>7 DEF SaleStep
<1> QED
  BY <1>6, <1>7

LEMMA HangUpHonest ==
  ASSUME Trade, NEW p \in Players, HangUp(p)
  PROVE  \A r \in Players : Honest(r)'
<1>1. /\ UNCHANGED <<gold, bag>> /\ task \in [Players -> Task] /\ browsing \in [Players -> Players \cup {NoPlayer}]
      /\ Honest(p) /\ Inv
  BY DEF HangUp, Trade, Funding, Inv, TypeOK
<1>2. PICK t \in Task : t.at = "cut" /\ t.of = task[p].of /\ task' = [task EXCEPT ![p] = t]
  BY <1>1, HangUpIs
<1>3. \A r \in Players \ {p} : task'[r] = task[r] /\ browsing'[r] = browsing[r]
  BY <1>1, <1>2 DEF HangUp
<1>4. Honest(p)'
  <2>1. task[p].at = "close"
    BY <1>1, HangUpIs
  <2>2. p \in Suppliers /\ task[p].of \in Collectors
    BY <1>1, <2>1 DEF Honest
  <2>3. task'[p].at = "cut" /\ task'[p].of = task[p].of /\ browsing'[p] = NoPlayer
    BY <1>1, <1>2 DEF HangUp
  <2> QED
    BY <2>2, <2>3 DEF Honest, Unstored
<1> QED
  BY <1>1, <1>3, <1>4, OthersHonest

LEMMA InitTrade == Init => Trade
<1> SUFFICES ASSUME Init PROVE Trade
  OBVIOUS
<1>1. Funding
  BY InitFunding
<1>2. \A p \in Players : task[p].at = "idle" /\ browsing[p] = NoPlayer
  BY IdleIs DEF Init
<1>3. \A q \in Players, k \in Places : Priced(wanted[q][k])
  BY DEF Init, Priced
<1> QED
  BY <1>1, <1>2, <1>3 DEF Trade, Honest, Unstored

LEMMA StepTrade ==
  ASSUME ~Crowding, Collectors \cap Suppliers = {} PROVE Trade /\ [Next]_vars => Trade'
<1> SUFFICES ASSUME Trade, [Next]_vars PROVE Trade'
  OBVIOUS
<1>1. Funding'
  BY StepFunding DEF Trade
<1>2. CASE UNCHANGED vars
  <2>1. UNCHANGED <<wanted, gold, bag, task, browsing>>
    BY <1>2 DEF vars, shop, view
  <2>2. \A r \in Players : Honest(r)'
    BY <2>1, StaysHonest DEF Trade
  <2>3. \A q \in Players, k \in Places : Priced(wanted'[q][k])
    BY <2>1 DEF Trade
  <2> QED
    BY <1>1, <2>2, <2>3 DEF Trade, Priced, Prices
<1>3. ASSUME NEW p \in Players, Step(p) PROVE Trade'
  <2>1. \A r \in Players : Honest(r)'
    BY <1>3, CollectorHonest, LookHonest, StartHonest, SaleHonest, HangUpHonest DEF Step
  <2>2. \A q \in Players, k \in Places : Priced(wanted'[q][k])
    BY <1>3, PricesStay
  <2> QED
    BY <1>1, <2>1, <2>2 DEF Trade, Priced, Prices
<1> QED
  BY <1>2, <1>3 DEF Next

-----------------------------------------------------------------------------
(* The steps of a sale under the mapping. *)

\* A step that moves nothing and leaves p's part of the mapping as it is.
LEMMA Silent ==
  ASSUME Trade, NEW p \in Players, NEW t \in Task, task' = [task EXCEPT ![p] = t], UNCHANGED <<gold, bag>>,
         (t.of = task[p].of /\ t.want = task[p].want /\ t.n = task[p].n) \/ {t.at, task[p].at} \subseteq {"idle", "look", "close", "cut"},
         \A stages \in {{"charge"}, {"charge", "credit"}, Unstored, Unstored \cup {"handOver"}} : t.at \in stages <=> task[p].at \in stages
  PROVE  UNCHANGED <<purse, goods>>
<1>1. Inv /\ task \in [Players -> Task]
  BY DEF Trade, Funding, Inv, TypeOK
<1>2. task'[p] = t /\ \A r \in Players : r # p => task'[r] = task[r]
  BY <1>1
<1>3. \A q, i : Due(t, q, {"charge"}) = Due(task[p], q, {"charge"}) /\ Coming(t, q, i) = Coming(task[p], q, i)
  BY DEF Due, Coming, Moving, Unstored
<1>4. \A q, i : /\ Due(t, q, {"charge"}) \in Nat /\ Due(task[p], q, {"charge"}) \in Nat
                /\ Coming(t, q, i) \in Nat /\ Coming(task[p], q, i) \in Nat
  BY <1>1, DueIs, MovingIs
<1>5. \A q, i : Owed(q)' = Owed(q) /\ Expected(q, i)' = Expected(q, i)
  <2> SUFFICES ASSUME NEW q, NEW i PROVE Owed(q)' = Owed(q) /\ Expected(q, i)' = Expected(q, i)
    OBVIOUS
  <2>1. /\ Owed(q)' + Due(task[p], q, {"charge"}) = Owed(q) + Due(t, q, {"charge"})
        /\ Expected(q, i)' + Coming(task[p], q, i) = Expected(q, i) + Coming(t, q, i)
        /\ Owed(q) \in Nat /\ Owed(q)' \in Nat /\ Expected(q, i) \in Nat /\ Expected(q, i)' \in Nat
    BY <1>1, SumsChange
  <2> QED
    BY <1>3, <1>4, <2>1
<1>6. \A q \in Players : Earned(q)' = Earned(q)
  <2>1. Earned(p)' = Earned(p)
    BY <1>2 DEF Earned, Cost
  <2> QED
    BY <1>2, <2>1 DEF Earned, Cost
<1>7. \A q \in Players : \A i : Moving(task'[q], i, Unstored \cup {"handOver"}) = Moving(task[q], i, Unstored \cup {"handOver"})
  <2>1. \A i : Moving(t, i, Unstored \cup {"handOver"}) = Moving(task[p], i, Unstored \cup {"handOver"})
    BY DEF Moving, Unstored
  <2> QED
    BY <1>2, <2>1
<1>8. purse' = purse
  <2>1. purse' = [q \in Players |-> GoldGain(gold'[q], Earned(q)') - Owed(q)']
    BY DEF purse, GoldGain, Clamp, Owed, Due
  <2> QED
    BY <1>5, <1>6, <2>1 DEF purse
<1>9. goods' = goods
  <2>1. goods' = [q \in Players |-> [i \in Item |->
                    Held(bag'[q], i) + Expected(q, i)' - Moving(task'[q], i, Unstored \cup {"handOver"})]]
    BY DEF goods, Held, UnitsOf, Expected, Moving, Unstored
  <2>2. ASSUME NEW q \in Players, NEW i \in Item
        PROVE  Held(bag'[q], i) + Expected(q, i)' - Moving(task'[q], i, Unstored \cup {"handOver"})
                 = Held(bag[q], i) + Expected(q, i) - Moving(task[q], i, Unstored \cup {"handOver"})
    <3>1. bag'[q] = bag[q] /\ Expected(q, i)' = Expected(q, i)
      BY <1>5
    <3>2. Moving(task'[q], i, Unstored \cup {"handOver"}) = Moving(task[q], i, Unstored \cup {"handOver"})
      BY <1>7
    <3> QED
      BY <3>1, <3>2
  <2> QED
    BY <2>1, <2>2, Zenon DEF goods
<1> QED
  BY <1>8, <1>9

\* The values of the mapping at q before and after p's step, and how they differ.
Mapped(p, t, q, i) ==
  /\ purse[q] = GoldGain(gold[q], Earned(q)) - Owed(q)
  /\ purse'[q] = GoldGain(gold'[q], Earned(q)') - Owed(q)'
  /\ goods[q][i] = Held(bag[q], i) + Expected(q, i) - Moving(task[q], i, Unstored \cup {"handOver"})
  /\ goods'[q][i] = Held(bag'[q], i) + Expected(q, i)' - Moving(task'[q], i, Unstored \cup {"handOver"})
  /\ gold[q] \in 0 .. CoinMax /\ gold'[q] \in 0 .. CoinMax
  /\ Moving(task[q], i, Unstored \cup {"handOver"}) \in Nat /\ Moving(task'[q], i, Unstored \cup {"handOver"}) \in Nat
  /\ Owed(q)' + Due(task[p], q, {"charge"}) = Owed(q) + Due(t, q, {"charge"})
  /\ Expected(q, i)' + Coming(task[p], q, i) = Expected(q, i) + Coming(t, q, i)
  /\ Owed(q) \in Nat /\ Owed(q)' \in Nat /\ Expected(q, i) \in Nat /\ Expected(q, i)' \in Nat

LEMMA MappedAt ==
  ASSUME Trade, Trade', NEW p \in Players, NEW t \in Task, task' = [task EXCEPT ![p] = t], NEW q \in Players, NEW i \in Item
  PROVE  Mapped(p, t, q, i)
<1>1. Inv /\ Inv'
  BY DEF Trade, Funding
<1>2. task[q] \in Task /\ task'[q] \in Task /\ gold[q] \in 0 .. CoinMax /\ gold'[q] \in 0 .. CoinMax
  BY <1>1 DEF Inv, TypeOK
<1>3. /\ purse[q] = GoldGain(gold[q], Earned(q)) - Owed(q)
      /\ purse'[q] = GoldGain(gold'[q], Earned(q)') - Owed(q)'
  BY DEF purse, GoldGain, Clamp, Owed, Due
<1>4. /\ goods[q][i] = Held(bag[q], i) + Expected(q, i) - Moving(task[q], i, Unstored \cup {"handOver"})
      /\ goods'[q][i] = Held(bag'[q], i) + Expected(q, i)' - Moving(task'[q], i, Unstored \cup {"handOver"})
  BY DEF goods, Held, UnitsOf, Expected, Moving, Unstored
<1>6. /\ Owed(q)' + Due(task[p], q, {"charge"}) = Owed(q) + Due(t, q, {"charge"})
      /\ Expected(q, i)' + Coming(task[p], q, i) = Expected(q, i) + Coming(t, q, i)
      /\ Owed(q) \in Nat /\ Owed(q)' \in Nat /\ Expected(q, i) \in Nat /\ Expected(q, i)' \in Nat
  BY <1>1, SumsChange
<1>7. Moving(task[q], i, Unstored \cup {"handOver"}) \in Nat /\ Moving(task'[q], i, Unstored \cup {"handOver"}) \in Nat
  BY <1>2, MovingIs
<1> QED
  BY <1>2, <1>3, <1>4, <1>6, <1>7, Zenon DEF Mapped

LEMMA MappedFunctions ==
  /\ purse = [r \in Players |-> purse[r]] /\ purse' = [r \in Players |-> purse'[r]]
  /\ goods = [r \in Players |-> [j \in Item |-> goods[r][j]]]
  /\ goods' = [r \in Players |-> [j \in Item |-> goods'[r][j]]]
BY DEF purse, goods

LEMMA Stutters ==
  ASSUME NEW x \in Item, \A q \in Players, i \in Item : purse'[q] = purse[q] /\ goods'[q][i] = goods[q][i]
  PROVE  UNCHANGED <<purse, goods>>
<1>1. [r \in Players |-> purse[r]] = [r \in Players |-> purse'[r]]
  OBVIOUS
<1>2. [r \in Players |-> [j \in Item |-> goods[r][j]]] = [r \in Players |-> [j \in Item |-> goods'[r][j]]]
  OBVIOUS
<1> QED
  BY <1>1, <1>2, MappedFunctions, Zenon

LEMMA GainIs ==
  ASSUME NEW x \in 0 .. CoinMax
  PROVE  GoldGain(x, 0) = x /\ \A n \in Nat : GoldGain(GoldGain(x, n), 0) = GoldGain(x, n)
BY DEF GoldGain, Clamp

\* Somebody with no sale of their own under way.
LEMMA NoneEarned ==
  ASSUME NEW q, task[q].at \notin Unstored \cup {"handOver"}
  PROVE  Earned(q) = 0 /\ \A i : Moving(task[q], i, Unstored \cup {"handOver"}) = 0
BY DEF Earned, Moving, Unstored

LEMMA ChargeIsSilent ==
  ASSUME Trade, Trade', Collectors \cap Suppliers = {}, NEW p \in Players, Charge(p)
  PROVE  UNCHANGED <<purse, goods>>
<1> DEFINE o == task[p]
           c == o.of
<1>1. /\ o.at = "charge" /\ gold' = [gold EXCEPT ![c] = IF @ >= Cost(p) THEN @ - Cost(p) ELSE @]
      /\ Goto(p, "credit") /\ bag' = bag
  BY DEF Charge
<1>2. /\ o \in Task /\ c \in Players /\ o.want \in Want /\ o.n \in Nat /\ Cost(p) \in Nat /\ Cost(p) = o.want.price * o.n
      /\ p \in Suppliers /\ c \in Collectors
  BY <1>1, SaleIs
<1>3. /\ o.want.item \in Item /\ Cost(p) <= gold[c] /\ task[c].at = "idle" /\ c # p
      /\ gold \in [Players -> 0 .. CoinMax]
  <2>1. Honest(p) /\ Honest(c) /\ gold \in [Players -> 0 .. CoinMax]
    BY <1>2 DEF Trade, Funding, Inv, TypeOK
  <2>2. c \notin Suppliers
    BY <1>2
  <2> QED
    BY <1>1, <1>2, <2>1, <2>2 DEF Honest
<1>4. PICK t \in Task : /\ task' = [task EXCEPT ![p] = t] /\ task'[p] = t /\ t.at = "credit"
                        /\ t.of = c /\ t.want = o.want /\ t.n = o.n
                        /\ \A r \in Players \ {p} : task'[r] = task[r]
  BY <1>1, SaleGoes DEF Stages
<1>5. gold'[c] = gold[c] - Cost(p) /\ \A q \in Players \ {c} : gold'[q] = gold[q]
  BY <1>1, <1>2, <1>3
<1>6. \A q, i : Coming(t, q, i) = Coming(o, q, i) /\ Moving(t, i, Unstored \cup {"handOver"}) = Moving(o, i, Unstored \cup {"handOver"})
  BY <1>1, <1>4 DEF Coming, Moving, Unstored
<1>7. ASSUME NEW q \in Players, NEW i \in Item PROVE purse'[q] = purse[q] /\ goods'[q][i] = goods[q][i]
  <2>1. /\ purse[q] = GoldGain(gold[q], Earned(q)) - Owed(q)
        /\ purse'[q] = GoldGain(gold'[q], Earned(q)') - Owed(q)'
        /\ goods[q][i] = Held(bag[q], i) + Expected(q, i) - Moving(task[q], i, Unstored \cup {"handOver"})
        /\ goods'[q][i] = Held(bag'[q], i) + Expected(q, i)' - Moving(task'[q], i, Unstored \cup {"handOver"})
        /\ gold[q] \in 0 .. CoinMax /\ gold'[q] \in 0 .. CoinMax
        /\ Owed(q)' + Due(o, q, {"charge"}) = Owed(q) + Due(t, q, {"charge"})
        /\ Expected(q, i)' + Coming(o, q, i) = Expected(q, i) + Coming(t, q, i)
        /\ Owed(q) \in Nat /\ Owed(q)' \in Nat /\ Expected(q, i) \in Nat /\ Expected(q, i)' \in Nat
    <3>1. Mapped(p, t, q, i)
      BY <1>4, MappedAt
    <3> QED
      BY <3>1 DEF Mapped
  <2>2. Coming(o, q, i) \in Nat
    BY <1>2, MovingIs
  <2>3. goods'[q][i] = goods[q][i]
    <3>1. Expected(q, i)' = Expected(q, i)
      BY <1>6, <2>1, <2>2
    <3>2. Moving(task'[q], i, Unstored \cup {"handOver"}) = Moving(task[q], i, Unstored \cup {"handOver"})
      BY <1>4, <1>6
    <3> QED
      BY <1>1, <2>1, <3>1, <3>2
  <2>4. Due(t, q, {"charge"}) = 0 /\ Due(o, q, {"charge"}) = IF c = q THEN Cost(p) ELSE 0
    BY <1>1, <1>2, <1>4 DEF Due
  <2>5. Earned(q)' = Earned(q)
    BY <1>1, <1>4 DEF Earned, Cost
  <2>6. CASE q = c
    <3>1. Earned(q) = 0
      BY <1>3, <2>6 DEF Earned
    <3>2. GoldGain(gold[q], 0) = gold[q] /\ GoldGain(gold'[q], 0) = gold'[q]
      BY <2>1, GainIs
    <3>3. Owed(q)' + Cost(p) = Owed(q)
      BY <1>2, <2>1, <2>4, <2>6
    <3>4. purse'[q] = purse[q]
      BY <1>2, <1>5, <2>1, <2>5, <2>6, <3>1, <3>2, <3>3
    <3> QED
      BY <2>3, <3>4
  <2>7. CASE q # c
    <3>1. Owed(q)' = Owed(q)
      BY <2>1, <2>4, <2>7
    <3> QED
      BY <1>5, <2>1, <2>3, <2>5, <2>7, <3>1
  <2> QED
    BY <2>6, <2>7
<1> QED
  BY <1>3, <1>4, <1>7, Stutters

LEMMA CreditIsSilent ==
  ASSUME Trade, Trade', Collectors \cap Suppliers = {}, NEW p \in Players, Credit(p)
  PROVE  UNCHANGED <<purse, goods>>
<1> DEFINE o == task[p]
<1>1. o.at = "credit" /\ gold' = [gold EXCEPT ![p] = GoldGain(@, Cost(p))] /\ Goto(p, "strike") /\ bag' = bag
  BY DEF Credit
<1>2. /\ o \in Task /\ Cost(p) \in Nat /\ o.want.item \in Item /\ gold \in [Players -> 0 .. CoinMax]
  <2>1. o \in Task /\ Cost(p) \in Nat
    BY <1>1, SaleIs
  <2>2. Honest(p) /\ Inv
    BY DEF Trade, Funding
  <2>3. o.want.item \in Item
    BY <1>1, <2>2 DEF Honest
  <2>4. gold \in [Players -> 0 .. CoinMax]
    BY <2>2 DEF Inv, TypeOK
  <2> QED
    BY <2>1, <2>3, <2>4
<1>4. PICK t \in Task : /\ task' = [task EXCEPT ![p] = t] /\ task'[p] = t /\ t.at = "strike"
                        /\ t.of = o.of /\ t.want = o.want /\ t.n = o.n
                        /\ \A r \in Players \ {p} : task'[r] = task[r]
  BY <1>1, SaleGoes DEF Stages
<1>5. gold'[p] = GoldGain(gold[p], Cost(p)) /\ \A q \in Players \ {p} : gold'[q] = gold[q]
  BY <1>1, <1>2
<1>6. \A q, i : Coming(t, q, i) = Coming(o, q, i) /\ Moving(t, i, Unstored \cup {"handOver"}) = Moving(o, i, Unstored \cup {"handOver"})
  BY <1>1, <1>4 DEF Coming, Moving, Unstored
<1>7. ASSUME NEW q \in Players, NEW i \in Item PROVE purse'[q] = purse[q] /\ goods'[q][i] = goods[q][i]
  <2>1. /\ purse[q] = GoldGain(gold[q], Earned(q)) - Owed(q)
        /\ purse'[q] = GoldGain(gold'[q], Earned(q)') - Owed(q)'
        /\ goods[q][i] = Held(bag[q], i) + Expected(q, i) - Moving(task[q], i, Unstored \cup {"handOver"})
        /\ goods'[q][i] = Held(bag'[q], i) + Expected(q, i)' - Moving(task'[q], i, Unstored \cup {"handOver"})
        /\ gold[q] \in 0 .. CoinMax /\ gold'[q] \in 0 .. CoinMax
        /\ Owed(q)' + Due(o, q, {"charge"}) = Owed(q) + Due(t, q, {"charge"})
        /\ Expected(q, i)' + Coming(o, q, i) = Expected(q, i) + Coming(t, q, i)
        /\ Owed(q) \in Nat /\ Owed(q)' \in Nat /\ Expected(q, i) \in Nat /\ Expected(q, i)' \in Nat
    <3>1. Mapped(p, t, q, i)
      BY <1>4, MappedAt
    <3> QED
      BY <3>1 DEF Mapped
  <2>2. Coming(o, q, i) \in Nat
    BY <1>2, MovingIs
  <2>3. goods'[q][i] = goods[q][i]
    <3>1. Expected(q, i)' = Expected(q, i)
      BY <1>6, <2>1, <2>2
    <3>2. Moving(task'[q], i, Unstored \cup {"handOver"}) = Moving(task[q], i, Unstored \cup {"handOver"})
      BY <1>4, <1>6
    <3> QED
      BY <1>1, <2>1, <3>1, <3>2
  <2>4. Owed(q)' = Owed(q)
    <3>1. Due(t, q, {"charge"}) = 0 /\ Due(o, q, {"charge"}) = 0
      BY <1>1, <1>4 DEF Due
    <3> QED
      BY <2>1, <3>1
  <2>5. GoldGain(gold'[q], Earned(q)') = GoldGain(gold[q], Earned(q))
    <3>1. CASE q = p
      <4>1. Earned(q) = Cost(p) /\ Earned(q)' = 0
        BY <1>1, <1>4, <3>1 DEF Earned
      <4> QED
        BY <1>2, <1>5, <2>1, <3>1, <4>1, GainIs
    <3>2. CASE q # p
      <4>1. Earned(q)' = Earned(q)
        BY <1>4, <3>2 DEF Earned, Cost
      <4> QED
        BY <1>5, <3>2, <4>1
    <3> QED
      BY <3>1, <3>2
  <2> QED
    BY <2>1, <2>3, <2>4, <2>5
<1> QED
  BY <1>2, <1>4, <1>7, Stutters

\* The purses are not touched: only the goods remain to be shown.
LEMMA SameGold ==
  ASSUME Trade, Trade', NEW p \in Players, NEW t \in Task, task' = [task EXCEPT ![p] = t], task'[p] = t,
         \A r \in Players \ {p} : task'[r] = task[r], gold' = gold, NEW x \in Item,
         t.at \notin {"charge", "credit"}, task[p].at \notin {"charge", "credit"},
         \A q \in Players, i \in Item :
           Held(bag'[q], i) + Expected(q, i)' - Moving(task'[q], i, Unstored \cup {"handOver"})
             = Held(bag[q], i) + Expected(q, i) - Moving(task[q], i, Unstored \cup {"handOver"})
  PROVE  UNCHANGED <<purse, goods>>
<1>1. \A q \in Players : Earned(q)' = Earned(q)
  BY DEF Earned, Cost
<1>2. ASSUME NEW q \in Players, NEW i \in Item PROVE purse'[q] = purse[q] /\ goods'[q][i] = goods[q][i]
  <2>1. /\ purse[q] = GoldGain(gold[q], Earned(q)) - Owed(q)
        /\ purse'[q] = GoldGain(gold'[q], Earned(q)') - Owed(q)'
        /\ goods[q][i] = Held(bag[q], i) + Expected(q, i) - Moving(task[q], i, Unstored \cup {"handOver"})
        /\ goods'[q][i] = Held(bag'[q], i) + Expected(q, i)' - Moving(task'[q], i, Unstored \cup {"handOver"})
        /\ Owed(q)' + Due(task[p], q, {"charge"}) = Owed(q) + Due(t, q, {"charge"})
        /\ Owed(q) \in Nat /\ Owed(q)' \in Nat
    <3>1. Mapped(p, t, q, i)
      BY MappedAt
    <3> QED
      BY <3>1 DEF Mapped
  <2>2. Due(t, q, {"charge"}) = 0 /\ Due(task[p], q, {"charge"}) = 0
    BY DEF Due
  <2>3. Owed(q)' = Owed(q)
    BY <2>1, <2>2
  <2> QED
    BY <1>1, <2>1, <2>3
<1> QED
  BY <1>2, Stutters

\* The slot found takes all the units.
LEMMA AddedIs ==
  ASSUME NEW old \in Stack, NEW t \in Task, t.want.item \in Item, t.n < CountMod, Free(old, t.want, t.n), NEW i \in Item
  PROVE  /\ AddedTo(old, t) \in Stack
         /\ UnitsOf(AddedTo(old, t), i) = UnitsOf(old, i) + (IF t.want.item = i THEN t.n ELSE 0)
<1>1. t.want \in Want /\ t.n \in Nat /\ old.count \in Nat /\ old.count < CountMod /\ NoItem \notin Item
  BY DEF Task, Stack, Item
<1>2. CASE old.item = t.want.item
  <2>1. old.count + t.n < CountMod
    BY <1>1, <1>2 DEF Free
  <2>2. Clamp(old.count + t.n, CountMod - 1) = old.count + t.n
    BY <1>1, <2>1 DEF Clamp
  <2>3. AddedTo(old, t) = [old EXCEPT !.count = old.count + t.n]
    BY <1>2, <2>2 DEF AddedTo
  <2>4. AddedTo(old, t) \in Stack /\ AddedTo(old, t).item = t.want.item /\ AddedTo(old, t).count = old.count + t.n
    BY <1>1, <1>2, <2>1, <2>3 DEF Stack
  <2> QED
    BY <1>1, <1>2, <2>4 DEF UnitsOf
<1>3. CASE old.item # t.want.item
  <2>1. old.item = NoItem
    BY <1>3 DEF Free
  <2>2. AddedTo(old, t) = [item |-> t.want.item, count |-> t.n]
    BY <1>3 DEF AddedTo
  <2>3. AddedTo(old, t) \in Stack
    BY <1>1, <2>2 DEF Stack
  <2> QED
    BY <1>1, <2>1, <2>2, <2>3 DEF UnitsOf
<1> QED
  BY <1>2, <1>3

LEMMA StoreIsSilent ==
  ASSUME Trade, Trade', Collectors \cap Suppliers = {}, NEW p \in Players, Store(p)
  PROVE  UNCHANGED <<purse, goods>>
<1> DEFINE o == task[p]
           c == o.of
<1>1. /\ o.at = "store" /\ bag' = [bag EXCEPT ![c][o.dest] = AddedTo(@, o)] /\ Goto(p, "handOver") /\ gold' = gold
  BY DEF Store
<1>2. /\ o \in Task /\ c \in Players /\ o.dest \in Slots /\ o.n \in Nat /\ o.n < CountMod
      /\ p \in Suppliers /\ c \in Collectors /\ c # p
  BY <1>1, SaleIs
<1>3. /\ o.want.item \in Item /\ Free(bag[c][o.dest], o.want, o.n) /\ bag \in [Players -> Bag]
  <2>1. Honest(p) /\ bag \in [Players -> Bag]
    BY DEF Trade, Funding, Inv, TypeOK
  <2> QED
    BY <1>1, <2>1 DEF Honest, Unstored
<1>4. PICK t \in Task : /\ task' = [task EXCEPT ![p] = t] /\ task'[p] = t /\ t.at = "handOver"
                        /\ t.of = c /\ t.want = o.want /\ t.n = o.n
                        /\ \A r \in Players \ {p} : task'[r] = task[r]
  BY <1>1, SaleGoes DEF Stages
<1>5. /\ bag'[c] = [bag[c] EXCEPT ![o.dest] = AddedTo(bag[c][o.dest], o)]
      /\ \A q \in Players \ {c} : bag'[q] = bag[q]
  BY <1>1, <1>2, <1>3
<1>6. \A i : Moving(t, i, Unstored \cup {"handOver"}) = Moving(o, i, Unstored \cup {"handOver"})
  BY <1>1, <1>4 DEF Moving, Unstored
<1>7. ASSUME NEW q \in Players, NEW i \in Item
      PROVE  Held(bag'[q], i) + Expected(q, i)' - Moving(task'[q], i, Unstored \cup {"handOver"})
               = Held(bag[q], i) + Expected(q, i) - Moving(task[q], i, Unstored \cup {"handOver"})
  <2>1. /\ Expected(q, i)' + Coming(o, q, i) = Expected(q, i) + Coming(t, q, i)
        /\ Expected(q, i) \in Nat /\ Expected(q, i)' \in Nat
        /\ Moving(task[q], i, Unstored \cup {"handOver"}) \in Nat
    <3>1. Mapped(p, t, q, i)
      BY <1>4, MappedAt
    <3> QED
      BY <3>1 DEF Mapped
  <2>2. Moving(task'[q], i, Unstored \cup {"handOver"}) = Moving(task[q], i, Unstored \cup {"handOver"})
    BY <1>4, <1>6
  <2>3. Coming(t, q, i) = 0 /\ Coming(o, q, i) = IF c = q /\ o.want.item = i THEN o.n ELSE 0
    BY <1>1, <1>4 DEF Coming, Moving, Unstored
  <2>4. CASE q # c
    <3>1. bag'[q] = bag[q] /\ Expected(q, i)' = Expected(q, i)
      BY <1>5, <2>1, <2>3, <2>4
    <3> QED
      BY <2>2, <3>1
  <2>5. CASE q = c
    <3> DEFINE old == bag[q][o.dest]
               new == AddedTo(old, o)
    <3>1. bag[q] \in Bag /\ old \in Stack
      BY <1>2, <1>3 DEF Bag
    <3>2. new \in Stack /\ UnitsOf(new, i) = UnitsOf(old, i) + (IF o.want.item = i THEN o.n ELSE 0)
      BY <1>2, <1>3, <2>5, <3>1, AddedIs
    <3>3. bag'[q] = [bag[q] EXCEPT ![o.dest] = new]
      BY <1>5, <2>5
    <3> HIDE DEF new
    <3>4. /\ Held(bag'[q], i) + UnitsOf(old, i) = Held(bag[q], i) + UnitsOf(new, i)
          /\ Held(bag'[q], i) \in Nat /\ Held(bag[q], i) \in Nat
          /\ UnitsOf(old, i) \in Nat /\ UnitsOf(new, i) \in Nat
      BY <1>2, <3>1, <3>2, <3>3, HeldChanges
    <3> HIDE DEF old
    <3>5. Held(bag'[q], i) = Held(bag[q], i) + (IF o.want.item = i THEN o.n ELSE 0)
      BY <1>2, <3>2, <3>4
    <3>6. Expected(q, i)' + (IF o.want.item = i THEN o.n ELSE 0) = Expected(q, i)
      BY <2>1, <2>3, <2>5
    <3> QED
      BY <1>2, <2>1, <2>2, <3>4, <3>5, <3>6
  <2> QED
    BY <2>4, <2>5
<1> QED
  BY <1>1, <1>3, <1>4, <1>7, SameGold

\* What the supplier is left with is what was seen less what was sold.
LEMMA HandedIs ==
  ASSUME NEW old \in Stack, NEW t \in Task, t.want.item \in Item, t.held < CountMod, t.n <= t.held,
         old.item = t.want.item, old.count = t.held, NEW i \in Item
  PROVE  /\ HandedOver(old, t) \in Stack
         /\ UnitsOf(HandedOver(old, t), i) + (IF t.want.item = i THEN t.n ELSE 0) = UnitsOf(old, i)
<1>1. t.want \in Want /\ t.n \in Nat /\ t.held \in Nat /\ NoItem \notin Item
  BY DEF Task, Item
<1>2. CASE t.held = t.n
  <2>1. HandedOver(old, t) = Empty
    BY <1>2 DEF HandedOver
  <2> QED
    BY <1>1, <1>2, <2>1, EmptyIs DEF UnitsOf, Empty
<1>3. CASE t.held # t.n
  <2>1. HandedOver(old, t) = [old EXCEPT !.count = t.held - t.n]
    BY <1>3 DEF HandedOver
  <2>2. /\ HandedOver(old, t) \in Stack /\ HandedOver(old, t).item = t.want.item
        /\ HandedOver(old, t).count = t.held - t.n
    BY <1>1, <2>1 DEF Stack
  <2> QED
    BY <1>1, <2>2 DEF UnitsOf
<1> QED
  BY <1>2, <1>3

LEMMA HandOverIsSilent ==
  ASSUME Trade, Trade', NEW p \in Players, HandOver(p)
  PROVE  UNCHANGED <<purse, goods>>
<1> DEFINE o == task[p]
<1>1. /\ o.at = "handOver" /\ bag' = [bag EXCEPT ![p][o.slot] = HandedOver(@, o)] /\ Goto(p, "close") /\ gold' = gold
  BY DEF HandOver
<1>2. o \in Task /\ o.slot \in Slots /\ o.n \in Nat /\ o.n <= o.held /\ o.held \in Nat /\ o.held < CountMod
  BY <1>1, SaleIs
<1>3. /\ o.want.item \in Item /\ bag[p][o.slot].item = o.want.item /\ bag[p][o.slot].count = o.held
      /\ bag \in [Players -> Bag]
  <2>1. Honest(p) /\ bag \in [Players -> Bag]
    BY DEF Trade, Funding, Inv, TypeOK
  <2> QED
    BY <1>1, <2>1 DEF Honest, Unstored
<1>4. PICK t \in Task : /\ task' = [task EXCEPT ![p] = t] /\ task'[p] = t /\ t.at = "close"
                        /\ t.of = o.of /\ t.want = o.want /\ t.n = o.n
                        /\ \A r \in Players \ {p} : task'[r] = task[r]
  BY <1>1, SaleGoes DEF Stages
<1>5. /\ bag'[p] = [bag[p] EXCEPT ![o.slot] = HandedOver(bag[p][o.slot], o)]
      /\ \A q \in Players \ {p} : bag'[q] = bag[q]
  BY <1>1, <1>2, <1>3
<1>6. ASSUME NEW q \in Players, NEW i \in Item
      PROVE  Held(bag'[q], i) + Expected(q, i)' - Moving(task'[q], i, Unstored \cup {"handOver"})
               = Held(bag[q], i) + Expected(q, i) - Moving(task[q], i, Unstored \cup {"handOver"})
  <2>1. /\ Expected(q, i)' + Coming(o, q, i) = Expected(q, i) + Coming(t, q, i)
        /\ Expected(q, i) \in Nat /\ Expected(q, i)' \in Nat
        /\ Moving(task[q], i, Unstored \cup {"handOver"}) \in Nat
    <3>1. Mapped(p, t, q, i)
      BY <1>4, MappedAt
    <3> QED
      BY <3>1 DEF Mapped
  <2>2. Expected(q, i)' = Expected(q, i)
    <3>1. Coming(t, q, i) = 0 /\ Coming(o, q, i) = 0
      BY <1>1, <1>4 DEF Coming, Moving, Unstored
    <3> QED
      BY <2>1, <3>1
  <2>3. CASE q # p
    <3>1. bag'[q] = bag[q] /\ task'[q] = task[q]
      BY <1>4, <1>5, <2>3
    <3> QED
      BY <2>2, <3>1
  <2>4. CASE q = p
    <3> DEFINE old == bag[q][o.slot]
               new == HandedOver(old, o)
               sold == IF o.want.item = i THEN o.n ELSE 0
    <3>1. bag[q] \in Bag /\ old \in Stack
      BY <1>2, <1>3 DEF Bag
    <3>2. new \in Stack /\ UnitsOf(new, i) + sold = UnitsOf(old, i)
      BY <1>2, <1>3, <2>4, <3>1, HandedIs
    <3>3. bag'[q] = [bag[q] EXCEPT ![o.slot] = new]
      BY <1>5, <2>4
    <3> HIDE DEF new
    <3>4. /\ Held(bag'[q], i) + UnitsOf(old, i) = Held(bag[q], i) + UnitsOf(new, i)
          /\ Held(bag'[q], i) \in Nat /\ Held(bag[q], i) \in Nat
          /\ UnitsOf(old, i) \in Nat /\ UnitsOf(new, i) \in Nat
      BY <1>2, <3>1, <3>2, <3>3, HeldChanges
    <3> HIDE DEF old
    <3>5. sold \in Nat
      BY <1>2
    <3>6. Moving(task[q], i, Unstored \cup {"handOver"}) = sold /\ Moving(task'[q], i, Unstored \cup {"handOver"}) = 0
      BY <1>1, <1>4, <2>4 DEF Moving, Unstored
    <3> HIDE DEF sold
    <3>7. Held(bag'[q], i) + sold = Held(bag[q], i)
      BY <3>2, <3>4, <3>5
    <3> QED
      BY <2>1, <2>2, <3>4, <3>5, <3>6, <3>7
  <2> QED
    BY <2>3, <2>4
<1> QED
  BY <1>1, <1>3, <1>4, <1>6, SameGold

LEMMA PlainIsSilent ==
  ASSUME Trade, NEW p \in Players,
         \/ Open(p) \/ Close(p) \/ StopBrowsing(p) \/ (\E order \in Orders : Insert(p, order))
         \/ Look(p) \/ (\E q \in Collectors : Browse(p, q))
         \/ Strike(p) \/ CloseIfDone(p) \/ HangUp(p)
  PROVE  UNCHANGED <<purse, goods>>
<1>1. UNCHANGED <<gold, bag>> /\ task \in [Players -> Task] /\ Inv
  BY DEF Open, Close, StopBrowsing, Insert, Look, Browse, Strike, CloseIfDone, HangUp, Trade, Funding, Inv, TypeOK
<1>2. CASE Open(p) \/ Close(p) \/ StopBrowsing(p) \/ \E order \in Orders : Insert(p, order)
  <2>1. task' = task
    BY <1>2 DEF Open, Close, StopBrowsing, Insert
  <2>2. task' = [task EXCEPT ![p] = task[p]] /\ task[p] \in Task
    BY <1>1, <2>1
  <2> QED
    BY <1>1, <2>2, Silent
<1>3. CASE Look(p) \/ CloseIfDone(p)
  <2>1. task' = [task EXCEPT ![p] = Idle] /\ task[p].at \in {"look", "close"}
    BY <1>3 DEF Look, CloseIfDone, Done
  <2>2. Idle \in Task /\ Idle.at = "idle"
    BY IdleIs
  <2> QED
    BY <1>1, <2>1, <2>2, Silent DEF Unstored
<1>4. ASSUME NEW q \in Collectors, Browse(p, q) PROVE UNCHANGED <<purse, goods>>
  <2> DEFINE t == [Idle EXCEPT !.at = "look", !.of = q]
  <2>1. t \in Task /\ t.at = "look"
    BY IdleIs DEF Task, Stages, Players
  <2>2. task' = [task EXCEPT ![p] = t] /\ task[p].at = "idle"
    BY <1>4 DEF Browse, Ready
  <2> HIDE DEF t
  <2> QED
    BY <1>1, <2>1, <2>2, Silent DEF Unstored
<1>5. CASE Strike(p)
  <2>1. Goto(p, "store") /\ task[p].at = "strike"
    BY <1>5 DEF Strike
  <2>2. PICK t \in Task : /\ task' = [task EXCEPT ![p] = t] /\ t.at = "store"
                          /\ t.of = task[p].of /\ t.want = task[p].want /\ t.n = task[p].n
    BY <2>1, SaleGoes DEF Stages
  <2> QED
    BY <1>1, <2>1, <2>2, Silent DEF Unstored
<1>6. CASE HangUp(p)
  <2>1. task[p].at = "close"
    BY <1>1, <1>6, HangUpIs
  <2>2. PICK t \in Task : t.at = "cut" /\ task' = [task EXCEPT ![p] = t]
    BY <1>1, <1>6, HangUpIs
  <2> QED
    BY <1>1, <2>1, <2>2, Silent DEF Unstored
<1> QED
  BY <1>2, <1>3, <1>4, <1>5, <1>6

\* When its checks have passed a sale is made.
LEMMA StartIsSale ==
  ASSUME Trade, Trade', ~Crowding, Collectors \cap Suppliers = {}, NEW p \in Players,
         NEW s \in Slots, NEW k \in Places, NEW n \in Amounts, StartSale(p, s, k, n)
  PROVE  Sales!Next
<1>1. PICK q \in Collectors, w \in Want, held \in Nat, d \in Slots :
           /\ task' = [task EXCEPT ![p] = Begun(q, k, w, n, s, held, d)]
           /\ p \in Suppliers /\ q # p /\ q \in Players /\ task[p].at = "idle"
           /\ \A r \in Selling : task[r].of # q
           /\ w.item \in Item /\ w.price \in Prices /\ w.price * n <= gold[q] /\ n >= 1 /\ n <= held
           /\ bag[p][s].item = w.item /\ bag[p][s].count = held
  BY StartFacts
<1> DEFINE t == Begun(q, k, w, n, s, held, d)
           i == w.item
           cost == w.price * n
<1>2. n \in Nat
  OBVIOUS
<1>3. w.price \in Nat
  BY DEF Want
<1>4. cost \in Nat
  BY <1>2, <1>3
<1>5. t \in Task /\ t.at = "charge" /\ t.of = q /\ t.want = w /\ t.n = n
  <2>1. t.at = "charge" /\ t.of = q /\ t.want = w /\ t.n = n
    BY DEF Begun, Idle
  <2>2. q \in Players /\ n \in Nat
    BY <1>1, <1>2
  <2>3. t \in Task
    BY <2>2 DEF Begun, Idle, Task, Stages
  <2> QED
    BY <2>1, <2>3
<1>6. /\ task' = [task EXCEPT ![p] = t] /\ UNCHANGED <<gold, bag>>
      /\ task \in [Players -> Task] /\ gold \in [Players -> 0 .. CoinMax] /\ bag \in [Players -> Bag] /\ Inv
  BY <1>1 DEF StartSale, Trade, Funding, Inv, TypeOK
<1> HIDE DEF t, cost
<1>7. task'[p] = t /\ \A r \in Players \ {p} : task'[r] = task[r]
  BY <1>6
<1>8. \A r \in Selling : task[r].of # p
  <2>1. \A r \in Selling : task[r].of \in Collectors
    BY DEF Trade, Honest, Selling
  <2> QED
    BY <1>1, <2>1
<1>9. task[q].at = "idle"
  <2>1. Honest(q)
    BY <1>1 DEF Trade
  <2> QED
    BY <1>1, <2>1 DEF Honest
<1>10. /\ Earned(p) = 0 /\ Earned(q) = 0
       /\ \A j : Moving(task[p], j, Unstored \cup {"handOver"}) = 0 /\ Moving(task[q], j, Unstored \cup {"handOver"}) = 0
  BY <1>1, <1>9, NoneEarned DEF Unstored
<1>11. Owed(q) = 0 /\ Owed(p) = 0 /\ \A j : Expected(q, j) = 0 /\ Expected(p, j) = 0
  BY <1>1, <1>6, <1>8, NothingComes
<1>12. Earned(p)' = cost /\ \A r \in Players \ {p} : Earned(r)' = Earned(r)
  BY <1>5, <1>7 DEF Earned, Cost, cost
<1>13. ASSUME NEW r \in Players
       PROVE  purse'[r] = IF r = q THEN purse[q] - cost ELSE IF r = p THEN Sales!Gain(purse[p], cost) ELSE purse[r]
  <2>1. /\ purse[r] = GoldGain(gold[r], Earned(r)) - Owed(r)
        /\ purse'[r] = GoldGain(gold'[r], Earned(r)') - Owed(r)'
        /\ gold[r] \in 0 .. CoinMax
        /\ Owed(r)' + Due(task[p], r, {"charge"}) = Owed(r) + Due(t, r, {"charge"})
        /\ Owed(r) \in Nat /\ Owed(r)' \in Nat
    <3>1. Mapped(p, t, r, i)
      BY <1>1, <1>5, <1>6, MappedAt
    <3> QED
      BY <3>1 DEF Mapped
  <2>2. Due(task[p], r, {"charge"}) = 0 /\ Due(t, r, {"charge"}) = IF r = q THEN cost ELSE 0
    BY <1>1, <1>5 DEF Due, cost
  <2>3. GoldGain(gold[r], 0) = gold[r]
    BY <2>1, GainIs
  <2>4. CASE r = q
    <3>1. Owed(r)' = cost /\ Earned(r)' = 0
      BY <1>1, <1>4, <1>10, <1>11, <1>12, <2>1, <2>2, <2>4
    <3> QED
      BY <1>4, <1>6, <1>10, <1>11, <2>1, <2>3, <2>4, <3>1
  <2>5. CASE r = p
    <3>1. Owed(r)' = 0
      BY <1>1, <1>11, <2>1, <2>2, <2>5
    <3>2. purse[r] = gold[r] /\ purse'[r] = GoldGain(gold[r], cost)
      BY <1>4, <1>6, <1>10, <1>11, <1>12, <2>1, <2>3, <2>5, <3>1 DEF GoldGain, Clamp
    <3>3. Sales!Gain(gold[r], cost) = GoldGain(gold[r], cost)
      BY DEF Sales!Gain, GoldGain, Clamp
    <3> QED
      BY <1>1, <2>5, <3>2, <3>3
  <2>6. CASE r # p /\ r # q
    <3>1. Owed(r)' = Owed(r) /\ Earned(r)' = Earned(r)
      BY <1>12, <2>1, <2>2, <2>6
    <3> QED
      BY <1>6, <2>1, <2>6, <3>1
  <2> QED
    BY <2>4, <2>5, <2>6
<1>14. ASSUME NEW r \in Players, NEW j \in Item
       PROVE  goods'[r][j] = IF j = i /\ r = q THEN goods[q][i] + n
                             ELSE IF j = i /\ r = p THEN goods[p][i] - n ELSE goods[r][j]
  <2>1. /\ goods[r][j] = Held(bag[r], j) + Expected(r, j) - Moving(task[r], j, Unstored \cup {"handOver"})
        /\ goods'[r][j] = Held(bag'[r], j) + Expected(r, j)' - Moving(task'[r], j, Unstored \cup {"handOver"})
        /\ Expected(r, j)' + Coming(task[p], r, j) = Expected(r, j) + Coming(t, r, j)
        /\ Expected(r, j) \in Nat /\ Expected(r, j)' \in Nat
    <3>1. Mapped(p, t, r, j)
      BY <1>5, <1>6, MappedAt
    <3> QED
      BY <3>1 DEF Mapped
  <2>2. /\ Coming(task[p], r, j) = 0 /\ Coming(t, r, j) = IF r = q /\ j = i THEN n ELSE 0
        /\ Moving(t, j, Unstored \cup {"handOver"}) = IF j = i THEN n ELSE 0
    BY <1>1, <1>5 DEF Coming, Moving, Unstored
  <2>3. Held(bag[r], j) \in Nat /\ bag'[r] = bag[r]
    BY <1>6, BagHolds
  <2>4. CASE r = q
    <3>1. Moving(task'[r], j, Unstored \cup {"handOver"}) = 0 /\ Moving(task[r], j, Unstored \cup {"handOver"}) = 0
      BY <1>1, <1>7, <1>10, <2>4
    <3>2. Expected(r, j) = 0 /\ Expected(r, j)' = IF j = i THEN n ELSE 0
      BY <1>2, <1>11, <2>1, <2>2, <2>4
    <3> QED
      BY <1>2, <2>1, <2>3, <2>4, <3>1, <3>2
  <2>5. CASE r = p
    <3>1. /\ Moving(task[r], j, Unstored \cup {"handOver"}) = 0
          /\ Moving(task'[r], j, Unstored \cup {"handOver"}) = IF j = i THEN n ELSE 0
      BY <1>7, <1>10, <2>2, <2>5
    <3>2. Expected(r, j) = 0 /\ Expected(r, j)' = 0
      BY <1>1, <1>11, <2>1, <2>2, <2>5
    <3> QED
      BY <1>1, <1>2, <2>1, <2>3, <2>5, <3>1, <3>2
  <2>6. CASE r # p /\ r # q
    <3>1. Moving(task'[r], j, Unstored \cup {"handOver"}) = Moving(task[r], j, Unstored \cup {"handOver"})
      BY <1>7, <2>6
    <3>2. Expected(r, j)' = Expected(r, j)
      BY <2>1, <2>2, <2>6
    <3> QED
      BY <2>1, <2>3, <2>6, <3>1, <3>2
  <2> QED
    BY <2>4, <2>5, <2>6
<1>15. purse[q] = gold[q] /\ cost <= purse[q]
  <2>1. Mapped(p, t, q, i)
    BY <1>1, <1>5, <1>6, MappedAt
  <2>2. purse[q] = GoldGain(gold[q], Earned(q)) - Owed(q) /\ gold[q] \in 0 .. CoinMax
    BY <2>1 DEF Mapped
  <2>3. GoldGain(gold[q], 0) = gold[q]
    BY <2>2, GainIs
  <2> QED
    BY <1>1, <1>10, <1>11, <2>2, <2>3 DEF cost
<1>16. n \in 1 .. goods[p][i]
  <2>1. Mapped(p, t, p, i)
    BY <1>1, <1>5, <1>6, MappedAt
  <2>2. goods[p][i] = Held(bag[p], i) + Expected(p, i) - Moving(task[p], i, Unstored \cup {"handOver"})
    BY <2>1 DEF Mapped
  <2>3. UnitsOf(bag[p][s], i) = held /\ UnitsOf(bag[p][s], i) <= Held(bag[p], i) /\ Held(bag[p], i) \in Nat
    BY <1>1, <1>6, HeldIs DEF UnitsOf
  <2>4. Expected(p, i) = 0 /\ Moving(task[p], i, Unstored \cup {"handOver"}) = 0
    BY <1>10, <1>11
  <2>5. goods[p][i] = Held(bag[p], i)
    BY <2>2, <2>3, <2>4
  <2>6. n >= 1 /\ n <= held /\ held <= Held(bag[p], i) /\ held \in Nat
    BY <1>1, <2>3
  <2> QED
    BY <1>2, <2>3, <2>5, <2>6
<1>17. purse' = [purse EXCEPT ![q] = @ - w.price * n, ![p] = Sales!Gain(@, w.price * n)]
  <2>1. /\ purse = [r \in Players |-> purse[r]] /\ purse' = [r \in Players |-> purse'[r]]
    BY MappedFunctions
  <2>2. [purse EXCEPT ![q] = @ - w.price * n, ![p] = Sales!Gain(@, w.price * n)]
          = [r \in Players |-> IF r = q THEN purse[q] - cost ELSE IF r = p THEN Sales!Gain(purse[p], cost) ELSE purse[r]]
    BY <1>1, <2>1 DEF cost
  <2>3. [r \in Players |-> purse'[r]] = [r \in Players |-> IF r = q THEN purse[q] - cost ELSE IF r = p THEN Sales!Gain(purse[p], cost) ELSE purse[r]]
    BY <1>13
  <2> QED
    BY <2>1, <2>2, <2>3, Zenon
<1>18. goods' = [goods EXCEPT ![p][i] = @ - n, ![q][i] = @ + n]
  <2> DEFINE new(r, j) == IF j = i /\ r = q THEN goods[q][i] + n ELSE IF j = i /\ r = p THEN goods[p][i] - n ELSE goods[r][j]
  <2>1. /\ goods = [r \in Players |-> [j \in Item |-> goods[r][j]]]
        /\ goods' = [r \in Players |-> [j \in Item |-> goods'[r][j]]]
    BY MappedFunctions
  <2>2. [goods EXCEPT ![p][i] = @ - n, ![q][i] = @ + n] = [r \in Players |-> [j \in Item |-> new(r, j)]]
    BY <1>1, <2>1
  <2>3. [r \in Players |-> [j \in Item |-> goods'[r][j]]] = [r \in Players |-> [j \in Item |-> new(r, j)]]
    BY <1>14
  <2> QED
    BY <2>1, <2>2, <2>3, Zenon
<1>19. Sales!Sell(p, q, i, n, w.price)
  BY <1>1, <1>15, <1>16, <1>17, <1>18 DEF Sales!Sell, cost
<1> QED
  BY <1>1, <1>16, <1>19 DEF Sales!Next, Prices

LEMMA InitSells == Init => Sales!Init
<1> SUFFICES ASSUME Init PROVE Sales!Init
  OBVIOUS
<1>1. Inv /\ \A p \in Players : task[p].at = "idle"
  BY InitInv, IdleIs DEF Init
<1>2. gold \in [Players -> 0 .. CoinMax] /\ bag \in [Players -> Bag] /\ Selling = {}
  BY <1>1 DEF Inv, TypeOK, Selling
<1>3. \A q \in Players, i \in Item : Owed(q) = 0 /\ Expected(q, i) = 0 /\ Earned(q) = 0
                                    /\ Moving(task[q], i, Unstored \cup {"handOver"}) = 0
  BY <1>1, <1>2, NothingComes, NoneEarned DEF Unstored
<1>4. ASSUME NEW q \in Players PROVE GoldGain(gold[q], Earned(q)) - Owed(q) \in Nat
  <2>1. Owed(q) = 0 /\ Earned(q) = 0
    BY <1>1, <1>2, NothingComes, NoneEarned DEF Unstored
  <2> QED
    BY <1>2, <2>1 DEF GoldGain, Clamp
<1>5. ASSUME NEW q \in Players, NEW i \in Item
      PROVE  Held(bag[q], i) + Expected(q, i) - Moving(task[q], i, Unstored \cup {"handOver"}) \in Nat
  <2>1. Held(bag[q], i) \in Nat
    BY <1>2, BagHolds
  <2>2. Expected(q, i) = 0 /\ Moving(task[q], i, Unstored \cup {"handOver"}) = 0
    BY <1>3
  <2> QED
    BY <2>1, <2>2
<1> QED
  BY <1>4, <1>5 DEF Sales!Init, purse, goods

LEMMA NextSells ==
  ASSUME ~Crowding, Collectors \cap Suppliers = {}
  PROVE  Trade /\ Trade' /\ [Next]_vars => [Sales!Next]_(Sales!vars)
<1> SUFFICES ASSUME Trade, Trade', [Next]_vars PROVE Sales!Next \/ UNCHANGED Sales!vars
  OBVIOUS
<1>1. CASE UNCHANGED vars
  <2>1. UNCHANGED <<gold, bag, task>>
    BY <1>1 DEF vars
  <2> QED
    BY <2>1 DEF Sales!vars, purse, goods, GoldGain, Clamp, Earned, Cost, Owed, Due, Held, UnitsOf, Expected, Moving, Unstored
<1>2. ASSUME NEW p \in Players, Step(p) PROVE Sales!Next \/ UNCHANGED Sales!vars
  <2>1. CASE \E s \in Slots, k \in Places, n \in Amounts : StartSale(p, s, k, n)
    BY <2>1, StartIsSale
  <2>2. CASE ~\E s \in Slots, k \in Places, n \in Amounts : StartSale(p, s, k, n)
    <3>1. UNCHANGED <<purse, goods>>
      BY <1>2, <2>2, PlainIsSilent, ChargeIsSilent, CreditIsSilent, StoreIsSilent, HandOverIsSilent DEF Step, SaleStep
    <3> QED
      BY <3>1 DEF Sales!vars
  <2> QED
    BY <2>1, <2>2
<1> QED
  BY <1>1, <1>2 DEF Next

\* Whatever the order in which suppliers, collectors and other stalls act, a sale to
\* a buying stall happens at the moment its checks have passed: it moves the goods
\* to the collector and the price to the supplier, and every later write of
\* buying_merchant_buy only carries that out.  For suppliers who sell one after the
\* other to a stall and keep none themselves.
THEOREM SalesToStallsAreAtomic ==
  ASSUME ~Crowding, Collectors \cap Suppliers = {} PROVE Spec => SalesAreAtomic
<1>1. Init => Trade
  BY InitTrade
<1>2. Trade /\ [Next]_vars => Trade'
  BY StepTrade
<1>3. Trade /\ Trade' /\ [Next]_vars => [Sales!Next]_(Sales!vars)
  BY NextSells
<1>4. Init => Sales!Init
  BY InitSells
<1> QED
  BY <1>1, <1>2, <1>3, <1>4, PTL DEF Spec, SalesAreAtomic, Sales!Spec
=============================================================================
