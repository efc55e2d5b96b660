----------------------------- MODULE Inventory -----------------------------
(***************************************************************************)
(* The bag area of a character (world/inventory.rs): HAVE_MAX slots, each  *)
(* empty or holding a stack of one item, and the purse.  These are the     *)
(* pure operators every component that moves goods is built from; the      *)
(* components own the variables.                                           *)
(*                                                                         *)
(* An item is Countable (it stacks up to StackMax = ITEMCOUNT_MAX) or      *)
(* Single (one unit per slot).  Durability, serial number, flags and       *)
(* expiry travel with the stack and are not represented.                   *)
(***************************************************************************)
EXTENDS Naturals, FiniteSets, FiniteSetsExt

CONSTANTS
  HaveMax,     \* number of bag slots (HAVE_MAX)
  Countable,   \* items whose definition has countable > 0
  Single,      \* items whose definition has countable = 0
  NoItem,      \* item id 0: the slot is empty
  StackMax,    \* ITEMCOUNT_MAX
  CountMod,    \* 2^16: a stack counter is a u16
  CoinMax      \* COIN_MAX

ASSUME InventoryAssumption ==
  /\ HaveMax \in Nat
  /\ NoItem \notin Countable \cup Single
  /\ Countable \cap Single = {}
  /\ CoinMax \in Nat
  /\ StackMax \in Nat \ {0}
  /\ CountMod \in Nat /\ StackMax < CountMod

Item == Countable \cup Single
Slots == 1 .. HaveMax

\* UserItemSlot::default().
Empty == [item |-> NoItem, count |-> 0]

\* A stack may exceed StackMax: a give-back into an empty slot is not clamped.
Stack == [item : Item \cup {NoItem}, count : 0 .. CountMod - 1]
Bag == [Slots -> Stack]

\* `n as u16`.
U16(n) == n % CountMod
Clamp(n, max) == IF n > max THEN max ELSE n

\* world.gold_gain: the purse saturates at COIN_MAX.
GoldGain(purse, n) == Clamp(purse + n, CoinMax)

\* world.find_slot_for_item: the slots the scan accepts; a stack with room
\* wins over an empty slot, and the lowest index wins.  The empty set is None.
Fitting(bag, i, n) ==
  {s \in Slots : /\ i \in Countable
                 /\ bag[s].item = i
                 /\ bag[s].count + n <= StackMax}
FreeSlots(bag) == {s \in Slots : bag[s].item = NoItem}
FindSlot(bag, i, n) ==
  LET found == IF Fitting(bag, i, n) # {} THEN Fitting(bag, i, n)
                                          ELSE FreeSlots(bag)
  IN  IF found = {} THEN {} ELSE {Min(found)}

\* What the receiving closure does to the slot found: saturating add, and a
\* single item always ends with count 1.
Receive(stack, i, n) ==
  [item |-> i, count |-> IF i \in Single THEN 1 ELSE Clamp(stack.count + n, StackMax)]

\* find_slot_for_item followed by the closure: no slot, no item.
Put(bag, i, n) ==
  [s \in Slots |-> IF s \in FindSlot(bag, i, n) THEN Receive(bag[s], i, n) ELSE bag[s]]

\* Mutant: the emptied slot keeps its item id.
DeductKeepingItem(stack, n) == [stack EXCEPT !.count = @ - n]

\* Deduct n units of a slot; a slot that reaches zero becomes the default slot.
Deduct(stack, n) ==
  IF stack.count = n THEN Empty ELSE [stack EXCEPT !.count = @ - n]
Take(bag, s, n) == [bag EXCEPT ![s] = Deduct(@, n)]

\* Units of item i in a stack and in a bag.
UnitsOf(stack, i) == IF stack.item = i THEN stack.count ELSE 0
Held(bag, i) == SumFunction([s \in Slots |-> UnitsOf(bag[s], i)])
=============================================================================
