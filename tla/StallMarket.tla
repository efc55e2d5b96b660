----------------------------- MODULE StallMarket -----------------------------
(***************************************************************************)
(* The steps of merchant_item_buy seen as the atomic sales of Market.  A   *)
(* purchase counts as made when both purses have been checked; one that    *)
(* has only reserved its goods has moved nothing yet.                      *)
(***************************************************************************)
EXTENDS Stall

Reserving == {p \in Players : task[p].at \in {"pay", "restore"}}
Committed == {p \in Players : task[p].at \in {"charge", "credit", "deliver"}}
Unsettled == Reserving \cup Committed \cup {p \in Players : task[p].at = "settle"}
From(q, P) == {p \in P : task[p].of = q}

\* Units the purchases of P are about.
UnitsFor(P) == SumFunction([p \in Players |-> IF p \in P THEN task[p].n ELSE 0])

\* Units of slot s of q that purchases under way will take from it, units of
\* item i that none of them will, those reserved but not yet paid for, and those
\* paid for but not yet delivered.
Taken(q, s) == UnitsFor({p \in From(q, Unsettled) : task[p].snap.slot = s})
Unsold(q, i) == SumFunction([s \in Slots |-> IF bag[q][s].item = i THEN bag[q][s].count - Taken(q, s) ELSE 0])
Promised(q, i) == UnitsFor({p \in From(q, Reserving) : task[p].item = i})
Bought(p, i) == IF p \in Committed /\ task[p].item = i THEN task[p].n ELSE 0

\* Gold on its way to p, and gold p has yet to part with.
Earned(p) == SumFunction([r \in Players |->
  IF r \in From(p, Committed) /\ task[r].at # "deliver" THEN Cost(r) ELSE 0])
Owed(p) == IF task[p].at = "charge" THEN Cost(p) ELSE 0

purse == [p \in Players |-> GoldGain(gold[p], Earned(p)) - Owed(p)]
goods == [p \in Players |-> [i \in Item |-> Unsold(p, i) + Promised(p, i) + Bought(p, i)]]

\* Units that the next step of p destroys: those a refused shopper gives back to
\* a place whose slot has been cleared, and those still in the slot when the sale
\* of the last of the offer clears it.
Wasted(p) ==
  LET t == task[p]
      stack == bag[t.of][t.snap.slot]
  IN  IF t.at = "restore" /\ stack.item # t.item THEN t.n
      ELSE IF t.at = "settle" /\ FullySold(t) /\ stack.item = t.item
           THEN stack.count - Taken(t.of, t.snap.slot)
      ELSE 0

Sales == INSTANCE Market WITH Prices <- {o.price : o \in Postings}

\* A sale is atomic: whatever the order in which shoppers reserve, pay, are
\* refused and are served, each purchase moves its goods and its gold at one
\* point (merchant_item_buy, try_ and restore_merchant_buy).  A purchase that is
\* refused moves nothing, but around the sale of the last of its offer the units
\* it gives back are lost: the sale clears the slot they are in.
SalesAreAtomic ==
  /\ Sales!Init
  /\ [][Sales!Next \/ \E p \in Players : Sales!Lose(task[p].of, task[p].item, Wasted(p))]_<<purse, goods>>
=============================================================================
