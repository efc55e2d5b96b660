---------------------------- MODULE FairExchange ----------------------------
(***************************************************************************)
(* What the exchange promises about gold, without its protocol: players    *)
(* meet in pairs, pledge part of what they own, and either swap exactly    *)
(* the two pledges or part with what they came with.  A purse counts the   *)
(* pledged gold too.  Two things cost a player the pledge: a trade that is *)
(* dropped (a player leaves or changes zone) and the loss of the session.  *)
(* Somebody who withdraws alone leaves the partner its pledge.             *)
(* Exchange implements this specification.                                 *)
(***************************************************************************)
EXTENDS Naturals

CONSTANTS Players, NoPlayer, CoinMax

VARIABLES
  purse,    \* gold owned, pledged gold included
  pledge,   \* gold on offer
  partner

vars == <<purse, pledge, partner>>

Init ==
  /\ purse \in [Players -> 0 .. CoinMax]
  /\ pledge = [p \in Players |-> 0]
  /\ partner = [p \in Players |-> NoPlayer]

AtMostMax(n) == IF n > CoinMax THEN CoinMax ELSE n

\* The players an end of p's exchange concerns.  A partner that has turned to
\* somebody else is let go as well, as long as it has pledged nothing there.
Both(p) ==
  {p} \cup {q \in Players : q = partner[p] /\ (partner[q] = p \/ pledge[q] = 0)}
Ends(P) ==
  /\ pledge' = [p \in Players |-> IF p \in P THEN 0 ELSE pledge[p]]
  /\ partner' = [p \in Players |-> IF p \in P THEN NoPlayer ELSE partner[p]]

Meet(p, q) ==
  /\ p # q /\ partner[p] = NoPlayer /\ partner[q] = NoPlayer
  /\ partner' = [partner EXCEPT ![p] = q, ![q] = p]
  /\ UNCHANGED <<purse, pledge>>

Pledge(p, n) ==
  /\ partner[p] # NoPlayer /\ n >= pledge[p] /\ n <= purse[p]
  /\ pledge' = [pledge EXCEPT ![p] = n]
  /\ UNCHANGED <<purse, partner>>

Swap(p, q) ==
  /\ partner[p] = q /\ partner[q] = p
  /\ purse' = [purse EXCEPT ![p] = (@ - pledge[p]) + pledge[q],
                            ![q] = (@ - pledge[q]) + pledge[p]]
  /\ Ends({p, q})

\* A refund fills the purse up to CoinMax.
Refunded(P) == [q \in Players |-> IF q \in P THEN AtMostMax(purse[q]) ELSE purse[q]]
Part(p) ==
  /\ partner[p] # NoPlayer
  /\ purse' = Refunded(Both(p)) /\ Ends(Both(p))

\* One end is refunded and gone; its partner keeps the pledge and a way out.
Withdraw(p) ==
  /\ partner[p] # NoPlayer
  /\ purse' = Refunded({p}) /\ Ends({p})

Forfeited(P) == [q \in Players |-> IF q \in P THEN purse[q] - pledge[q] ELSE purse[q]]
Drop(p) ==
  /\ partner[p] # NoPlayer
  /\ purse' = Forfeited(Both(p)) /\ Ends(Both(p))

\* The session is lost; its partner is left holding a one-sided exchange.
Vanish(p) == purse' = Forfeited({p}) /\ Ends({p})

Earn(p, n) ==
  /\ purse' = [purse EXCEPT ![p] = @ + n]
  /\ UNCHANGED <<pledge, partner>>

Next ==
  \E p \in Players :
    \/ \E q \in Players : Meet(p, q) \/ Swap(p, q)
    \/ Part(p) \/ Withdraw(p) \/ Drop(p) \/ Vanish(p)
    \/ \E n \in 0 .. purse[p] : Pledge(p, n)
    \/ \E n \in 0 .. CoinMax : Earn(p, n)

Spec == Init /\ [][Next]_vars
=============================================================================
