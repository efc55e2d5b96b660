-------------------------------- MODULE Teams --------------------------------
(* What the party system promises the players: a party is a group with one   *)
(* leader among its members.  It is founded under an id never used before,   *)
(* grows one member at a time, loses one member at a time while at least two *)
(* stay, and ends as a whole.                                                *)
EXTENDS Naturals

CONSTANTS Ids,      \* the party ids, in the order in which they are given out
          Players,
          Capacity, \* the most members a party can have
          NoOne

VARIABLES team,  \* the members of each party; {} when there is none
          lead,  \* its leader
          used   \* how many ids have been given out

vars == <<team, lead, used>>

\* S is small enough for a party: its members can be given different seats.
Fits(S) == \E seatOf \in [S -> 1 .. Capacity] :
             \A p, q \in S : seatOf[p] = seatOf[q] => p = q

Init == /\ team = [n \in Ids |-> {}]
        /\ lead = [n \in Ids |-> NoOne]
        /\ used = 0

Found == \E n \in Ids, S \in SUBSET Players, l \in Players :
           /\ n = used + 1
           /\ l \in S
           /\ Fits(S)
           /\ used' = n
           /\ team' = [team EXCEPT ![n] = S]
           /\ lead' = [lead EXCEPT ![n] = l]

Join == \E n \in Ids, p \in Players :
          /\ team[n] # {}
          /\ p \notin team[n]
          /\ Fits(team[n] \cup {p})
          /\ team' = [team EXCEPT ![n] = @ \cup {p}]
          /\ UNCHANGED <<lead, used>>

\* A member goes; at least two stay, and one of them leads.
Part == \E n \in Ids, p \in Players, l \in Players :
          /\ p \in team[n]
          /\ l \in team[n] \ {p}
          /\ team[n] \ {p} # {l}
          /\ lead[n] # p => l = lead[n]
          /\ team' = [team EXCEPT ![n] = @ \ {p}]
          /\ lead' = [lead EXCEPT ![n] = l]
          /\ UNCHANGED used

Dissolve == \E n \in Ids :
              /\ team[n] # {}
              /\ team' = [team EXCEPT ![n] = {}]
              /\ lead' = [lead EXCEPT ![n] = NoOne]
              /\ UNCHANGED used

HandOver == \E n \in Ids, l \in Players :
              /\ l \in team[n]
              /\ lead' = [lead EXCEPT ![n] = l]
              /\ UNCHANGED <<team, used>>

Next == Found \/ Join \/ Part \/ Dissolve \/ HandOver

Spec == Init /\ [][Next]_vars
==============================================================================
