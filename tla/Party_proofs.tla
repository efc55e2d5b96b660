---------------------------- MODULE Party_proofs ----------------------------
(* Proofs about Party, for any number of sessions, seats, zones and parties.  *)
(*                                                                            *)
(* The inductive invariant is Inv.  Its last part, InvitedIsFree, is the one  *)
(* the others rest on: an invitation may outlive everything it was given for, *)
(* but who holds one is in no party, unless an event party took the player    *)
(* (crossed).  Without it nothing would keep Accept from seating twice.       *)
EXTENDS Party, FiniteSetTheorems, TLAPS

USE PartyAssumption DEF PartyAssumption

Seating == [Slots -> Sessions \cup {NoOne}]

Distinct(f) == \A s, t \in Slots : f[s] = f[t] /\ f[s] # NoOne => s = t

\* The seats of a party: led, and nobody in two of them.
Led(f) == f \in Seating /\ f[0] # NoOne /\ Distinct(f)

\* A non-empty set of naturals has a least element: the first empty seat and
\* the next in line exist.
LEMMA LeastNatural ==
  ASSUME NEW T, T \subseteq Nat, T # {}
  PROVE  \E x \in T : \A y \in T : x <= y
<1> DEFINE R == OpToRel(<, Nat)
<1>1. IsWellFoundedOn(R, Nat)
  BY NatLessThanWellFounded
<1>2. \A x, y \in Nat : y < x => <<y, x>> \in R
  BY DEF OpToRel
<1> HIDE DEF R
<1>3. PICK x \in T : \A y \in T : ~(<<y, x>> \in R)
  BY <1>1, WFMin
<1>4. ASSUME NEW y \in T PROVE x <= y
  <2>1. ~(y < x)
    BY <1>2, <1>3
  <2> QED
    BY <2>1
<1> QED
  BY <1>4

-----------------------------------------------------------------------------
(* The Party struct. *)

LEMMA SeatZero == 0 \in Slots /\ Slots \subseteq Nat
BY DEF Slots

LEMMA MembersAre ==
  ASSUME NEW f \in Seating
  PROVE  /\ Members(f) \subseteq Sessions
         /\ \A p \in Sessions : p \in Members(f) <=> \E s \in Slots : f[s] = p
         /\ \A s \in Slots : f[s] # NoOne => f[s] \in Members(f)
BY DEF Members, Seating

\* An empty seat is filled, and only that one (add_member).
LEMMA JoinSeats ==
  ASSUME NEW f, Led(f), ~IsFull(f), NEW p \in Sessions, p \notin Members(f)
  PROVE  /\ Led(WithMember(f, p))
         /\ Members(WithMember(f, p)) = Members(f) \cup {p}
         /\ WithMember(f, p)[0] = f[0]
<1> DEFINE g == WithMember(f, p)
<1>1. f \in Seating /\ f[0] # NoOne /\ Distinct(f)
  BY DEF Led
<1>2. PICK e \in Slots : f[e] = NoOne /\ \A t \in Slots : t < e => f[t] # NoOne
  <2> DEFINE E == {s \in Slots : f[s] = NoOne}
  <2>1. E \subseteq Nat /\ E # {}
    BY SeatZero DEF IsFull
  <2>2. PICK e \in E : \A y \in E : e <= y
    BY <2>1, LeastNatural
  <2>3. ASSUME NEW t \in Slots, t < e PROVE f[t] # NoOne
    BY <2>2, <2>3, SeatZero
  <2> QED
    BY <2>2, <2>3
<1>3. ASSUME NEW s \in Slots
      PROVE  g[s] = IF s = e THEN p ELSE f[s]
  <2>1. s < e \/ s = e \/ e < s
    BY SeatZero
  <2> QED
    BY <1>2, <2>1 DEF WithMember
<1>4. g \in Seating
  BY <1>1, SeatZero DEF WithMember, Seating
<1>5. g[0] = f[0] /\ g[0] # NoOne
  BY <1>1, <1>2, <1>3, SeatZero
<1>6. \A s \in Slots : f[s] # p
  BY <1>1, MembersAre
<1>7. Distinct(g)
  BY <1>1, <1>3, <1>6 DEF Distinct
<1> HIDE DEF g
<1>8. Members(g) = Members(f) \cup {p}
  <2>1. ASSUME NEW q \in Sessions PROVE q \in Members(g) <=> q \in Members(f) \cup {p}
    BY <1>1, <1>2, <1>3, <1>4, MembersAre
  <2> QED
    BY <2>1, <1>1, <1>4, MembersAre
<1> QED
  BY <1>4, <1>5, <1>7, <1>8 DEF Led, g

\* Whoever does not lead is taken out (remove_member).
LEMMA LeaveSeats ==
  ASSUME NEW f, Led(f), NEW p \in Sessions, f[0] # p
  PROVE  /\ Led(WithoutMember(f, p))
         /\ Members(WithoutMember(f, p)) = Members(f) \ {p}
         /\ WithoutMember(f, p)[0] = f[0]
<1> DEFINE g == WithoutMember(f, p)
<1>1. f \in Seating /\ f[0] # NoOne /\ Distinct(f)
  BY DEF Led
<1>2. ASSUME NEW s \in Slots
      PROVE  g[s] = IF f[s] = p THEN NoOne ELSE f[s]
  <2>1. f[s] = p => \A t \in Slots : t < s => f[t] # p
    <3> SUFFICES ASSUME f[s] = p, NEW t \in Slots, t < s, f[t] = p PROVE FALSE
      OBVIOUS
    <3>1. s = t
      BY <1>1 DEF Distinct
    <3> QED
      BY <3>1, SeatZero
  <2> QED
    BY <2>1 DEF WithoutMember
<1>3. g \in Seating
  BY <1>1 DEF WithoutMember, Seating
<1>4. g[0] = f[0] /\ g[0] # NoOne
  BY <1>1, <1>2, SeatZero
<1>5. Distinct(g)
  BY <1>1, <1>2 DEF Distinct
<1> HIDE DEF g
<1>6. Members(g) = Members(f) \ {p}
  <2>1. ASSUME NEW q \in Sessions PROVE q \in Members(g) <=> q \in Members(f) \ {p}
    BY <1>1, <1>2, <1>3, MembersAre
  <2> QED
    BY <2>1, <1>1, <1>3, MembersAre
<1> QED
  BY <1>3, <1>4, <1>5, <1>6 DEF Led, g

\* The leader swaps seats with a member (swap_leader).
LEMMA LeadSeats ==
  ASSUME NEW f, Led(f), NEW q \in Members(f)
  PROVE  /\ Led(WithLeader(f, q))
         /\ Members(WithLeader(f, q)) = Members(f)
         /\ WithLeader(f, q)[0] = q
<1> DEFINE g == WithLeader(f, q)
<1>1. f \in Seating /\ f[0] # NoOne /\ Distinct(f)
  BY DEF Led
<1>2. q \in Sessions /\ f[0] \in Sessions
  BY <1>1, MembersAre, SeatZero DEF Seating
<1>3. PICK e \in Slots : f[e] = q
  BY <1>1, <1>2, MembersAre
<1>4. ASSUME NEW s \in Slots
      PROVE  g[s] = IF s = 0 THEN q ELSE IF s = e THEN f[0] ELSE f[s]
  <2>1. f[s] = q <=> s = e
    BY <1>1, <1>2, <1>3 DEF Distinct
  <2> QED
    BY <2>1 DEF WithLeader
<1>5. g \in Seating
  BY <1>1, <1>2, SeatZero DEF WithLeader, Seating
<1>6. g[0] = q
  BY <1>4, SeatZero
<1>7. Distinct(g)
  BY <1>1, <1>2, <1>3, <1>4, SeatZero DEF Distinct
<1> HIDE DEF g
<1>8. Members(g) = Members(f)
  <2>1. ASSUME NEW r \in Sessions PROVE r \in Members(g) <=> r \in Members(f)
    <3>1. ASSUME NEW s \in Slots, g[s] = r PROVE \E t \in Slots : f[t] = r
      BY <1>3, <1>4, <3>1, SeatZero
    <3>2. ASSUME NEW s \in Slots, f[s] = r PROVE \E t \in Slots : g[t] = r
      BY <1>3, <1>4, <1>6, <3>2, SeatZero
    <3> QED
      BY <3>1, <3>2, <1>1, <1>5, MembersAre
  <2> QED
    BY <2>1, <1>1, <1>5, MembersAre
<1> QED
  BY <1>2, <1>5, <1>6, <1>7, <1>8 DEF Led, g

\* A leader who drops out is succeeded by the next in line
\* (cleanup_party_on_disconnect).
LEMMA HeirSeats ==
  ASSUME NEW f, Led(f), NEW p \in Members(f), Members(f) \ {p} # {}
  PROVE  /\ Led(SeatsWithout(f, p))
         /\ Members(SeatsWithout(f, p)) = Members(f) \ {p}
         /\ f[0] # p => SeatsWithout(f, p)[0] = f[0]
         /\ SeatsWithout(f, p)[0] \in Members(f) \ {p}
<1>1. f \in Seating /\ f[0] # NoOne /\ Distinct(f) /\ p \in Sessions
  BY MembersAre DEF Led
<1>2. CASE f[0] # p
  <2>1. SeatsWithout(f, p) = WithoutMember(f, p)
    BY <1>2 DEF SeatsWithout
  <2> QED
    BY <1>1, <1>2, <2>1, LeaveSeats, MembersAre, SeatZero
<1>3. CASE f[0] = p
  <2> DEFINE h == NextInLine(f)
             T == {s \in Slots \ {0} : f[s] # NoOne}
  <2>1. T # {} /\ T \subseteq Nat
    <3>1. PICK q \in Members(f) : q # p
      OBVIOUS
    <3>2. PICK s \in Slots : f[s] = q
      BY <1>1, <3>1, MembersAre
    <3>3. s # 0 /\ f[s] # NoOne
      BY <1>1, <1>3, <3>1, <3>2, MembersAre
    <3> QED
      BY <3>3, SeatZero
  <2>2. PICK s \in T : \A t \in T : s <= t
    BY <2>1, LeastNatural
  <2>3. f[s] # NoOne /\ \A t \in Slots \ {0} : t < s => f[t] = NoOne
    <3>1. ASSUME NEW t \in Slots \ {0}, t < s, f[t] # NoOne PROVE FALSE
      BY <2>1, <2>2, <3>1
    <3> QED
      BY <3>1
  <2>4. \E u \in Slots \ {0} : h = f[u] /\ f[u] # NoOne
    BY <2>2, <2>3 DEF NextInLine
  <2>5. h \in Members(f) /\ h # p
    BY <1>1, <1>3, <2>4, MembersAre, SeatZero DEF Distinct
  <2>6. SeatsWithout(f, p) = WithoutMember(WithLeader(f, h), p)
    BY <1>3 DEF SeatsWithout
  <2> HIDE DEF h
  <2>7. /\ Led(WithLeader(f, h))
        /\ Members(WithLeader(f, h)) = Members(f)
        /\ WithLeader(f, h)[0] = h
    BY <2>5, LeadSeats
  <2> QED
    BY <1>1, <1>3, <2>5, <2>6, <2>7, LeaveSeats
<1> QED
  BY <1>2, <1>3

-----------------------------------------------------------------------------
(* The invariant. *)

\* Who holds an invitation is in no party, unless an event party came first.
InvitedIsFree ==
  \A p \in ingame : invitation[p] # 0 /\ IsInParty(p) => p \in crossed

Inv == TypeOK /\ RecordedIsSeated /\ SeatedIsRecorded /\ PartySound /\ InvitedIsFree

\* What the invariant says of one party.
LEMMA SeatsAreLed ==
  ASSUME Inv, NEW n \in parties
  PROVE  /\ n \in Ids /\ Led(seat[n])
         /\ Members(seat[n]) \subseteq Sessions
         /\ seat[n][0] \in Members(seat[n])
<1>1. n \in Ids /\ Led(seat[n])
  BY DEF Inv, TypeOK, PartySound, Led, Seating, Distinct
<1> QED
  BY <1>1, MembersAre, SeatZero DEF Led

LEMMA VacantSeats ==
  /\ Vacant \in Seating
  /\ Members(Vacant) = {}
BY DEF Vacant, Seating, Members

\* A fresh id names no party.
LEMMA FreshId ==
  ASSUME Inv
  PROVE  nextId \notin parties /\ \A n \in parties : n # nextId
BY DEF Inv, TypeOK, PartySound, Ids

\* create_party under a fresh id, for players of no party, keeps the table sound
\* and the two records of membership one.
LEMMA CreateKeeps ==
  ASSUME Inv, NEW f, Led(f), CreateParty(f),
         \A p \in Members(f) : ~IsInParty(p),
         ingame' = ingame, zone' = zone,
         invitation' \in [Sessions -> Ids \cup {0}],
         crossed \subseteq crossed', crossed' \subseteq Sessions
  PROVE  /\ TypeOK' /\ PartySound' /\ RecordedIsSeated' /\ SeatedIsRecorded'
         /\ \A p \in Sessions : IsInParty(p)' <=> IsInParty(p) \/ p \in Members(f)
<1>1. nextId \in Ids /\ nextId \notin parties /\ MaxParties \in Nat /\ nextId \in Nat /\ nextId # 0
  BY FreshId DEF CreateParty, Ids
<1>2. f \in Seating /\ Members(f) \subseteq Sessions
  BY MembersAre DEF Led
<1>3. /\ parties' = parties \cup {nextId}
      /\ \A n \in Ids : seat'[n] = IF n = nextId THEN f ELSE seat[n]
      /\ \A p \in Sessions : partyOf'[p] = IF p \in Members(f) THEN nextId ELSE partyOf[p]
  BY <1>1 DEF CreateParty, Inv, TypeOK
<1>4. TypeOK'
  <2>1. nextId' \in 1..(MaxParties + 1)
    BY <1>1 DEF CreateParty, Ids
  <2>2. seat' \in [Ids -> Seating] /\ command' \in [Ids -> Sessions \cup {NoOne}]
    BY <1>1, <1>2, SeatZero DEF CreateParty, Inv, TypeOK, Seating
  <2>3. partyOf' \in [Sessions -> Ids \cup {0}]
    BY <1>1 DEF CreateParty, Inv, TypeOK
  <2> QED
    BY <1>1, <1>3, <2>1, <2>2, <2>3 DEF Inv, TypeOK, Seating
<1>5. PartySound'
  <2> SUFFICES ASSUME NEW n \in parties'
               PROVE  n < nextId' /\ seat'[n][0] # NoOne /\ Distinct(seat'[n])
    BY DEF PartySound, Distinct
  <2>1. CASE n = nextId
    BY <1>1, <1>3, <2>1 DEF CreateParty, Led
  <2>2. CASE n # nextId
    <3>1. n \in parties /\ n \in Ids /\ seat'[n] = seat[n]
      BY <1>3, <2>2 DEF Inv, TypeOK
    <3>2. n < nextId /\ n \in Nat /\ nextId' = nextId + 1
      BY <3>1 DEF Inv, PartySound, CreateParty, Ids
    <3>3. n < nextId'
      BY <1>1, <3>2
    <3> QED
      BY <3>1, <3>3, SeatsAreLed DEF Led
  <2> QED
    BY <2>1, <2>2
<1>6. RecordedIsSeated'
  <2> SUFFICES ASSUME NEW p \in Sessions, partyOf'[p] # 0
               PROVE  partyOf'[p] \in parties' /\ p \in Members(seat'[partyOf'[p]])
    BY DEF RecordedIsSeated, IsInParty
  <2>1. CASE p \in Members(f)
    BY <1>1, <1>3, <2>1
  <2>2. CASE p \notin Members(f)
    <3>1. partyOf'[p] = partyOf[p] /\ partyOf[p] \in parties /\ p \in Members(seat[partyOf[p]])
      BY <1>3, <2>2 DEF Inv, RecordedIsSeated, IsInParty
    <3> QED
      BY <1>1, <1>3, <3>1 DEF Inv, TypeOK
  <2> QED
    BY <2>1, <2>2
<1>7. SeatedIsRecorded'
  <2> SUFFICES ASSUME NEW n \in parties', NEW p \in Members(seat'[n]), p \in ingame, p \notin crossed
               PROVE  partyOf'[p] = n
    BY DEF SeatedIsRecorded
  <2>1. CASE n = nextId
    BY <1>1, <1>2, <1>3, <2>1
  <2>2. CASE n # nextId
    <3>1. n \in parties /\ n \in Ids /\ p \in Members(seat[n]) /\ p \in Sessions
      BY <1>3, <2>2, SeatsAreLed DEF Inv, TypeOK
    <3>2. partyOf[p] = n /\ n # 0
      BY <3>1 DEF Inv, SeatedIsRecorded, Ids
    <3> QED
      BY <1>3, <3>1, <3>2 DEF IsInParty
  <2> QED
    BY <2>1, <2>2
<1>8. \A p \in Sessions : IsInParty(p)' <=> IsInParty(p) \/ p \in Members(f)
  BY <1>1, <1>3 DEF IsInParty
<1> QED
  BY <1>4, <1>5, <1>6, <1>7, <1>8

\* disband_party takes every member's party id along with the table entry.
LEMMA DisbandKeeps ==
  ASSUME Inv, NEW n \in parties, DisbandParty(n),
         ingame' \subseteq ingame, zone' \in [Sessions -> Zones], nextId' = nextId,
         invitation' \in [Sessions -> Ids \cup {0}], crossed' = crossed
  PROVE  /\ TypeOK' /\ PartySound' /\ RecordedIsSeated' /\ SeatedIsRecorded'
         /\ \A p \in Sessions : IsInParty(p)' <=> IsInParty(p) /\ p \notin Members(seat[n])
<1>1. n \in Ids /\ Members(seat[n]) \subseteq Sessions
  BY SeatsAreLed
<1>2. /\ parties' = parties \ {n}
      /\ \A m \in Ids : seat'[m] = IF m = n THEN Vacant ELSE seat[m]
      /\ \A p \in Sessions : partyOf'[p] = IF p \in Members(seat[n]) THEN 0 ELSE partyOf[p]
  BY <1>1 DEF DisbandParty, Inv, TypeOK
<1>3. TypeOK'
  <2>1. seat' \in [Ids -> Seating] /\ command' \in [Ids -> Sessions \cup {NoOne}]
    BY <1>1, VacantSeats DEF DisbandParty, Inv, TypeOK, Seating
  <2>2. partyOf' \in [Sessions -> Ids \cup {0}]
    BY DEF DisbandParty, Inv, TypeOK
  <2> QED
    BY <1>2, <2>1, <2>2 DEF Inv, TypeOK, Seating
<1>4. PartySound'
  BY <1>2 DEF Inv, TypeOK, PartySound
<1>5. RecordedIsSeated'
  BY <1>2 DEF Inv, TypeOK, RecordedIsSeated, IsInParty
<1>6. SeatedIsRecorded'
  <2> SUFFICES ASSUME NEW m \in parties', NEW p \in Members(seat'[m]), p \in ingame, p \notin crossed
               PROVE  partyOf'[p] = m
    BY DEF SeatedIsRecorded
  <2>1. m \in parties /\ m \in Ids /\ m # n /\ p \in Members(seat[m]) /\ p \in Sessions
    BY <1>2, SeatsAreLed DEF Inv, TypeOK
  <2>2. partyOf[p] = m /\ p \notin Members(seat[n])
    BY <2>1 DEF Inv, SeatedIsRecorded
  <2> QED
    BY <1>2, <2>1, <2>2
<1>7. \A p \in Sessions : IsInParty(p)' <=> IsInParty(p) /\ p \notin Members(seat[n])
  BY <1>2 DEF IsInParty
<1> QED
  BY <1>3, <1>4, <1>5, <1>6, <1>7

\* One member goes and the others keep their seats: remove_party_member and the
\* cleanup after a disconnect.
LEMMA PartKeeps ==
  ASSUME Inv, NEW n \in parties, NEW f, Led(f), NEW q \in Sessions,
         Members(f) = Members(seat[n]) \ {q},
         seat' = [seat EXCEPT ![n] = f],
         partyOf' = IF q \in Members(seat[n]) THEN [partyOf EXCEPT ![q] = 0] ELSE partyOf,
         UNCHANGED <<parties, command, nextId, crossed>>,
         ingame' \subseteq ingame, zone' \in [Sessions -> Zones],
         invitation' \in [Sessions -> Ids \cup {0}]
  PROVE  /\ TypeOK' /\ PartySound' /\ RecordedIsSeated' /\ SeatedIsRecorded'
         /\ \A p \in Sessions : IsInParty(p)' => IsInParty(p)
<1>1. n \in Ids /\ Members(seat[n]) \subseteq Sessions /\ f \in Seating
  BY SeatsAreLed DEF Led
<1>2. /\ \A m \in Ids : seat'[m] = IF m = n THEN f ELSE seat[m]
      /\ \A p \in Sessions : partyOf'[p] = IF p = q /\ q \in Members(seat[n]) THEN 0 ELSE partyOf[p]
  BY <1>1 DEF Inv, TypeOK
<1>3. TypeOK'
  <2>1. seat' \in [Ids -> Seating]
    BY <1>1 DEF Inv, TypeOK, Seating
  <2>2. partyOf' \in [Sessions -> Ids \cup {0}]
    BY DEF Inv, TypeOK
  <2> QED
    BY <1>2, <2>1, <2>2 DEF Inv, TypeOK, Seating
<1>4. PartySound'
  BY <1>1, <1>2 DEF Inv, TypeOK, PartySound, Led, Distinct
<1>5. RecordedIsSeated'
  BY <1>1, <1>2 DEF Inv, TypeOK, RecordedIsSeated, IsInParty
<1>6. SeatedIsRecorded'
  <2> SUFFICES ASSUME NEW m \in parties, NEW p \in Members(seat'[m]), p \in ingame, p \notin crossed
               PROVE  partyOf'[p] = m
    BY DEF SeatedIsRecorded
  <2>1. m \in Ids /\ p \in Members(seat[m]) /\ p \in Sessions
    BY <1>2, SeatsAreLed DEF Inv, TypeOK
  <2>2. partyOf[p] = m /\ (p \in Members(seat[n]) => m = n)
    BY <2>1 DEF Inv, SeatedIsRecorded
  <2>3. ~(p = q /\ q \in Members(seat[n]))
    BY <1>1, <1>2, <2>2
  <2> QED
    BY <1>2, <2>1, <2>2, <2>3
<1>7. \A p \in Sessions : IsInParty(p)' => IsInParty(p)
  BY <1>2 DEF IsInParty
<1> QED
  BY <1>3, <1>4, <1>5, <1>6, <1>7

\* cleanup_party_on_disconnect, whoever's session or zone it is called for.
LEMMA CleanUpKeeps ==
  ASSUME Inv, NEW p \in Sessions, CleanUp(p),
         ingame' \subseteq ingame, zone' \in [Sessions -> Zones],
         UNCHANGED <<nextId, crossed>>
  PROVE  Inv'
<1> DEFINE n == partyOf[p]
<1>1. invitation' \in [Sessions -> Ids \cup {0}]
  BY DEF CleanUp, Inv, TypeOK
<1>2. invitation' = [invitation EXCEPT ![p] = 0]
  BY DEF CleanUp
<1>3. CASE ~HasParty(p)
  <2>1. UNCHANGED <<partyOf, parties, seat, command>>
    BY <1>3 DEF CleanUp
  <2>2. TypeOK' /\ PartySound' /\ RecordedIsSeated' /\ SeatedIsRecorded'
    BY <1>1, <2>1 DEF Inv, TypeOK, PartySound, RecordedIsSeated, SeatedIsRecorded, IsInParty
  <2> QED
    BY <1>2, <2>1, <2>2 DEF Inv, TypeOK, InvitedIsFree, IsInParty
<1>4. CASE HasParty(p)
  <2>1. n \in parties /\ p \in Members(seat[n])
    BY <1>4 DEF HasParty, Inv, RecordedIsSeated
  <2>2. /\ TypeOK' /\ PartySound' /\ RecordedIsSeated' /\ SeatedIsRecorded'
        /\ \A q \in Sessions : IsInParty(q)' => IsInParty(q)
    <3>1. CASE Cardinality(Members(seat[n]) \ {p}) <= 1
      <4>1. DisbandParty(n)
        BY <1>4, <3>1 DEF CleanUp
      <4> QED
        BY <1>1, <2>1, <4>1, DisbandKeeps
    <3>2. CASE ~(Cardinality(Members(seat[n]) \ {p}) <= 1)
      <4>1. /\ seat' = [seat EXCEPT ![n] = SeatsWithout(seat[n], p)]
            /\ partyOf' = IF p \in Members(seat[n]) THEN [partyOf EXCEPT ![p] = 0] ELSE partyOf
            /\ UNCHANGED <<parties, command>>
        BY <1>4, <2>1, <3>2 DEF CleanUp, Inv, TypeOK
      <4>2. Members(seat[n]) \ {p} # {}
        BY <3>2, FS_EmptySet
      <4>3. Led(SeatsWithout(seat[n], p)) /\ Members(SeatsWithout(seat[n], p)) = Members(seat[n]) \ {p}
        BY <2>1, <4>2, SeatsAreLed, HeirSeats
      <4> QED
        BY <1>1, <2>1, <4>1, <4>3, PartKeeps
    <3> QED
      BY <3>1, <3>2
  <2>3. InvitedIsFree'
    BY <1>2, <2>2 DEF Inv, TypeOK, InvitedIsFree
  <2> QED
    BY <2>2, <2>3 DEF Inv
<1> QED
  BY <1>3, <1>4

LEMMA CreateInv ==
  ASSUME Inv, NEW p \in Sessions, NEW q \in Sessions, Create(p, q)
  PROVE  Inv'
<1> DEFINE f == [Vacant EXCEPT ![0] = p]
<1>1. \A s \in Slots : f[s] = IF s = 0 THEN p ELSE NoOne
  BY DEF Vacant
<1>2. f \in Seating
  BY DEF Vacant, Seating
<1>3. Led(f)
  BY <1>1, <1>2, SeatZero DEF Led, Distinct
<1>4. Members(f) = {p}
  <2> HIDE DEF f
  <2> QED
    BY <1>1, <1>2, SeatZero, MembersAre
<1>5. CreateParty(f) /\ ~IsInParty(p) /\ UNCHANGED <<ingame, zone, crossed>>
  BY DEF Create
<1>6. /\ invitation' \in [Sessions -> Ids \cup {0}]
      /\ \A r \in Sessions : invitation'[r] # 0 => r = q \/ invitation[r] # 0
  BY DEF Create, CreateParty, Inv, TypeOK
<1> HIDE DEF f
<1>7. /\ TypeOK' /\ PartySound' /\ RecordedIsSeated' /\ SeatedIsRecorded'
      /\ \A r \in Sessions : IsInParty(r)' <=> IsInParty(r) \/ r = p
  <2>1. crossed' \subseteq Sessions /\ crossed \subseteq crossed'
    BY <1>5 DEF Inv, TypeOK
  <2>2. \A r \in Members(f) : ~IsInParty(r)
    BY <1>4, <1>5
  <2> QED
    BY <1>3, <1>4, <1>5, <1>6, <2>1, <2>2, CreateKeeps
<1>8. InvitedIsFree'
  <2>1. ~IsInParty(q) /\ q # p /\ invitation[p] = 0
    BY DEF Create, MayInvite
  <2> QED
    BY <1>5, <1>6, <1>7, <2>1 DEF Inv, InvitedIsFree, TypeOK
<1> QED
  BY <1>7, <1>8 DEF Inv

LEMMA InviteInv ==
  ASSUME Inv, NEW p \in Sessions, NEW q \in Sessions, Invite(p, q)
  PROVE  Inv'
<1>1. /\ UNCHANGED <<ingame, zone, partyOf, parties, seat, command, nextId, crossed>>
      /\ invitation' = [invitation EXCEPT ![q] = partyOf[p]]
      /\ ~IsInParty(q)
  BY DEF Invite, MayInvite
<1>2. TypeOK' /\ PartySound' /\ RecordedIsSeated' /\ SeatedIsRecorded'
  BY <1>1 DEF Inv, TypeOK, PartySound, RecordedIsSeated, SeatedIsRecorded, IsInParty
<1>3. InvitedIsFree'
  BY <1>1 DEF Inv, TypeOK, InvitedIsFree, IsInParty
<1> QED
  BY <1>2, <1>3 DEF Inv

LEMMA DeclineInv ==
  ASSUME Inv, NEW p \in Sessions, Decline(p)
  PROVE  Inv'
<1> DEFINE n == invitation[p]
<1>1. /\ UNCHANGED <<ingame, zone, nextId, crossed>>
      /\ invitation' = [invitation EXCEPT ![p] = 0]
      /\ invitation' \in [Sessions -> Ids \cup {0}]
  BY DEF Decline, Inv, TypeOK
<1>2. /\ TypeOK' /\ PartySound' /\ RecordedIsSeated' /\ SeatedIsRecorded'
      /\ \A q \in Sessions : IsInParty(q)' => IsInParty(q)
  <2>1. CASE n \in parties /\ Cardinality(Members(seat[n])) <= 1
    <3>1. DisbandParty(n)
      BY <2>1 DEF Decline
    <3> QED
      BY <1>1, <2>1, <3>1, DisbandKeeps DEF Inv, TypeOK
  <2>2. CASE ~(n \in parties /\ Cardinality(Members(seat[n])) <= 1)
    <3>1. UNCHANGED <<partyOf, parties, seat, command>>
      BY <2>2 DEF Decline
    <3> QED
      BY <1>1, <3>1 DEF Inv, TypeOK, PartySound, RecordedIsSeated, SeatedIsRecorded, IsInParty
  <2> QED
    BY <2>1, <2>2
<1>3. InvitedIsFree'
  BY <1>1, <1>2 DEF Inv, TypeOK, InvitedIsFree
<1> QED
  BY <1>2, <1>3 DEF Inv

\* Who accepts holds an invitation, so sits in no party (or is crossed).
LEMMA AcceptInv ==
  ASSUME Inv, NEW p \in Sessions, Accept(p)
  PROVE  Inv'
<1> DEFINE n == invitation[p]
<1>1. /\ UNCHANGED <<ingame, zone, parties, command, nextId, crossed>>
      /\ invitation' = [invitation EXCEPT ![p] = 0]
      /\ invitation' \in [Sessions -> Ids \cup {0}]
      /\ p \in ingame /\ n # 0
  BY DEF Accept, Inv, TypeOK
<1>2. CASE ~MayJoin(p, n)
  <2>1. UNCHANGED <<seat, partyOf>>
    BY <1>2 DEF Accept
  <2>2. TypeOK' /\ PartySound' /\ RecordedIsSeated' /\ SeatedIsRecorded'
    BY <1>1, <2>1 DEF Inv, TypeOK, PartySound, RecordedIsSeated, SeatedIsRecorded, IsInParty
  <2> QED
    BY <1>1, <2>1, <2>2 DEF Inv, TypeOK, InvitedIsFree, IsInParty
<1>3. CASE MayJoin(p, n)
  <2> DEFINE f == WithMember(seat[n], p)
  <2>1. n \in parties /\ n \in Ids /\ ~IsFull(seat[n]) /\ p \notin Members(seat[n])
    BY <1>3 DEF MayJoin, Inv, TypeOK
  <2>2. Led(f) /\ Members(f) = Members(seat[n]) \cup {p}
    BY <2>1, SeatsAreLed, JoinSeats
  <2>3. /\ seat' = [seat EXCEPT ![n] = f]
        /\ partyOf' = [partyOf EXCEPT ![p] = n]
    BY <1>3, <2>1 DEF Accept, Inv, TypeOK
  <2> HIDE DEF f
  <2>4. /\ \A m \in Ids : seat'[m] = IF m = n THEN f ELSE seat[m]
        /\ \A r \in Sessions : partyOf'[r] = IF r = p THEN n ELSE partyOf[r]
    BY <2>1, <2>3 DEF Inv, TypeOK
  <2>5. TypeOK'
    <3>1. seat' \in [Ids -> Seating] /\ partyOf' \in [Sessions -> Ids \cup {0}]
      BY <2>1, <2>2, <2>3 DEF Inv, TypeOK, Led, Seating
    <3> QED
      BY <1>1, <2>1, <2>4, <3>1 DEF Inv, TypeOK, Seating
  <2>6. PartySound'
    BY <1>1, <2>2, <2>4 DEF Inv, TypeOK, PartySound, Led, Distinct
  <2>7. RecordedIsSeated'
    BY <1>1, <2>1, <2>2, <2>4 DEF Inv, TypeOK, RecordedIsSeated, IsInParty
  <2>8. SeatedIsRecorded'
    <3> SUFFICES ASSUME NEW m \in parties, NEW r \in Members(seat'[m]), r \in ingame, r \notin crossed
                 PROVE  partyOf'[r] = m
      BY <1>1 DEF SeatedIsRecorded
    <3>1. m \in Ids /\ r \in Sessions
      BY DEF Inv, TypeOK
    <3>2. CASE r = p
      <4>1. ~IsInParty(p)
        BY <1>1, <3>2 DEF Inv, InvitedIsFree
      <4>2. m = n
        <5> SUFFICES ASSUME m # n PROVE FALSE
          OBVIOUS
        <5>1. p \in Members(seat[m])
          BY <2>4, <3>1, <3>2
        <5>2. partyOf[p] = m /\ m # 0
          BY <3>1, <3>2, <5>1 DEF Inv, SeatedIsRecorded, Ids
        <5> QED
          BY <4>1, <5>2 DEF IsInParty
      <4> QED
        BY <2>4, <3>2, <4>2
    <3>3. CASE r # p
      <4>1. r \in Members(seat[m])
        BY <2>2, <2>4, <3>1, <3>3
      <4> QED
        BY <2>4, <3>1, <3>3, <4>1 DEF Inv, SeatedIsRecorded
    <3> QED
      BY <3>2, <3>3
  <2>9. InvitedIsFree'
    BY <1>1, <2>4 DEF Inv, TypeOK, InvitedIsFree, IsInParty
  <2> QED
    BY <2>5, <2>6, <2>7, <2>8, <2>9 DEF Inv
<1> QED
  BY <1>2, <1>3

\* PARTY_REMOVE and PARTY_DELETE: an end of the party, or the departure of
\* somebody who does not lead.
LEMMA RemoveInv ==
  ASSUME Inv, NEW p \in Sessions, NEW q \in Sessions, Remove(p, q)
  PROVE  Inv'
<1> DEFINE n == partyOf[p]
<1>1. UNCHANGED <<ingame, zone, invitation, nextId, crossed>> /\ n \in parties
  BY DEF Remove, HasParty
<1>2. /\ TypeOK' /\ PartySound' /\ RecordedIsSeated' /\ SeatedIsRecorded'
      /\ \A r \in Sessions : IsInParty(r)' => IsInParty(r)
  <2>1. CASE (q = p /\ IsLeader(p, n)) \/ Cardinality(Members(seat[n]) \ {q}) <= 1
    <3>1. DisbandParty(n)
      BY <2>1 DEF Remove
    <3> QED
      BY <1>1, <3>1, DisbandKeeps DEF Inv, TypeOK
  <2>2. CASE ~((q = p /\ IsLeader(p, n)) \/ Cardinality(Members(seat[n]) \ {q}) <= 1)
    <3>1. RemovePartyMember(n, q)
      BY <2>2 DEF Remove
    <3>2. seat[n][0] # q
      BY <2>2 DEF Remove, IsLeader
    <3>3. /\ Led(WithoutMember(seat[n], q))
          /\ Members(WithoutMember(seat[n], q)) = Members(seat[n]) \ {q}
      BY <1>1, <3>2, SeatsAreLed, LeaveSeats
    <3>4. seat' = [seat EXCEPT ![n] = WithoutMember(seat[n], q)]
      BY <1>1, <3>1 DEF RemovePartyMember, Inv, TypeOK
    <3> QED
      BY <1>1, <3>1, <3>3, <3>4, PartKeeps DEF RemovePartyMember, Inv, TypeOK
  <2> QED
    BY <2>1, <2>2
<1>3. InvitedIsFree'
  BY <1>1, <1>2 DEF Inv, TypeOK, InvitedIsFree
<1> QED
  BY <1>2, <1>3 DEF Inv

LEMMA DeleteInv ==
  ASSUME Inv, NEW p \in Sessions, Delete(p)
  PROVE  Inv'
<1>1. /\ UNCHANGED <<ingame, zone, invitation, nextId, crossed>> /\ partyOf[p] \in parties
      /\ DisbandParty(partyOf[p])
  BY DEF Delete, HasParty
<1>2. /\ TypeOK' /\ PartySound' /\ RecordedIsSeated' /\ SeatedIsRecorded'
      /\ \A r \in Sessions : IsInParty(r)' => IsInParty(r)
  BY <1>1, DisbandKeeps DEF Inv, TypeOK
<1>3. InvitedIsFree'
  BY <1>1, <1>2 DEF Inv, TypeOK, InvitedIsFree
<1> QED
  BY <1>2, <1>3 DEF Inv

LEMMA PromoteInv ==
  ASSUME Inv, NEW p \in Sessions, NEW q \in Sessions, Promote(p, q)
  PROVE  Inv'
<1> DEFINE n == partyOf[p]
           f == WithLeader(seat[n], q)
<1>1. /\ UNCHANGED <<ingame, zone, partyOf, parties, invitation, nextId, crossed>>
      /\ n \in parties /\ n \in Ids /\ q \in Members(seat[n])
      /\ command' \in [Ids -> Sessions \cup {NoOne}]
  BY DEF Promote, HasParty, Inv, TypeOK
<1>2. Led(f) /\ Members(f) = Members(seat[n])
  BY <1>1, SeatsAreLed, LeadSeats
<1>3. seat' = [seat EXCEPT ![n] = f]
  BY <1>1 DEF Promote, Inv, TypeOK
<1> HIDE DEF f
<1>4. \A m \in Ids : seat'[m] = IF m = n THEN f ELSE seat[m]
  BY <1>1, <1>3 DEF Inv, TypeOK
<1>5. TypeOK'
  <2>1. seat' \in [Ids -> Seating]
    BY <1>1, <1>2, <1>3 DEF Inv, TypeOK, Led, Seating
  <2> QED
    BY <1>1, <1>4, <2>1 DEF Inv, TypeOK, Seating
<1>6. PartySound'
  BY <1>1, <1>2, <1>4 DEF Inv, TypeOK, PartySound, Led, Distinct
<1>7. RecordedIsSeated' /\ SeatedIsRecorded'
  BY <1>1, <1>2, <1>4 DEF Inv, TypeOK, RecordedIsSeated, SeatedIsRecorded, IsInParty
<1> QED
  BY <1>1, <1>5, <1>6, <1>7 DEF Inv, InvitedIsFree, IsInParty

\* Steps that touch neither seats nor party ids.
LEMMA QuietInv ==
  ASSUME Inv, NEW p \in Sessions,
         \/ \E q \in Sessions : Command(p, q)
         \/ \E z \in Zones : Teleport(p, z)
         \/ \E z \in Zones : Enter(p, z)
  PROVE  Inv'
<1>1. CASE \E q \in Sessions : Command(p, q)
  <2>1. command' \in [Ids -> Sessions \cup {NoOne}]
    BY <1>1 DEF Command, Inv, TypeOK
  <2> QED
    BY <1>1, <2>1 DEF Command, Inv, TypeOK, PartySound, RecordedIsSeated, SeatedIsRecorded,
                      InvitedIsFree, IsInParty
<1>2. CASE \E z \in Zones : Teleport(p, z)
  BY <1>2 DEF Teleport, Inv, TypeOK, PartySound, RecordedIsSeated, SeatedIsRecorded,
              InvitedIsFree, IsInParty
<1>3. CASE \E z \in Zones : Enter(p, z)
  <2>1. /\ UNCHANGED <<partyOf, parties, seat, command, invitation, nextId>>
        /\ ingame' = ingame \cup {p} /\ crossed' = crossed \ {p}
        /\ invitation[p] = 0
        /\ \A n \in Ids : p \notin Members(seat[n])
        /\ zone' \in [Sessions -> Zones]
    BY <1>3 DEF Enter, Inv, TypeOK
  <2>2. TypeOK' /\ PartySound' /\ RecordedIsSeated' /\ InvitedIsFree'
    BY <2>1 DEF Inv, TypeOK, PartySound, RecordedIsSeated, InvitedIsFree, IsInParty
  <2>3. SeatedIsRecorded'
    BY <2>1 DEF Inv, TypeOK, SeatedIsRecorded
  <2> QED
    BY <2>2, <2>3 DEF Inv
<1> QED
  BY <1>1, <1>2, <1>3

\* A panic leaves a seat behind; nobody in the game is concerned.
LEMMA PanicInv ==
  ASSUME Inv, NEW p \in Sessions, Panic(p)
  PROVE  Inv'
<1>1. /\ UNCHANGED <<zone, parties, seat, command, invitation, nextId, crossed>>
      /\ ingame' = ingame \ {p}
      /\ partyOf' = [partyOf EXCEPT ![p] = 0]
  BY DEF Panic
<1>2. TypeOK' /\ PartySound'
  BY <1>1 DEF Inv, TypeOK, PartySound
<1>3. RecordedIsSeated' /\ SeatedIsRecorded' /\ InvitedIsFree'
  BY <1>1 DEF Inv, TypeOK, RecordedIsSeated, SeatedIsRecorded, InvitedIsFree, IsInParty
<1> QED
  BY <1>2, <1>3 DEF Inv

\* The seats of an event party are led, and taken by players of no party.
LEMMA LineupSeats ==
  ASSUME NEW S \in SUBSET Sessions, Cardinality(S) > 1, NEW f \in Lineups(S)
  PROVE  Led(f) /\ Members(f) \subseteq S
<1>1. /\ f \in Seating
      /\ \A s \in Slots : f[s] \in S \cup {NoOne}
      /\ Distinct(f)
      /\ \A s, t \in Slots : s < t /\ f[t] # NoOne => f[s] # NoOne
      /\ IsFull(f) \/ Members(f) = S
  BY DEF Lineups, Seating, Distinct
<1>2. f[0] # NoOne
  <2>1. CASE IsFull(f)
    BY <2>1, SeatZero DEF IsFull
  <2>2. CASE Members(f) = S
    <3>1. S # {}
      BY FS_EmptySet
    <3>2. PICK t \in Slots : f[t] # NoOne
      BY <1>1, <2>2, <3>1, MembersAre
    <3>3. t = 0 \/ 0 < t
      BY SeatZero
    <3> QED
      BY <1>1, <3>2, <3>3, SeatZero
  <2> QED
    BY <1>1, <2>1, <2>2
<1>3. Members(f) \subseteq S
  BY <1>1 DEF Members
<1> QED
  BY <1>1, <1>2, <1>3 DEF Led

LEMMA EventInv ==
  ASSUME Inv, NEW G \in SUBSET ingame, EventParty(G)
  PROVE  Inv'
<1> DEFINE valid == {p \in G : ~IsInParty(p)}
<1>1. PICK f \in Lineups(valid) :
        /\ CreateParty(f)
        /\ crossed' = crossed \cup {p \in Members(f) : invitation[p] # 0}
  BY DEF EventParty
<1>2. UNCHANGED <<ingame, zone, invitation>> /\ Cardinality(valid) > 1 /\ valid \subseteq Sessions
  BY DEF EventParty, Inv, TypeOK
<1>3. Led(f) /\ Members(f) \subseteq valid
  BY <1>2, LineupSeats
<1>4. /\ TypeOK' /\ PartySound' /\ RecordedIsSeated' /\ SeatedIsRecorded'
      /\ \A p \in Sessions : IsInParty(p)' <=> IsInParty(p) \/ p \in Members(f)
  <2>1. \A p \in Members(f) : ~IsInParty(p)
    BY <1>3
  <2>2. crossed \subseteq crossed' /\ crossed' \subseteq Sessions
    BY <1>1, <1>2, <1>3 DEF Inv, TypeOK
  <2>3. invitation' \in [Sessions -> Ids \cup {0}] /\ ingame' = ingame /\ zone' = zone
    BY <1>2 DEF Inv, TypeOK
  <2> QED
    BY <1>1, <1>3, <2>1, <2>2, <2>3, CreateKeeps
<1>5. InvitedIsFree'
  BY <1>1, <1>2, <1>4 DEF Inv, TypeOK, InvitedIsFree
<1> QED
  BY <1>4, <1>5 DEF Inv

LEMMA InitInv == Init => Inv
<1> SUFFICES ASSUME Init PROVE Inv
  OBVIOUS
<1>1. TypeOK
  BY VacantSeats DEF Init, TypeOK, Seating
<1> QED
  BY <1>1 DEF Init, Inv, PartySound, RecordedIsSeated, SeatedIsRecorded, InvitedIsFree, IsInParty

LEMMA NextInv == Inv /\ [Next]_vars => Inv'
<1> SUFFICES ASSUME Inv, [Next]_vars PROVE Inv'
  OBVIOUS
<1>1. CASE UNCHANGED vars
  BY <1>1 DEF vars, Inv, TypeOK, PartySound, RecordedIsSeated, SeatedIsRecorded, InvitedIsFree, IsInParty
<1>2. CASE Requests
  BY <1>2, CreateInv, InviteInv DEF Requests
<1>3. CASE Answers
  BY <1>3, AcceptInv, DeclineInv DEF Answers
<1>4. CASE Changes
  BY <1>4, RemoveInv, PromoteInv, QuietInv DEF Changes
<1>5. CASE \E p \in Sessions : Delete(p)
  BY <1>5, DeleteInv
<1>6. ASSUME NEW p \in Sessions, Leave(p) PROVE Inv'
  <2>1. CleanUp(p) /\ ingame' \subseteq ingame /\ zone' \in [Sessions -> Zones]
    BY <1>6 DEF Leave, Inv, TypeOK
  <2> QED
    BY <1>6, <2>1, CleanUpKeeps DEF Leave
<1>7. CASE \E p \in Sessions : Panic(p)
  BY <1>7, PanicInv
<1>8. CASE \E p \in Sessions, z \in Zones : Enter(p, z)
  BY <1>8, QuietInv
<1>9. CASE Moves
  <2>1. ASSUME NEW p \in Sessions, NEW z \in Zones, ZoneChange(p, z) PROVE Inv'
    <3>1. CleanUp(p) /\ ingame' \subseteq ingame /\ zone' \in [Sessions -> Zones]
      BY <2>1 DEF ZoneChange, Inv, TypeOK
    <3> QED
      BY <2>1, <3>1, CleanUpKeeps DEF ZoneChange
  <2> QED
    BY <1>9, <2>1, QuietInv DEF Moves
<1>10. CASE Events
  BY <1>10, EventInv DEF Events
<1> QED
  BY <1>1, <1>2, <1>3, <1>4, <1>5, <1>6, <1>7, <1>8, <1>9, <1>10 DEF Next

\* The party table and the party ids in the characters keep their types, and no
\* id outside the table has seats.
THEOREM TypeCorrect == Spec => []TypeOK
BY InitInv, NextInv, PTL DEF Spec, Inv

\* Through every request, disconnect, panic and event a party id in a character is
\* never dangling: the party exists and has a seat for that character.
THEOREM NoDanglingParty == Spec => []RecordedIsSeated
BY InitInv, NextInv, PTL DEF Spec, Inv

\* ... and a member in the game carries the id of the party that seats it, except a
\* player whom an event party took while another invitation was open.
THEOREM NobodySitsTwice == Spec => []SeatedIsRecorded
BY InitInv, NextInv, PTL DEF Spec, Inv

\* Every party has a leader, nobody has two of its seats, and no id is used that
\* next_party_id has not given out.
THEOREM PartiesSound == Spec => []PartySound
BY InitInv, NextInv, PTL DEF Spec, Inv

-----------------------------------------------------------------------------
(* Parties implement Teams. *)

\* Whoever has a seat fits into a party: MAX_PARTY_USERS seats are enough.
LEMMA SeatedFit ==
  ASSUME NEW f \in Seating
  PROVE  Teams!Fits(Members(f))
<1> DEFINE S == Members(f)
           g == [p \in S |-> 1 + CHOOSE s \in Slots : f[s] = p]
<1>1. ASSUME NEW p \in S
      PROVE  \E s \in Slots : f[s] = p
  BY <1>1 DEF Members
<1>2. ASSUME NEW p \in S
      PROVE  g[p] \in 1 .. MaxSeats /\ f[g[p] - 1] = p
  <2> DEFINE s == CHOOSE s \in Slots : f[s] = p
  <2>1. s \in Slots /\ f[s] = p
    BY <1>1, <1>2
  <2>2. g[p] = 1 + s
    BY <1>2
  <2> HIDE DEF s, g
  <2>3. s \in Nat /\ s < MaxSeats /\ g[p] - 1 = s
    BY <2>1, <2>2, PartyAssumption DEF Slots
  <2> QED
    BY <2>1, <2>2, <2>3, PartyAssumption
<1>3. g \in [S -> 1 .. MaxSeats]
  <2>1. g = [p \in S |-> g[p]]
    OBVIOUS
  <2> QED
    BY <1>2, <2>1
<1> HIDE DEF g
<1>4. \A p, q \in S : g[p] = g[q] => p = q
  BY <1>2
<1> QED
  BY <1>3, <1>4 DEF Teams!Fits

\* The refinement mapping, seen from one party.
LEMMA MappedTo ==
  ASSUME Inv, NEW n \in Ids, NEW f, seat' = [seat EXCEPT ![n] = f]
  PROVE  /\ [m \in Ids |-> Members(seat'[m])] = [[m \in Ids |-> Members(seat[m])] EXCEPT ![n] = Members(f)]
         /\ [m \in Ids |-> seat'[m][0]] = [[m \in Ids |-> seat[m][0]] EXCEPT ![n] = f[0]]
<1> DEFINE a == [m \in Ids |-> Members(seat[m])]
           b == [m \in Ids |-> seat[m][0]]
<1>1. \A m \in Ids : seat'[m] = IF m = n THEN f ELSE seat[m]
  BY DEF Inv, TypeOK
<1>2. [m \in Ids |-> Members(seat'[m])] = [m \in Ids |-> IF m = n THEN Members(f) ELSE Members(seat[m])]
  <2>1. \A m \in Ids : Members(seat'[m]) = IF m = n THEN Members(f) ELSE Members(seat[m])
    BY <1>1
  <2> QED
    BY <2>1
<1>3. [m \in Ids |-> seat'[m][0]] = [m \in Ids |-> IF m = n THEN f[0] ELSE seat[m][0]]
  <2>1. \A m \in Ids : seat'[m][0] = IF m = n THEN f[0] ELSE seat[m][0]
    BY <1>1
  <2> QED
    BY <2>1
<1>4. /\ [a EXCEPT ![n] = Members(f)] = [m \in Ids |-> IF m = n THEN Members(f) ELSE Members(seat[m])]
      /\ [b EXCEPT ![n] = f[0]] = [m \in Ids |-> IF m = n THEN f[0] ELSE seat[m][0]]
  BY Zenon
<1> QED
  BY <1>2, <1>3, <1>4

LEMMA DisbandDissolves ==
  ASSUME Inv, Inv', NEW n \in parties, DisbandParty(n), nextId' = nextId
  PROVE  Teams!Dissolve
<1>1. n \in Ids /\ Members(seat[n]) # {}
  BY SeatsAreLed
<1>2. seat' = [seat EXCEPT ![n] = Vacant]
  BY DEF DisbandParty
<1>3. Vacant[0] = NoOne /\ Members(Vacant) = {}
  BY VacantSeats, SeatZero DEF Vacant
<1> QED
  BY <1>1, <1>2, <1>3, MappedTo DEF Teams!Dissolve

LEMMA CreateFounds ==
  ASSUME Inv, Inv', NEW f, Led(f), CreateParty(f)
  PROVE  Teams!Found
<1>1. /\ nextId \in Ids /\ seat' = [seat EXCEPT ![nextId] = f] /\ nextId' = nextId + 1
  BY DEF CreateParty
<1>2. /\ Members(f) \subseteq Sessions /\ f[0] \in Members(f)
      /\ Teams!Fits(Members(f))
  BY MembersAre, SeatedFit, SeatZero DEF Led
<1>3. nextId = (nextId - 1) + 1 /\ nextId' - 1 = nextId
  BY <1>1 DEF Ids
<1>4. f[0] \in Sessions
  BY <1>2
<1>5. /\ [m \in Ids |-> Members(seat'[m])] = [[m \in Ids |-> Members(seat[m])] EXCEPT ![nextId] = Members(f)]
      /\ [m \in Ids |-> seat'[m][0]] = [[m \in Ids |-> seat[m][0]] EXCEPT ![nextId] = f[0]]
  BY <1>1, MappedTo
<1> QED
  BY <1>1, <1>2, <1>3, <1>4, <1>5 DEF Teams!Found

\* A departure that leaves at least two is a Part, whoever leads afterwards.
LEMMA DepartureParts ==
  ASSUME Inv, Inv', NEW n \in parties, NEW f, Led(f), NEW q \in Members(seat[n]),
         Members(f) = Members(seat[n]) \ {q},
         seat[n][0] # q => f[0] = seat[n][0],
         ~(Cardinality(Members(seat[n]) \ {q}) <= 1),
         seat' = [seat EXCEPT ![n] = f], nextId' = nextId
  PROVE  Teams!Part
<1>1. n \in Ids /\ q \in Sessions
  BY SeatsAreLed
<1>2. f[0] \in Members(f) /\ f[0] \in Sessions
  BY MembersAre, SeatZero DEF Led
<1>3. Cardinality({f[0]}) = 1
  BY FS_Singleton
<1>4. Members(seat[n]) \ {q} # {f[0]}
  BY <1>3
<1> QED
  BY <1>1, <1>2, <1>4, MappedTo DEF Teams!Part

LEMMA CleanUpMeets ==
  ASSUME Inv, Inv', NEW p \in Sessions, CleanUp(p), nextId' = nextId
  PROVE  Teams!Next \/ UNCHANGED Teams!vars
<1> DEFINE n == partyOf[p]
<1>1. CASE ~HasParty(p)
  BY <1>1 DEF CleanUp, Teams!vars
<1>2. CASE HasParty(p)
  <2>1. n \in parties /\ n \in Ids /\ p \in Members(seat[n])
    BY <1>2 DEF HasParty, Inv, TypeOK, RecordedIsSeated
  <2>2. CASE Cardinality(Members(seat[n]) \ {p}) <= 1
    <3>1. DisbandParty(n)
      BY <1>2, <2>2 DEF CleanUp
    <3> QED
      BY <2>1, <3>1, DisbandDissolves DEF Teams!Next
  <2>3. CASE ~(Cardinality(Members(seat[n]) \ {p}) <= 1)
    <3>1. seat' = [seat EXCEPT ![n] = SeatsWithout(seat[n], p)]
      BY <1>2, <2>1, <2>3 DEF CleanUp, Inv, TypeOK
    <3>2. Members(seat[n]) \ {p} # {}
      BY <2>3, FS_EmptySet
    <3>3. /\ Led(SeatsWithout(seat[n], p))
          /\ Members(SeatsWithout(seat[n], p)) = Members(seat[n]) \ {p}
          /\ seat[n][0] # p => SeatsWithout(seat[n], p)[0] = seat[n][0]
      BY <2>1, <3>2, SeatsAreLed, HeirSeats
    <3>4. Teams!Part
      BY <2>1, <2>3, <3>1, <3>3, DepartureParts
    <3> QED
      BY <3>4 DEF Teams!Next
  <2> QED
    BY <2>2, <2>3
<1> QED
  BY <1>1, <1>2

\* The answer to an invitation.
LEMMA AnswerMeets ==
  ASSUME Inv, Inv', NEW p \in Sessions, Accept(p) \/ Decline(p)
  PROVE  Teams!Next \/ UNCHANGED Teams!vars
<1> DEFINE n == invitation[p]
<1>1. nextId' = nextId
  BY DEF Accept, Decline
<1>2. CASE Accept(p) /\ MayJoin(p, n)
  <2> DEFINE f == WithMember(seat[n], p)
  <2>1. n \in parties /\ n \in Ids /\ ~IsFull(seat[n]) /\ p \notin Members(seat[n])
    BY <1>2 DEF MayJoin, Inv, TypeOK
  <2>2. Led(f) /\ Members(f) = Members(seat[n]) \cup {p} /\ f[0] = seat[n][0]
    BY <2>1, SeatsAreLed, JoinSeats
  <2>3. seat' = [seat EXCEPT ![n] = f]
    BY <1>2, <2>1 DEF Accept, Inv, TypeOK
  <2> HIDE DEF f
  <2>4. Members(seat[n]) # {} /\ Teams!Fits(Members(seat[n]) \cup {p})
    BY <2>1, <2>2, <2>3, SeatsAreLed, SeatedFit DEF Led
  <2> HIDE DEF n
  <2>5. /\ [m \in Ids |-> Members(seat'[m])] = [[m \in Ids |-> Members(seat[m])] EXCEPT ![n] = Members(f)]
        /\ [m \in Ids |-> seat'[m][0]] = [[m \in Ids |-> seat[m][0]] EXCEPT ![n] = f[0]]
    BY <2>1, <2>3, MappedTo
  <2>6. Teams!Join
    BY <1>1, <2>1, <2>2, <2>4, <2>5 DEF Teams!Join
  <2> QED
    BY <2>6 DEF Teams!Next
<1>3. CASE Accept(p) /\ ~MayJoin(p, n)
  BY <1>1, <1>3 DEF Accept, Teams!vars
<1>4. CASE Decline(p) /\ n \in parties /\ Cardinality(Members(seat[n])) <= 1
  <2>1. DisbandParty(n)
    BY <1>4 DEF Decline
  <2> QED
    BY <1>1, <1>4, <2>1, DisbandDissolves DEF Teams!Next
<1>5. CASE Decline(p) /\ ~(n \in parties /\ Cardinality(Members(seat[n])) <= 1)
  <2>1. seat' = seat
    BY <1>5 DEF Decline
  <2> QED
    BY <1>1, <2>1 DEF Teams!vars
<1> QED
  BY <1>2, <1>3, <1>4, <1>5

\* Departures, promotions and the command.
LEMMA ChangeMeets ==
  ASSUME Inv, Inv', NEW p \in Sessions, NEW q \in Sessions,
         Remove(p, q) \/ Promote(p, q) \/ Command(p, q)
  PROVE  Teams!Next \/ UNCHANGED Teams!vars
<1> DEFINE n == partyOf[p]
<1>1. nextId' = nextId
  BY DEF Remove, Promote, Command
<1>2. CASE Remove(p, q)
  <2>1. n \in parties /\ n \in Ids
    BY <1>2 DEF Remove, HasParty, Inv, TypeOK
  <2>2. CASE (q = p /\ IsLeader(p, n)) \/ Cardinality(Members(seat[n]) \ {q}) <= 1
    <3>1. DisbandParty(n)
      BY <1>2, <2>2 DEF Remove
    <3> QED
      BY <1>1, <2>1, <3>1, DisbandDissolves DEF Teams!Next
  <2>3. CASE ~((q = p /\ IsLeader(p, n)) \/ Cardinality(Members(seat[n]) \ {q}) <= 1)
    <3> DEFINE f == WithoutMember(seat[n], q)
    <3>1. seat' = [seat EXCEPT ![n] = f]
      BY <1>2, <2>1, <2>3 DEF Remove, RemovePartyMember, Inv, TypeOK
    <3>2. seat[n][0] # q
      BY <1>2, <2>3 DEF Remove, IsLeader
    <3>3. Led(f) /\ Members(f) = Members(seat[n]) \ {q} /\ f[0] = seat[n][0]
      BY <2>1, <3>2, SeatsAreLed, LeaveSeats
    <3> HIDE DEF f
    <3>4. CASE q \in Members(seat[n])
      <4>1. Teams!Part
        BY <1>1, <2>1, <2>3, <3>1, <3>3, <3>4, DepartureParts
      <4> QED
        BY <4>1 DEF Teams!Next
    <3>5. CASE q \notin Members(seat[n])
      <4>1. Members(f) = Members(seat[n])
        BY <3>3, <3>5
      <4>2. /\ [m \in Ids |-> Members(seat'[m])] = [m \in Ids |-> Members(seat[m])]
            /\ [m \in Ids |-> seat'[m][0]] = [m \in Ids |-> seat[m][0]]
        BY <2>1, <3>1, <3>3, <4>1, MappedTo
      <4> QED
        BY <1>1, <4>2 DEF Teams!vars
    <3> QED
      BY <3>4, <3>5
  <2> QED
    BY <2>2, <2>3
<1>3. CASE Promote(p, q)
  <2> DEFINE f == WithLeader(seat[n], q)
  <2>1. n \in parties /\ n \in Ids /\ q \in Members(seat[n])
    BY <1>3 DEF Promote, HasParty, Inv, TypeOK
  <2>2. seat' = [seat EXCEPT ![n] = f]
    BY <1>3, <2>1 DEF Promote, Inv, TypeOK
  <2>3. Members(f) = Members(seat[n]) /\ f[0] = q
    BY <2>1, SeatsAreLed, LeadSeats
  <2> HIDE DEF f
  <2> HIDE DEF n
  <2>4. /\ [m \in Ids |-> Members(seat'[m])] = [[m \in Ids |-> Members(seat[m])] EXCEPT ![n] = Members(f)]
        /\ [m \in Ids |-> seat'[m][0]] = [[m \in Ids |-> seat[m][0]] EXCEPT ![n] = f[0]]
    BY <2>1, <2>2, MappedTo
  <2>5. Teams!HandOver
    BY <1>1, <2>1, <2>3, <2>4 DEF Teams!HandOver
  <2> QED
    BY <2>5 DEF Teams!Next
<1>4. CASE Command(p, q)
  BY <1>4 DEF Command, Teams!vars
<1> QED
  BY <1>2, <1>3, <1>4

LEMMA CreateMeets ==
  ASSUME Inv, Inv', NEW p \in Sessions, NEW q \in Sessions, Create(p, q)
  PROVE  Teams!Next
<1> DEFINE f == [Vacant EXCEPT ![0] = p]
<1>1. \A s \in Slots : f[s] = IF s = 0 THEN p ELSE NoOne
  BY DEF Vacant
<1>2. Led(f)
  BY <1>1, SeatZero DEF Led, Distinct, Seating, Vacant
<1>3. CreateParty(f)
  BY DEF Create
<1> QED
  BY <1>2, <1>3, CreateFounds DEF Teams!Next

LEMMA EventMeets ==
  ASSUME Inv, Inv', NEW G \in SUBSET ingame, EventParty(G)
  PROVE  Teams!Next
<1> DEFINE valid == {p \in G : ~IsInParty(p)}
<1>1. PICK f \in Lineups(valid) : CreateParty(f)
  BY DEF EventParty
<1>2. Cardinality(valid) > 1 /\ valid \subseteq Sessions
  BY DEF EventParty, Inv, TypeOK
<1>3. Led(f)
  BY <1>2, LineupSeats
<1> QED
  BY <1>1, <1>3, CreateFounds DEF Teams!Next

LEMMA InitMeets == Init => Teams!Init
<1> SUFFICES ASSUME Init PROVE Teams!Init
  OBVIOUS
<1>1. Vacant[0] = NoOne /\ Members(Vacant) = {}
  BY VacantSeats, SeatZero DEF Vacant
<1>2. /\ [n \in Ids |-> Members(seat[n])] = [n \in Ids |-> {}]
      /\ [n \in Ids |-> seat[n][0]] = [n \in Ids |-> NoOne]
      /\ nextId - 1 = 0
  BY <1>1 DEF Init
<1> QED
  BY <1>2 DEF Teams!Init

LEMMA NextMeets == Inv /\ Inv' /\ [Next]_vars => [Teams!Next]_(Teams!vars)
<1> SUFFICES ASSUME Inv, Inv', [Next]_vars PROVE Teams!Next \/ UNCHANGED Teams!vars
  OBVIOUS
<1>1. CASE UNCHANGED vars
  BY <1>1 DEF vars, Teams!vars
<1>2. CASE Requests
  <2>1. ASSUME NEW p \in Sessions, NEW q \in Sessions, Invite(p, q)
        PROVE  UNCHANGED Teams!vars
    BY <2>1 DEF Invite, Teams!vars
  <2> QED
    BY <1>2, <2>1, CreateMeets DEF Requests
<1>3. CASE Answers
  BY <1>3, AnswerMeets DEF Answers
<1>4. CASE Changes
  BY <1>4, ChangeMeets DEF Changes
<1>5. ASSUME NEW p \in Sessions, Delete(p) PROVE Teams!Next
  <2>1. partyOf[p] \in parties /\ DisbandParty(partyOf[p]) /\ nextId' = nextId
    BY <1>5 DEF Delete, HasParty
  <2> QED
    BY <2>1, DisbandDissolves DEF Teams!Next
<1>6. CASE \E p \in Sessions : Leave(p)
  BY <1>6, CleanUpMeets DEF Leave
<1>7. CASE \E p \in Sessions : Panic(p)
  BY <1>7 DEF Panic, Teams!vars
<1>8. CASE \E p \in Sessions, z \in Zones : Enter(p, z)
  BY <1>8 DEF Enter, Teams!vars
<1>9. CASE Moves
  <2>1. ASSUME NEW p \in Sessions, NEW z \in Zones, Teleport(p, z) PROVE UNCHANGED Teams!vars
    BY <2>1 DEF Teleport, Teams!vars
  <2> QED
    BY <1>9, <2>1, CleanUpMeets DEF Moves, ZoneChange
<1>10. CASE Events
  BY <1>10, EventMeets DEF Events
<1> QED
  BY <1>1, <1>2, <1>3, <1>4, <1>5, <1>6, <1>7, <1>8, <1>9, <1>10 DEF Next

\* Whatever players, disconnects and events do, parties are founded under fresh
\* ids, joined and left one by one with a leader at every moment, never shrink to
\* one member, and end as a whole.
THEOREM PartiesAreTeams == Spec => IsTeams
<1>1. Inv /\ [Next]_vars => Inv'
  BY NextInv
<1>2. Inv /\ Inv' /\ [Next]_vars => [Teams!Next]_(Teams!vars)
  BY NextMeets
<1> QED
  BY <1>1, <1>2, InitInv, InitMeets, PTL DEF Spec, IsTeams, Teams!Spec
=============================================================================
