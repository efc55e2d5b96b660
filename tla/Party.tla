-------------------------------- MODULE Party --------------------------------
(* Parties (handler/party.rs, world/social.rs, the Party struct of            *)
(* world/types.rs) together with what enters and leaves them from outside:    *)
(* disconnects, zone changes, teleports, panics of a session's task, and the  *)
(* parties the server makes for event rooms (systems/event_room.rs).          *)
(*                                                                            *)
(* A party lives in two places: its seats are in the table `parties', and     *)
(* each member's CharacterInfo names the party.  One handler is one step.     *)
(* A session id is given out once; one that nothing names any more stands for *)
(* the next fresh id.  Requests of a dead player and of one outside the game  *)
(* are dropped by the dispatcher, as are requests inside the 850 ms limit:    *)
(* steps that do not happen.                                                  *)
EXTENDS Naturals, FiniteSets

CONSTANTS
  Sessions,         \* session ids
  NoOne,            \* an empty seat
  MaxSeats,         \* MAX_PARTY_USERS
  MaxParties,       \* bound: parties made in one run of the server
  Zones,
  EventZones,       \* zones of the event rooms that get parties
  Suits             \* <<inviter, target, zone>>: nation, level, clan, item and zone checks pass

ASSUME PartyAssumption ==
  /\ NoOne \notin Sessions
  /\ MaxSeats \in Nat /\ MaxSeats >= 2
  /\ MaxParties \in Nat
  /\ EventZones \subseteq Zones
  /\ Suits \subseteq Sessions \X Sessions \X Zones

Ids   == 1..MaxParties
Slots == 0..(MaxSeats - 1)

VARIABLES
  ingame,      \* sessions with a character in the game
  zone,        \* zone of each session
  partyOf,     \* CharacterInfo.party_id; 0 is None
  parties,     \* ids in the party table
  seat,        \* members[..] of each party, slot 0 the leader; vacant when not in the table
  command,     \* command_leader_sid of each party
  invitation,  \* party_invitations; 0 when there is none
  nextId,      \* next_party_id
  crossed      \* history: put into an event party while invited to another

vars == <<ingame, zone, partyOf, parties, seat, command, invitation, nextId, crossed>>

Vacant == [s \in Slots |-> NoOne]

Init ==
  /\ ingame = {}
  /\ zone \in [Sessions -> Zones]
  /\ partyOf = [p \in Sessions |-> 0]
  /\ parties = {}
  /\ seat = [n \in Ids |-> Vacant]
  /\ command = [n \in Ids |-> NoOne]
  /\ invitation = [p \in Sessions |-> 0]
  /\ nextId = 1
  /\ crossed = {}

-----------------------------------------------------------------------------
(* The Party struct. *)

Members(f) == {f[s] : s \in Slots} \ {NoOne}

IsFull(f) == \A s \in Slots : f[s] # NoOne

\* add_member: the first empty seat.
WithMember(f, p) ==
  [s \in Slots |-> IF f[s] = NoOne /\ \A t \in Slots : t < s => f[t] # NoOne
                   THEN p ELSE f[s]]

\* remove_member: the first seat that names p.
WithoutMember(f, p) ==
  [s \in Slots |-> IF f[s] = p /\ \A t \in Slots : t < s => f[t] # p
                   THEN NoOne ELSE f[s]]

\* swap_leader with the seat of q.
WithLeader(f, q) ==
  [s \in Slots |-> IF s = 0 THEN q ELSE IF f[s] = q THEN f[0] ELSE f[s]]

\* The member in the first occupied seat after the leader's.
NextInLine(f) ==
  f[CHOOSE s \in Slots \ {0} : f[s] # NoOne /\ \A t \in Slots \ {0} : t < s => f[t] = NoOne]

-----------------------------------------------------------------------------
(* The party table and the party ids (world/social.rs). *)

IsInParty(p) == partyOf[p] # 0

\* get_party of the caller's own party id.
HasParty(p) == IsInParty(p) /\ partyOf[p] \in parties

IsLeader(p, n) == seat[n][0] = p

\* A slip: only the leader's character is cleared.
DisbandLeaderOnly(n) ==
  /\ parties' = parties \ {n}
  /\ seat' = [seat EXCEPT ![n] = Vacant]
  /\ command' = [command EXCEPT ![n] = NoOne]
  /\ partyOf' = [p \in Sessions |-> IF p = seat[n][0] THEN 0 ELSE partyOf[p]]

\* disband_party: out of the table, then out of every member's character.
DisbandParty(n) ==
  /\ parties' = parties \ {n}
  /\ seat' = [seat EXCEPT ![n] = Vacant]
  /\ command' = [command EXCEPT ![n] = NoOne]
  /\ partyOf' = [p \in Sessions |-> IF p \in Members(seat[n]) THEN 0 ELSE partyOf[p]]

\* remove_party_member: only a member that was found loses the party id.
RemovePartyMember(n, p) ==
  /\ seat' = [seat EXCEPT ![n] = WithoutMember(@, p)]
  /\ partyOf' = IF p \in Members(seat[n]) THEN [partyOf EXCEPT ![p] = 0] ELSE partyOf
  /\ UNCHANGED <<parties, command>>

\* create_party, with the seats its caller fills in the same handler.
CreateParty(f) ==
  /\ nextId \in Ids
  /\ nextId' = nextId + 1
  /\ parties' = parties \cup {nextId}
  /\ seat' = [seat EXCEPT ![nextId] = f]
  /\ command' = [command EXCEPT ![nextId] = f[0]]
  /\ partyOf' = [p \in Sessions |-> IF p \in Members(f) THEN nextId ELSE partyOf[p]]

-----------------------------------------------------------------------------
(* Requests of a player (handler/party.rs). *)

\* A slip: a player who is in a party can be invited to another.
MayInviteMember(p, q) ==
  /\ q # p
  /\ q \in ingame
  /\ invitation[q] = 0
  /\ <<p, q, zone[p]>> \in Suits
  /\ zone[p] = zone[q]

\* The checks on the invited player that PARTY_CREATE and PARTY_INSERT share.
MayInvite(p, q) ==
  /\ q # p
  /\ q \in ingame
  /\ ~IsInParty(q)
  /\ invitation[q] = 0
  /\ <<p, q, zone[p]>> \in Suits
  /\ zone[p] = zone[q]

\* PARTY_CREATE: a party of one, and an invitation to it.
Create(p, q) ==
  /\ p \in ingame
  /\ MayInvite(p, q)
  /\ ~IsInParty(p)
  /\ invitation[p] = 0
  /\ CreateParty([Vacant EXCEPT ![0] = p])
  /\ invitation' = [invitation EXCEPT ![q] = nextId]
  /\ UNCHANGED <<ingame, zone, crossed>>

\* PARTY_INSERT: the leader of a party with an empty seat invites.
Invite(p, q) ==
  /\ p \in ingame
  /\ HasParty(p)
  /\ IsLeader(p, partyOf[p])
  /\ ~IsFull(seat[partyOf[p]])
  /\ MayInvite(p, q)
  /\ invitation' = [invitation EXCEPT ![q] = partyOf[p]]
  /\ UNCHANGED <<ingame, zone, partyOf, parties, seat, command, nextId, crossed>>

\* PARTY_PERMIT with 0: a party that has nobody but its leader is disbanded.
Decline(p) ==
  /\ p \in ingame
  /\ invitation[p] # 0
  /\ invitation' = [invitation EXCEPT ![p] = 0]
  /\ IF invitation[p] \in parties /\ Cardinality(Members(seat[invitation[p]])) <= 1
       THEN DisbandParty(invitation[p])
       ELSE UNCHANGED <<partyOf, parties, seat, command>>
  /\ UNCHANGED <<ingame, zone, nextId, crossed>>

\* A slip: the invitation is taken at its word, though the party is gone.
MayJoinAnyway(p, n) == ~IsFull(seat[n]) /\ p \notin Members(seat[n])

\* An accepted invitation counts when the party and its leader are still there,
\* in the zone of the invited player, with a seat that is free.
MayJoin(p, n) ==
  /\ n \in parties
  /\ seat[n][0] \in ingame
  /\ zone[seat[n][0]] = zone[p]
  /\ ~IsFull(seat[n])
  /\ p \notin Members(seat[n])

\* PARTY_PERMIT with 1: the invitation is gone, whether the joining works or not.
Accept(p) ==
  LET n == invitation[p] IN
  /\ p \in ingame
  /\ n # 0
  /\ invitation' = [invitation EXCEPT ![p] = 0]
  /\ IF MayJoin(p, n)
       THEN /\ seat' = [seat EXCEPT ![n] = WithMember(@, p)]
            /\ partyOf' = [partyOf EXCEPT ![p] = n]
       ELSE UNCHANGED <<seat, partyOf>>
  /\ UNCHANGED <<ingame, zone, parties, command, nextId, crossed>>

\* PARTY_REMOVE: a leader who goes ends the party, and so does a departure that
\* leaves one member; anyone else goes alone.
Remove(p, q) ==
  LET n == partyOf[p] IN
  /\ p \in ingame
  /\ HasParty(p)
  /\ q = p \/ IsLeader(p, n)
  /\ IF (q = p /\ IsLeader(p, n)) \/ Cardinality(Members(seat[n]) \ {q}) <= 1
       THEN DisbandParty(n)
       ELSE RemovePartyMember(n, q)
  /\ UNCHANGED <<ingame, zone, invitation, nextId, crossed>>

\* PARTY_DELETE: any member may end the party.
Delete(p) ==
  /\ p \in ingame
  /\ HasParty(p)
  /\ DisbandParty(partyOf[p])
  /\ UNCHANGED <<ingame, zone, invitation, nextId, crossed>>

\* PARTY_PROMOTE: the leader swaps seats with a member; the command goes along
\* when the leader held it.
Promote(p, q) ==
  LET n == partyOf[p] IN
  /\ p \in ingame
  /\ HasParty(p)
  /\ IsLeader(p, n)
  /\ q \in Members(seat[n])
  /\ seat' = [seat EXCEPT ![n] = WithLeader(@, q)]
  /\ command' = IF command[n] = p THEN [command EXCEPT ![n] = q] ELSE command
  /\ UNCHANGED <<ingame, zone, partyOf, parties, invitation, nextId, crossed>>

\* PARTY_COMMAND_PROMATE: the command leader hands the command to a member.
Command(p, q) ==
  LET n == partyOf[p] IN
  /\ p \in ingame
  /\ HasParty(p)
  /\ command[n] = p
  /\ q \in Members(seat[n])
  /\ command' = [command EXCEPT ![n] = q]
  /\ UNCHANGED <<ingame, zone, partyOf, parties, seat, invitation, nextId, crossed>>

-----------------------------------------------------------------------------
(* What happens to a player from outside. *)

\* A slip: a leader who disconnects is not succeeded.
SeatsWithoutHeir(f, p) == WithoutMember(f, p)

\* cleanup_party_on_disconnect: the seats the party keeps when p goes.
SeatsWithout(f, p) ==
  LET others == Members(f) \ {p}
  IN WithoutMember(IF f[0] = p /\ others # {} THEN WithLeader(f, NextInLine(f)) ELSE f, p)

\* A slip: the party is disbanded only when nobody stays.
CleanUpToOne(p) ==
  LET n == partyOf[p] IN
  /\ invitation' = [invitation EXCEPT ![p] = 0]
  /\ IF HasParty(p)
       THEN IF Members(seat[n]) \ {p} = {}
              THEN DisbandParty(n)
              ELSE /\ seat' = [seat EXCEPT ![n] = SeatsWithout(@, p)]
                   /\ partyOf' = [partyOf EXCEPT ![p] = 0]
                   /\ UNCHANGED <<parties, command>>
       ELSE UNCHANGED <<partyOf, parties, seat, command>>

CleanUp(p) ==
  LET n == partyOf[p] IN
  /\ invitation' = [invitation EXCEPT ![p] = 0]
  /\ IF HasParty(p)
       THEN IF Cardinality(Members(seat[n]) \ {p}) <= 1
              THEN DisbandParty(n)
              ELSE /\ seat' = [seat EXCEPT ![n] = SeatsWithout(@, p)]
                   /\ partyOf' = IF p \in Members(seat[n]) THEN [partyOf EXCEPT ![p] = 0]
                                                          ELSE partyOf
                   /\ UNCHANGED <<parties, command>>
       ELSE UNCHANGED <<partyOf, parties, seat, command>>

\* Logout, disconnect, duplicate login, end of an offline stall: the cleanup,
\* then the session is gone.
Leave(p) ==
  /\ p \in ingame
  /\ CleanUp(p)
  /\ ingame' = ingame \ {p}
  /\ UNCHANGED <<zone, nextId, crossed>>

\* A gate, a warp, a return scroll: the cleanup, then the new zone.
ZoneChange(p, z) ==
  /\ p \in ingame
  /\ z # zone[p]
  /\ CleanUp(p)
  /\ zone' = [zone EXCEPT ![p] = z]
  /\ UNCHANGED <<ingame, nextId, crossed>>

\* The server moves a player, to an event and back: no cleanup.
Teleport(p, z) ==
  /\ p \in ingame
  /\ z # zone[p]
  /\ zone' = [zone EXCEPT ![p] = z]
  /\ UNCHANGED <<ingame, partyOf, parties, seat, command, invitation, nextId, crossed>>

\* The task of a session panics: its handle is dropped and nothing is cleaned up.
Panic(p) ==
  /\ p \in ingame
  /\ ingame' = ingame \ {p}
  /\ partyOf' = [partyOf EXCEPT ![p] = 0]
  /\ UNCHANGED <<zone, parties, seat, command, invitation, nextId, crossed>>

\* A fresh session: an id that no seat, command or invitation names.
Enter(p, z) ==
  /\ p \notin ingame
  /\ partyOf[p] = 0
  /\ invitation[p] = 0
  /\ \A n \in Ids : p \notin Members(seat[n]) /\ command[n] # p
  /\ ingame' = ingame \cup {p}
  /\ zone' = [zone EXCEPT ![p] = z]
  /\ crossed' = crossed \ {p}
  /\ UNCHANGED <<partyOf, parties, seat, command, invitation, nextId>>

\* The seats of a party made of the players S, in some order.
Lineups(S) ==
  {f \in [Slots -> S \cup {NoOne}] :
     /\ \A s, t \in Slots : f[s] = f[t] /\ f[s] # NoOne => s = t
     /\ \A s, t \in Slots : s < t /\ f[t] # NoOne => f[s] # NoOne
     /\ IsFull(f) \/ Members(f) = S}

\* temple_event_create_parties: one nation's players of an event room that are
\* in no party get one; invitations are not looked at.
EventParty(G) ==
  LET valid == {p \in G : ~IsInParty(p)} IN
  /\ Cardinality(valid) > 1
  /\ \E z \in EventZones : \A p \in G : zone[p] = z
  /\ \E f \in Lineups(valid) :
       /\ CreateParty(f)
       /\ crossed' = crossed \cup {p \in Members(f) : invitation[p] # 0}
  /\ UNCHANGED <<ingame, zone, invitation>>

-----------------------------------------------------------------------------
Answers == \E p \in Sessions : Accept(p) \/ Decline(p)
Requests == \E p, q \in Sessions : Create(p, q) \/ Invite(p, q)
Changes == \E p, q \in Sessions : Remove(p, q) \/ Promote(p, q) \/ Command(p, q)
Moves == \E p \in Sessions, z \in Zones : ZoneChange(p, z) \/ Teleport(p, z)
Events == \E G \in SUBSET ingame : EventParty(G)

Next ==
  \/ Requests
  \/ Answers
  \/ Changes
  \/ \E p \in Sessions : Delete(p)
  \/ \E p \in Sessions : Leave(p)
  \/ \E p \in Sessions : Panic(p)
  \/ \E p \in Sessions, z \in Zones : Enter(p, z)
  \/ Moves
  \/ Events

Spec == Init /\ [][Next]_vars

-----------------------------------------------------------------------------
(* Properties. *)

\* Every variable has its type; ids not in the table have no seats.
TypeOK ==
  /\ ingame \subseteq Sessions
  /\ zone \in [Sessions -> Zones]
  /\ partyOf \in [Sessions -> Ids \cup {0}]
  /\ parties \subseteq Ids
  /\ seat \in [Ids -> [Slots -> Sessions \cup {NoOne}]]
  /\ command \in [Ids -> Sessions \cup {NoOne}]
  /\ invitation \in [Sessions -> Ids \cup {0}]
  /\ nextId \in 1..(MaxParties + 1)
  /\ crossed \subseteq Sessions
  /\ \A n \in Ids \ parties : seat[n] = Vacant

\* A party id in a character is never dangling: the party is in the table and
\* has a seat for that character.  A dangling id would lock the player out of
\* parties for good, since every request answers "already in a party".
RecordedIsSeated ==
  \A p \in Sessions : IsInParty(p) =>
    partyOf[p] \in parties /\ p \in Members(seat[partyOf[p]])

\* A member in the game carries the party's id, so nobody sits in two parties,
\* except a player whom an event party took while another invitation was open.
SeatedIsRecorded ==
  \A n \in parties : \A p \in Members(seat[n]) :
    p \in ingame /\ p \notin crossed => partyOf[p] = n

\* In every party of the table seat 0 is taken (somebody leads it), nobody has
\* two seats in it, and no id beyond the counter is in use, whatever sequence of
\* promotions, removals and disconnects came before.
PartySound ==
  \A n \in parties :
    /\ n < nextId
    /\ seat[n][0] # NoOne
    /\ \A s, t \in Slots : seat[n][s] = seat[n][t] /\ seat[n][s] # NoOne => s = t

\* Parties are groups that are founded, joined, left and dissolved as the
\* players expect: no step shrinks a party to one member, none leaves it
\* without a leader, none revives an id.
Teams == INSTANCE Teams WITH
  Ids <- Ids, Players <- Sessions, Capacity <- MaxSeats, NoOne <- NoOne,
  team <- [n \in Ids |-> Members(seat[n])],
  lead <- [n \in Ids |-> seat[n][0]],
  used <- nextId - 1
IsTeams == Teams!Spec
=============================================================================
