--------------------------------- MODULE War ---------------------------------
(* The nation war and the castle siege (systems/war.rs, handler/siege.rs):    *)
(* the battle state behind its lock, the task that ticks it once a second,    *)
(* the commands of an operator and of the command schedule that open, decide  *)
(* and close it, and the clan chiefs who fight, are made captains and are     *)
(* banished.                                                                  *)
(*                                                                            *)
(* The tick decides under the lock (war_tick) and acts on its decision later  *)
(* (war_tick_world): two steps, with anything in between.  One access to the  *)
(* state or one loop over the sessions is one step.  Left out, because nothing *)
(* here reads them: announcements, rewards, monster abilities, statistics, and *)
(* who stands in the other nation's home.  battle_zone_type is always 0.       *)
EXTENDS Integers, FiniteSetsExt

CONSTANTS
  Chiefs,        \* chiefs of the top-ranked clans, who can become commanders
  Nation,        \* nation of each: 1 is Karus, 2 is El Morad
  Times,         \* battle_time: 0 unless something sets it
  BattleZones,   \* offsets that the commands +open1 .. +open6 may name
  FlagVictory,   \* NUM_FLAG_VICTORY
  AllMonuments,  \* 7: monuments of Nereids Island
  BanAnnounce,   \* 10: the seconds to the announcement of a banishment and ...
  BanExecute,    \* 30: ... to the banishment when battle_time is 0
  MaxDead,       \* bound: deaths counted per nation
  MaxCaptures,   \* bound: monument points after which no monument falls
  MaxOrders      \* bound: commands given in one run

Nations == {1, 2}
Enemy(n) == 3 - n

ASSUME WarAssumption ==
  /\ Nation \in [Chiefs -> Nations]
  /\ Times \subseteq Nat
  /\ BattleZones \subseteq 1..6
  /\ FlagVictory \in Nat \ {0}
  /\ AllMonuments \in Nat \ {0}
  /\ {BanAnnounce, BanExecute} \subseteq Nat \ {0} /\ BanAnnounce < BanExecute
  /\ {MaxDead, MaxCaptures, MaxOrders} \subseteq Nat

VARIABLES
  time,        \* battle_time
  battle,      \* BattleState
  siege,       \* CswEventState.status: "none", "prep" or "war"
  commanders,  \* war_commanders
  captains,    \* chiefs in the game whose fame is COMMAND_CAPTAIN
  online,      \* chiefs in the game
  field,       \* chiefs whose zone, or saved zone, is a battle zone
  todo,        \* what war_tick_world has still to do in this second
  clerk,       \* the operator: "idle", or "demote" inside +close
  orders,      \* commands given so far
  sieged       \* history: a siege has set battle_open since the last opening

vars == <<time, battle, siege, commanders, captains, online, field, todo, clerk, orders, sieged>>
people == <<commanders, captains, online, field>>

Zero == [n \in Nations |-> 0]

\* reset_battle_zone.
Peace == [open |-> "none", zone |-> 0, victory |-> 0, invaded |-> {}, banish |-> FALSE,
          delay |-> 0, left |-> 0, selected |-> FALSE,
          dead |-> Zero, flag |-> Zero, points |-> Zero, monuments |-> Zero]

\* A decision of the tick, with the nation it is about.
Do(what, n) == [what |-> what, nation |-> n]
Nothing == Do("none", 0)

Init ==
  /\ time \in Times
  /\ battle = Peace
  /\ siege = "none"
  /\ commanders = {} /\ captains = {}
  /\ online = {}
  /\ field = {}
  /\ todo = Nothing
  /\ clerk = "idle"
  /\ orders = 0
  /\ sieged = FALSE

-----------------------------------------------------------------------------
(* Functions of the battle state. *)

IsWarOpen == battle.open # "none"

\* battle_zone_open, refused while any battle is open.
Opened(kind, z) ==
  [Peace EXCEPT !.open = kind, !.zone = z, !.left = time]

\* battle_zone_close: a siege is left as it is.
Closed(b) == IF b.open \in {"nation", "snow"} THEN [Peace EXCEPT !.banish = TRUE] ELSE b

\* A slip: the gate of the nation that lost before stays open.
DecidedAgain(b, n) ==
  [b EXCEPT !.victory = n, !.invaded = @ \cup {Enemy(n)}, !.banish = TRUE, !.delay = 0]

\* battle_zone_result: whatever is open, even nothing.
Decided(b, n) ==
  [b EXCEPT !.victory = n, !.invaded = {Enemy(n)}, !.banish = TRUE, !.delay = 0]

\* Of two counts the nation with the larger one; 0 for a draw.
Larger(count) ==
  CASE count[1] > count[2] -> 1 [] count[2] > count[1] -> 2 [] OTHER -> 0
Fewer(count) == LET n == Larger(count) IN IF n = 0 THEN 0 ELSE Enemy(n)

\* winner_type_for_zone: the zones that are decided at half time.
HasWinner(z) == z \in {1, 2, 3, 4, 6}

\* battle_winner_result.  No code counts fallen monsters, so in zones 1 to 3
\* the comparison by monsters is a draw and goes on to the deaths.
Winner(b) ==
  IF b.zone = 4 /\ Larger(b.points) # 0 THEN Larger(b.points) ELSE Fewer(b.dead)

AtLeast(n, low) == Max({n, low})
AnnounceAt == IF time > 0 THEN AtLeast(time \div 360, 1) ELSE BanAnnounce
ExecuteAt  == IF time > 0 THEN AtLeast(time \div 120, 2) ELSE BanExecute

-----------------------------------------------------------------------------
(* war_tick: one second, under the lock. *)

\* csw_timer_tick, at the end of the second: the siege's phase may be over or not.
CswTick ==
  \/ todo' = Nothing
  \/ siege = "prep" /\ todo' = Do("siegeOpens", 0)
  \/ siege = "war" /\ todo' = Do("siegeEnds", 0)

\* A slip: the announcement costs a second of the war without a look at its end.
TickAnnouncesOnClock ==
  /\ battle.banish
  /\ battle.delay + 1 = AnnounceAt
  /\ battle' = [battle EXCEPT !.delay = @ + 1,
                              !.left = IF battle.open = "nation" THEN @ - 1 ELSE @]
  /\ CswTick

\* The banish timer, which runs in war and in peace, at an announcement ...
TickAnnounces ==
  /\ battle.banish
  /\ battle.delay + 1 = AnnounceAt
  /\ battle' = [battle EXCEPT !.delay = @ + 1]
  /\ CswTick

\* ... and at its end.
TickBanishes ==
  /\ battle.banish
  /\ battle.delay + 1 # AnnounceAt
  /\ battle.delay + 1 >= ExecuteAt
  /\ battle' = [battle EXCEPT !.banish = FALSE, !.delay = 0]
  /\ todo' = Do("banish", 0)

BanishWaits == ~battle.banish \/ (battle.delay + 1 # AnnounceAt /\ battle.delay + 1 < ExecuteAt)

Elapsed(b) == time - b.left

\* What a nation war asks for at the second that b has reached.
AskedBy(b) ==
  CASE b.left <= 0 -> Do("expire", 0)
    [] b.left > 0 /\ b.victory = 0 /\ ~b.selected /\ Elapsed(b) >= AtLeast(time \div 24, 1)
         -> Do("select", 0)
    [] b.left > 0 /\ b.victory = 0 /\ (b.selected \/ Elapsed(b) < AtLeast(time \div 24, 1)) ->
         IF /\ Elapsed(b) = time \div 4
            /\ b.zone = 4
            /\ \E n \in Nations : b.monuments[n] >= AllMonuments /\ b.monuments[Enemy(n)] = 0
           THEN Do("decide", CHOOSE n \in Nations : b.monuments[n] >= AllMonuments)
         ELSE IF Elapsed(b) = time \div 2 /\ HasWinner(b.zone)
           THEN IF Winner(b) = 0 THEN Do("draw", 0) ELSE Do("decide", Winner(b))
         ELSE Nothing
    [] OTHER -> Nothing

\* A slip: the clock stands still once there is a winner.
TickRunsUndecided ==
  /\ BanishWaits
  /\ LET counted == [battle EXCEPT !.delay = IF battle.banish THEN @ + 1 ELSE @]
         b == [counted EXCEPT !.left = @ - 1]
     IN IF battle.open # "nation" \/ battle.victory # 0
          THEN battle' = counted /\ CswTick
          ELSE /\ IF AskedBy(b) = Nothing THEN CswTick ELSE todo' = AskedBy(b)
               /\ battle' = [b EXCEPT !.selected = @ \/ AskedBy(b).what = "select"]

TickRuns ==
  /\ BanishWaits
  /\ LET counted == [battle EXCEPT !.delay = IF battle.banish THEN @ + 1 ELSE @]
         b == [counted EXCEPT !.left = @ - 1]
     IN IF battle.open # "nation"
          THEN battle' = counted /\ CswTick
          ELSE /\ IF AskedBy(b) = Nothing THEN CswTick ELSE todo' = AskedBy(b)
               /\ battle' = [b EXCEPT !.selected = @ \/ AskedBy(b).what = "select"]

Tick ==
  /\ todo = Nothing
  /\ TickAnnounces \/ TickBanishes \/ TickRuns
  /\ UNCHANGED <<time, siege, people, clerk, orders, sieged>>

-----------------------------------------------------------------------------
(* war_tick_world: what the task does about the decision. *)

InBattle == online \cap field

\* reset_war_commanders.
ResetCommanders ==
  /\ captains' = captains \ commanders
  /\ commanders' = {}
  /\ UNCHANGED <<online, field>>

\* select_war_commanders: the chiefs in a battle zone, old commanders forgotten.
SelectCommanders ==
  /\ commanders' = InBattle
  /\ captains' = captains \cup InBattle
  /\ UNCHANGED <<online, field>>

\* kick_out_zone_user: to Moradon.
KickOut(P) == field' = field \ P

\* A slip: nobody loses the rank.
ExecuteBanishOnly ==
  /\ KickOut(CASE battle.open = "nation" ->
                    {p \in InBattle : battle.victory # 0 /\ Nation[p] # battle.victory}
               [] battle.open = "none" -> InBattle
               [] OTHER -> {})
  /\ UNCHANGED <<commanders, captains, online>>

\* execute_banish: in a nation war the losers leave the battle; in peace
\* everybody leaves it and the captains lose their rank; otherwise nothing.
ExecuteBanish ==
  /\ KickOut(CASE battle.open = "nation" ->
                    {p \in InBattle : battle.victory # 0 /\ Nation[p] # battle.victory}
               [] battle.open = "none" -> InBattle
               [] OTHER -> {})
  /\ captains' = IF battle.open = "none" THEN {} ELSE captains
  /\ UNCHANGED <<commanders, online>>

Act ==
  /\ \/ /\ todo.what = "expire"
        /\ battle' = Closed(battle)
        /\ IF IsWarOpen THEN todo' = Do("demote", 0) ELSE CswTick
        /\ UNCHANGED people
     \/ /\ todo.what = "draw"
        /\ battle' = Closed(battle)
        /\ CswTick
        /\ UNCHANGED people
     \/ /\ todo.what = "decide"
        /\ battle' = Decided(battle, todo.nation)
        /\ CswTick
        /\ UNCHANGED people
     \/ /\ todo.what \in {"demote", "select", "banish"}
        /\ CASE todo.what = "demote" -> ResetCommanders
             [] todo.what = "select" -> SelectCommanders
             [] todo.what = "banish" -> ExecuteBanish
        /\ CswTick
        /\ UNCHANGED battle
  /\ UNCHANGED <<time, siege, clerk, orders, sieged>>

\* csw_tick_world acts: battle_open is overwritten, whatever it was, and even
\* when +cswclose has ended the siege meanwhile (csw_war_open then refuses).
CswAct ==
  /\ todo.what \in {"siegeOpens", "siegeEnds"}
  /\ IF todo.what = "siegeOpens"
       THEN /\ siege' = IF siege = "none" THEN "none" ELSE "war"
            /\ battle' = [battle EXCEPT !.open = "siege"]
       ELSE /\ siege' = "none"
            /\ battle' = [battle EXCEPT !.open = "none"]
  /\ sieged' = TRUE
  /\ todo' = Nothing
  /\ UNCHANGED <<time, people, clerk, orders>>

-----------------------------------------------------------------------------
(* Commands. *)

\* One more command, by an operator who is not in the middle of another.
Order == clerk = "idle" /\ orders < MaxOrders /\ orders' = orders + 1

\* +open1 .. +open6 and +snow, from an operator or from the schedule.
Open ==
  /\ Order
  /\ ~IsWarOpen
  /\ \/ \E z \in BattleZones : battle' = Opened("nation", z)
     \/ battle' = Opened("snow", 0)
  /\ sieged' = FALSE
  /\ UNCHANGED <<time, siege, people, todo, clerk>>

\* +close of an operator, who then demotes the commanders; the schedule's does not.
Close ==
  /\ Order
  /\ IsWarOpen
  /\ battle' = Closed(battle)
  /\ clerk' \in {"idle", "demote"}
  /\ UNCHANGED <<time, siege, people, todo, sieged>>

Demote ==
  /\ clerk = "demote"
  /\ ResetCommanders
  /\ clerk' = "idle"
  /\ UNCHANGED <<time, battle, siege, todo, orders, sieged>>

\* +warresult.
WarResult ==
  /\ Order
  /\ IsWarOpen
  /\ \E n \in Nations : battle' = Decided(battle, n)
  /\ UNCHANGED <<time, siege, people, todo, clerk, sieged>>

\* +captain, in war and in peace.
Captain ==
  /\ Order
  /\ SelectCommanders
  /\ UNCHANGED <<time, battle, siege, todo, clerk, sieged>>

\* +cswstart.
CswStart ==
  /\ Order
  /\ siege = "none"
  /\ siege' = "prep"
  /\ UNCHANGED <<time, battle, people, todo, clerk, sieged>>

\* +cswclose, in either phase.
CswClose ==
  /\ Order
  /\ siege # "none"
  /\ siege' = "none"
  /\ battle' = [battle EXCEPT !.open = "none"]
  /\ sieged' = TRUE
  /\ UNCHANGED <<time, people, todo, clerk>>

-----------------------------------------------------------------------------
(* The chiefs. *)

\* validate_zone_entry of a battle zone: the offset of the open battle zone is
\* asked, not whether a battle is open; an invaded nation stays out of the battle.
MayFight(p) == battle.zone # 0 /\ Nation[p] \notin battle.invaded

\* A warp or a gate to the battlefield, and away from it.
Go(p) ==
  /\ p \in online
  /\ \/ p \notin field /\ MayFight(p) /\ field' = field \cup {p}
     \/ p \in field /\ field' = field \ {p}
  /\ UNCHANGED <<time, battle, siege, commanders, captains, online, todo, clerk, orders, sieged>>

\* A slip: a player who logged out on the battlefield of an open war is let in.
RedirectedInPeace(p) == ~IsWarOpen

\* should_redirect_to_moradon and check_ishome_relocation of a battle zone.
Redirected(p) == ~IsWarOpen \/ battle.victory \notin {0, Nation[p]}

\* gamestart: a commander who enters during a war is a captain at once.
Login(p) ==
  /\ p \notin online
  /\ online' = online \cup {p}
  /\ field' = IF Redirected(p) THEN field \ {p} ELSE field
  /\ captains' = IF IsWarOpen /\ p \in commanders THEN captains \cup {p} ELSE captains
  /\ UNCHANGED <<time, battle, siege, commanders, todo, clerk, orders, sieged>>

\* The zone is saved, the rank of captain is not.
Logout(p) ==
  /\ p \in online
  /\ online' = online \ {p}
  /\ captains' = captains \ {p}
  /\ UNCHANGED <<time, battle, siege, commanders, field, todo, clerk, orders, sieged>>

\* A death on the battlefield is counted while any battle is open.
Die(n) ==
  /\ InBattle # {}
  /\ IsWarOpen
  /\ battle.dead[n] < MaxDead
  /\ battle' = [battle EXCEPT !.dead[n] = @ + 1]
  /\ UNCHANGED <<time, siege, people, todo, clerk, orders, sieged>>

\* A monument of Nereids Island falls to n.
Capture(n) ==
  /\ battle.open = "nation"
  /\ battle.zone = 4
  /\ \E p \in InBattle : Nation[p] = n
  /\ battle.points[n] <= MaxCaptures
  /\ LET own == battle.monuments[n] + 1
         other == battle.monuments[Enemy(n)]
     IN battle' = [battle EXCEPT
          !.points[n] = @ + 2 + (IF own >= AllMonuments THEN 10 ELSE 0),
          !.monuments = [k \in Nations |-> IF k = n THEN own ELSE AtLeast(other - 1, 0)]]
  /\ UNCHANGED <<time, siege, people, todo, clerk, orders, sieged>>

\* A flag lever on the battlefield: neither an open battle nor an undecided one
\* is asked for.  Bound: a nation pulls no more levers than a victory takes.
FlagLever(n) ==
  /\ \E p \in InBattle : Nation[p] = n
  /\ battle.flag[n] < FlagVictory
  /\ LET b == [battle EXCEPT !.flag[n] = @ + 1]
     IN battle' = IF b.flag[n] >= FlagVictory THEN Decided(b, n) ELSE b
  /\ UNCHANGED <<time, siege, people, todo, clerk, orders, sieged>>

-----------------------------------------------------------------------------
Task == Tick \/ Act \/ CswAct

Commands == Open \/ Close \/ WarResult \/ Captain \/ CswStart \/ CswClose

Fighters ==
  \/ \E p \in Chiefs : Go(p) \/ Login(p) \/ Logout(p)
  \/ \E n \in Nations : Die(n) \/ Capture(n) \/ FlagLever(n)

Next == Task \/ Commands \/ Demote \/ Fighters

\* The task ticks for ever: the interval fires every second and a decision is
\* carried out before the next tick.
Spec == Init /\ [][Next]_vars /\ WF_vars(Task)

-----------------------------------------------------------------------------
(* Properties. *)

\* Every variable has its type; the banish timer never runs past its end.
TypeOK ==
  /\ time \in Times
  /\ battle.open \in {"none", "nation", "snow", "siege"}
  /\ battle.zone \in BattleZones \cup {0}
  /\ battle.victory \in Nations \cup {0}
  /\ battle.invaded = (IF battle.victory = 0 THEN {} ELSE {Enemy(battle.victory)})
  /\ battle.banish \in BOOLEAN /\ battle.selected \in BOOLEAN
  /\ battle.delay \in 0..(ExecuteAt - 1)
  /\ battle.left \in -1..time
  /\ \A n \in Nations : /\ battle.dead[n] \in 0..MaxDead
                        /\ battle.flag[n] \in 0..FlagVictory
                        /\ battle.points[n] \in 0..(MaxCaptures + 12)
                        /\ battle.monuments[n] \in Nat
  /\ siege \in {"none", "prep", "war"}
  /\ commanders \subseteq Chiefs /\ captains \subseteq online
  /\ online \subseteq Chiefs
  /\ field \subseteq Chiefs
  /\ todo.what \in {"none", "expire", "draw", "decide", "demote", "select", "banish",
                    "siegeOpens", "siegeEnds"}
  /\ clerk \in {"idle", "demote"}
  /\ orders \in 0..MaxOrders

\* The banishment that a result or a closing asked for has been carried out.
BanishDone == ~battle.banish /\ todo.what # "banish"

\* Once the losers of a decided nation war have been banished, none of them is
\* on the battlefield: not by a warp, not by logging out there and in again, not
\* when the winner was changed afterwards.
LosersBanished ==
  battle.open = "nation" /\ battle.victory # 0 /\ BanishDone =>
    \A p \in InBattle : Nation[p] = battle.victory

\* After a war and its banishment nobody is left on a battlefield and nobody is
\* a captain, unless a siege took the place of the battle.
PeaceRestored ==
  battle.open = "none" /\ BanishDone /\ ~sieged => InBattle = {} /\ captains = {}

\* A nation war keeps its times: past half time a zone that has a winner rule
\* has a winner, and a war whose time is over is being closed.
OnTime ==
  battle.open = "nation" =>
    /\ battle.left <= 0 /\ battle.left < time => todo.what = "expire"
    /\ /\ HasWinner(battle.zone)
       /\ time >= 4
       /\ Elapsed(battle) > time \div 2
       => battle.victory # 0

\* Every nation war ends, whoever closes, decides, captures or leaves.
WarEnds == battle.open = "nation" ~> battle.open # "nation"
==============================================================================
