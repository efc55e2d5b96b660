----------------------------- MODULE War_proofs -----------------------------
(* Proofs about War, for any chiefs, battle times, zones and thresholds.       *)
EXTENDS War, TLAPS

USE WarAssumption DEF WarAssumption, Nations

-----------------------------------------------------------------------------
(* The functions of the battle state. *)

Whats == {"none", "expire", "draw", "decide", "demote", "select", "banish", "siegeOpens", "siegeEnds"}
Todos == [what : Whats, nation : Nations \cup {0}]

Battles == [open : {"none", "nation", "snow", "siege"}, zone : BattleZones \cup {0},
            victory : Nations \cup {0}, invaded : SUBSET Nations, banish : BOOLEAN,
            delay : Nat, left : Int, selected : BOOLEAN,
            dead : [Nations -> Nat], flag : [Nations -> Nat],
            points : [Nations -> Nat], monuments : [Nations -> Nat]]

LEMMA EnemyIs == \A n \in Nations : Enemy(n) \in Nations /\ Enemy(n) # n
                                    /\ \A m \in Nations : m # Enemy(n) => m = n
BY DEF Enemy

LEMMA AtLeastIs == \A n, low \in Int : AtLeast(n, low) = IF n >= low THEN n ELSE low
<1> TAKE n, low \in Int
<1> DEFINE m == IF n >= low THEN n ELSE low
<1>1. m \in {n, low} /\ (\A y \in {n, low} : m >= y)
  OBVIOUS
<1>2. \A x \in {n, low} : (\A y \in {n, low} : x >= y) => x = m
  OBVIOUS
<1> HIDE DEF m
<1>3. (CHOOSE x \in {n, low} : \A y \in {n, low} : x >= y) = m
  BY <1>1, <1>2, Zenon
<1> QED
  BY <1>3 DEF AtLeast, Max, m

\* The announcement of a banishment comes before the banishment, whatever the time.
LEMMA AnnounceFirst ==
  ASSUME time \in Nat
  PROVE  AnnounceAt \in Nat \ {0} /\ ExecuteAt \in Nat /\ AnnounceAt < ExecuteAt
<1>1. time \div 360 \in Nat /\ time \div 120 \in Nat /\ (time \div 360 < 2 \/ time \div 360 < time \div 120)
  OBVIOUS
<1>2. /\ AtLeast(time \div 360, 1) = IF time \div 360 >= 1 THEN time \div 360 ELSE 1
      /\ AtLeast(time \div 120, 2) = IF time \div 120 >= 2 THEN time \div 120 ELSE 2
  BY <1>1, AtLeastIs
<1>3. time \div 360 >= 2 => time \div 360 < time \div 120
  OBVIOUS
<1> QED
  BY <1>1, <1>2, <1>3 DEF AnnounceAt, ExecuteAt

LEMMA PeaceIs ==
  /\ Peace \in Battles
  /\ Peace.open = "none" /\ Peace.zone = 0 /\ Peace.victory = 0 /\ Peace.invaded = {}
  /\ ~Peace.banish /\ Peace.delay = 0 /\ Peace.left = 0 /\ ~Peace.selected
  /\ Peace.dead = Zero /\ Peace.flag = Zero /\ Peace.points = Zero /\ Peace.monuments = Zero
  /\ Zero \in [Nations -> Nat] /\ \A n \in Nations : Zero[n] = 0
<1>1. Zero \in [Nations -> Nat] /\ \A n \in Nations : Zero[n] = 0
  BY DEF Zero
<1> QED
  BY <1>1 DEF Peace, Battles

LEMMA OpenedIs ==
  ASSUME time \in Nat, NEW kind \in {"nation", "snow"}, NEW z \in BattleZones \cup {0}
  PROVE  /\ Opened(kind, z) \in Battles
         /\ Opened(kind, z).open = kind /\ Opened(kind, z).left = time
         /\ \A f \in {"victory", "invaded", "banish", "delay", "dead", "flag", "points"} :
              Opened(kind, z)[f] = Peace[f]
<1> DEFINE o(b) == [b EXCEPT !.open = kind, !.zone = z, !.left = time]
<1>1. ASSUME NEW b \in Battles
      PROVE  /\ o(b) \in Battles /\ o(b).open = kind /\ o(b).left = time
             /\ \A f \in {"victory", "invaded", "banish", "delay", "dead", "flag", "points"} : o(b)[f] = b[f]
  <2>1. kind \in {"none", "nation", "snow", "siege"} /\ time \in Int
    OBVIOUS
  <2>2. o(b) \in Battles
    BY <2>1 DEF Battles
  <2>3. o(b).open = kind /\ o(b).left = time
    BY DEF Battles
  <2>4. \A f \in {"victory", "invaded", "banish", "delay", "dead", "flag", "points"} : o(b)[f] = b[f]
    BY DEF Battles
  <2> QED
    BY <2>2, <2>3, <2>4
<1>2. Opened(kind, z) = o(Peace)
  BY DEF Opened
<1> HIDE DEF o
<1> QED
  BY <1>1, <1>2, PeaceIs

LEMMA ClosedIs ==
  ASSUME NEW b \in Battles
  PROVE  /\ b.open \in {"nation", "snow"} => Closed(b) = [Peace EXCEPT !.banish = TRUE]
         /\ b.open \notin {"nation", "snow"} => Closed(b) = b
BY DEF Closed

LEMMA DecidedIs ==
  ASSUME NEW b \in Battles, NEW n \in Nations
  PROVE  /\ Decided(b, n) \in Battles
         /\ Decided(b, n).victory = n /\ Decided(b, n).invaded = {Enemy(n)}
         /\ Decided(b, n).banish /\ Decided(b, n).delay = 0
         /\ \A f \in {"open", "zone", "left", "selected", "dead", "flag", "points", "monuments"} :
              Decided(b, n)[f] = b[f]
BY EnemyIs DEF Decided, Battles

LEMMA WinnerIs ==
  ASSUME NEW b \in Battles
  PROVE  Winner(b) \in Nations \cup {0}
<1>1. \A f \in [Nations -> Nat] : Larger(f) \in Nations \cup {0} /\ Fewer(f) \in Nations \cup {0}
  BY EnemyIs DEF Larger, Fewer
<1> QED
  BY <1>1 DEF Winner, Battles

\* What a nation war asks for, case by case.
LEMMA AskedByIs ==
  ASSUME time \in Nat, NEW b \in Battles
  PROVE  /\ AskedBy(b) \in Todos
         /\ AskedBy(b).what \in {"none", "expire", "select", "draw", "decide"}
         /\ AskedBy(b) # Nothing => AskedBy(b).what # "none"
         /\ AskedBy(b).what = "decide" => AskedBy(b).nation \in Nations
         /\ b.left <= 0 => AskedBy(b).what = "expire"
         /\ b.left > 0 /\ b.victory = 0 /\ ~b.selected /\ Elapsed(b) >= AtLeast(time \div 24, 1)
              => AskedBy(b).what = "select"
         /\ /\ b.left > 0 /\ b.victory = 0 /\ b.selected
            /\ HasWinner(b.zone) /\ Elapsed(b) = time \div 2
            => AskedBy(b).what \in {"draw", "decide"}
<1> DEFINE early == Elapsed(b) < AtLeast(time \div 24, 1)
           sweep == /\ Elapsed(b) = time \div 4
                    /\ b.zone = 4
                    /\ \E n \in Nations : b.monuments[n] >= AllMonuments /\ b.monuments[Enemy(n)] = 0
           holder == CHOOSE n \in Nations : b.monuments[n] >= AllMonuments
           half == Elapsed(b) = time \div 2 /\ HasWinner(b.zone)
<1>1. /\ b.left \in Int /\ b.selected \in BOOLEAN /\ Elapsed(b) \in Int
      /\ AtLeast(time \div 24, 1) \in Int /\ time \div 24 \in Int
  BY AtLeastIs DEF Battles, Elapsed
<1>2. Winner(b) \in Nations \cup {0}
  BY WinnerIs
<1>3. sweep => holder \in Nations
  OBVIOUS
<1>4. CASE b.left <= 0
  <2>1. AskedBy(b) = Do("expire", 0)
    BY <1>1, <1>4 DEF AskedBy
  <2> QED
    BY <1>1, <1>4, <2>1 DEF Do, Todos, Whats, Nothing
<1>5. CASE b.left > 0 /\ b.victory = 0 /\ ~b.selected /\ ~early
  <2>1. AskedBy(b) = Do("select", 0)
    BY <1>1, <1>5 DEF AskedBy
  <2> QED
    BY <1>1, <1>5, <2>1 DEF Do, Todos, Whats, Nothing
<1>6. CASE b.left > 0 /\ b.victory = 0 /\ (b.selected \/ early)
  <2>1. AskedBy(b) = IF sweep THEN Do("decide", holder)
                     ELSE IF half THEN IF Winner(b) = 0 THEN Do("draw", 0) ELSE Do("decide", Winner(b))
                     ELSE Nothing
    BY <1>1, <1>6 DEF AskedBy
  <2> HIDE DEF sweep, holder
  <2>2. CASE sweep
    BY <1>1, <1>3, <1>6, <2>1, <2>2 DEF Do, Todos, Whats, Nothing
  <2>3. CASE ~sweep /\ half
    BY <1>1, <1>2, <1>6, <2>1, <2>3 DEF Do, Todos, Whats, Nothing
  <2>4. CASE ~sweep /\ ~half
    BY <1>1, <1>6, <2>1, <2>4 DEF Do, Todos, Whats, Nothing
  <2> QED
    BY <2>2, <2>3, <2>4
<1>7. CASE b.left > 0 /\ b.victory # 0
  <2>1. AskedBy(b) = Nothing
    BY <1>1, <1>7 DEF AskedBy
  <2> QED
    BY <1>1, <1>7, <2>1 DEF Do, Todos, Whats, Nothing
<1> QED
  BY <1>1, <1>4, <1>5, <1>6, <1>7

-----------------------------------------------------------------------------
(* The inductive invariant. *)

\* The records behind the variables; a decision names the nation it is for.
Shaped ==
  /\ battle \in Battles
  /\ todo \in Todos
  /\ todo.what = "decide" => todo.nation \in Nations

\* The clock of a nation war, second by second: the commanders are chosen before half
\* time, and at half time the decision is on its way and the clock stands.
Scheduled ==
  battle.open = "nation" =>
    /\ battle.left <= 0 /\ battle.left < time => todo.what = "expire"
    /\ battle.left > 0 /\ battle.victory = 0 /\ Elapsed(battle) >= AtLeast(time \div 24, 1)
         => battle.selected
    /\ /\ HasWinner(battle.zone) /\ time >= 4 /\ battle.victory = 0
       /\ Elapsed(battle) >= time \div 2
       => Elapsed(battle) = time \div 2 /\ todo.what \in {"draw", "decide"}

\* No battle zone is open in peace, unless a siege ended the battle.
GatesShut == battle.open = "none" /\ ~sieged => battle.zone = 0

Inv == TypeOK /\ Shaped /\ Scheduled /\ LosersBanished /\ PeaceRestored /\ GatesShut

\* What no step but Init and Open and the task is about stays as it is.
LEMMA QuietInv ==
  ASSUME Inv, UNCHANGED <<time, battle, todo, sieged>>,
         siege' \in {"none", "prep", "war"}, clerk' \in {"idle", "demote"}, orders' \in 0..MaxOrders,
         commanders' \subseteq Chiefs, captains' \subseteq online', online' \subseteq Chiefs, field' \subseteq Chiefs,
         LosersBanished', PeaceRestored'
  PROVE  Inv'
<1>1. TypeOK'
  BY DEF Inv, TypeOK, AnnounceAt, ExecuteAt
<1>2. Shaped' /\ Scheduled' /\ GatesShut'
  BY DEF Inv, Shaped, Scheduled, GatesShut, Elapsed
<1> QED
  BY <1>1, <1>2 DEF Inv

\* Nobody is new on the battlefield or a new captain.
LEMMA FewerPeople ==
  ASSUME Inv, UNCHANGED <<battle, todo, sieged>>, InBattle' \subseteq InBattle, captains' \subseteq captains
  PROVE  LosersBanished' /\ PeaceRestored'
BY DEF Inv, LosersBanished, PeaceRestored, BanishDone

LEMMA DemoteInv ==
  ASSUME Inv, Demote
  PROVE  Inv'
<1>1. LosersBanished' /\ PeaceRestored'
  BY FewerPeople DEF Demote, ResetCommanders, InBattle
<1> QED
  BY <1>1, QuietInv DEF Demote, ResetCommanders, Inv, TypeOK

\* +captain makes captains of who is on the battlefield: of nobody in peace.
LEMMA CaptainInv ==
  ASSUME Inv, Captain
  PROVE  Inv'
<1>1. LosersBanished' /\ PeaceRestored'
  BY DEF Captain, SelectCommanders, Inv, LosersBanished, PeaceRestored, BanishDone, InBattle
<1> QED
  BY <1>1, QuietInv DEF Captain, Order, SelectCommanders, InBattle, Inv, TypeOK

LEMMA CswStartInv ==
  ASSUME Inv, CswStart
  PROVE  Inv'
<1>1. LosersBanished' /\ PeaceRestored'
  BY FewerPeople DEF CswStart, people, InBattle
<1> QED
  BY <1>1, QuietInv DEF CswStart, Order, people, Inv, TypeOK

\* A loser finds the gate shut.
LEMMA GoInv ==
  ASSUME Inv, NEW p \in Chiefs, Go(p)
  PROVE  Inv'
<1>1. LosersBanished'
  BY EnemyIs DEF Go, MayFight, InBattle, Inv, TypeOK, LosersBanished, BanishDone
<1>2. PeaceRestored'
  BY DEF Go, MayFight, InBattle, Inv, GatesShut, PeaceRestored, BanishDone
<1> QED
  BY <1>1, <1>2, QuietInv DEF Go, Inv, TypeOK

LEMMA LoginInv ==
  ASSUME Inv, NEW p \in Chiefs, Login(p)
  PROVE  Inv'
<1>1. LosersBanished'
  BY DEF Login, Redirected, IsWarOpen, InBattle, Inv, TypeOK, LosersBanished, BanishDone
<1>2. PeaceRestored'
  BY DEF Login, Redirected, IsWarOpen, InBattle, Inv, TypeOK, PeaceRestored, BanishDone
<1> QED
  BY <1>1, <1>2, QuietInv DEF Login, Inv, TypeOK

LEMMA LogoutInv ==
  ASSUME Inv, NEW p \in Chiefs, Logout(p)
  PROVE  Inv'
<1>1. LosersBanished' /\ PeaceRestored'
  BY FewerPeople DEF Logout, InBattle
<1> QED
  BY <1>1, QuietInv DEF Logout, Inv, TypeOK

-----------------------------------------------------------------------------
(* Steps that change the battle state. *)

\* What TypeOK says of the battle state.
Bounded(b) ==
  /\ b.invaded = (IF b.victory = 0 THEN {} ELSE {Enemy(b.victory)})
  /\ b.delay \in 0..(ExecuteAt - 1)
  /\ b.left \in -1..time
  /\ \A n \in Nations : /\ b.dead[n] \in 0..MaxDead
                        /\ b.flag[n] \in 0..FlagVictory
                        /\ b.points[n] \in 0..(MaxCaptures + 12)

LEMMA InvBounds ==
  ASSUME Inv
  PROVE  /\ battle \in Battles /\ Bounded(battle) /\ time \in Nat
         /\ AnnounceAt \in Nat \ {0} /\ ExecuteAt \in Nat /\ AnnounceAt < ExecuteAt
<1>1. time \in Nat
  BY DEF Inv, TypeOK
<1> QED
  BY <1>1, AnnounceFirst DEF Inv, TypeOK, Shaped, Bounded

\* A new battle state with the same people.
LEMMA BattleTyped ==
  ASSUME Inv, UNCHANGED <<time, people>>, battle' \in Battles, Bounded(battle'),
         siege' \in {"none", "prep", "war"}, clerk' \in {"idle", "demote"}, orders' \in 0..MaxOrders,
         todo' \in Todos
  PROVE  TypeOK'
BY DEF Inv, TypeOK, Bounded, Battles, Todos, Whats, people, AnnounceAt, ExecuteAt

LEMMA PeaceBounded ==
  ASSUME Inv, NEW b \in Battles, b.invaded = {}, b.victory = 0, b.delay = 0, b.left \in {0, time},
         b.dead = Zero, b.flag = Zero, b.points = Zero
  PROVE  Bounded(b)
BY InvBounds, PeaceIs DEF Bounded

LEMMA OpenInv ==
  ASSUME Inv, Open
  PROVE  Inv'
<1>1. PICK kind \in {"nation", "snow"}, z \in BattleZones \cup {0} : battle' = Opened(kind, z)
  BY DEF Open
<1>2. /\ battle' \in Battles
      /\ battle'.open = kind /\ battle'.left = time /\ battle'.victory = 0 /\ battle'.invaded = {}
      /\ ~battle'.banish /\ battle'.delay = 0 /\ battle'.dead = Zero /\ battle'.flag = Zero /\ battle'.points = Zero
  <2>1. time \in Nat
    BY InvBounds
  <2> QED
    BY <1>1, <2>1, OpenedIs, PeaceIs
<1>3. time \in Nat /\ AtLeast(time \div 24, 1) \in Nat \ {0} /\ (time >= 4 => time \div 2 > 0)
  <2>1. time \in Nat
    BY InvBounds
  <2>2. time \div 24 \in Int /\ (time >= 4 => time \div 2 > 0)
    BY <2>1
  <2> QED
    BY <2>1, <2>2, AtLeastIs
<1>4. TypeOK'
  <2>1. Bounded(battle')
    BY <1>2, PeaceBounded
  <2>2. /\ UNCHANGED <<time, people>> /\ todo' \in Todos /\ orders' \in 0..MaxOrders
        /\ siege' \in {"none", "prep", "war"} /\ clerk' \in {"idle", "demote"}
    BY DEF Open, Order, Inv, TypeOK, Shaped
  <2> QED
    BY <1>2, <2>1, <2>2, BattleTyped
<1>5. Shaped'
  BY <1>2 DEF Open, Inv, Shaped
<1>6. Scheduled'
  <2>1. time' = time /\ battle'.left = time' /\ Elapsed(battle)' = 0
    BY <1>2, <1>3 DEF Elapsed, Open
  <2> QED
    BY <1>2, <1>3, <2>1 DEF Scheduled
<1>7. LosersBanished' /\ PeaceRestored' /\ GatesShut'
  BY <1>2 DEF LosersBanished, PeaceRestored, GatesShut
<1> QED
  BY <1>4, <1>5, <1>6, <1>7 DEF Inv

\* What is closed is banished; what is open goes on.
LEMMA ClosingInv ==
  ASSUME Inv, battle' = Closed(battle), UNCHANGED <<time, siege, people, sieged>>,
         clerk' \in {"idle", "demote"}, orders' \in 0..MaxOrders,
         todo' \in Todos, todo'.what = "decide" => todo'.nation \in Nations,
         todo' = todo \/ (battle.open # "nation" /\ todo.what # "banish") \/ battle.open = "nation"
  PROVE  Inv'
<1>1. CASE battle.open \in {"nation", "snow"}
  <2>1. battle' = [Peace EXCEPT !.banish = TRUE]
    BY <1>1, ClosedIs, InvBounds
  <2>2. /\ battle' \in Battles
        /\ battle'.open = "none" /\ battle'.left = 0 /\ battle'.victory = 0 /\ battle'.invaded = {} /\ battle'.zone = 0
        /\ battle'.banish /\ battle'.delay = 0 /\ battle'.dead = Zero /\ battle'.flag = Zero /\ battle'.points = Zero
    BY <2>1, PeaceIs DEF Battles
  <2>3. TypeOK'
    BY <2>2, PeaceBounded, BattleTyped DEF Inv, TypeOK
  <2> QED
    BY <2>2, <2>3 DEF Inv, Shaped, Scheduled, LosersBanished, PeaceRestored, GatesShut, BanishDone
<1>2. CASE battle.open \notin {"nation", "snow"}
  <2>1. battle' = battle
    BY <1>2, ClosedIs, InvBounds
  <2>2. TypeOK'
    BY <2>1, InvBounds, BattleTyped DEF Inv, TypeOK
  <2>3. LosersBanished' /\ PeaceRestored'
    BY <1>2, <2>1 DEF Inv, LosersBanished, PeaceRestored, BanishDone, InBattle, people
  <2> QED
    BY <1>2, <2>1, <2>2, <2>3 DEF Inv, Shaped, Scheduled, GatesShut
<1> QED
  BY <1>1, <1>2

LEMMA CloseInv ==
  ASSUME Inv, Close
  PROVE  Inv'
BY ClosingInv DEF Close, Order, Inv, TypeOK, Shaped

\* A decision, whoever takes it: the losers are still to be banished.
LEMMA DecidingInv ==
  ASSUME Inv, NEW n \in Nations, NEW b \in Battles, Bounded(b),
         b.open = battle.open, b.zone = battle.zone, b.left = battle.left, b.selected = battle.selected,
         battle' = Decided(b, n), UNCHANGED <<time, siege, people, clerk, sieged>>, orders' \in 0..MaxOrders,
         todo' \in Todos, todo'.what = "decide" => todo'.nation \in Nations,
         todo.what = "expire" => todo' = todo
  PROVE  Inv'
<1>1. /\ battle' \in Battles /\ battle'.victory = n /\ battle'.invaded = {Enemy(n)}
      /\ battle'.banish /\ battle'.delay = 0
      /\ battle'.open = battle.open /\ battle'.zone = battle.zone /\ battle'.left = battle.left
      /\ battle'.dead = b.dead /\ battle'.flag = b.flag /\ battle'.points = b.points
  BY DecidedIs
<1>2. Bounded(battle')
  BY <1>1, InvBounds DEF Bounded
<1>3. TypeOK'
  BY <1>1, <1>2, BattleTyped DEF Inv, TypeOK
<1>4. Scheduled'
  BY <1>1 DEF Inv, Scheduled
<1> QED
  BY <1>1, <1>3, <1>4 DEF Inv, Shaped, LosersBanished, PeaceRestored, GatesShut, BanishDone

LEMMA WarResultInv ==
  ASSUME Inv, WarResult
  PROVE  Inv'
<1>1. PICK n \in Nations : battle' = Decided(battle, n)
  BY DEF WarResult
<1>2. /\ UNCHANGED <<time, siege, people, clerk, sieged>> /\ orders' \in 0..MaxOrders
      /\ todo' = todo /\ todo' \in Todos /\ (todo'.what = "decide" => todo'.nation \in Nations)
  BY DEF WarResult, Order, Inv, TypeOK, Shaped
<1> QED
  BY <1>1, <1>2, DecidingInv, InvBounds

\* A siege, or the end of one, takes the place of the battle.
LEMMA SiegeInv ==
  ASSUME Inv, CswAct \/ CswClose
  PROVE  Inv'
<1>1. PICK k \in {"none", "siege"} : battle' = [battle EXCEPT !.open = k]
  BY DEF CswAct, CswClose
<1>2. /\ battle' \in Battles /\ battle'.open = k
      /\ \A f \in {"victory", "invaded", "delay", "left", "dead", "flag", "points"} : battle'[f] = battle[f]
  <2>1. battle \in Battles /\ k \in {"none", "nation", "snow", "siege"}
    BY InvBounds
  <2> QED
    BY <1>1, <2>1 DEF Battles
<1>3. /\ UNCHANGED <<time, people, clerk>> /\ siege' \in {"none", "prep", "war"}
      /\ orders' \in 0..MaxOrders /\ sieged' = TRUE
      /\ todo' \in Todos /\ (todo'.what = "decide" => todo'.nation \in Nations)
  <2>1. CASE CswAct
    BY <2>1 DEF CswAct, Inv, TypeOK, Nothing, Do, Todos, Whats
  <2>2. CASE CswClose
    BY <2>2 DEF CswClose, Order, Inv, TypeOK, Shaped
  <2> QED
    BY <2>1, <2>2
<1>4. Bounded(battle')
  BY <1>2, InvBounds DEF Bounded
<1>5. TypeOK'
  BY <1>2, <1>3, <1>4, BattleTyped DEF Inv, TypeOK
<1> QED
  BY <1>2, <1>3, <1>5 DEF Inv, Shaped, Scheduled, LosersBanished, PeaceRestored, GatesShut

\* Counters of the battle change, nothing else.
LEMMA CountingInv ==
  ASSUME Inv, battle' \in Battles, Bounded(battle'), UNCHANGED <<time, siege, people, todo, clerk, orders, sieged>>,
         \A f \in {"open", "zone", "victory", "invaded", "banish", "delay", "left", "selected"} : battle'[f] = battle[f]
  PROVE  Inv'
<1>1. TypeOK'
  BY BattleTyped DEF Inv, TypeOK, Shaped
<1>2. Shaped' /\ GatesShut' /\ LosersBanished' /\ PeaceRestored'
  BY DEF Inv, Shaped, GatesShut, LosersBanished, PeaceRestored, BanishDone, InBattle, people
<1>3. Scheduled'
  BY DEF Inv, Scheduled, Elapsed
<1> QED
  BY <1>1, <1>2, <1>3 DEF Inv

LEMMA DieInv ==
  ASSUME Inv, NEW n \in Nations, Die(n)
  PROVE  Inv'
<1>1. battle \in Battles /\ Bounded(battle) /\ battle.dead[n] < MaxDead
  BY InvBounds DEF Die
<1>2. battle' = [battle EXCEPT !.dead = [battle.dead EXCEPT ![n] = @ + 1]]
  BY <1>1 DEF Die, Battles
<1>3. /\ [battle.dead EXCEPT ![n] = @ + 1] \in [Nations -> Nat]
      /\ \A m \in Nations : [battle.dead EXCEPT ![n] = @ + 1][m] \in 0..MaxDead
  BY <1>1 DEF Battles, Bounded
<1>4. /\ battle' \in Battles
      /\ battle'.dead = [battle.dead EXCEPT ![n] = @ + 1]
      /\ \A f \in {"open", "zone", "victory", "invaded", "banish", "delay", "left", "selected", "flag", "points"} :
           battle'[f] = battle[f]
  BY <1>1, <1>2, <1>3 DEF Battles
<1>5. Bounded(battle')
  BY <1>1, <1>3, <1>4 DEF Bounded
<1> QED
  BY <1>4, <1>5, CountingInv DEF Die

LEMMA CaptureInv ==
  ASSUME Inv, NEW n \in Nations, Capture(n)
  PROVE  Inv'
<1> DEFINE own == battle.monuments[n] + 1
           other == battle.monuments[Enemy(n)]
           bonus == IF own >= AllMonuments THEN 10 ELSE 0
           pts == [battle.points EXCEPT ![n] = @ + 2 + bonus]
           mons == [k \in Nations |-> IF k = n THEN own ELSE AtLeast(other - 1, 0)]
<1>1. battle \in Battles /\ Bounded(battle) /\ battle.points[n] <= MaxCaptures
  BY InvBounds DEF Capture
<1>2. own \in Nat /\ other \in Nat /\ bonus \in 0..10
  BY <1>1, EnemyIs DEF Battles
<1>3. pts \in [Nations -> Nat] /\ \A m \in Nations : pts[m] \in 0..(MaxCaptures + 12)
  <2> HIDE DEF bonus
  <2> QED
    BY <1>1, <1>2 DEF Battles, Bounded
<1>4. mons \in [Nations -> Nat]
  <2>1. AtLeast(other - 1, 0) \in Nat
    <3> HIDE DEF other
    <3> QED
      BY <1>2, AtLeastIs
  <2> QED
    BY <1>2, <2>1
<1>5. battle' = [battle EXCEPT !.points = pts, !.monuments = mons]
  BY <1>1 DEF Capture, Battles
<1> HIDE DEF pts, mons
<1>6. /\ battle' \in Battles
      /\ battle'.points = pts
      /\ \A f \in {"open", "zone", "victory", "invaded", "banish", "delay", "left", "selected", "flag", "dead"} :
           battle'[f] = battle[f]
  BY <1>1, <1>3, <1>4, <1>5 DEF Battles
<1>7. Bounded(battle')
  BY <1>1, <1>3, <1>6 DEF Bounded
<1> QED
  BY <1>6, <1>7, CountingInv DEF Capture

LEMMA FlagLeverInv ==
  ASSUME Inv, NEW n \in Nations, FlagLever(n)
  PROVE  Inv'
<1> DEFINE flags == [battle.flag EXCEPT ![n] = @ + 1]
           b == [battle EXCEPT !.flag = flags]
<1>1. battle \in Battles /\ Bounded(battle) /\ battle.flag[n] < FlagVictory
  BY InvBounds DEF FlagLever
<1>2. [battle EXCEPT !.flag[n] = @ + 1] = b
  BY <1>1 DEF Battles
<1>3. flags \in [Nations -> Nat] /\ \A m \in Nations : flags[m] \in 0..FlagVictory
  BY <1>1 DEF Battles, Bounded
<1> HIDE DEF flags
<1>4. /\ b \in Battles /\ b.flag = flags
      /\ \A f \in {"open", "zone", "victory", "invaded", "banish", "delay", "left", "selected", "dead", "points"} :
           b[f] = battle[f]
  BY <1>1, <1>3 DEF Battles
<1>5. battle' = b \/ battle' = Decided(b, n)
  BY <1>2 DEF FlagLever
<1> HIDE DEF b
<1>6. Bounded(b)
  BY <1>1, <1>3, <1>4 DEF Bounded
<1>7. CASE battle' = b
  BY <1>4, <1>6, <1>7, CountingInv DEF FlagLever
<1>8. CASE battle' = Decided(b, n)
  <2>1. /\ UNCHANGED <<time, siege, people, clerk, sieged>> /\ orders' \in 0..MaxOrders
        /\ todo' = todo /\ todo' \in Todos /\ (todo'.what = "decide" => todo'.nation \in Nations)
    BY DEF FlagLever, Inv, TypeOK, Shaped
  <2> QED
    BY <1>4, <1>6, <1>8, <2>1, DecidingInv
<1> QED
  BY <1>5, <1>7, <1>8

-----------------------------------------------------------------------------
(* The second, and what it asks for. *)

LEMMA CswTickIs ==
  ASSUME CswTick
  PROVE  todo' \in Todos /\ todo'.what \in {"none", "siegeOpens", "siegeEnds"}
BY DEF CswTick, Nothing, Do, Todos, Whats

LEMMA TickAnnouncesInv ==
  ASSUME Inv, Tick, TickAnnounces
  PROVE  Inv'
<1>1. battle \in Battles /\ Bounded(battle) /\ battle.delay + 1 < ExecuteAt /\ battle.delay + 1 \in Nat
  BY InvBounds DEF TickAnnounces, Battles
<1>2. battle' = [battle EXCEPT !.delay = battle.delay + 1]
  BY DEF TickAnnounces
<1>3. /\ battle' \in Battles /\ battle'.delay = battle.delay + 1
      /\ \A f \in {"open", "zone", "victory", "invaded", "banish", "left", "selected", "dead", "flag", "points"} :
           battle'[f] = battle[f]
  BY <1>1, <1>2 DEF Battles
<1>4. Bounded(battle')
  <2>1. battle'.delay \in 0..(ExecuteAt - 1)
    BY <1>1, <1>3, InvBounds
  <2> QED
    BY <1>1, <1>3, <2>1 DEF Bounded
<1>5. /\ todo.what = "none" /\ todo' \in Todos /\ todo'.what \in {"none", "siegeOpens", "siegeEnds"}
      /\ battle.banish /\ UNCHANGED <<time, siege, people, clerk, orders, sieged>>
  BY CswTickIs DEF Tick, TickAnnounces, Nothing, Do
<1>6. TypeOK'
  BY <1>3, <1>4, <1>5, BattleTyped DEF Inv, TypeOK
<1>7. Scheduled'
  BY <1>3, <1>5 DEF Inv, Scheduled, Elapsed
<1> QED
  BY <1>3, <1>5, <1>6, <1>7 DEF Inv, Shaped, LosersBanished, PeaceRestored, GatesShut, BanishDone

\* The timer is over: from here the task has the banishment to do.
LEMMA TickBanishesInv ==
  ASSUME Inv, Tick, TickBanishes
  PROVE  Inv'
<1>1. battle \in Battles /\ Bounded(battle)
  BY InvBounds
<1>2. battle' = [battle EXCEPT !.banish = FALSE, !.delay = 0]
  BY DEF TickBanishes
<1>3. /\ battle' \in Battles /\ battle'.delay = 0
      /\ \A f \in {"open", "zone", "victory", "invaded", "left", "selected", "dead", "flag", "points"} :
           battle'[f] = battle[f]
  BY <1>1, <1>2 DEF Battles
<1>4. Bounded(battle')
  <2>1. battle'.delay \in 0..(ExecuteAt - 1)
    BY <1>1, <1>3, InvBounds
  <2> QED
    BY <1>1, <1>3, <2>1 DEF Bounded
<1>5. /\ todo.what = "none" /\ todo' \in Todos /\ todo'.what = "banish"
      /\ UNCHANGED <<time, siege, people, clerk, orders, sieged>>
  BY DEF Tick, TickBanishes, Nothing, Do, Todos, Whats
<1>6. TypeOK'
  BY <1>3, <1>4, <1>5, BattleTyped DEF Inv, TypeOK
<1>7. Scheduled'
  BY <1>3, <1>5 DEF Inv, Scheduled, Elapsed
<1> QED
  BY <1>3, <1>5, <1>6, <1>7 DEF Inv, Shaped, LosersBanished, PeaceRestored, GatesShut, BanishDone

\* A second passes: the clock of a nation war goes on, and asks in time.
LEMMA TickRunsInv ==
  ASSUME Inv, Tick, TickRuns
  PROVE  Inv'
<1> DEFINE d == IF battle.banish THEN battle.delay + 1 ELSE battle.delay
           counted == [battle EXCEPT !.delay = d]
           b == [counted EXCEPT !.left = battle.left - 1]
<1>1. /\ battle \in Battles /\ Bounded(battle) /\ time \in Nat /\ battle.left \in Int
      /\ d \in Nat /\ d \in 0..(ExecuteAt - 1)
  BY InvBounds DEF TickRuns, BanishWaits, Battles, Bounded
<1>2. /\ todo.what = "none" /\ UNCHANGED <<time, siege, people, clerk, orders, sieged>>
  BY DEF Tick, Nothing, Do
<1>3. /\ counted \in Battles /\ counted.delay = d
      /\ \A f \in {"open", "zone", "victory", "invaded", "banish", "left", "selected", "dead", "flag", "points"} :
           counted[f] = battle[f]
  <2> HIDE DEF d
  <2> QED
    BY <1>1 DEF Battles
<1>4. /\ battle.open # "nation" => battle' = counted /\ CswTick
      /\ battle.open = "nation" =>
           /\ IF AskedBy(b) = Nothing THEN CswTick ELSE todo' = AskedBy(b)
           /\ battle' = [b EXCEPT !.selected = b.selected \/ AskedBy(b).what = "select"]
  <2>1. counted = [battle EXCEPT !.delay = IF battle.banish THEN @ + 1 ELSE @]
    OBVIOUS
  <2>2. b = [counted EXCEPT !.left = @ - 1]
    BY <1>3
  <2> HIDE DEF d, counted, b
  <2> QED
    BY <2>1, <2>2 DEF TickRuns
<1> HIDE DEF counted, d
<1>5. /\ b \in Battles /\ b.delay = d /\ b.left = battle.left - 1
      /\ \A f \in {"open", "zone", "victory", "invaded", "banish", "selected", "dead", "flag", "points"} :
           b[f] = battle[f]
  BY <1>1, <1>3 DEF Battles
<1> HIDE DEF b
<1>6. CASE battle.open # "nation"
  <2>1. Bounded(counted)
    BY <1>1, <1>3 DEF Bounded
  <2>2. todo' \in Todos /\ todo'.what \in {"none", "siegeOpens", "siegeEnds"} /\ battle' = counted
    BY <1>4, <1>6, CswTickIs
  <2>3. TypeOK'
    BY <1>2, <1>3, <2>1, <2>2, BattleTyped DEF Inv, TypeOK
  <2> QED
    BY <1>2, <1>3, <1>6, <2>2, <2>3
    DEF Inv, Shaped, Scheduled, LosersBanished, PeaceRestored, GatesShut, BanishDone, InBattle, people
<1>7. CASE battle.open = "nation"
  <2> DEFINE w == AskedBy(b).what
             chosen == b.selected \/ w = "select"
  <2>1. /\ w \in {"none", "expire", "select", "draw", "decide"}
        /\ b.left <= 0 => w = "expire"
        /\ b.left > 0 /\ b.victory = 0 /\ ~b.selected /\ Elapsed(b) >= AtLeast(time \div 24, 1) => w = "select"
        /\ /\ b.left > 0 /\ b.victory = 0 /\ b.selected
           /\ HasWinner(b.zone) /\ Elapsed(b) = time \div 2
           => w \in {"draw", "decide"}
    BY <1>1, <1>5, AskedByIs
  <2>2. /\ todo' \in Todos /\ (todo'.what = "decide" => todo'.nation \in Nations)
        /\ w \in {"expire", "draw", "decide"} => todo'.what = w
        /\ todo'.what # "banish"
    BY <1>1, <1>4, <1>5, <1>7, AskedByIs, CswTickIs DEF Nothing, Do
  <2>3. battle' = [b EXCEPT !.selected = chosen]
    BY <1>4, <1>7
  <2> HIDE DEF w
  <2>4. chosen \in BOOLEAN
    BY <1>5 DEF Battles
  <2>5. (b.selected => chosen) /\ (w = "select" => chosen)
    OBVIOUS
  <2> HIDE DEF chosen
  <2>6. /\ battle' \in Battles /\ battle'.selected = chosen
        /\ \A f \in {"open", "zone", "victory", "invaded", "banish", "delay", "left", "dead", "flag", "points"} :
             battle'[f] = b[f]
    BY <1>5, <2>3, <2>4 DEF Battles
  <2>7. battle.left > 0 \/ battle.left = time
    BY <1>1, <1>2, <1>7 DEF Inv, Scheduled, Bounded
  <2>8. Bounded(battle')
    <3>1. battle'.left \in -1..time
      BY <1>1, <1>5, <2>6, <2>7 DEF Bounded
    <3> QED
      BY <1>1, <1>5, <2>6, <3>1 DEF Bounded
  <2>9. TypeOK'
    BY <1>2, <2>2, <2>6, <2>8, BattleTyped DEF Inv, TypeOK
  <2>10. Elapsed(b) = Elapsed(battle) + 1 /\ Elapsed(battle)' = Elapsed(b) /\ Elapsed(battle) \in Int
    BY <1>1, <1>2, <1>5, <2>6 DEF Elapsed
  <2>11. battle'.left > 0 /\ battle'.victory = 0 /\ Elapsed(b) >= AtLeast(time \div 24, 1) => battle'.selected
    BY <1>5, <2>1, <2>5, <2>6
  <2>12. ASSUME HasWinner(battle.zone), time >= 4, battle.victory = 0, Elapsed(b) >= time \div 2
         PROVE  Elapsed(b) = time \div 2 /\ todo'.what \in {"draw", "decide"}
    <3>1. Elapsed(battle) < time \div 2
      BY <1>1, <1>2, <1>7, <2>10, <2>12 DEF Inv, Scheduled
    <3>2. Elapsed(b) = time \div 2
      BY <1>1, <2>10, <2>12, <3>1
    <3>3. /\ time \div 24 \in Int /\ time \div 2 \in Int /\ time \div 2 < time
          /\ time \div 2 - 1 >= 1 /\ time \div 2 - 1 >= time \div 24
      BY <1>1, <2>12
    <3>4. b.left > 0 /\ battle.left > 0
      BY <1>1, <1>5, <3>2, <3>3 DEF Elapsed
    <3>5. Elapsed(battle) >= AtLeast(time \div 24, 1)
      BY <2>10, <3>2, <3>3, AtLeastIs
    <3>6. b.selected
      BY <1>5, <1>7, <2>12, <3>4, <3>5 DEF Inv, Scheduled
    <3> QED
      BY <1>5, <2>1, <2>2, <2>12, <3>2, <3>4, <3>6
  <2>13. Scheduled'
    <3>1. battle'.left <= 0 => todo'.what = "expire"
      BY <1>5, <2>1, <2>2, <2>6
    <3>2. time' = time /\ battle'.zone = battle.zone /\ battle'.victory = battle.victory
      BY <1>2, <1>5, <2>6
    <3> QED
      BY <2>10, <2>11, <2>12, <3>1, <3>2 DEF Scheduled
  <2> QED
    BY <1>2, <1>5, <1>7, <2>2, <2>6, <2>9, <2>13
    DEF Inv, Shaped, LosersBanished, PeaceRestored, GatesShut, BanishDone, InBattle, people
<1> QED
  BY <1>6, <1>7

\* What war_tick_world does with the people: demotions, promotions, and the banishment.
LEMMA PeopleActInv ==
  ASSUME Inv, Act, todo.what \in {"demote", "select", "banish"}
  PROVE  Inv'
<1>1. /\ UNCHANGED <<time, battle, siege, clerk, orders, sieged>>
      /\ todo' \in Todos /\ todo'.what \in {"none", "siegeOpens", "siegeEnds"}
      /\ \/ todo.what = "demote" /\ ResetCommanders
         \/ todo.what = "select" /\ SelectCommanders
         \/ todo.what = "banish" /\ ExecuteBanish
  BY CswTickIs DEF Act
<1>2. /\ commanders' \subseteq Chiefs /\ captains' \subseteq online' /\ online' = online
      /\ field' \subseteq field /\ InBattle' \subseteq InBattle
  BY <1>1 DEF ResetCommanders, SelectCommanders, ExecuteBanish, KickOut, InBattle, Inv, TypeOK
<1>3. TypeOK'
  BY <1>1, <1>2 DEF Inv, TypeOK, AnnounceAt, ExecuteAt, Todos, Whats
<1>4. Shaped' /\ Scheduled' /\ GatesShut'
  BY <1>1 DEF Inv, Shaped, Scheduled, GatesShut, Elapsed
<1>5. CASE todo.what = "banish"
  <2>1. ExecuteBanish
    BY <1>1, <1>5
  <2>2. LosersBanished'
    BY <1>1, <2>1 DEF ExecuteBanish, KickOut, LosersBanished, InBattle
  <2>3. PeaceRestored'
    BY <1>1, <2>1 DEF ExecuteBanish, KickOut, PeaceRestored, InBattle
  <2> QED
    BY <1>3, <1>4, <2>2, <2>3 DEF Inv
<1>6. CASE todo.what # "banish"
  <2>1. LosersBanished'
    BY <1>1, <1>2, <1>6 DEF Inv, LosersBanished, BanishDone
  <2>2. captains' \subseteq captains \cup InBattle
    BY <1>1, <1>6 DEF ResetCommanders, SelectCommanders
  <2>3. PeaceRestored'
    BY <1>1, <1>2, <1>6, <2>2 DEF Inv, PeaceRestored, BanishDone
  <2> QED
    BY <1>3, <1>4, <2>1, <2>3 DEF Inv
<1> QED
  BY <1>5, <1>6

LEMMA ActInv ==
  ASSUME Inv, Act
  PROVE  Inv'
<1>1. CASE todo.what \in {"demote", "select", "banish"}
  BY <1>1, PeopleActInv
<1>2. CASE todo.what \in {"expire", "draw"}
  <2>1. battle' = Closed(battle) /\ UNCHANGED <<time, siege, people, clerk, orders, sieged>>
    BY <1>2 DEF Act
  <2>2. todo' \in Todos /\ todo'.what # "decide"
    <3>1. CswTick \/ todo' = Do("demote", 0)
      BY <1>2 DEF Act
    <3>2. Do("demote", 0) \in Todos /\ Do("demote", 0).what # "decide"
      BY DEF Do, Todos, Whats
    <3> QED
      BY <3>1, <3>2, CswTickIs
  <2>3. orders' \in 0..MaxOrders /\ clerk' \in {"idle", "demote"}
    BY <2>1 DEF Inv, TypeOK
  <2> QED
    BY <1>2, <2>1, <2>2, <2>3, ClosingInv
<1>3. CASE todo.what = "decide"
  <2>1. /\ battle' = Decided(battle, todo.nation) /\ todo.nation \in Nations
        /\ UNCHANGED <<time, siege, people, clerk, sieged>> /\ orders' \in 0..MaxOrders
        /\ todo' \in Todos /\ todo'.what # "decide"
    BY <1>3, CswTickIs DEF Act, Inv, TypeOK, Shaped
  <2> QED
    BY <1>3, <2>1, DecidingInv, InvBounds
<1> QED
  BY <1>1, <1>2, <1>3 DEF Act

-----------------------------------------------------------------------------
LEMMA InitInv == Init => Inv
<1> SUFFICES ASSUME Init PROVE Inv
  OBVIOUS
<1>1. time \in Nat /\ battle = Peace
  BY DEF Init
<1>2. AnnounceAt \in Nat \ {0} /\ ExecuteAt \in Nat /\ AnnounceAt < ExecuteAt
  BY <1>1, AnnounceFirst
<1>3. Shaped
  BY <1>1, PeaceIs DEF Init, Shaped, Nothing, Do, Todos, Whats
<1>4. TypeOK
  <2>1. /\ battle.open = "none" /\ battle.zone = 0 /\ battle.victory = 0 /\ battle.invaded = {}
        /\ battle.delay = 0 /\ battle.left = 0
        /\ battle.dead = Zero /\ battle.flag = Zero /\ battle.points = Zero
        /\ battle.banish \in BOOLEAN /\ battle.selected \in BOOLEAN
        /\ \A n \in Nations : battle.monuments[n] \in Nat
    BY <1>1, PeaceIs DEF Battles
  <2>2. battle.delay \in 0..(ExecuteAt - 1)
    BY <1>2, <2>1
  <2>3. todo.what = "none"
    BY DEF Init, Nothing, Do
  <2> QED
    BY <1>1, <2>1, <2>2, <2>3, PeaceIs DEF Init, TypeOK
<1>5. Scheduled /\ LosersBanished /\ PeaceRestored /\ GatesShut
  BY <1>1, PeaceIs DEF Init, Scheduled, LosersBanished, PeaceRestored, GatesShut, InBattle
<1> QED
  BY <1>3, <1>4, <1>5 DEF Inv

LEMMA NextInv == Inv /\ [Next]_vars => Inv'
<1> SUFFICES ASSUME Inv, [Next]_vars PROVE Inv'
  OBVIOUS
<1>1. CASE UNCHANGED vars
  <2>1. LosersBanished' /\ PeaceRestored'
    BY <1>1, FewerPeople DEF vars, InBattle
  <2> QED
    BY <1>1, <2>1, QuietInv DEF vars, Inv, TypeOK
<1>2. CASE Task
  BY <1>2, TickAnnouncesInv, TickBanishesInv, TickRunsInv, ActInv, SiegeInv DEF Task, Tick
<1>3. CASE Commands \/ Demote
  BY <1>3, OpenInv, CloseInv, WarResultInv, CaptainInv, CswStartInv, SiegeInv, DemoteInv DEF Commands
<1>4. CASE Fighters
  BY <1>4, GoInv, LoginInv, LogoutInv, DieInv, CaptureInv, FlagLeverInv DEF Fighters
<1> QED
  BY <1>1, <1>2, <1>3, <1>4 DEF Next

\* Every variable of the war keeps its type, and the banish timer stays below the
\* second of the banishment, whatever battle_time is.
THEOREM TypeCorrect == Spec => []TypeOK
BY InitInv, NextInv, PTL DEF Spec, Inv

\* Once the losers of a decided nation war are banished, none of them is on the
\* battlefield again: by no warp, no login, no change of the winner.
THEOREM LosersStayAway == Spec => []LosersBanished
BY InitInv, NextInv, PTL DEF Spec, Inv

\* After a war and its banishment nobody is left on a battlefield and nobody is a
\* captain, unless a siege took the place of the battle.
THEOREM PeaceIsRestored == Spec => []PeaceRestored
BY InitInv, NextInv, PTL DEF Spec, Inv

\* A nation war is decided by half time where its zone has a winner rule, and is being
\* closed once its time is over.
THEOREM WarKeepsTime == Spec => []OnTime
<1>1. Inv => OnTime
  <2> SUFFICES ASSUME Inv PROVE OnTime
    OBVIOUS
  <2>1. time \in Nat /\ Elapsed(battle) \in Int /\ time \div 2 \in Int
    BY InvBounds DEF Elapsed, Battles
  <2> QED
    BY <2>1 DEF Inv, Scheduled, OnTime
<1> QED
  BY <1>1, InitInv, NextInv, PTL DEF Spec
==============================================================================
