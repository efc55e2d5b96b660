# RST26 in TLA+

RST26 is a server for an online role-playing game, written in Rust
(`src/crates`).  This directory holds TLA+ models of the parts where several players,
timers and the database work on shared state - exchanges, stalls, parties, sessions
and saves, the clan warehouse, wars - the TLC runs that check small instances of them,
and TLAPS proofs for instances of any size.  Paths below are relative to
`src/crates/ko-game/src` unless they begin with `src/`.

Run a model with `tlc -workers 2 -config <cfg> <MC module>`; check the proofs of a
component with `tlapm <component>_proofs.tla`. `PROJECT.json` maps every definition to
the source lines it models and lists the runs, the hazards, the theorems, and for every
property a mutation of the model that it catches.

## 1. Inventory

### How the server is put together

A connection is a tokio task (`server.rs`, `session.rs`) that reads a packet, runs
its handler to the end and reads the next one.  What other players can see of a
player is the *session handle* (`world/types.rs`), kept in a concurrent map
(`WorldState.sessions`).  Every helper of `WorldState` locks one handle, reads or
updates it, and unlocks it.  So

  * the handlers of one player never overlap each other;
  * one access to one handle is atomic;
  * a handler that makes several accesses, to one handle or to two, can be
    interleaved with the handlers of every other player and with the timer tasks
    (`systems/`), even where it contains no `.await`.

Nearly every hard behaviour of this server comes from that third point: state that
belongs together is kept in two handles (two traders, keeper and looker, party
table and character), and values are checked in one access and used in a later
one.  The other sources are the ways a player can disappear (logout, disconnect,
duplicate login, zone change, panic) in the middle of something, and counters
with a limit (`COIN_MAX`, `ITEMCOUNT_MAX`, u16).

### Components

| Component | State | Operations | Hard behaviour | What makes it correct |
|---|---|---|---|---|
| **Exchange** `handler/trade.rs`, `world/trade.rs` | `trade_state`, `exchange_user`, `exchange_items`, purse and bag of both sides | request, agree, decline, add, decide, cancel | the partner leaves, dies, teleports, mines or gets a reward half-way; goods on offer are in no bag | partners stay mutual; nothing is made or lost; a decision binds; there is always a way out |
| **Selling stalls** `handler/merchant.rs`, `world/trade.rs`, `systems/offline_merchant.rs` | `merchant_state`, `merchant_items`, `merchant_looker`, `browsing_merchant` | open, post, withdraw, insert, close, list, buy | two shoppers at one place; a purchase that cannot be paid; a keeper who closes, leaves or goes offline half-way | a unit is sold once; a sale is all or nothing; a sold-out stall closes |
| **Buying stalls** `handler/merchant.rs` | the same fields, with wants | open, insert, list, buy, close | two suppliers at one purse and one free slot | the purse covers the list; a sale is all or nothing |
| **Inventory accounting** `world/inventory.rs` | bag, purse | find a slot, give, rob, gain, lose | stack limit, `COIN_MAX` | an item without units comes from nothing but a count that was cut |
| **Party** `handler/party.rs`, `world/social.rs` | party table, `party_id` in each character, invitations | create, invite, permit, remove, delete, promote, disconnect | two invitations to one player; accept against disband; leader leaves | table and characters agree; one party per player; no party of one without an invitation |
| **Session lifecycle** `handler/login.rs`, `selchar.rs`, `gamestart.rs`, `logout.rs`, `session.rs`, `world/session.rs` | sessions, name index, account of each session, login lock, online flag in the database | login, select, enter, logout, disconnect, duplicate kick | two logins of one account; a kick racing the old session's own cleanup; saves still running | one session per account and character; indexes agree with sessions; the last save wins |
| **Persistence** `systems/character_save.rs` | rows of the character | periodic, logout and kick saves | fire-and-forget saves out of order | what is loaded is what was saved last |
| **Clan, clan warehouse** `handler/knights.rs`, `clan_warehouse.rs` | clan record, shared slots and gold | join, leave, donate; put in, take out | two members at one slot; check, deposit, re-check, roll back | an item is in one place; the fund counts every donation |
| **Warehouses, letters, mall** `warehouse.rs`, `vip_warehouse.rs`, `letter.rs`, `knight_cash.rs` | stored slots, letters, cash | put, take, send, claim, buy | claim before mark; read and write back | an attachment is claimed once |
| **Lottery, collection race** | participants, counter | join, draw | limit checked twice, price in between | who pays gets a ticket |
| **War, siege, events** `systems/war.rs`, `event_system.rs`, ... | battle state, timers | tick, open, close, result | half-time result, close and banish in the right order | a war that opens closes; losers are banished once |
| **King election** `handler/king.rs` | phases, votes | nominate, vote, tally | calendar phases | one vote each, one king |
| **Loot, item moves, upgrades** | ground bundles, slots | pick up, move, upgrade | two players at one bundle | taken once |
| **Challenges, tournaments** | invitations, score | challenge, accept, end | partner leaves | both ends agree |
| **Combat, magic, regeneration**; **NPCs and bots**; **zones**; **quests and Lua** | positions, health, buffs, scripts | | arithmetic over tables, geometry | |
| **Protocol, packet I/O, rate limiter**; **login server**; **database layer**; **tools** | | | encoding and I/O | |

They interact through the session handle: death, mining, fishing, stalls and
exchanges each look at the others' fields before they start (and not all of them at
the same ones); rewards (`give_item`, `gold_gain`) reach a player whatever the
player is doing; logout, disconnect, kick and zone change each carry a copy of the
clean-up of trade, stall and party.

## 2. What is modelled

| Module | Models |
|---|---|
| `Inventory` | bag and purse operators: slot search, stacking, deduction, saturation |
| `Exchange` | the exchange, one action per branch of a handler |
| `FairExchange` | what an exchange promises about gold |
| `Stall` | selling stalls, a purchase step by step |
| `Market` | what a stall promises: atomic sales |
| `StallMarket` | the refinement mapping from `Stall` to `Market` |
| `BuyingStall` | buying stalls, a sale step by step, with its mapping to `Market` |
| `Party` | party table, party ids in the characters, invitations, event parties |
| `Teams` | what a party promises: founded, joined, left, dissolved |
| `Sessions` | login lock, kick, selection, entry, every way out, offline stalls, saves, crash |
| `ClanBank` | the shared clan warehouse over its database rows, a handler step by step |
| `War` | nation war and castle siege: the ticking task, commands, captains, banishment |
| `Exchange_proofs`, `Stall_proofs`, `BuyingStall_proofs`, `Party_proofs`, `Sessions_proofs`, `ClanBank_proofs`, `War_proofs` | the theorems about each component and their proofs |
| `Sums_proofs` | sums over finite sets, for the accounts of gold, units and reservations |
| `MCExchange`, `MCStall`, `MCBuyingStall`, `MCParty`, `MCSessions`, `MCClanBank`, `MCWar` | instances for TLC |

`Inventory` is shared by `Exchange`, `Stall`, `BuyingStall` and `ClanBank`; `Market` is
implemented by both kinds of stall, `FairExchange` by `Exchange`, `Teams` by `Party`.

### Exchange

The variables are the fields of the session handle under the same names
(`tradeState` is `trade_state`, and so on); the gold entry of `exchange_items`, of
which there is at most one, is `exchangeGold`.  `TradeStep` lists the sub-opcodes
of `WIZ_EXCHANGE` with every branch that changes state; `DropStep` the three ways a
trade is dropped; `OtherStep` what the rest of the server does to the fields that the
handlers read (`Die`, `Teleport`, `Begin` for mining, fishing, stalls and the genie,
`EarnGold` and `EarnItem` for rewards).  A handler is one step here, with one exception:
`exchange_cancel` gives back and resets its own side, sends, and only then does the
same for the partner (`trade.rs:868`).  When the send fails it returns there
(`CancelCutOff`): the partner still names a session that is `closing`, and whose cleanup
(`CloseDown`) comes later.  An item count is the u32 of the request in the entry and its
low sixteen bits in the checks and the deduction (`U16`), so an offer of 2^16 units lists
them all and takes none.

Abstractions: a player does one thing besides trading at a time; a session id that
somebody's `exchange_user` still names is not handed out again; weight is not
represented, so that a weight check may always fail (`ExecuteFails`); durability,
serial numbers and item flags travel with a stack and are not represented, nor is the
unique kind of item; items taken from a trading player by other systems (`rob_item`)
are left out.  Additions to a stack are not cut to sixteen bits (only stacks near 2^16
units, far above `ITEMCOUNT_MAX`, would show it); the cast of a refund is.  `ListBound`
caps the count of one entry, which the code lets grow by merging.

### Selling stalls

`Stall` splits `merchant_item_list` and `merchant_item_buy` where they access a
handle: `task[p]` holds the local variables of the handler and the step it is at.
The order is that of the code: checks, `Reserve` (`try_merchant_buy`), purse
checks, `Charge`, `Credit`, `Deliver`, `Settle`, `CloseIfSold`, with `Restore`
(`restore_merchant_buy`) after a failed purse check, and `PayCash`, `CashRead`,
`CashWrite` instead of the gold steps when the price is in knight cash.  The keeper's
handlers write one handle once and are single actions.  What happens to a keeper
besides: `GoAway` (offline merchant), `Quit`, `Expire`, `FindItem`, `MoveItem`.  The reply
to the shopper (`merchant.rs:982`) stands between `Settle` and `CloseIfSold`; if sending it
fails the handler ends there and the session with it (`HangUp`), so that nobody may look
whether the stall is sold out.

Three neighbouring accesses are kept together: the checks before the reservation, the
two writes of `Look`, and the two writes of `Settle`. Two BOOLEAN constants separate
what holds always from what needs good manners: `Hasty` keepers close, move things or
leave while somebody is buying; `Splitting` keepers offer part of a stack. The findings
show why the distinction is needed. A third kind of manners is chosen at the start:
`tidy` keepers, none of them hasty, also leave the bag alone while a stall is being
prepared. `merchant_item_add` looks at the stack once, so a keeper who moves it away
afterwards has listed more than the slot holds; the check at the purchase
(`merchant.rs:815`) asks only for what this purchase needs. `StockCovers` is about tidy
keepers; in the run purchases are atomic for the others too.

`StallMarket` is the mapping to `Market`.  A purchase that has reserved is still only the
keeper's goods; it counts as made when both purses have been checked, and from then on
the goods are the shopper's and the price is the keeper's, whatever has been written.
A purchase that is refused moves nothing, with one loss that the property names: a shopper
who took the last of an offer clears the keeper's slot (`Settled`), and units of it that
another shopper was refused are in that slot or come back to a place that has nothing
left to put them in (`Market!Lose`, as many as `Wasted` counts).
What the keeper owns is counted slot by slot: the stack less what purchases under way will
take from it.
Left out: weight, durability, serial numbers, the item that allows an offline stall, and guards on
trading, mining and death that only make fewer steps possible.

### Buying stalls

`BuyingStall` splits `buying_merchant_buy` likewise: `StartSale` holds all it reads,
the other steps are its writes.  `Crowding` allows two sales to one stall at a time.
`hasty` collectors, chosen at the start, close and prepare a new stall while a sale to the
old one is still writing; its `Strike` then overwrites a place of the new list with what
was left of the old one (`merchant.rs:1444`), so that the new list may ask for more than the purse
covers.  `OrderFunded` is about the other collectors.
The replies at `merchant.rs:1505`, `:1551` and `:1557` stand before `CloseIfDone`; a
supplier whose connection fails there is gone without looking (`HangUp`).
Left out: rewards and disconnects before the goods are handed over, the disconnect of a
supplier who keeps an open stall or is being sold to at that moment, and the knight-cash
branch, which is dead code for wants (`is_kc` is set to false).

### Parties

A party is kept twice: `seat[n]` is the `members` array of the party table (seat 0
leads), `partyOf[p]` the `party_id` in the character.  Requests are the sub-opcodes of
`WIZ_PARTY` (`Create`, `Invite`, `Accept`, `Decline`, `Remove`, `Delete`, `Promote`,
`Command`); from outside come `Leave` and `ZoneChange` (both through
`cleanup_party_on_disconnect`, here `CleanUp`), `Teleport` (no clean-up), `Panic` (the
handle goes, the seat stays), `Enter`, and `EventParty`
(`temple_event_create_parties`).  A handler is one step.  Nation, level, clan and item
checks are the constant `Suits`.  Party bulletin board, target numbers, health packets
and experience shares are left out: nothing here reads them.

`crossed` is a history variable: an event party takes players without looking at their
open invitations, and one who accepts afterwards sits in two parties.
`SeatedIsRecorded` claims nothing about them and everything about everybody else.

### Sessions and saves

One account with several characters.  `stage[c]` is how far the handlers of a
connection have come; handlers are split at their awaits (the save before a kick, the
removal after it, the load at selection, the entry).  `index` is `name_to_session`,
`lock` is `login_in_progress`, `jobs` are the spawned saves, `db` the rows.  What a
character owns is the set of gains it made, so a lost update is a missing element.
Ways out: `Logout` and `LogoutEnd`, `Hangup` and `Disconnect`, the kick, `GoOffline` and
`OfflineEnds`, `Panic`, `Crash`, `Shutdown`.  `left` remembers what a character owned when
it was last saved to leave; a panic or a crash, where the code saves nothing, resets it
to what is stored.

`Delayed` and `Crossing` separate what holds from what does not.  With `Delayed` a
spawned save may reach the database late: a character that comes back at once is then
loaded without its last gains.  With `Crossing` two connections of the account may both
be between selection and entry, and both enter with one character.  The run has both
FALSE.  Left out: other accounts (nothing is shared with them but the lock table), the
online flag in the database, the login server, wrap-around of session ids.

### Clan warehouse

`ClanBank` has `rows` (the database), `bank` (the cache all members share, or
`NotLoaded`), and a `task` per member that is the handler at its current step.  The first
visitor loads (`Fetch`, then `Install`), the others join.  A withdrawal is `Look`
(checks), `Grab` (into the bag), `DeductBank` (check again under the lock) and, if
that fails, `Undo`; deposits and gold likewise (`PutItem`, `Strip`; `PutGold`, `Pay`;
`TakeGold`, `Gain`); `Move` and `InventoryMove` complete the sub-opcodes; `Earn` is a
reward in the middle.  What the two officers come for is one of three `Errands`, chosen at
the start: gold, one stack, or the ring and a count that is cut.

A request names a u32 and only zero is refused; every use of it is `count as u16`
(`clan_warehouse.rs:467`, `:492`, `:749`, `:783`, `:829`).  So a request for 65,536 units moves
none: of a stack that is a deposit of nothing, which leaves the item's id in a free place;
of an item that does not stack it empties the source and leaves a place with an id and no
units.  `ItemRequest` is made with the cut count (`U16`).

A save (`save_clan_wh_slot_async`, `save_clan_gold_async`) is a spawned task that nobody
waits for: `SaveSlot` and `SaveGold` only put its content among the `saves` under way, and
it lands (`Land`) in any order and at any time, or fails with a warning (`Fail`).  `Jobs`
bounds how many are under way; a handler that would start one more waits, which the code
never does.  `Rush` lets two members load at the same time; the run has it FALSE.
Left out: item flags, expiry, serials, weight, ranks below officer (they only make a handler
refuse).

### War and siege

`War` has the `BattleState` behind its lock (`battle`), the siege status, the list of
commanders, and for each clan chief whether it is in the game, on a battlefield and a
captain.  The ticking task decides under the lock (`Tick`) and acts on the decision
later (`Act`, `CswAct`); commands of an operator or of the schedule (`Open`, `Close` with
`Demote`, `WarResult`, `Captain`, `CswStart`, `CswClose`) and the fighters (`Go`, `Login`,
`Logout`, `Die`, `Capture`, `FlagLever`) come in between.

What the model keeps of some oddities of the code: `battle_time` is 0 unless a test sets
it, so a war opened in production expires at its first tick (the run has both 0 and a
set value); a siege overwrites `battle_open` of a running war with neither banishment
nor reset; after a `+cswclose` between decision and action, `battle_open` stays
`SIEGE_BATTLE`; a flag lever asks neither for an open war nor for an undecided one; the
scheduled commands do not demote commanders; the banishment does not clear the snow-war
zone. Left out, because nothing modelled reads it: announcements, rewards, monster
buffs, statistics, the delayed result of `war_tick` (`war.rs:739`-`754`: nothing sets
`result_delay`, so the branch is dead), the players in the enemy's home, and the counters
of killed monsters, which no code increments.

## 3. Runs

| Run | Instance | Shows |
|---|---|---|
| `exchange_links` | 3 players (symmetric), gold only, offers 1 at a time, `COIN_MAX` 2, mining, rewards | `TypeOK`, `Linked`, `OffersBelongToTrade`, `GoldKept`, and `KeepsPromise`: the exchange implements `FairExchange` |
| `exchange_goods` | 2 players, 2 slots each, stacks of at most 2, a single item, a reward, offers of 1 unit and of 2^16 | `OffersBelongToTrade`, `DecisionBinds`, `ItemsKept`, `GhostsAreCuts` |
| `exchange_zones` | 2 players of 2 nations, 2 zones, every pursuit | `LeavesTrade`: nobody stays in an exchange for ever |
| `stall_sales` | keeper, 2 shoppers (symmetric), 2 places; one stack of two that both can pay or only one of them, or two offers of which a shopper can pay one; the keeper moves goods before opening | `TypeOK`, `StockCovers`, and `SalesAreAtomic`: a purchase implements a sale of `Market`, refused ones included |
| `stall_rush` | hasty keeper who may go offline or quit, a shopper who may be cut off, gold or cash, rewards | `GoldNeverGrows`, `SoldOutCloses` |
| `party_groups` | 3 players (symmetric), 2 zones, one of them an event room, 3 seats, 2 party ids | `TypeOK`, `RecordedIsSeated`, `SeatedIsRecorded`, `PartySound`, and `IsTeams`: parties implement `Teams` |
| `sessions_calm` | 3 connections of one account, 2 characters, 2 gains, prompt saves, one selection at a time | `TypeOK`, `CountCovers`, `OneSession`, `FoundByName`, `NothingLost` |
| `sessions_namesarelive` | the same instance | a counterexample, see section 4 |
| `clanbank_shared` | 2 officers (symmetric), one bag slot each, 2 places with a stack and a ring, stacks of at most 2, `COIN_MAX` 1, counts 1, 2 and 2^16, 2 saves under way | `TypeOK`, `GoodsKept`, `GoldKept`, `RowsFollow` |
| `war_battle` | 1 chief, 4 commands, zones 4 (monuments) and 5, `battle_time` 0 or 8, one flag, one monument, one counted death | `TypeOK`, `LosersBanished`, `PeaceRestored`, `OnTime`, `WarEnds` |
| `stall_noduplication` | hasty keeper, 1 shopper | a counterexample, see section 4 |
| `buyingstall_calm` | collector, 2 suppliers, 2 wants, lists the purse does and does not cover | `TypeOK`, `OrderFunded`, `SalesAreAtomic`, `FilledOrderCloses` |

Bounds.  Three players are the smallest number at which a one-sided link could hit
a stranger, and each end of an exchange involves two handles, so a fourth adds no
new pair.  Two shoppers are the smallest race.  Stacks of two distinguish part of a
stack, the last unit and the full stack; `COIN_MAX` is set so low that purses
saturate; `CountMod` (2^16 in the code) is small but above the stack limit,
and both `exchange_goods` and `clanbank_shared` ask for exactly `CountMod` units.  `GoldBound`
and `FindBound` stop rewards once the world holds as much as the limits can distinguish.  `stall_rush`
switches deadlock checking off because everybody may leave or sell out; the party,
session and warehouse runs do because ids, gains and rewards run out at their bounds.

A party of three with two ids has the leader, a member and a newcomer, an id that is
reused by nobody and a second party to be in by mistake; three seats make both a party
that shrinks to two and one that would shrink to one.  Three connections are the old
session, the one that kicks it, and one that arrives during the kick.  In the
warehouse the two withdrawals race for one place and one slot is already half full; two
saves are the fewest that can land in the wrong order, and what a move needs.
The war has one chief, whose nation loses by a command, by deaths and by the clock and
wins by monuments and levers besides; an instance with a chief on each side and three
commands (9.9 million states) satisfies the same invariants.  Four commands are an
opening, a result, a closing and a second opening or a siege in between; a
`battle_time` of 8 keeps apart the second in which commanders are selected (1), the first
check (2), half time (4) and the end (8), and leaves room for a banishment, one second to its
announcement and two to its execution, before half time.

Fairness.  `LeavesTrade` needs a player who gives up: weak fairness of revival and of
stopping a pursuit, strong fairness of `Cancel`, because mining and death switch the
handler off again and again, and weak fairness of the cleanup of a session whose loop is
over.  It says that the *server* keeps the way out open.  The
stall runs assume weak fairness of the steps of a handler only, which is what the
runtime gives to a task that is ready; keepers and shoppers may stop at any time.
`War` assumes weak fairness of the ticking task alone: the interval fires every second
and a decision is carried out before the next tick.  Operators and players owe nothing.
`Party`, `Sessions` and `ClanBank` state safety only.

## 4. What disagrees with the code's own words

Two runs end in a counterexample; each property is a statement of a comment.

| Run | The code says | The run shows |
|---|---|---|
| `stall_noduplication` | `merchant.rs:839` "prevents duplication race" | closing the stall unlocks the bag while the goods are being paid for |
| `sessions_namesarelive` | `world/session.rs:1667` "the cleanup is handled here inline" | a kick removes the handle, not the name nor one from `online_count`; selection refuses the character until a restart |

Five more statements are definitions of the modules that TLC refutes in the same way; they
have no run here.  To see one, take the cfg of the run named and check the property alone
(`DecidedTradeExecutes` as an INVARIANT, the others as a PROPERTY).

| Property (constants of) | The code says | What happens |
|---|---|---|
| `Exchange.LeavingRefunds` (`exchange_links`) | `handler/logout.rs:1330` "Gold returned to player 1" | logout, disconnect, kick and zone change reset the exchange without giving back what is on offer |
| `Exchange.DecidedTradeExecutes` (`exchange_goods`) | `handler/trade.rs:595` "Both have decided" execute | a whole stack or a single item on offer empties its slot, and the check before the transfer wants it there |
| `Stall.RestoreUndoes` (`stall_rush`) | `world/trade.rs:257` "undo `try_merchant_buy`" | after another shopper sold the place out, the restored units have no price and cannot be bought |
| `Stall.SellsOnlyWhatIsListed` (`stall_sales` with `Splitting`) | `world/types.rs:1591` "how many for sale" | selling the last unit on offer clears the keeper's whole stack |
| `BuyingStall.GoldNeverGrows` (`buyingstall_calm` with `Crowding`) | `merchant.rs:1410` "check merchant has enough gold" | the answer of `gold_lose` is not looked at; two suppliers are paid from one coin |

Met while modelling, outside the runs: two stacks of one item offered one after the
other are refunded into one slot (`world/trade.rs:122`); a reward may take the source
slot of an offer (`:132`); two `cash_gain` calls lose one payment
(`knight_cash.rs:445`); a reward may take the shopper's destination slot
(`merchant.rs:801`); the looker of an abandoned stall stays registered (`:688`);
concurrent sales to a buying stall overwrite the wanted count and the free slot
(`:1456`, `:1470`), and the supplier's slot is set to a remainder computed at the start
(`:1488`); two first visitors of a clan warehouse both load it and the slower load wins
(`clan_warehouse.rs:189`); a rolled-back withdrawal empties the destination slot with
what was there before (`:847`), and a deposit on a nearly full stack is cut off
(`:503`); a panic inside a login leaves its lock taken (`login.rs:223`); a save of an
old session may mark the account offline after a new one marked it online
(`character_save.rs:1476`); a siege decided before a `+cswclose` and carried out after
it stays open (`war.rs:1040`); a keeper who moves a stack away while preparing has
listed what the slot no longer holds (`merchant.rs:474`), and untidy in this way may
sell some of it twice; a keeper who shops elsewhere, or an offline one whose stall
closes, while a purchase is unsettled finds the bag changed under it; a shopper who is
refused part of a place after another one bought the rest leaves units that the
settlement clears (`merchant.rs:924`), the loss that `SalesAreAtomic` names; a shopper cut off
at the reply leaves a sold-out stall open (`:982`), and a supplier a filled list (`:1505`,
`:1551`, `:1557`); `item_move` onto a stack without room loses what
does not fit (`item_move.rs:632`); a supplier's purse that is full loses the price
(`merchant.rs:1441`); a supplier who also collects may have goods received during the
sale overwritten (`:1488`); a refund may pile two single items into one slot, of which
an exchange then moves one; a collector who opens again during a sale gets a place of
the old list (`merchant.rs:1444`); an offer of 65,536 units takes none
and lists them all (`trade.rs:488`, `:499`): of an item that does not stack the partner gets
one while the giver keeps it, and given back, the count is cut to an empty stack that
keeps its item id (`world/trade.rs:132`); `ItemsKept` excludes the steps that list as
many, `GhostsAreCuts` shows that nothing else leaves an item without units.  In the clan
warehouse a count of 65,536 empties a place or a slot of an item that does not stack
(`clan_warehouse.rs:494`, `:785`), which `GoodsKept` names, and a save that failed or landed
out of order stays in the database until the place changes again (`:1156`), which
`RowsFollow` names.

Other hazards outside the models, for later: a letter's goods are granted before the
letter is marked (`letter.rs:645`); a lottery ticket is paid before the limit is
checked again (`lottery.rs:471`); two donations write one fund (`knights.rs:1815`); session
ids wrap around at sixteen bits (`world/session.rs:11`).

## 5. Proofs

Every theorem holds for all values of the constants that satisfy the named assumptions
of the modules (`InventoryAssumption`, `ExchangeAssumption`, `PartyAssumption`, ...), which
give the constants the types the code gives them and nothing else: any number of
players, clans, places and items, any `COIN_MAX`, any length of a war.  The theorems are

| Component | Theorem | Says | Provided |
|---|---|---|---|
| Exchange | `TypeCorrect`, `LinkedAlways`, `OffersEndWithTrade` | `TypeOK`, `Linked`, `OffersBelongToTrade` | |
| | `DecisionsBind` | `DecisionBinds` | |
| | `ExchangeKeepsPromise`, `GoldIsKept` | `KeepsPromise`: `Exchange` implements `FairExchange`; `GoldKept` | |
| | `ItemsAreKept` | `ItemsKept` | `Tidy` bags to begin with: an empty slot has no count |
| | `GhostsComeFromCuts` | `GhostsAreCuts` | rewards of at least one unit |
| Stall | `TypeCorrect`, `GoldIsNotMade` | `TypeOK`, `GoldNeverGrows` | |
| | `StockIsCovered` | `StockCovers` | (about tidy keepers) |
| | `SalesFromStallsAreAtomic` | `SalesAreAtomic`: `Stall` implements `Market`, but for the loss the property names | `Orderly`, and always `Patient` |
| BuyingStall | `TypeCorrect` | `TypeOK` | |
| | `OrdersStayFunded` | `OrderFunded` | `~Crowding` (about collectors not hasty) |
| | `SalesToStallsAreAtomic` | `SalesAreAtomic`: `BuyingStall` implements `Market` | `~Crowding`, and no supplier collects |
| Party | `TypeCorrect`, `NoDanglingParty`, `NobodySitsTwice`, `PartiesSound` | `TypeOK`, `RecordedIsSeated`, `SeatedIsRecorded`, `PartySound` | |
| | `PartiesAreTeams` | `IsTeams`: `Party` implements `Teams` | |
| Sessions | `TypeCorrect`, `CountAlwaysCovers` | `TypeOK`, `CountCovers` | |
| | `EverybodyFound`, `OneSessionPerCharacter` | `FoundByName`, `OneSession` | `~Crossing` |
| | `NothingIsLost` | `NothingLost` | `~Crossing`, `~Delayed` |
| ClanBank | `TypeCorrect` | `TypeOK` | |
| | `GoldIsKept`, `GoodsAreKept`, `DatabaseFollows` | `GoldKept`, `GoodsKept`, `RowsFollow` | `~Rush` |
| War | `TypeCorrect`, `LosersStayAway`, `PeaceIsRestored`, `WarKeepsTime` | `TypeOK`, `LosersBanished`, `PeaceRestored`, `OnTime` | |

The hypotheses in the last column hold in the runs too, and they mark where the code
stops keeping the promise: section 2 and the list at the end of section 4 describe what happens
without them.  Two are longer than a constant.

  * `Orderly` (of `Stall`): keepers let a purchase finish before they act, are not shoppers, offer
    whole stacks for gold, do not leave; nobody gets rewards; no request exceeds a full
    stack; an empty slot has no count.
  * `Patient` (of `Stall`): keepers leave the bag alone while they prepare the stall, and
    `item_move` merges two stacks only where the whole fits.  In the run it holds in every state of a tidy
    keeper, and so do the invariants of the proof.

Two properties bound their own claim.  `ItemsKept` speaks of steps in which every entry on
offer could be refunded (`Returnable`) and lists less than 2^16 units (`Fits`); `GhostsAreCuts`
of steps from states in which an entry and its source slot together fit in sixteen bits
(`Uncut`).  What happens otherwise is in the list of section 4.

### The arguments

*Exchange.*  The inductive invariant is `TypeOK /\ Linked /\ OffersBelongToTrade`.
`Linked` would not be inductive without its first two parts: a handler resets "me and
my partner", which keeps the rest linked only because nobody else can name either of
them; the one exception, a partner whose session a panic removed or an error cut off in
the middle of its own cancel, is harmless only because such a session names nobody
but a player who has just been asked again.  Those steps that reset players share four
lemmas.  The refinement has a lemma per step that names the abstract step it is
(`RequestMeets`, `AddGoldPledges`, `ExecuteSwaps`, `CancelIsPart`, ...); the others are
`Invisible`.  The code refunds or resets a partner it does not always ask, and
`LostPartner` shows that such a partner either names the player back or has no gold on
offer.  For `DecisionBinds` it is needed that adding to an entry makes no other entry
smaller (`ListedCovers`).

The goods on offer are a sequence, and refund and transfer fold over it.  `FoldRule` is
the induction over such a fold: what the empty one satisfies and each entry preserves
holds at the end.  From it come that no fold leaves a ghost
where the counts fit (`Uncut`: a deduction clears a slot whose count becomes zero, a refund or
transfer adds what is not cut to zero) and the account of `ItemsKept`: the units in the bag
after a fold are those before it and those of every entry that found a slot.

*Selling stalls.*  `Known` says what the local variables of a purchase satisfy at each
step.  For gold, `Paid`: from the check to the charge the shopper's purse can only grow,
since only the shopper's own handlers take gold from it; so `gold_lose`, whose answer the
code ignores, does not fail, even where the keeper is hasty.  `StockCovers` needs
`Covers` for each tidy keeper: a closed stall has no prices, nobody buys during
preparation, every place with a price has its stock and reservations in its slot, no
two places share a slot, each purchase still finds the place it reserved or one sold out, and
one that has emptied the place on paper (`Spent`) will also be the last to let go of it.
These last two are what makes the clearing of the whole slot in `Settled` harmless to
the other places, and the arithmetic of `Restored` sound when two purchases of one
place end differently.

For `SalesAreAtomic` the invariant is `Trade`. Its centre is `Ledger`: what a place
still offers and what the purchases from its slot take is exactly the stack
(`Balanced`); a purchase under way either finds its units there (`Stocked`) or one that
took the last has cleared the slot already (`Cleared`), which only leaves the slot of an
emptied offer; and two purchases of one place are of one slot (`Alone`).  What the slot holds
beyond the purchases under way when it is cleared, and what comes back to a cleared one,
is exactly what `Wasted` allows to be lost. `Roomy` keeps the shopper's
destination slot as it was checked. Every action then changes one term of three sums,
over slots, items and purses; ten lemmas (`ReserveGoods`, ..., `CreditGoods`,
`MoveGoods`) show that what the mapping sees stays, and `PurchaseSells` that the purse
check is the step `Sell`.

*Buying stalls.* The list, less what sales under way have already taken from the purse
and not yet from the list, is covered at each of the three writes. The invariant says
besides that there is one sale to a stall (`OneSale`) and that until `Strike` the place
still is the want the sale remembers. For `SalesAreAtomic` (`Trade`) each handler is
`Honest`: what it read at the start, the purse, the free slot and its own stack, is
still there when it writes. The sale is the step `StartSale`; each write afterwards
takes a term from the mapping that it adds to a bag or a purse.

*Parties.*  `TypeOK`, `RecordedIsSeated`, `SeatedIsRecorded`, `PartySound` are inductive
with one more part, `InvitedIsFree`: whoever holds an invitation is in no party, unless
`crossed`.  Without it an acceptance could seat somebody twice.  Each primitive
(`CreateParty`, `DisbandParty`, a seat taken, given up or handed on) has a lemma about
the seats and one about the invariant, and the handlers are combinations of them.
`Teams` got a constant `Fits` for who may sit together, which only `Join` asks.

*Sessions.*  `CountCovers` needs that whoever is counted out was counted in
(`EnterCounts`, `LeaveCounts`).  `FoundByName` is inductive with `OneSession`'s reason:
one connection at a time is between selection and game (`OneChooses`), and the character
it chose is nobody's, or belongs to the session about to be removed (`ChoiceIsFree`).
`NothingLost` adds `Stored`: what a character owned when it left is in its row or in the
one save on its way there.

*Clan warehouse.*  `Fine` ties a handler's local variables to its member's bag: only the
handler itself takes from it, so what `Look` saw is still there.  `GoldKept` and
`GoodsKept` are accounts: each step changes two terms of a sum, in opposite directions.  For
`RowsFollow` a place is `Backed` if its row is right, a save under way will make it right, or
a handler is about to start that save.  A save begins only on a free job, so no other save is
dropped by it (`SavesStay`); a deposit keeps the content it will save until it does, and a
step that changes a place either starts the save itself (`DeductBank`, `Move`) or is a
deposit.  What remains is a landing or a failure, which is the mishap the property names or
leaves every other row alone.

*War.*  `Scheduled` describes the clock second by second (commanders are chosen before half
time; at half time the decision is on its way and the clock stands until it is carried out)
and `GatesShut` that no battle zone is open in peace.  With them the four properties are
inductive together: a banishment that comes late is still asked for by the state in
which it is carried out.

*Sums.* A sum over a set is a fold of the community modules, which is a CHOOSE of a
function that satisfies a recursive equation. `Sums_proofs` shows that such a function
exists and is unique, by a least counterexample in the number of elements (`Fixpoint`,
`Unique`), and from it that a sum splits at any element (`SumSplit`) and how it changes
when one or two of its terms do (`OneChanges`, `TwoChange`, `OneGrows`, `Redivided`,
`TwoBalance`); this is all the accounts need.

### What stays with TLC

  * Liveness: `LeavesTrade`, `SoldOutCloses`, `FilledOrderCloses`, `WarEnds`.
  * `SalesAreAtomic` of `Stall` for keepers who are not tidy, which the run includes.
  * The refuted properties of section 4.

Proving changed the models in four places, each a fact about the code. `StockCovers`
does not hold for a keeper who rearranges the bag while preparing a stall, and
`OrderFunded` does not for a collector who opens again during a sale: hence `tidy` and
`hasty`. A restored place saturates at the limit of its u16, and `Settled`, which was a
CASE with overlapping guards, now takes its first branch first, as the code does.

## 6. Plan

1. *Done*: `Inventory`, `Exchange`, `FairExchange`; `Stall`, `Market`, `BuyingStall`;
   `Party`, `Teams`; `Sessions`; `ClanBank`; `War`; the type invariant of each, all their
   safety invariants and action properties, and the refinements of `FairExchange`, `Market`
   (twice) and `Teams`, are proved.
2. Proofs that are left: `SalesAreAtomic` of `Stall` where a keeper moves goods while
   preparing, which needs a weaker ledger (a slot may hold less than its place offers), and
   where rewards arrive in between.
3. Handlers step by step where they are one step now: request and decide of `Exchange`
   (`trade.rs:139`, `:587`), invitation and acceptance of `Party` (`party.rs:490`, `:776`).
4. Letters, whose claim has the shape of a warehouse withdrawal with the database in the
   middle; donations; the lottery.

## 7. Not modelled

Combat, magic, NPC movement and pathfinding are arithmetic over tables and continuous
positions. Quests are data interpreted by a Lua engine, one script at a time per player.
Packet encoding, encryption, the rate limiter, the login server and the SQL layer are
I/O with no interaction of their own. The tools convert data off line. These, and the
tests kept in the same files, are most of the 284,000 lines of the implementation, so
that the models cover a small part of it by lines; by design they cover the parts where
the order of events decides what is right. The king election, challenges, private
warehouses, letters, the mall and the lottery could be modelled and are not yet.
