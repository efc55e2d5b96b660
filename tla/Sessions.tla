------------------------------ MODULE Sessions ------------------------------
(* The life of a session and of the character data it carries: login with its *)
(* lock and the kick of an older session (handler/login.rs), character        *)
(* selection (handler/selchar.rs), game entry (handler/gamestart.rs), logout  *)
(* (handler/logout.rs), disconnect (session.rs), offline stalls               *)
(* (systems/offline_merchant.rs), the saves (systems/character_save.rs), the   *)
(* panic of a session's task and the end of the process (server.rs), over the *)
(* session table and the name index of world/session.rs.                      *)
(*                                                                            *)
(* One account, whose characters are Chars.  What a character owns is the set *)
(* of gains it made: a save overwrites the stored set, a load reads it.  A    *)
(* connection is its session id; an id nothing names stands for a fresh one.  *)
EXTENDS Integers, Sequences, FiniteSets

CONSTANTS
  Conns,     \* connections, each with its session id
  Chars,     \* the characters of the account
  NoConn, NoChar,
  MaxGains,  \* bound: gains made by all characters together
  MaxJobs,   \* bound: saves under way in the background
  MaxCount,  \* bound: game entries while online_count is below it
  Delayed,   \* spawned saves may take effect late and in any order
  Crossing   \* two connections may be between selection and game at once

ASSUME SessionsAssumption ==
  /\ NoConn \notin Conns /\ NoChar \notin Chars
  /\ MaxGains \in Nat /\ MaxJobs \in Nat /\ MaxCount \in Nat
  /\ Delayed \in BOOLEAN /\ Crossing \in BOOLEAN

VARIABLES
  stage,     \* how far each connection's handlers have come
  chosen,    \* ClientSession.character_id
  upgraded,  \* connections whose stream was split for the game
  lock,      \* login_in_progress: who holds the account's login lock
  victim,    \* the session a login or selection is about to remove
  sessions,  \* handles with a character in the session table
  known,     \* handles that carry the account id
  offline,   \* handles left behind as offline stalls
  own,       \* what the character of a handle owns
  index,     \* name_to_session
  count,     \* online_count
  jobs,      \* spawned saves that have not reached the database
  db,        \* what the database says each character owns
  made,      \* gains made so far
  left       \* history: what each character owned when it was last saved to leave

conn  == <<stage, chosen, upgraded, lock, victim>>
world == <<sessions, known, offline, own, index, count>>
store == <<jobs, db, made, left>>
vars  == <<conn, world, store>>

\* Stages between a connection and its game: handlers that are running
\* and handlers that wait for the client.
Stages == {"free", "new", "kicking", "saved", "closing", "closed", "auth", "loggedin",
           "repicking", "resaved", "selected", "entering", "ingame", "leaving"}
Waiting == {"new", "loggedin", "selected", "ingame"}

Init ==
  /\ stage = [c \in Conns |-> "free"]
  /\ chosen = [c \in Conns |-> NoChar]
  /\ upgraded = {}
  /\ lock = NoConn
  /\ victim = [c \in Conns |-> NoConn]
  /\ sessions = {} /\ known = {} /\ offline = {}
  /\ own = [c \in Conns |-> {}]
  /\ index = [x \in Chars |-> NoConn]
  /\ count = 0
  /\ jobs = <<>>
  /\ db = [x \in Chars |-> {}]
  /\ made = 0
  /\ left = [x \in Chars |-> {}]

Step(c, from, to) == stage[c] = from /\ stage' = [stage EXCEPT ![c] = to]

\* Prompt saves take effect before anything else happens.
Quiet == Delayed \/ jobs = <<>>

\* save_single_character_sync, and the awaited saves of a logout.
SaveNow(s) ==
  /\ db' = IF s \in sessions THEN [db EXCEPT ![chosen[s]] = own[s]] ELSE db
  /\ left' = IF s \in sessions THEN [left EXCEPT ![chosen[s]] = own[s]] ELSE left

\* A cleanup that gives back the name and the place of a session already removed.
UnregisterTwice(s) ==
  /\ sessions' = sessions \ {s}
  /\ known' = known \ {s}
  /\ offline' = offline \ {s}
  /\ own' = [own EXCEPT ![s] = {}]
  /\ index' = IF chosen[s] # NoChar THEN [index EXCEPT ![chosen[s]] = NoConn] ELSE index
  /\ count' = IF s \in sessions THEN count - 1 ELSE count

\* A count taken down whether or not a character was registered.
UnregisterUncounted(s) ==
  /\ sessions' = sessions \ {s}
  /\ known' = known \ {s}
  /\ offline' = offline \ {s}
  /\ own' = [own EXCEPT ![s] = {}]
  /\ index' = IF s \in sessions THEN [index EXCEPT ![chosen[s]] = NoConn] ELSE index
  /\ count' = count - 1

\* unregister_session: handle, name and count, if the handle was there.
Unregister(s) ==
  /\ sessions' = sessions \ {s}
  /\ known' = known \ {s}
  /\ offline' = offline \ {s}
  /\ own' = [own EXCEPT ![s] = {}]
  /\ index' = IF s \in sessions THEN [index EXCEPT ![chosen[s]] = NoConn] ELSE index
  /\ count' = IF s \in sessions THEN count - 1 ELSE count

\* A kick that leaves the account's entry behind.
DropHandleOnly(s) ==
  /\ sessions' = sessions \ {s}
  /\ offline' = offline \ {s}
  /\ own' = [own EXCEPT ![s] = {}]
  /\ UNCHANGED <<known, index, count>>

\* The last steps of kick_session_for_duplicate: only the handle goes.
DropHandle(s) ==
  /\ sessions' = sessions \ {s}
  /\ known' = known \ {s}
  /\ offline' = offline \ {s}
  /\ own' = [own EXCEPT ![s] = {}]
  /\ UNCHANGED <<index, count>>

-----------------------------------------------------------------------------
(* Coming in. *)

\* Connections that have chosen a character and are not in the game yet.
Choosing == {c \in Conns : stage[c] \in {"repicking", "resaved", "selected", "entering"}}

Connect(c) ==
  /\ Quiet
  /\ stage[c] = "free"
  /\ c \notin sessions
  /\ \A x \in Chars : index[x] # c
  /\ \A d \in Conns : victim[d] # c
  /\ stage' = [stage EXCEPT ![c] = "new"]
  /\ chosen' = [chosen EXCEPT ![c] = NoChar]
  /\ upgraded' = upgraded \ {c}
  /\ UNCHANGED <<lock, victim, world, store>>

\* WIZ_LOGIN takes the lock and looks for a handle of the account.
Login(c) ==
  /\ Quiet
  /\ stage[c] = "new"
  /\ lock = NoConn
  /\ lock' = c
  /\ IF sessions \cap known = {}
       THEN /\ stage' = [stage EXCEPT ![c] = "auth"]
            /\ UNCHANGED victim
       ELSE \E s \in sessions \cap known :
              /\ stage' = [stage EXCEPT ![c] = IF s \in offline THEN "closing" ELSE "kicking"]
              /\ victim' = [victim EXCEPT ![c] = s]
  /\ UNCHANGED <<chosen, upgraded, world, store>>

\* kick_session_for_duplicate saves the older session ...
KickSave(c) ==
  /\ Quiet
  /\ \/ Step(c, "kicking", "saved")
     \/ Step(c, "repicking", "resaved")
  /\ SaveNow(victim[c])
  /\ UNCHANGED <<chosen, upgraded, lock, victim, world, jobs, made>>

\* ... and drops its handle, for a login and for a character selection.
KickRemove(c) ==
  /\ Quiet
  /\ \/ Step(c, "saved", "auth")
     \/ Step(c, "resaved", "selected")
  /\ DropHandle(victim[c])
  /\ victim' = [victim EXCEPT ![c] = NoConn]
  /\ UNCHANGED <<chosen, upgraded, lock, store>>

\* cleanup_offline_session for the returning owner: the stall stops selling and
\* is saved ...
CloseSave(c) ==
  /\ Quiet
  /\ Step(c, "closing", "closed")
  /\ SaveNow(victim[c])
  /\ offline' = offline \ {victim[c]}
  /\ UNCHANGED <<chosen, upgraded, lock, victim, sessions, known, own, index, count, jobs, made>>

\* ... and unregistered.
CloseRemove(c) ==
  /\ Quiet
  /\ Step(c, "closed", "auth")
  /\ Unregister(victim[c])
  /\ victim' = [victim EXCEPT ![c] = NoConn]
  /\ UNCHANGED <<chosen, upgraded, lock, store>>

\* The account is found or refused; the lock is released in both cases.
Authenticate(c) ==
  /\ Quiet
  /\ Step(c, "auth", "loggedin") \/ Step(c, "auth", "new")
  /\ lock' = NoConn
  /\ UNCHANGED <<chosen, upgraded, victim, world, store>>

\* A selection that does not look whether the character is in the game.
SelectUnchecked(c, x) ==
  /\ Quiet
  /\ Crossing \/ Choosing = {}
  /\ Step(c, "loggedin", "selected")
  /\ chosen' = [chosen EXCEPT ![c] = x]
  /\ UNCHANGED <<upgraded, lock, victim, world, store>>

\* WIZ_SEL_CHAR: a character whose name is in the index is taken over from a
\* session of the same account and refused otherwise.
Select(c, x) ==
  /\ Quiet
  /\ Crossing \/ Choosing = {}
  /\ index[x] # NoConn => index[x] \in sessions \cap known
  /\ IF index[x] = NoConn
       THEN Step(c, "loggedin", "selected") /\ UNCHANGED victim
       ELSE /\ Step(c, "loggedin", "repicking")
            /\ victim' = [victim EXCEPT ![c] = index[x]]
  /\ chosen' = [chosen EXCEPT ![c] = x]
  /\ UNCHANGED <<upgraded, lock, world, store>>

\* Phase 2 of WIZ_GAMESTART: load, split the stream, register_ingame.
EnterGame(c) ==
  /\ Quiet
  /\ Step(c, "selected", "entering")
  /\ c \notin upgraded
  /\ count < MaxCount
  /\ upgraded' = upgraded \cup {c}
  /\ sessions' = sessions \cup {c}
  /\ own' = [own EXCEPT ![c] = db[chosen[c]]]
  /\ index' = [index EXCEPT ![chosen[c]] = c]
  /\ count' = count + 1
  /\ UNCHANGED <<chosen, lock, victim, known, offline, store>>

\* A stream is split once: a second game entry on a connection ends it.
EnterAgain(c) ==
  /\ Quiet
  /\ Step(c, "selected", "free")
  /\ c \in upgraded
  /\ UNCHANGED <<chosen, upgraded, lock, victim, world, store>>

\* Only load_account_premiums writes the account id into the handle.
Settle(c) ==
  /\ Quiet
  /\ Step(c, "entering", "ingame")
  /\ known' = IF c \in sessions THEN known \cup {c} ELSE known
  /\ UNCHANGED <<chosen, upgraded, lock, victim, sessions, offline, own, index, count, store>>

-----------------------------------------------------------------------------
(* In the game. *)

\* A character gains something: by its own request, or as an offline stall by a sale.
Gain(c) ==
  /\ Quiet
  /\ c \in sessions
  /\ stage[c] = "ingame" \/ c \in offline
  /\ made < MaxGains
  /\ made' = made + 1
  /\ own' = [own EXCEPT ![c] = @ \cup {made + 1}]
  /\ UNCHANGED <<conn, sessions, known, offline, index, count, jobs, db, left>>

SaveJob(c) == [char |-> chosen[c], owns |-> own[c]]

\* The ten-minute save: a task is spawned with a copy.
PeriodicSave(c) ==
  /\ Quiet
  /\ c \in sessions
  /\ Len(jobs) < MaxJobs
  /\ jobs' = Append(jobs, SaveJob(c))
  /\ UNCHANGED <<conn, world, db, made, left>>

\* A spawned save reaches the database.
Perform ==
  /\ \E i \in 1..Len(jobs) :
       /\ db' = [db EXCEPT ![jobs[i].char] = jobs[i].owns]
       /\ jobs' = SubSeq(jobs, 1, i - 1) \o SubSeq(jobs, i + 1, Len(jobs))
  /\ UNCHANGED <<conn, world, made, left>>

-----------------------------------------------------------------------------
(* Going out. *)

\* WIZ_LOGOUT saves and waits for it, then unregisters; the client is back at
\* the character selection.
Logout(c) ==
  /\ Quiet
  /\ Step(c, "ingame", "leaving")
  /\ SaveNow(c)
  /\ UNCHANGED <<chosen, upgraded, lock, victim, world, jobs, made>>

LogoutEnd(c) ==
  /\ Quiet
  /\ Step(c, "leaving", "loggedin")
  /\ Unregister(c)
  /\ UNCHANGED <<chosen, upgraded, lock, victim, store>>

\* The connection breaks outside the game.
Hangup(c) ==
  /\ Quiet
  /\ stage[c] \in Waiting \ {"ingame"}
  /\ stage' = [stage EXCEPT ![c] = "free"]
  /\ Unregister(c)
  /\ UNCHANGED <<chosen, upgraded, lock, victim, store>>

\* The connection of a player breaks: the save is spawned, the session unregistered.
Disconnect(c) ==
  /\ Quiet
  /\ Step(c, "ingame", "free")
  /\ IF c \in sessions
       THEN /\ Len(jobs) < MaxJobs
            /\ jobs' = Append(jobs, SaveJob(c))
            /\ left' = [left EXCEPT ![chosen[c]] = own[c]]
       ELSE UNCHANGED <<jobs, left>>
  /\ Unregister(c)
  /\ UNCHANGED <<chosen, upgraded, lock, victim, db, made>>

\* ... or, with a stall open, is saved and stays as an offline stall.
GoOffline(c) ==
  /\ Quiet
  /\ Step(c, "ingame", "free")
  /\ c \in sessions
  /\ SaveNow(c)
  /\ offline' = offline \cup {c}
  /\ UNCHANGED <<chosen, upgraded, lock, victim, sessions, known, own, index, count, jobs, made>>

\* A stall closed without a save.
OfflineEndsUnsaved(s) ==
  /\ Quiet
  /\ s \in offline
  /\ left' = [left EXCEPT ![chosen[s]] = own[s]]
  /\ Unregister(s)
  /\ UNCHANGED <<conn, jobs, db, made>>

\* The stall's time is over or everything is sold: save and unregister.
OfflineEnds(s) ==
  /\ Quiet
  /\ s \in offline
  /\ SaveNow(s)
  /\ Unregister(s)
  /\ UNCHANGED <<conn, jobs, made>>

\* A handler panics: unregistered, nothing saved, a lock it held stays.
Panic(c) ==
  /\ Quiet
  /\ stage[c] # "free"
  /\ stage' = [stage EXCEPT ![c] = "free"]
  /\ victim' = [victim EXCEPT ![c] = NoConn]
  /\ Unregister(c)
  /\ left' = IF c \in sessions THEN [left EXCEPT ![chosen[c]] = db[chosen[c]]] ELSE left
  /\ UNCHANGED <<chosen, upgraded, lock, jobs, db, made>>

\* The process ends and starts again with an empty world.
Restarted ==
  /\ stage' = [c \in Conns |-> "free"]
  /\ chosen' = [c \in Conns |-> NoChar]
  /\ upgraded' = {} /\ lock' = NoConn
  /\ victim' = [c \in Conns |-> NoConn]
  /\ sessions' = {} /\ known' = {} /\ offline' = {}
  /\ own' = [c \in Conns |-> {}]
  /\ index' = [x \in Chars |-> NoConn]
  /\ count' = 0
  /\ jobs' = <<>>
  /\ UNCHANGED made

Crash == Restarted /\ db' = db /\ left' = db

\* A shutdown saves every character in the game first, one after the other.
Shutdown ==
  /\ Quiet
  /\ Restarted
  /\ \E last \in [Chars -> Conns \cup {NoConn}] :
       /\ \A x \in Chars : LET playing == {c \in sessions : chosen[c] = x}
                           IN IF playing = {} THEN last[x] = NoConn ELSE last[x] \in playing
       /\ db' = [x \in Chars |-> IF last[x] = NoConn THEN db[x] ELSE own[last[x]]]
       /\ left' = [x \in Chars |-> IF last[x] = NoConn THEN left[x] ELSE own[last[x]]]

-----------------------------------------------------------------------------
Next ==
  \/ \E c \in Conns :
       \/ Connect(c) \/ Login(c) \/ KickSave(c) \/ KickRemove(c) \/ Authenticate(c)
       \/ CloseSave(c) \/ CloseRemove(c) \/ EnterGame(c) \/ EnterAgain(c) \/ Settle(c)
       \/ Gain(c) \/ PeriodicSave(c)
       \/ Logout(c) \/ LogoutEnd(c) \/ Hangup(c) \/ Disconnect(c) \/ GoOffline(c)
       \/ OfflineEnds(c) \/ Panic(c)
  \/ \E c \in Conns, x \in Chars : Select(c, x)
  \/ Perform
  \/ Crash
  \/ Shutdown

Spec == Init /\ [][Next]_vars

-----------------------------------------------------------------------------
(* Properties. *)

Gains == 1..MaxGains

\* Every variable has its type; only registered handles carry data.
TypeOK ==
  /\ stage \in [Conns -> Stages]
  /\ chosen \in [Conns -> Chars \cup {NoChar}]
  /\ upgraded \subseteq Conns
  /\ lock \in Conns \cup {NoConn}
  /\ victim \in [Conns -> Conns \cup {NoConn}]
  /\ sessions \subseteq Conns
  /\ known \subseteq sessions
  /\ offline \subseteq sessions
  /\ own \in [Conns -> SUBSET Gains]
  /\ index \in [Chars -> Conns \cup {NoConn}]
  /\ count \in Int
  /\ jobs \in Seq([char : Chars, owns : SUBSET Gains])
  /\ db \in [Chars -> SUBSET Gains]
  /\ made \in 0..MaxGains
  /\ left \in [Chars -> SUBSET Gains]
  /\ \A c \in sessions : chosen[c] \in Chars

\* The online count never falls below the number of characters in the game (and
\* so never wraps below zero), whichever doors they leave by.
CountCovers == count >= Cardinality(sessions)

\* One character is in the game at most once, so what it owns is held in one place.
OneSession ==
  \A c, d \in sessions : chosen[c] = chosen[d] => c = d

\* Who is in the game is found by name; otherwise trades, invitations and letters
\* miss a player who is there.
FoundByName == \A c \in sessions : index[chosen[c]] = c

\* Abrupt disconnects, logouts, kicks and offline stalls lose nothing: whoever
\* plays a character has all it owned when it was last saved to leave.
NothingLost == \A c \in sessions : left[chosen[c]] \subseteq own[c]

\* The name index only names sessions that exist: a name that stays behind keeps
\* its character out of the game until the server restarts.
NamesAreLive == \A x \in Chars : index[x] # NoConn => index[x] \in sessions
=============================================================================
