--------------------------- MODULE Sessions_proofs ---------------------------
(* Proofs about Sessions, for any number of connections and characters.        *)
EXTENDS Sessions, FiniteSetTheorems, SequenceTheorems, TLAPS

USE SessionsAssumption DEF SessionsAssumption

-----------------------------------------------------------------------------
(* Type correctness. *)

\* A connection on its way into the game has a character to enter with.
ChoosersChose == \A c \in Choosing : chosen[c] \in Chars

Typed == TypeOK /\ ChoosersChose

\* unregister_session keeps the types of what it touches, whichever id it gets.
LEMMA UnregisterTyped ==
  ASSUME TypeOK, NEW s \in Conns \cup {NoConn}, Unregister(s)
  PROVE  /\ sessions' \subseteq sessions /\ known' \subseteq sessions' /\ offline' \subseteq sessions'
         /\ own' \in [Conns -> SUBSET Gains]
         /\ index' \in [Chars -> Conns \cup {NoConn}]
         /\ count' \in Int
<1>1. CASE s \in sessions
  BY <1>1 DEF TypeOK, Unregister
<1>2. CASE s \notin sessions
  BY <1>2 DEF TypeOK, Unregister
<1> QED
  BY <1>1, <1>2

LEMMA DropTyped ==
  ASSUME TypeOK, NEW s \in Conns \cup {NoConn}, DropHandle(s)
  PROVE  /\ sessions' \subseteq sessions /\ known' \subseteq sessions' /\ offline' \subseteq sessions'
         /\ own' \in [Conns -> SUBSET Gains]
         /\ index' \in [Chars -> Conns \cup {NoConn}]
         /\ count' \in Int
BY DEF TypeOK, DropHandle

LEMMA SaveTyped ==
  ASSUME TypeOK, NEW s \in Conns \cup {NoConn}, SaveNow(s)
  PROVE  db' \in [Chars -> SUBSET Gains] /\ left' \in [Chars -> SUBSET Gains]
BY DEF TypeOK, SaveNow

LEMMA JobTyped ==
  ASSUME TypeOK, NEW c \in sessions, jobs' = Append(jobs, SaveJob(c))
  PROVE  jobs' \in Seq([char : Chars, owns : SUBSET Gains])
<1>1. SaveJob(c) \in [char : Chars, owns : SUBSET Gains]
  BY DEF TypeOK, SaveJob
<1> QED
  BY <1>1 DEF TypeOK

\* Login, selection and game entry.
LEMMA EnterTyped ==
  ASSUME Typed, NEW c \in Conns,
         \/ Connect(c) \/ Login(c) \/ KickSave(c) \/ KickRemove(c) \/ Authenticate(c)
         \/ CloseSave(c) \/ CloseRemove(c) \/ EnterGame(c) \/ EnterAgain(c) \/ Settle(c)
  PROVE  Typed'
<1> USE DEF Typed, ChoosersChose, Choosing, Stages
<1>1. CASE Connect(c)
  BY <1>1 DEF TypeOK, Connect, world, store
<1>2. CASE Login(c)
  BY <1>2 DEF TypeOK, Login, world, store
<1>3. CASE KickSave(c)
  BY <1>3, SaveTyped DEF TypeOK, KickSave, Step, world
<1>4. CASE KickRemove(c)
  BY <1>4, DropTyped DEF TypeOK, KickRemove, Step, store
<1>5. CASE Authenticate(c)
  BY <1>5 DEF TypeOK, Authenticate, Step, world, store
<1>6. CASE CloseSave(c)
  BY <1>6, SaveTyped DEF TypeOK, CloseSave, Step
<1>7. CASE CloseRemove(c)
  BY <1>7, UnregisterTyped DEF TypeOK, CloseRemove, Step, store
<1>8. CASE EnterGame(c)
  BY <1>8 DEF TypeOK, EnterGame, Step, store
<1>9. CASE EnterAgain(c)
  BY <1>9 DEF TypeOK, EnterAgain, Step, world, store
<1>10. CASE Settle(c)
  BY <1>10 DEF TypeOK, Settle, Step, store
<1> QED
  BY <1>1, <1>2, <1>3, <1>4, <1>5, <1>6, <1>7, <1>8, <1>9, <1>10

LEMMA SelectTyped ==
  ASSUME Typed, NEW c \in Conns, NEW x \in Chars, Select(c, x)
  PROVE  Typed'
BY DEF Typed, TypeOK, ChoosersChose, Choosing, Stages, Select, Step, world, store

\* Play, saves, and the ways out.
LEMMA LeaveTyped ==
  ASSUME Typed, NEW c \in Conns,
         \/ Gain(c) \/ PeriodicSave(c)
         \/ Logout(c) \/ LogoutEnd(c) \/ Hangup(c) \/ Disconnect(c) \/ GoOffline(c)
         \/ OfflineEnds(c) \/ Panic(c)
  PROVE  Typed'
<1> USE DEF Typed, ChoosersChose, Choosing, Stages
<1>1. CASE Gain(c)
  BY <1>1 DEF TypeOK, Gain, Gains, conn
<1>2. CASE PeriodicSave(c)
  BY <1>2, JobTyped DEF TypeOK, PeriodicSave, conn, world
<1>3. CASE Logout(c)
  BY <1>3, SaveTyped DEF TypeOK, Logout, Step, world
<1>4. CASE LogoutEnd(c)
  BY <1>4, UnregisterTyped DEF TypeOK, LogoutEnd, Step, store
<1>5. CASE Hangup(c)
  BY <1>5, UnregisterTyped DEF TypeOK, Hangup, store
<1>6. CASE Disconnect(c)
  BY <1>6, UnregisterTyped, JobTyped DEF TypeOK, Disconnect, Step
<1>7. CASE GoOffline(c)
  BY <1>7, SaveTyped DEF TypeOK, GoOffline, Step
<1>8. CASE OfflineEnds(c)
  BY <1>8, UnregisterTyped, SaveTyped DEF TypeOK, OfflineEnds, conn
<1>9. CASE Panic(c)
  BY <1>9, UnregisterTyped DEF TypeOK, Panic
<1> QED
  BY <1>1, <1>2, <1>3, <1>4, <1>5, <1>6, <1>7, <1>8, <1>9

\* Saves that arrive late, and the end of the process.
LEMMA ServerTyped ==
  ASSUME Typed, Perform \/ Crash \/ Shutdown
  PROVE  Typed'
<1> USE DEF Typed, ChoosersChose, Choosing, Stages
<1>1. CASE Perform
  <2> DEFINE Job == [char : Chars, owns : SUBSET Gains]
  <2>1. PICK i \in 1..Len(jobs) :
          /\ db' = [db EXCEPT ![jobs[i].char] = jobs[i].owns]
          /\ jobs' = SubSeq(jobs, 1, i - 1) \o SubSeq(jobs, i + 1, Len(jobs))
    BY <1>1 DEF Perform
  <2>2. jobs \in Seq(Job) /\ Len(jobs) \in Nat /\ jobs[i] \in Job
    <3>1. jobs \in Seq(Job)
      BY DEF TypeOK
    <3> HIDE DEF Job
    <3> QED
      BY <2>1, <3>1
  <2>3. jobs[i].char \in Chars /\ jobs[i].owns \in SUBSET Gains
    BY <2>2
  <2>4. jobs' \in Seq(Job)
    <3> HIDE DEF Job
    <3>1. SubSeq(jobs, 1, i - 1) \in Seq(Job) /\ SubSeq(jobs, i + 1, Len(jobs)) \in Seq(Job)
      BY <2>2
    <3> QED
      BY <2>1, <3>1
  <2> QED
    BY <1>1, <2>1, <2>3, <2>4 DEF TypeOK, Perform, conn, world
<1>2. CASE Crash
  BY <1>2 DEF TypeOK, Crash, Restarted
<1>3. CASE Shutdown
  <2>1. PICK last \in [Chars -> Conns \cup {NoConn}] :
          /\ db' = [x \in Chars |-> IF last[x] = NoConn THEN db[x] ELSE own[last[x]]]
          /\ left' = [x \in Chars |-> IF last[x] = NoConn THEN left[x] ELSE own[last[x]]]
    BY <1>3 DEF Shutdown
  <2> QED
    BY <1>3, <2>1 DEF TypeOK, Shutdown, Restarted
<1> QED
  BY <1>1, <1>2, <1>3

LEMMA NextTyped == Typed /\ [Next]_vars => Typed'
<1> SUFFICES ASSUME Typed, [Next]_vars PROVE Typed'
  OBVIOUS
<1>1. CASE UNCHANGED vars
  BY <1>1 DEF vars, conn, world, store, Typed, TypeOK, ChoosersChose, Choosing
<1>2. CASE Next
  BY <1>2, EnterTyped, SelectTyped, LeaveTyped, ServerTyped DEF Next
<1> QED
  BY <1>1, <1>2

LEMMA InitTyped == Init => Typed
BY DEF Init, Typed, TypeOK, ChoosersChose, Choosing, Stages, Gains

\* Every variable of the session life cycle keeps its type, also with saves that
\* take effect late and with two connections choosing at once: no handle without a
\* character, no offline stall without a handle.
THEOREM TypeCorrect == Spec => []TypeOK
BY InitTyped, NextTyped, PTL DEF Spec, Typed

-----------------------------------------------------------------------------
(* The online count. *)

Counted == Typed /\ IsFiniteSet(sessions) /\ CountCovers

LEMMA EnterCounts ==
  ASSUME Counted, NEW c \in Conns, sessions' = sessions \cup {c}, count' = count + 1
  PROVE  IsFiniteSet(sessions') /\ CountCovers'
<1>1. /\ IsFiniteSet(sessions \cup {c})
      /\ Cardinality(sessions \cup {c}) = IF c \in sessions THEN Cardinality(sessions) ELSE Cardinality(sessions) + 1
  BY FS_AddElement DEF Counted
<1>2. Cardinality(sessions) \in Nat /\ count \in Int
  BY FS_CardinalityType DEF Counted, Typed, TypeOK
<1> QED
  BY <1>1, <1>2 DEF Counted, CountCovers

\* A session that goes is counted down only if it was counted; a kick does not count.
LEMMA LeaveCounts ==
  ASSUME Counted, NEW s, sessions' = sessions \ {s},
         count' = count \/ (s \in sessions /\ count' = count - 1)
  PROVE  IsFiniteSet(sessions') /\ CountCovers'
<1>1. /\ IsFiniteSet(sessions \ {s})
      /\ Cardinality(sessions \ {s}) = IF s \in sessions THEN Cardinality(sessions) - 1 ELSE Cardinality(sessions)
  BY FS_RemoveElement DEF Counted
<1>2. Cardinality(sessions) \in Nat /\ count \in Int
  BY FS_CardinalityType DEF Counted, Typed, TypeOK
<1> QED
  BY <1>1, <1>2 DEF Counted, CountCovers

LEMMA NextCounts == Counted /\ [Next]_vars => Counted'
<1> SUFFICES ASSUME Counted, [Next]_vars PROVE IsFiniteSet(sessions') /\ CountCovers'
  BY NextTyped DEF Counted
<1>1. CASE sessions' = sessions /\ count' = count
  BY <1>1 DEF Counted, CountCovers
<1>2. CASE \E s : DropHandle(s)
  BY <1>2, LeaveCounts DEF DropHandle
<1>3. CASE \E s : Unregister(s)
  <2>1. PICK s : Unregister(s)
    BY <1>3
  <2>2. sessions' = sessions \ {s} /\ (count' = count \/ (s \in sessions /\ count' = count - 1))
    BY <2>1 DEF Unregister
  <2> QED
    BY <2>2, LeaveCounts
<1>4. CASE \E c \in Conns : EnterGame(c)
  BY <1>4, EnterCounts DEF EnterGame
<1>5. CASE Restarted
  <2>1. sessions' = {} /\ count' = 0
    BY <1>5 DEF Restarted
  <2> QED
    BY <2>1, FS_EmptySet DEF CountCovers
<1>6. ASSUME NEW c \in Conns,
             \/ Connect(c) \/ Login(c) \/ KickSave(c) \/ Authenticate(c)
             \/ CloseSave(c) \/ EnterAgain(c) \/ Settle(c)
             \/ Gain(c) \/ PeriodicSave(c) \/ Logout(c) \/ GoOffline(c)
      PROVE  sessions' = sessions /\ count' = count
  BY <1>6 DEF Connect, Login, KickSave, Authenticate, CloseSave, EnterAgain, Settle,
              Gain, PeriodicSave, Logout, GoOffline, world
<1>7. ASSUME NEW c \in Conns,
             KickRemove(c) \/ CloseRemove(c) \/ LogoutEnd(c) \/ Hangup(c) \/ Disconnect(c)
             \/ OfflineEnds(c) \/ Panic(c)
      PROVE  \E s : Unregister(s) \/ DropHandle(s)
  BY <1>7 DEF KickRemove, CloseRemove, LogoutEnd, Hangup, Disconnect, OfflineEnds, Panic
<1>8. ASSUME NEW c \in Conns, NEW x \in Chars, Select(c, x)
      PROVE  sessions' = sessions /\ count' = count
  BY <1>8 DEF Select, world
<1>9. ASSUME Perform PROVE sessions' = sessions /\ count' = count
  BY <1>9 DEF Perform, world
<1>10. ASSUME UNCHANGED vars PROVE sessions' = sessions /\ count' = count
  BY <1>10 DEF vars, world
<1> QED
  BY <1>1, <1>2, <1>3, <1>4, <1>5, <1>6, <1>7, <1>8, <1>9, <1>10 DEF Next, Crash, Shutdown

\* online_count never falls below the number of characters in the game, whatever
\* they leave by: a logout, a lost connection, a kick, a panic or the end of a stall.
THEOREM CountAlwaysCovers == Spec => []CountCovers
<1>1. Init => Counted
  <2>1. Init => sessions = {} /\ count = 0
    BY DEF Init
  <2> QED
    BY <2>1, InitTyped, FS_EmptySet DEF Counted, CountCovers
<1> QED
  BY <1>1, NextCounts, PTL DEF Spec, Counted

-----------------------------------------------------------------------------
(* One session per character, found by its name. *)

\* A registered handle belongs to a connection in the game, or was left behind as a
\* stall by one that is gone.
InPlace == \A c \in sessions : stage[c] \in {"entering", "ingame", "leaving", "free"}

\* One connection at a time is between selection and game.
OneChooses == \A c, d \in Choosing : c = d

\* Nobody else plays a selected character, or only the session about to be removed.
ChoiceIsFree ==
  \A c \in Conns, d \in sessions :
    chosen[d] = chosen[c] =>
      /\ stage[c] # "selected"
      /\ stage[c] \in {"repicking", "resaved"} => d = victim[c]

Placed == Typed /\ InPlace
Unique == Placed /\ OneChooses /\ ChoiceIsFree /\ FoundByName

LEMMA NextPlaced == Placed /\ [Next]_vars => Placed'
<1> SUFFICES ASSUME Placed, [Next]_vars PROVE InPlace'
  BY NextTyped DEF Placed
<1> USE DEF Placed, Typed, TypeOK, InPlace
<1>1. ASSUME NEW c \in Conns,
             \/ Connect(c) \/ Login(c) \/ KickSave(c) \/ KickRemove(c) \/ Authenticate(c)
             \/ CloseSave(c) \/ CloseRemove(c) \/ EnterGame(c) \/ EnterAgain(c) \/ Settle(c)
      PROVE  InPlace'
  <2>1. CASE Connect(c)
    BY <2>1 DEF Connect, world
  <2>2. CASE Login(c)
    BY <2>2 DEF Login, world
  <2>3. CASE KickSave(c)
    BY <2>3 DEF KickSave, Step, world
  <2>4. CASE KickRemove(c)
    BY <2>4 DEF KickRemove, Step, DropHandle
  <2>5. CASE Authenticate(c)
    BY <2>5 DEF Authenticate, Step, world
  <2>6. CASE CloseSave(c)
    BY <2>6 DEF CloseSave, Step
  <2>7. CASE CloseRemove(c)
    BY <2>7 DEF CloseRemove, Step, Unregister
  <2>8. CASE EnterGame(c)
    BY <2>8 DEF EnterGame, Step
  <2>9. CASE EnterAgain(c)
    BY <2>9 DEF EnterAgain, Step, world
  <2>10. CASE Settle(c)
    BY <2>10 DEF Settle, Step
  <2> QED
    BY <1>1, <2>1, <2>2, <2>3, <2>4, <2>5, <2>6, <2>7, <2>8, <2>9, <2>10
<1>2. ASSUME NEW c \in Conns,
             \/ Gain(c) \/ PeriodicSave(c)
             \/ Logout(c) \/ LogoutEnd(c) \/ Hangup(c) \/ Disconnect(c) \/ GoOffline(c)
             \/ OfflineEnds(c) \/ Panic(c)
      PROVE  InPlace'
  <2>1. CASE Gain(c) \/ PeriodicSave(c)
    BY <2>1 DEF Gain, PeriodicSave, conn, world
  <2>2. CASE Logout(c)
    BY <2>2 DEF Logout, Step, world
  <2>3. CASE LogoutEnd(c)
    BY <2>3 DEF LogoutEnd, Step, Unregister
  <2>4. CASE Hangup(c)
    BY <2>4 DEF Hangup, Unregister
  <2>5. CASE Disconnect(c)
    BY <2>5 DEF Disconnect, Step, Unregister
  <2>6. CASE GoOffline(c)
    BY <2>6 DEF GoOffline, Step
  <2>7. CASE OfflineEnds(c)
    BY <2>7 DEF OfflineEnds, Unregister, conn
  <2>8. CASE Panic(c)
    BY <2>8 DEF Panic, Unregister
  <2> QED
    BY <1>2, <2>1, <2>2, <2>3, <2>4, <2>5, <2>6, <2>7, <2>8
<1>3. ASSUME NEW c \in Conns, NEW x \in Chars, Select(c, x)
      PROVE  InPlace'
  BY <1>3 DEF Select, Step, world
<1>4. ASSUME Perform \/ Crash \/ Shutdown \/ UNCHANGED vars
      PROVE  InPlace'
  BY <1>4 DEF Perform, Crash, Shutdown, Restarted, vars, conn, world
<1> QED
  BY <1>1, <1>2, <1>3, <1>4 DEF Next

\* Of the connections that choose, at most the one taking this step is another one
\* than before; a selection finds nobody choosing.
LEMMA NextOneChooses ==
  ASSUME ~Crossing, Placed, OneChooses, [Next]_vars
  PROVE  OneChooses'
<1> USE DEF OneChooses, Choosing, Placed, Typed, TypeOK
<1>1. ASSUME NEW c \in Conns,
             \/ Connect(c) \/ Login(c) \/ KickSave(c) \/ KickRemove(c) \/ Authenticate(c)
             \/ CloseSave(c) \/ CloseRemove(c) \/ EnterGame(c) \/ EnterAgain(c) \/ Settle(c)
             \/ Gain(c) \/ PeriodicSave(c)
             \/ Logout(c) \/ LogoutEnd(c) \/ Hangup(c) \/ Disconnect(c) \/ GoOffline(c)
             \/ OfflineEnds(c) \/ Panic(c)
      PROVE  Choosing' \subseteq Choosing
  BY <1>1 DEF Connect, Login, KickSave, KickRemove, Authenticate, CloseSave, CloseRemove,
              EnterGame, EnterAgain, Settle, Gain, PeriodicSave, Logout, LogoutEnd, Hangup,
              Disconnect, GoOffline, OfflineEnds, Panic, Step, Waiting, conn
<1>2. ASSUME NEW c \in Conns, NEW x \in Chars, Select(c, x)
      PROVE  Choosing' \subseteq {c}
  BY <1>2 DEF Select, Step
<1>3. ASSUME Perform \/ Crash \/ Shutdown \/ UNCHANGED vars
      PROVE  Choosing' \subseteq Choosing
  BY <1>3 DEF Perform, Crash, Shutdown, Restarted, vars, conn
<1> HIDE DEF Choosing
<1> QED
  BY <1>1, <1>2, <1>3 DEF Next

\* The sessions that go take their own name with them, or leave the index alone.
LEMMA GoingFound ==
  ASSUME Typed, FoundByName, NEW s, Unregister(s) \/ DropHandle(s),
         \A d \in sessions' : chosen'[d] = chosen[d]
  PROVE  FoundByName'
BY DEF Typed, TypeOK, FoundByName, Unregister, DropHandle

LEMMA NextUnique ==
  ASSUME ~Crossing, Unique, [Next]_vars
  PROVE  Unique'
<1>1. Placed' /\ OneChooses'
  BY NextPlaced, NextOneChooses DEF Unique
<1> SUFFICES ChoiceIsFree' /\ FoundByName'
  BY <1>1 DEF Unique
<1> USE DEF Unique, Placed, Typed, TypeOK, InPlace
<1>2. ASSUME NEW c \in Conns, KickRemove(c)
      PROVE  ChoiceIsFree' /\ FoundByName'
  <2>1. FoundByName'
    BY <1>2, GoingFound DEF KickRemove
  <2>2. ChoiceIsFree'
    BY <1>2 DEF KickRemove, Step, DropHandle, ChoiceIsFree
  <2> QED
    BY <2>1, <2>2
<1>3. ASSUME NEW c \in Conns,
             CloseRemove(c) \/ LogoutEnd(c) \/ Hangup(c) \/ Disconnect(c) \/ OfflineEnds(c) \/ Panic(c)
      PROVE  ChoiceIsFree' /\ FoundByName'
  <2>1. FoundByName'
    BY <1>3, GoingFound DEF CloseRemove, LogoutEnd, Hangup, Disconnect, OfflineEnds, Panic, conn
  <2>2. /\ sessions' \subseteq sessions /\ chosen' = chosen
        /\ \A d \in Conns : stage'[d] \in {"repicking", "resaved", "selected"} =>
                              stage'[d] = stage[d] /\ victim'[d] = victim[d]
    BY <1>3 DEF CloseRemove, LogoutEnd, Hangup, Disconnect, OfflineEnds, Panic, Step, Unregister, conn
  <2>3. ChoiceIsFree'
    BY <2>2 DEF ChoiceIsFree
  <2> QED
    BY <2>1, <2>3
<1>4. ASSUME NEW c \in Conns, EnterGame(c)
      PROVE  ChoiceIsFree' /\ FoundByName'
  <2>1. c \in Choosing /\ \A d \in sessions : chosen[d] # chosen[c]
    BY <1>4 DEF EnterGame, Step, Choosing, ChoiceIsFree
  <2>2. FoundByName'
    BY <1>4, <2>1 DEF EnterGame, Step, FoundByName, ChoosersChose
  <2>3. ChoiceIsFree'
    BY <1>4, <2>1 DEF EnterGame, Step, ChoiceIsFree, OneChooses, Choosing
  <2> QED
    BY <2>2, <2>3
<1>5. ASSUME NEW c \in Conns, NEW x \in Chars, Select(c, x)
      PROVE  ChoiceIsFree' /\ FoundByName'
  <2>1. c \notin sessions
    BY <1>5 DEF Select, Step
  <2>2. FoundByName'
    BY <1>5, <2>1 DEF Select, FoundByName, world
  <2>3. ChoiceIsFree'
    BY <1>5, <2>1 DEF Select, Step, ChoiceIsFree, FoundByName, world
  <2> QED
    BY <2>2, <2>3
<1>6. ASSUME NEW c \in Conns, Connect(c)
      PROVE  ChoiceIsFree' /\ FoundByName'
  BY <1>6 DEF Connect, ChoiceIsFree, FoundByName, world
<1>7. ASSUME NEW c \in Conns,
             \/ Login(c) \/ KickSave(c) \/ Authenticate(c) \/ CloseSave(c) \/ EnterAgain(c) \/ Settle(c)
             \/ Gain(c) \/ PeriodicSave(c) \/ Logout(c) \/ GoOffline(c)
      PROVE  ChoiceIsFree' /\ FoundByName'
  <2>1. sessions' = sessions /\ chosen' = chosen /\ index' = index
    BY <1>7 DEF Login, KickSave, Authenticate, CloseSave, EnterAgain, Settle,
                Gain, PeriodicSave, Logout, GoOffline, conn, world
  <2>2. \A d \in Conns :
          /\ stage'[d] = "selected" => stage[d] = "selected"
          /\ stage'[d] \in {"repicking", "resaved"} =>
               stage[d] \in {"repicking", "resaved"} /\ victim'[d] = victim[d]
    BY <1>7 DEF Login, KickSave, Authenticate, CloseSave, EnterAgain, Settle,
                Gain, PeriodicSave, Logout, GoOffline, Step, conn
  <2> QED
    BY <2>1, <2>2 DEF ChoiceIsFree, FoundByName
<1>8. ASSUME Perform \/ UNCHANGED vars
      PROVE  ChoiceIsFree' /\ FoundByName'
  BY <1>8 DEF Perform, vars, conn, world, ChoiceIsFree, FoundByName
<1>9. ASSUME Crash \/ Shutdown
      PROVE  ChoiceIsFree' /\ FoundByName'
  BY <1>9 DEF Crash, Shutdown, Restarted, ChoiceIsFree, FoundByName
<1> QED
  BY <1>2, <1>3, <1>4, <1>5, <1>6, <1>7, <1>8, <1>9 DEF Next

LEMMA InitUnique == Init => Unique
<1>1. Init => sessions = {} /\ Choosing = {}
  BY DEF Init, Choosing
<1> QED
  BY <1>1, InitTyped DEF Unique, Placed, InPlace, OneChooses, ChoiceIsFree, FoundByName

\* While one connection at a time is between selection and game, whoever is in the
\* game is found by name.
THEOREM EverybodyFound ==
  ASSUME ~Crossing
  PROVE  Spec => []FoundByName
BY InitUnique, NextUnique, PTL DEF Spec, Unique

\* ... and no character is in the game twice: kicks, logouts, lost connections, offline
\* stalls and panics included.
THEOREM OneSessionPerCharacter ==
  ASSUME ~Crossing
  PROVE  Spec => []OneSession
<1>1. FoundByName => OneSession
  BY DEF FoundByName, OneSession
<1> QED
  BY <1>1, EverybodyFound, PTL

-----------------------------------------------------------------------------
(* Nothing is lost. *)

\* What a character owned when it was last saved to leave is in the database, or in
\* the one save on its way there, whose copy is then the newer one.
Stored ==
  /\ jobs = <<>> => \A x \in Chars : left[x] \subseteq db[x]
  /\ jobs # <<>> =>
       /\ Len(jobs) = 1
       /\ left[jobs[1].char] \subseteq jobs[1].owns
       /\ \A x \in Chars \ {jobs[1].char} : left[x] \subseteq db[x]

Kept == Unique /\ Stored /\ NothingLost

\* A spawned save.
LEMMA SpawnStores ==
  ASSUME Kept, jobs = <<>>, NEW c \in sessions, jobs' = Append(jobs, SaveJob(c)), db' = db,
         left' \in {left, [left EXCEPT ![chosen[c]] = own[c]]}
  PROVE  Stored'
<1>1. jobs' = <<[char |-> chosen[c], owns |-> own[c]]>>
  BY DEF SaveJob
<1>2. jobs' # <<>> /\ Len(jobs') = 1 /\ jobs'[1].char = chosen[c] /\ jobs'[1].owns = own[c]
  BY <1>1
<1>3. chosen[c] \in Chars /\ left[chosen[c]] \subseteq own[c]
  BY DEF Kept, Unique, Placed, Typed, TypeOK, NothingLost
<1>4. left'[chosen[c]] \subseteq own[c] /\ \A x \in Chars \ {chosen[c]} : left'[x] = left[x]
  BY <1>3 DEF Kept, Unique, Placed, Typed, TypeOK
<1> QED
  BY <1>2, <1>4 DEF Stored, Kept

\* A save that is waited for; the session it saves has all it saves.
LEMMA SaveKeeps ==
  ASSUME Kept, jobs = <<>>, NEW s \in Conns \cup {NoConn}, SaveNow(s), jobs' = jobs,
         sessions' \subseteq sessions, \A d \in sessions' : own'[d] = own[d] /\ chosen'[d] = chosen[d]
  PROVE  Stored' /\ NothingLost'
<1> USE DEF Kept, Unique, Placed, Typed, TypeOK
<1>1. CASE s \notin sessions
  BY <1>1 DEF SaveNow, Stored, NothingLost
<1>2. CASE s \in sessions
  <2>1. /\ chosen[s] \in Chars
        /\ db' = [db EXCEPT ![chosen[s]] = own[s]]
        /\ left' = [left EXCEPT ![chosen[s]] = own[s]]
    BY <1>2 DEF SaveNow
  <2>2. \A d \in sessions : chosen[d] = chosen[s] => d = s
    BY <1>2 DEF FoundByName
  <2>3. Stored'
    BY <2>1 DEF Stored
  <2>4. NothingLost'
    BY <2>1, <2>2 DEF NothingLost
  <2> QED
    BY <2>3, <2>4
<1> QED
  BY <1>1, <1>2

\* Sessions that go, or go on, while the database stays as it is.
LEMMA RestKeeps ==
  ASSUME Kept, sessions' \subseteq sessions, jobs' = jobs, db' = db, left' = left,
         \A d \in sessions' : own[d] \subseteq own'[d] /\ chosen'[d] = chosen[d]
  PROVE  Stored' /\ NothingLost'
<1>1. Stored'
  BY DEF Stored, Kept
<1>2. NothingLost'
  BY DEF NothingLost, Kept
<1> QED
  BY <1>1, <1>2

LEMMA PerformKeeps ==
  ASSUME Kept, Perform
  PROVE  Stored' /\ NothingLost'
<1> USE DEF Kept, Unique, Placed, Typed, TypeOK
<1>1. NothingLost'
  BY DEF Perform, NothingLost, conn, world
<1>2. Stored'
  <2>1. PICK i \in 1..Len(jobs) :
          /\ db' = [db EXCEPT ![jobs[i].char] = jobs[i].owns]
          /\ jobs' = SubSeq(jobs, 1, i - 1) \o SubSeq(jobs, i + 1, Len(jobs))
    BY DEF Perform
  <2>2. Len(jobs) = 1 /\ i = 1 /\ jobs # <<>>
    BY <2>1 DEF Stored
  <2>3. jobs' = <<>>
    BY <2>1, <2>2
  <2>4. left' = left
    BY DEF Perform
  <2> QED
    BY <2>1, <2>2, <2>3, <2>4 DEF Stored
<1> QED
  BY <1>1, <1>2

LEMMA NextKept ==
  ASSUME ~Delayed, ~Crossing, Kept, [Next]_vars
  PROVE  Kept'
<1> SUFFICES Stored' /\ NothingLost'
  BY NextUnique DEF Kept
<1>1. /\ \A c \in Conns : chosen[c] \in Chars \cup {NoChar} /\ victim[c] \in Conns \cup {NoConn}
      /\ sessions \subseteq Conns
      /\ \A c \in sessions : stage[c] \in {"entering", "ingame", "leaving", "free"}
  BY DEF Kept, Unique, Placed, InPlace, Typed, TypeOK
<1>2. ASSUME NEW c \in Conns,
             \/ Connect(c) \/ Login(c) \/ Authenticate(c) \/ EnterAgain(c) \/ Settle(c)
             \/ KickRemove(c) \/ CloseRemove(c) \/ LogoutEnd(c) \/ Hangup(c)
      PROVE  Stored' /\ NothingLost'
  <2>1. /\ sessions' \subseteq sessions /\ jobs' = jobs /\ db' = db /\ left' = left
        /\ \A d \in sessions' : own[d] \subseteq own'[d] /\ chosen'[d] = chosen[d]
    BY <1>2 DEF Connect, Login, Authenticate, EnterAgain, Settle, KickRemove, CloseRemove,
                LogoutEnd, Hangup, Unregister, DropHandle, world, store,
                Kept, Unique, Placed, Typed, TypeOK
  <2> QED
    BY <2>1, RestKeeps
<1>3. ASSUME NEW c \in Conns, Gain(c)
      PROVE  Stored' /\ NothingLost'
  <2>1. /\ sessions' = sessions /\ jobs' = jobs /\ db' = db /\ left' = left /\ chosen' = chosen
        /\ \A d \in sessions : own[d] \subseteq own'[d]
    BY <1>3 DEF Gain, conn, Kept, Unique, Placed, Typed, TypeOK
  <2> QED
    BY <2>1, RestKeeps
<1>4. ASSUME NEW c \in Conns, NEW x \in Chars, Select(c, x)
      PROVE  Stored' /\ NothingLost'
  <2>1. c \notin sessions
    BY <1>1, <1>4 DEF Select, Step
  <2>2. /\ sessions' = sessions /\ jobs' = jobs /\ db' = db /\ left' = left /\ own' = own
        /\ \A d \in sessions : chosen'[d] = chosen[d]
    BY <1>1, <1>4, <2>1 DEF Select, world, store, Kept, Unique, Placed, Typed, TypeOK
  <2> QED
    BY <2>2, RestKeeps
<1>5. ASSUME NEW c \in Conns, KickSave(c) \/ CloseSave(c) \/ Logout(c) \/ GoOffline(c) \/ OfflineEnds(c)
      PROVE  Stored' /\ NothingLost'
  <2>1. PICK s \in Conns \cup {NoConn} : SaveNow(s)
    BY <1>1, <1>5 DEF KickSave, CloseSave, Logout, GoOffline, OfflineEnds
  <2>2. /\ jobs = <<>> /\ jobs' = jobs /\ sessions' \subseteq sessions
        /\ \A d \in sessions' : own'[d] = own[d] /\ chosen'[d] = chosen[d]
    BY <1>5 DEF KickSave, CloseSave, Logout, GoOffline, OfflineEnds, Quiet, Unregister,
                conn, world, Kept, Unique, Placed, Typed, TypeOK
  <2> QED
    BY <2>1, <2>2, SaveKeeps
<1>6. ASSUME NEW c \in Conns, EnterGame(c)
      PROVE  Stored' /\ NothingLost'
  <2>1. /\ jobs = <<>> /\ chosen[c] \in Chars /\ jobs' = jobs /\ db' = db /\ left' = left
        /\ chosen' = chosen /\ sessions' = sessions \cup {c} /\ own' = [own EXCEPT ![c] = db[chosen[c]]]
    BY <1>6 DEF EnterGame, Quiet, Step, store, Kept, Unique, Placed, Typed, ChoosersChose, Choosing
  <2>2. c \notin sessions
    BY <1>1, <1>6 DEF EnterGame, Step
  <2> QED
    BY <2>1, <2>2 DEF Stored, NothingLost, Kept, Unique, Placed, Typed, TypeOK
<1>7. ASSUME NEW c \in Conns, PeriodicSave(c)
      PROVE  Stored' /\ NothingLost'
  <2>1. /\ jobs = <<>> /\ c \in sessions /\ jobs' = Append(jobs, SaveJob(c)) /\ db' = db /\ left' = left
        /\ sessions' = sessions /\ own' = own /\ chosen' = chosen
    BY <1>7 DEF PeriodicSave, Quiet, conn, world
  <2>2. Stored'
    BY <2>1, SpawnStores
  <2> QED
    BY <2>1, <2>2 DEF NothingLost, Kept
<1>8. ASSUME NEW c \in Conns, Disconnect(c)
      PROVE  Stored' /\ NothingLost'
  <2>1. jobs = <<>> /\ db' = db /\ chosen' = chosen /\ sessions' = sessions \ {c}
        /\ \A d \in sessions' : own'[d] = own[d]
    BY <1>8 DEF Disconnect, Quiet, Unregister, Kept, Unique, Placed, Typed, TypeOK
  <2>2. CASE c \notin sessions
    BY <1>8, <2>1, <2>2, RestKeeps DEF Disconnect
  <2>3. CASE c \in sessions
    <3>1. jobs' = Append(jobs, SaveJob(c)) /\ left' = [left EXCEPT ![chosen[c]] = own[c]]
      BY <1>8, <2>3 DEF Disconnect
    <3>2. Stored'
      BY <2>1, <2>3, <3>1, SpawnStores
    <3>3. \A d \in sessions' : chosen[d] # chosen[c]
      BY <2>1, <2>3 DEF Kept, Unique, FoundByName
    <3>4. NothingLost'
      BY <2>1, <3>1, <3>3 DEF NothingLost, Kept, Unique, Placed, Typed, TypeOK
    <3> QED
      BY <3>2, <3>4
  <2> QED
    BY <2>2, <2>3
<1>9. ASSUME NEW c \in Conns, Panic(c)
      PROVE  Stored' /\ NothingLost'
  <2>1. jobs = <<>> /\ jobs' = jobs /\ db' = db /\ chosen' = chosen /\ sessions' = sessions \ {c}
        /\ \A d \in sessions' : own'[d] = own[d]
    BY <1>9 DEF Panic, Quiet, Unregister, Kept, Unique, Placed, Typed, TypeOK
  <2>2. CASE c \notin sessions
    BY <1>9, <2>1, <2>2, RestKeeps DEF Panic
  <2>3. CASE c \in sessions
    <3>1. left' = [left EXCEPT ![chosen[c]] = db[chosen[c]]]
      BY <1>9, <2>3 DEF Panic
    <3>2. \A d \in sessions' : chosen[d] # chosen[c]
      BY <2>1, <2>3 DEF Kept, Unique, FoundByName
    <3>3. Stored'
      BY <2>1, <3>1 DEF Stored, Kept, Unique, Placed, Typed, TypeOK
    <3>4. NothingLost'
      BY <2>1, <3>1, <3>2 DEF NothingLost, Kept, Unique, Placed, Typed, TypeOK
    <3> QED
      BY <3>3, <3>4
  <2> QED
    BY <2>2, <2>3
<1>10. ASSUME Perform PROVE Stored' /\ NothingLost'
  BY <1>10, PerformKeeps
<1>11. ASSUME Crash PROVE Stored' /\ NothingLost'
  BY <1>11 DEF Crash, Restarted, Stored, NothingLost
<1>12. ASSUME Shutdown PROVE Stored' /\ NothingLost'
  <2>1. PICK last \in [Chars -> Conns \cup {NoConn}] :
          /\ db' = [x \in Chars |-> IF last[x] = NoConn THEN db[x] ELSE own[last[x]]]
          /\ left' = [x \in Chars |-> IF last[x] = NoConn THEN left[x] ELSE own[last[x]]]
    BY <1>12 DEF Shutdown
  <2>2. jobs = <<>> /\ jobs' = <<>> /\ sessions' = {}
    BY <1>12 DEF Shutdown, Restarted, Quiet
  <2> QED
    BY <2>1, <2>2 DEF Stored, NothingLost, Kept
<1>13. ASSUME UNCHANGED vars PROVE Stored' /\ NothingLost'
  BY <1>13 DEF vars, conn, world, store, Stored, NothingLost, Kept
<1> QED
  BY <1>2, <1>3, <1>4, <1>5, <1>6, <1>7, <1>8, <1>9, <1>10, <1>11, <1>12, <1>13 DEF Next

\* With prompt saves and one connection choosing at a time, whoever plays a character
\* has everything it owned when it was last saved to leave, whatever it left by.
THEOREM NothingIsLost ==
  ASSUME ~Delayed, ~Crossing
  PROVE  Spec => []NothingLost
<1>1. Init => Kept
  BY InitUnique DEF Init, Kept, Stored, NothingLost
<1> QED
  BY <1>1, NextKept, PTL DEF Spec, Kept
==============================================================================
