------------------------------ MODULE GlobalSave ------------------------------
(***************************************************************************)
(* The state of the game, the daily save and the shutdown (source/game.cpp,*)
(* otserv.cpp, admin.cpp, luascript.cpp).                                  *)
(*                                                                         *)
(* The save announces itself over five minutes of timers, queues the task  *)
(* that closes the world, works, and queues the one that opens it again.   *)
(* Administrators, scripts and signals order changes of state meanwhile:   *)
(* most of them as tasks, some from the thread they come in on.            *)
(*                                                                         *)
(* Abstractions.  Tasks run whole, but the other thread may come between   *)
(* any two of them and within its own orders.  Kicking succeeds (a script  *)
(* may refuse the logout; the loop would then not end).  The third of the  *)
(* two globalSaveMessage lies in padding and keeps its value.  Broadcasts, *)
(* rents, bans and reloads are left out.                                   *)
(***************************************************************************)
EXTENDS Integers, Sequences

CONSTANTS
  Folk, Nobles,   \* players, those of PlayerFlag_CanAlwaysLogin second
  States,         \* the states orders ask for
  MaxOrders,      \* BOUND: the orders of administrators, scripts and signals
  Hours, Minutes  \* the times of day considered for a start and for the save

Idle == "idle"
Everyone == Folk \cup Nobles

ASSUME GlobalSaveAssumption ==
  /\ Folk \cap Nobles = {}
  /\ States \subseteq {"normal", "maintain", "closed", "closing", "shutdown"}
  /\ MaxOrders \in Nat
  /\ Hours \subseteq 0..23 /\ Minutes \subseteq 0..59

VARIABLES
  gameState,
  globalSaveMessage,
  saveTimer,      \* whether the scheduler holds a prepareGlobalSave, and for
                  \* how many minutes: a set, of at most one we should like
  gameTasks,      \* the tasks of the dispatcher that matter here
  stopped,        \* Dispatcher::stop
  over,           \* the process has ended
  online,
  otherThread,    \* what the thread of signals and of the admin protocol is at
  shutsDown,      \* shutdownAtGlobalSave
  timeOfDay,          \* when the server started, and when it has to save
  orders          \* BOUND

saveVars == <<gameState, globalSaveMessage, saveTimer, gameTasks, stopped, over, online,
              otherThread, shutsDown, timeOfDay, orders>>

-----------------------------------------------------------------------------
(* The time of the first save, Game::start.                                *)

\* Minutes until the save begins, 0 at once; or NoTimer when start returns before it
\* comes to the timer.
NoTimer == -1000
start(c) ==
  LET h == c.hour - c.saveHour
      prepareMinute == c.saveMinute - 5
      m == c.minute - prepareMinute
      left == IF m > 0 THEN 60 - m ELSE - m
      hours == CASE h > 0 -> (IF m > 0 THEN 22 ELSE 23) - h
                 [] h = 0 -> IF m > 0 THEN 23 ELSE 0
                 [] h < 0 -> IF m > 0 THEN - h - 1 ELSE - h
  IN  IF h = 0 /\ m > -1 /\ m < 6 THEN 0
      ELSE IF hours = 0 \/ left = 0 THEN NoTimer
      ELSE hours * 60 + left

\* The minutes there really are.
Until(c) == ((c.saveHour - c.hour) * 60 + c.saveMinute - 5 - c.minute) % 1440

\* A start within the last minutes takes the messages as sent, and sends the next:
\* what is sent then, and in how many minutes the one after it comes.
sentAtStart(c) ==
  LET m == c.minute - (c.saveMinute - 5)
  IN  IF start(c) # 0 THEN <<FALSE, FALSE, FALSE>> ELSE <<TRUE, m > 1, m > 3>>
armedAtStart(c) ==
  IF start(c) = NoTimer THEN {}
  ELSE IF start(c) # 0 THEN {start(c)}
  ELSE IF sentAtStart(c)[3] THEN {1} ELSE {2}

-----------------------------------------------------------------------------
(* setGameState, on the dispatcher and elsewhere.                          *)

\* gs: gameState, online, tasks and stopped; whoever may not stay is kicked.
Game == [state |-> gameState, online |-> online, tasks |-> gameTasks, stopped |-> stopped]
addGameTask(gs, t) == IF gs.stopped THEN gs ELSE [gs EXCEPT !.tasks = Append(@, t)]

enterState(gs, s) ==
  CASE s = "shutdown" -> [addGameTask(gs, <<"shutdown">>) EXCEPT !.state = s, !.online = {},
                                                               !.stopped = TRUE]
    [] s = "closed" -> [gs EXCEPT !.state = s, !.online = @ \cap Nobles]
    [] OTHER -> [gs EXCEPT !.state = s]

setGameState(gs, s) ==
  IF gs.state = "shutdown" \/ gs.state = s THEN gs ELSE enterState(gs, s)

\* saveGameState and cleanMap keep the players out while they work.
saveGameState(gs) == IF gs.state = "maintain" THEN setGameState(gs, "normal") ELSE gs

SetGame(gs) ==
  /\ gameState' = gs.state /\ online' = gs.online
  /\ gameTasks' = gs.tasks /\ stopped' = gs.stopped

-----------------------------------------------------------------------------
(* The save.                                                               *)

Mutant_globalSave(gs) ==                \* and there it stays closed
  IF shutsDown THEN addGameTask(setGameState(gs, "closing"), <<"set", "shutdown">>)
  ELSE addGameTask(gs, <<"set", "closed">>)
globalSave(gs) ==
  IF shutsDown THEN addGameTask(setGameState(gs, "closing"), <<"set", "shutdown">>)
  ELSE addGameTask(addGameTask(gs, <<"set", "closed">>), <<"set", "normal">>)

\* The timers of a stopped scheduler are gone.
Arm(minutes, gs) == saveTimer' = IF gs.stopped THEN {} ELSE {minutes}

prepareGlobalSave(gs) ==
  IF ~ globalSaveMessage[1]
  THEN /\ SetGame(setGameState(gs, "closing"))
       /\ globalSaveMessage' = [globalSaveMessage EXCEPT ![1] = TRUE]
       /\ Arm(2, gs)
  ELSE IF ~ globalSaveMessage[2]
  THEN /\ SetGame(gs)
       /\ globalSaveMessage' = [globalSaveMessage EXCEPT ![2] = TRUE]
       /\ Arm(2, gs)
  ELSE IF ~ globalSaveMessage[3]
  THEN /\ SetGame(gs)
       /\ globalSaveMessage' = [globalSaveMessage EXCEPT ![3] = TRUE]
       /\ Arm(1, gs)
  ELSE /\ SetGame(globalSave(gs))
       /\ globalSaveMessage' = IF shutsDown THEN globalSaveMessage ELSE <<FALSE, FALSE, FALSE>>
       /\ IF shutsDown THEN UNCHANGED saveTimer ELSE Arm(1435, gs)

-----------------------------------------------------------------------------
(* The dispatcher.                                                         *)

mayEnter(p) == gameState \in {"closing", "closed"} => p \in Nobles

Mutant_enterWorld(gs, p) == [gs EXCEPT !.online = @ \cup {p}]   \* nobody asks
enterWorld(gs, p) == IF mayEnter(p) THEN [gs EXCEPT !.online = @ \cup {p}] ELSE gs

RunGameTask ==
  /\ ~ over /\ gameTasks # <<>>
  /\ LET t == Head(gameTasks)
         gs == [Game EXCEPT !.tasks = Tail(@)]
     IN  \/ /\ t[1] = "set"
            /\ SetGame(setGameState(gs, t[2]))
            /\ UNCHANGED <<globalSaveMessage, saveTimer, over>>
         \/ /\ t[1] = "save"
            /\ SetGame(saveGameState(gs))
            /\ UNCHANGED <<globalSaveMessage, saveTimer, over>>
         \/ /\ t[1] = "login"
            /\ SetGame(enterWorld(gs, t[2]))
            /\ UNCHANGED <<globalSaveMessage, saveTimer, over>>
         \/ /\ t[1] = "prepare"
            /\ prepareGlobalSave(gs)
            /\ UNCHANGED over
         \/ /\ t[1] = "shutdown"
            /\ over' = TRUE
            /\ SetGame(gs)
            /\ UNCHANGED <<globalSaveMessage, saveTimer>>
  /\ UNCHANGED <<otherThread, shutsDown, timeOfDay, orders>>

\* The scheduler's thread hands the event to the dispatcher.
SaveTimerFires ==
  /\ ~ over
  /\ \E minutes \in saveTimer : saveTimer' = saveTimer \ {minutes}
  /\ SetGame(addGameTask(Game, <<"prepare">>))
  /\ UNCHANGED <<globalSaveMessage, over, otherThread, shutsDown, timeOfDay, orders>>

-----------------------------------------------------------------------------
(* Orders.                                                                 *)

Ordered == ~ over /\ orders < MaxOrders /\ orders' = orders + 1
NoneOfTheSave == UNCHANGED <<globalSaveMessage, saveTimer, over, shutsDown, timeOfDay>>

\* doSetGameState, admin commands, SIGUSR1, SIGQUIT; SIGHUP and saves; SIGTERM.
OrderTask ==
  /\ \E t \in {<<"set", s>> : s \in States} \cup {<<"save">>, <<"shutdown">>} :
       SetGame(addGameTask(Game, t))
  /\ Ordered /\ NoneOfTheSave /\ UNCHANGED otherThread

\* The first message of a login; its task comes later.
AskToLogin(p) ==
  /\ p \notin online /\ gameState \notin {"maintain", "shutdown"}
  /\ SetGame(addGameTask(Game, <<"login", p>>))
  /\ Ordered /\ NoneOfTheSave /\ UNCHANGED otherThread

\* CMD_OPEN_SERVER and SIGUSR2 call setGameState where they are, SIGTRAP cleanMap:
\* setGameState looks, and then it sets.
OrderHere(what) ==
  /\ otherThread = Idle
  /\ \/ what = "open" /\ gameState \notin {"shutdown", "normal"}
     \/ what = "clean" /\ gameState = "normal"
  /\ otherThread' = what
  /\ Ordered /\ NoneOfTheSave /\ SetGame(Game)

OtherThreadSets ==
  /\ ~ over
  /\ \/ /\ otherThread = "open"
        /\ SetGame(enterState(Game, "normal"))
        /\ otherThread' = Idle
     \/ /\ otherThread = "clean"
        /\ SetGame(enterState(Game, "maintain"))
        /\ otherThread' = "cleaned"
     \/ /\ otherThread = "cleaned"
        /\ SetGame(Game)
        /\ otherThread' = IF gameState = "maintain" THEN "open" ELSE Idle
  /\ NoneOfTheSave /\ UNCHANGED orders

\* The server is up: start has been called, and gameState set after it.
GlobalSaveInit ==
  /\ timeOfDay \in [hour : Hours, minute : Minutes, saveHour : Hours \ {0}, saveMinute : Minutes]
  /\ gameState \in {"normal", "closed"}
  /\ globalSaveMessage = sentAtStart(timeOfDay)
  /\ saveTimer = armedAtStart(timeOfDay)
  /\ gameTasks = <<>> /\ stopped = FALSE /\ over = FALSE
  /\ online = {} /\ otherThread = Idle
  /\ shutsDown \in BOOLEAN /\ orders = 0

GlobalSaveNext ==
  \/ RunGameTask
  \/ SaveTimerFires
  \/ OrderTask
  \/ \E p \in Everyone : AskToLogin(p)
  \/ \E what \in {"open", "clean"} : OrderHere(what)
  \/ OtherThreadSets

GlobalSaveSpec == GlobalSaveInit /\ [][GlobalSaveNext]_saveVars

\* Threads that can go on do, and a timer that is armed comes due.
GlobalSaveFairness ==
  /\ WF_saveVars(RunGameTask)
  /\ WF_saveVars(SaveTimerFires)
  /\ WF_saveVars(OtherThreadSets)

-----------------------------------------------------------------------------
(* Properties.                                                             *)

GlobalSaveTypeOK ==
  /\ gameState \in {"normal", "maintain", "closed", "closing", "shutdown"}
  /\ globalSaveMessage \in Seq(BOOLEAN) /\ Len(globalSaveMessage) = 3
  /\ saveTimer \subseteq Nat
  /\ {stopped, over, shutsDown} \subseteq BOOLEAN
  /\ online \subseteq Everyone
  /\ otherThread \in {Idle, "open", "clean", "cleaned"}
  /\ orders \in 0..MaxOrders

\* Where the dispatcher has a save to prepare.
Prepares == {k \in DOMAIN gameTasks : gameTasks[k][1] = "prepare"}

\* Through saves, orders and the other thread: nobody plays in a closed world who
\* may not, and there are never two saves on their way, each with timers of its own.
WorldIsClosed ==
  /\ GlobalSaveTypeOK
  /\ gameState = "closed" => online \subseteq Nobles
  /\ \A j, k \in Prepares : j = k
  /\ \A minutes \in saveTimer : saveTimer = {minutes} /\ Prepares = {}

\* A server that has armed its first save opens again after every one of them,
\* whatever is ordered in between, unless it has been shut down.
WorldReopens ==
  saveTimer # {} => []<> (gameState = "normal" \/ over)

\* config.lua.dist: "globalSaveHour means like 03:00": the first save begins five
\* minutes before that time.
SavedAtTheHour == start(timeOfDay) = Until(timeOfDay) \/ Until(timeOfDay) > 1434
=============================================================================
