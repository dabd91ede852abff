------------------------------- MODULE Scripts -------------------------------
(***************************************************************************)
(* The environments Lua calls run in, the items they make and the timers   *)
(* they set (source/luascript.cpp, luascript.h).                           *)
(*                                                                         *)
(* A call of a script reserves the next of an array of environments and    *)
(* releases it when it returns; what it does in between may call other     *)
(* scripts, which do the same.  The items a script has made and not yet    *)
(* given to anyone are in a list that all environments share.              *)
(*                                                                         *)
(* Abstractions.  A uid is the item it stands for.  One interface; what a  *)
(* script does with an item is to make it, to give it away, or to remove   *)
(* it.  Creatures, which the ids of the game find again, and results of    *)
(* queries, combats and conditions are left out.                           *)
(***************************************************************************)
EXTENDS Integers, Sequences, FiniteSets, SequencesExt

CONSTANTS
  MadeItems,      \* items
  Envs,           \* the length of m_scriptEnv, 21 in the code
  MaxTimers,      \* BOUND: timers
  MaxSteps        \* BOUND: what scripts and the world do

ASSUME ScriptsAssumption ==
  /\ Envs \in Nat \ {0} /\ MaxTimers \in Nat /\ MaxSteps \in Nat

VARIABLES
  made,           \* each item: its parent, and how often it is in releaseThings
  callStack,      \* the calls that have not returned; the last one runs
  m_scriptEnvIndex,
  m_localMap,     \* of each environment: the items it has a uid for
  m_tempItems,
  m_timerEvents,  \* the timers whose function and parameters are in the registry
  m_lastTimer,
  scheduled, queued,  \* the timers the scheduler, the dispatcher has a task for
  unrefs,         \* how often the references of a timer were given back
  timersRan,      \* history: timers that were run
  timersStopped,  \* history: timers stopped before they were
  sharedItems,    \* history: items a call released that were made by another
  overflown,      \* history: a buffer ran without an environment of its own
  selfStopped,    \* history: timers that were stopped by the function they run
  scriptSteps     \* BOUND

envVars == <<callStack, m_scriptEnvIndex, m_localMap, m_tempItems, sharedItems, overflown>>
timerVars == <<m_timerEvents, m_lastTimer, scheduled, queued, unrefs, timersRan, timersStopped, selfStopped>>
scriptVars == <<made, envVars, timerVars, scriptSteps>>

TimerIds == 1..MaxTimers
Timerless == 0
Virtual == "virtual"    \* VirtualCylinder
InWorld == "world"
TakenAway == "removed"

\* A thing whose last reference was given back is deleted; until it is made, "none".
ThingType == [parent : {"none", Virtual, InWorld, TakenAway}, released : 0..2, deleted : BOOLEAN]
isRemoved(x) == made[x].parent = TakenAway
Top == Last(callStack)
Runs == callStack # <<>> /\ m_scriptEnvIndex >= 0
ScriptStep == scriptSteps < MaxSteps /\ scriptSteps' = scriptSteps + 1

-----------------------------------------------------------------------------
(* Environments.                                                           *)

releaseThing(t, x) == [t EXCEPT ![x].released = @ + 1]

\* What was made and has found no place is freed: of all environments, not of this one.
Mutant_Homeless == m_tempItems
Homeless == {x \in m_tempItems : made[x].parent = Virtual}

releaseEnv ==
  IF m_scriptEnvIndex < 0
  THEN UNCHANGED <<made, m_scriptEnvIndex, m_localMap, m_tempItems, sharedItems>>
  ELSE /\ made' = [x \in MadeItems |-> IF x \in Homeless
                                     THEN [made[x] EXCEPT !.released = @ + 1] ELSE made[x]]
       /\ sharedItems' = sharedItems \cup (Homeless \ Top.makes)
       /\ m_tempItems' = {}
       /\ m_localMap' = [m_localMap EXCEPT ![m_scriptEnvIndex] = {}]
       /\ m_scriptEnvIndex' = m_scriptEnvIndex - 1

Call(kind, timer) == [kind |-> kind, timer |-> timer, makes |-> {}]

\* A call that finds no environment is given up; it is handed the items of X.
reserveEnv(kind, timer, X) ==
  /\ m_scriptEnvIndex + 1 < Envs
  /\ m_scriptEnvIndex' = m_scriptEnvIndex + 1
  /\ m_localMap' = [m_localMap EXCEPT ![m_scriptEnvIndex + 1] = X]
  /\ callStack' = Append(callStack, Call(kind, timer))

\* An event of the world, or one that what a script does brings about.
ExecuteEvent ==
  /\ callStack = <<>> \/ Runs
  /\ ScriptStep
  /\ \E X \in {{}} \cup {{x} : x \in {y \in MadeItems : made[y].parent = InWorld}} :
       reserveEnv("event", Timerless, X)
  /\ UNCHANGED <<made, m_tempItems, sharedItems, overflown, timerVars>>

\* loadBuffer does not look whether it got an environment, and releases one all the same.
loadBuffer ==
  /\ Runs /\ ScriptStep
  /\ \/ reserveEnv("buffer", Timerless, {}) /\ UNCHANGED overflown
     \/ /\ m_scriptEnvIndex + 1 = Envs
        /\ callStack' = Append(callStack, Call("buffer", Timerless))
        /\ overflown' = TRUE
        /\ UNCHANGED <<m_scriptEnvIndex, m_localMap>>
  /\ UNCHANGED <<made, m_tempItems, sharedItems, timerVars>>

-----------------------------------------------------------------------------
(* What a script does with items.                                          *)

getThingByUID(x) == Runs /\ x \in m_localMap[m_scriptEnvIndex] /\ ~ isRemoved(x)

doCreateItemEx(x) ==
  /\ Runs /\ ScriptStep
  /\ made[x].parent = "none"
  /\ made' = [made EXCEPT ![x].parent = Virtual]
  /\ m_tempItems' = m_tempItems \cup {x}
  /\ m_localMap' = [m_localMap EXCEPT ![m_scriptEnvIndex] = @ \cup {x}]
  /\ callStack' = [callStack EXCEPT ![Len(callStack)].makes = @ \cup {x}]
  /\ UNCHANGED <<m_scriptEnvIndex, sharedItems, overflown, timerVars>>

\* It is placed; merged with a stack it stays as it is, as it does when it is refused.  It
\* stays in m_tempItems: removeTempItem takes it from a copy.
doAddItemEx(x) ==
  /\ getThingByUID(x) /\ ScriptStep
  /\ made[x].parent = Virtual
  /\ made' = [made EXCEPT ![x].parent = InWorld]
  /\ UNCHANGED <<envVars, timerVars>>

\* By a script or by the game; what has no place is not removed.
Removed(x) ==
  /\ ScriptStep
  /\ made[x].parent = InWorld
  /\ made' = releaseThing([made EXCEPT ![x].parent = TakenAway], x)
  /\ UNCHANGED <<envVars, timerVars>>
luaDoRemoveItem(x) == (getThingByUID(x) \/ callStack = <<>>) /\ Removed(x)

\* Game::cleanup, at the end of a task of the game.
cleanupItems ==
  /\ callStack = <<>>
  /\ \E x \in MadeItems : made[x].released > 0
  /\ made' = [x \in MadeItems |-> [made[x] EXCEPT !.released = 0,
                                                 !.deleted = @ \/ made[x].released > 0]]
  /\ UNCHANGED <<envVars, timerVars, scriptSteps>>

-----------------------------------------------------------------------------
(* Timers.                                                                 *)

Unref(T) == unrefs' = [i \in TimerIds |-> IF i \in T THEN unrefs[i] + 1 ELSE unrefs[i]]

AddEvent ==
  /\ Runs /\ ScriptStep
  /\ m_lastTimer + 1 \in TimerIds
  /\ m_lastTimer' = m_lastTimer + 1
  /\ scheduled' = scheduled \cup {m_lastTimer'}
  /\ m_timerEvents' = m_timerEvents \cup {m_lastTimer'}
  /\ UNCHANGED <<made, envVars, queued, unrefs, timersRan, timersStopped, selfStopped>>

\* What is a task already cannot be recalled; it will find no timer.
Mutant_StopEvent(i) ==                  \* the timer stays registered
  /\ Runs /\ ScriptStep
  /\ i \in m_timerEvents
  /\ scheduled' = scheduled \ {i}
  /\ Unref({i})
  /\ timersStopped' = IF i \in timersRan THEN timersStopped ELSE timersStopped \cup {i}
  /\ selfStopped' = IF i \in timersRan THEN selfStopped \cup {i} ELSE selfStopped
  /\ UNCHANGED <<made, envVars, m_timerEvents, m_lastTimer, queued, timersRan>>
StopEvent(i) ==
  /\ Runs /\ ScriptStep
  /\ i \in m_timerEvents
  /\ scheduled' = scheduled \ {i}
  /\ m_timerEvents' = m_timerEvents \ {i}
  /\ Unref({i})
  /\ timersStopped' = IF i \in timersRan THEN timersStopped ELSE timersStopped \cup {i}
  /\ selfStopped' = IF i \in timersRan THEN selfStopped \cup {i} ELSE selfStopped
  /\ UNCHANGED <<made, envVars, m_lastTimer, queued, timersRan>>

TimerDue(i) ==
  /\ i \in scheduled
  /\ scheduled' = scheduled \ {i}
  /\ queued' = queued \cup {i}
  /\ UNCHANGED <<made, envVars, m_timerEvents, m_lastTimer, unrefs, timersRan, timersStopped, selfStopped, scriptSteps>>

executeTimer(i) ==
  /\ callStack = <<>> /\ i \in queued
  /\ queued' = queued \ {i}
  /\ IF i \in m_timerEvents
     THEN reserveEnv("timer", i, {}) /\ timersRan' = timersRan \cup {i}
     ELSE UNCHANGED <<callStack, m_scriptEnvIndex, m_localMap, timersRan>>
  /\ UNCHANGED <<made, m_tempItems, sharedItems, overflown, m_timerEvents, m_lastTimer, scheduled,
                 unrefs, timersStopped, selfStopped, scriptSteps>>

\* The script is over.  A timer gives back what it holds, through an iterator it has kept:
\* gone astray if the script stopped the timer.
CallReturns ==
  /\ callStack # <<>>
  /\ releaseEnv
  /\ callStack' = Front(callStack)
  /\ LET T == IF Top.kind = "timer" THEN {Top.timer} ELSE {}
     IN  Unref(T) /\ m_timerEvents' = m_timerEvents \ T
  /\ UNCHANGED <<overflown, m_lastTimer, scheduled, queued, timersRan, timersStopped, selfStopped, scriptSteps>>

\* reInitState, from a task of its own: the ids go on where they were, since the
\* scheduler and the dispatcher still have the tasks.
Reload ==
  /\ callStack = <<>> /\ ScriptStep
  /\ Unref(m_timerEvents) /\ m_timerEvents' = {}
  /\ timersStopped' = timersStopped \cup m_timerEvents
  /\ UNCHANGED <<made, envVars, m_lastTimer, scheduled, queued, timersRan, selfStopped>>

-----------------------------------------------------------------------------
ScriptsInit ==
  /\ made = [x \in MadeItems |-> [parent |-> "none", released |-> 0, deleted |-> FALSE]]
  /\ callStack = <<>> /\ m_scriptEnvIndex = -1
  /\ m_localMap = [e \in 0..(Envs - 1) |-> {}] /\ m_tempItems = {}
  /\ m_timerEvents = {} /\ m_lastTimer = 0 /\ scheduled = {} /\ queued = {}
  /\ unrefs = [i \in TimerIds |-> 0]
  /\ timersRan = {} /\ timersStopped = {} /\ sharedItems = {} /\ overflown = FALSE /\ selfStopped = {}
  /\ scriptSteps = 0

ScriptsNext ==
  \/ ExecuteEvent \/ loadBuffer \/ CallReturns \/ cleanupItems
  \/ \E x \in MadeItems : doCreateItemEx(x) \/ doAddItemEx(x) \/ luaDoRemoveItem(x)
  \/ AddEvent \/ \E i \in TimerIds : StopEvent(i) \/ TimerDue(i) \/ executeTimer(i)
  \/ Reload

ScriptsSpec == ScriptsInit /\ [][ScriptsNext]_scriptVars

-----------------------------------------------------------------------------
(* Properties.                                                             *)

ScriptsTypeOK ==
  /\ made \in [MadeItems -> ThingType]
  /\ \A k \in DOMAIN callStack : /\ callStack[k].kind \in {"event", "buffer", "timer"}
                               /\ callStack[k].timer \in TimerIds \cup {Timerless}
                               /\ callStack[k].makes \subseteq MadeItems
  /\ m_scriptEnvIndex \in -1..(Envs - 1)
  /\ m_localMap \in [0..(Envs - 1) -> SUBSET MadeItems] /\ m_tempItems \subseteq MadeItems
  /\ m_timerEvents \subseteq TimerIds /\ m_lastTimer \in 0..MaxTimers
  /\ scheduled \cup queued \cup timersRan \cup timersStopped \cup selfStopped \subseteq TimerIds
  /\ unrefs \in [TimerIds -> 0..2] /\ overflown \in BOOLEAN /\ sharedItems \subseteq MadeItems
  /\ scriptSteps \in 0..MaxSteps

\* An item a script has made is freed once and only when it has no place, whoever calls
\* whom in between; none is left behind when the scripts are done; and a script has in
\* its environment what it has made.  Excepted are an item that another call released
\* while its maker ran, since the list is one for all, and what follows when a buffer is
\* run without an environment.
ItemsOfScripts ==
  /\ \A x \in MadeItems \ sharedItems :
       /\ made[x].released <= 1
       /\ made[x].parent = InWorld => made[x].released = 0 /\ ~ made[x].deleted
       /\ made[x].deleted => made[x].released = 0
       /\ callStack = <<>> /\ made[x].parent \notin {"none", InWorld} =>
            made[x].released = 1 \/ made[x].deleted
  /\ overflown \/ /\ m_scriptEnvIndex = Len(callStack) - 1
                  /\ \A k \in DOMAIN callStack : callStack[k].makes \subseteq m_localMap[k - 1]

\* A timer runs once at most, and not once it is stopped or the scripts were reloaded,
\* although neither takes back a task the dispatcher has; what it holds of the registry is
\* given back once, unless the function it runs stops it.
TimersRunOnce ==
  /\ timersRan \cap timersStopped = {}
  /\ \A i \in TimerIds \ selfStopped :
       /\ unrefs[i] <= 1
       /\ i \in 1..m_lastTimer => (unrefs[i] = 0 <=> i \in m_timerEvents)

\* Scripts lose nothing they made, and timers run once: whatever they call, stop or reload.
ScriptsSound == ScriptsTypeOK /\ ItemsOfScripts /\ TimersRunOnce
=============================================================================
