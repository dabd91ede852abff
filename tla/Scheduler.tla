------------------------------ MODULE Scheduler ------------------------------
(***************************************************************************)
(* The scheduler (source/scheduler.{h,cpp}): one thread that keeps timed   *)
(* events in a heap ordered by due time and hands each one, when due, to   *)
(* the dispatcher.  stopEvent cancels an event by erasing its id from      *)
(* m_eventIds and leaves the heap alone; the thread notices when it pops.  *)
(*                                                                         *)
(* m_eventLock protects every critical section, each one step here.        *)
(***************************************************************************)
EXTENDS Integers

CONSTANTS
  Clients,        \* the threads that call addEvent and stopEvent
  Events,         \* the SchedulerTask objects; free again once deleted
  MaxDelay,       \* BOUND: the longest delay, in ticks
  MaxLate,        \* BOUND: ticks past due the model still tells apart
  MaxId           \* the largest event id (0xFFFFFFFF in the code)

ASSUME SchedulerAssumption ==
  /\ MaxDelay \in Nat /\ MaxLate \in Nat
  /\ MaxId \in Nat \ {0}

VARIABLES
  m_threadState,  \* "RUNNING", "CLOSING" or "TERMINATED"
  m_lastEvent,    \* the last id given out
  m_eventIds,     \* ids of the events that are to run
  m_eventList,    \* the heap, as the set of the tasks in it
  eventId,        \* per task in the heap: m_eventId
  left,           \* per task in the heap: ticks until getCycle(), negative when overdue
  signalling,     \* threads between the unlock and the notify_one of addEvent
  pc,             \* where the scheduler thread stands, see TypeOK
  deadline,       \* ticks until the timed_wait of the thread expires
  popped,         \* the task taken off the heap to be given to addTask
  queued,         \* tasks the dispatcher has and will run
  stopped         \* tasks in the heap for which stopEvent returned true

vars == <<m_threadState, m_lastEvent, m_eventIds, m_eventList, eventId, left,
          signalling, pc, deadline, popped, queued, stopped>>
thread == <<pc, deadline, popped>>
heap == <<m_lastEvent, m_eventList, eventId, left>>

Init ==
  /\ m_threadState = "RUNNING"
  /\ m_lastEvent = 0
  /\ m_eventIds = {}
  /\ m_eventList = {}
  /\ eventId = [e \in Events |-> 0]
  /\ left = [e \in Events |-> 0]
  /\ signalling = {}
  /\ pc = "loop"
  /\ deadline = 0
  /\ popped = {}
  /\ queued = {}
  /\ stopped = {}

Alive == pc # "undefined"
Earliest == {e \in m_eventList : \A f \in m_eventList : left[e] <= left[f]}

-----------------------------------------------------------------------------
(* The calls of the other threads.                                         *)

\* A Mutant_ is a definition gone wrong: it takes the place of the one it is named
\* for to show that a property notices.  No behaviour of the specification uses it.
Mutant_NextId == m_lastEvent + 1      \* no wrap

NextId == IF m_lastEvent >= MaxId THEN 1 ELSE m_lastEvent + 1

\* Whether a task due after delay comes out on top of the heap.
Mutant_NewTop(delay) == m_eventList = {}              \* signals a first task only
Mutant_NewTopOfSome(delay) == m_eventList # {} /\ \A f \in m_eventList : delay < left[f]
NewTop(delay) == \A f \in m_eventList : delay < left[f]

\* addEvent up to the unlock.  The delay was fixed when the task was created;
\* a thread kept waiting for the lock may add it when less, or nothing, is left.
\* A refused task is never deleted, nor referred to again.
AddEvent(c, e, delay) ==
  /\ Alive
  /\ c \notin signalling
  /\ e \notin m_eventList \cup popped \cup queued
  /\ IF m_threadState = "RUNNING"
     THEN /\ m_lastEvent' = NextId
          /\ eventId' = [eventId EXCEPT ![e] = NextId]
          /\ left' = [left EXCEPT ![e] = delay]
          /\ m_eventIds' = m_eventIds \cup {NextId}
          /\ m_eventList' = m_eventList \cup {e}
          /\ signalling' = IF NewTop(delay)
                           THEN signalling \cup {c} ELSE signalling
     ELSE UNCHANGED <<m_eventIds, heap, signalling>>
  /\ UNCHANGED <<m_threadState, thread, queued, stopped>>

\* The notify_one that follows; lost when the thread does not wait.
Notify(c) ==
  /\ Alive
  /\ c \in signalling
  /\ signalling' = signalling \ {c}
  /\ pc' = CASE pc = "wait"  -> "woken"
             [] pc = "timed" -> "signalled"
             [] OTHER        -> pc
  /\ UNCHANGED <<m_threadState, m_eventIds, heap, deadline, popped, queued, stopped>>

Mutant_StopEvent(i) ==                \* returns true and erases nothing
  /\ Alive
  /\ i \in m_eventIds
  /\ stopped' = stopped \cup {e \in m_eventList : eventId[e] = i}
  /\ UNCHANGED <<m_threadState, m_eventIds, heap, signalling, thread, queued>>

StopEvent(i) ==
  /\ Alive
  /\ i \in m_eventIds
  /\ m_eventIds' = m_eventIds \ {i}
  /\ stopped' = stopped \cup {e \in m_eventList : eventId[e] = i}
  /\ UNCHANGED <<m_threadState, heap, signalling, thread, queued>>

Stop ==
  /\ Alive
  /\ m_threadState' = "CLOSING"
  /\ UNCHANGED <<m_eventIds, heap, signalling, thread, queued, stopped>>

\* The heap is emptied, its tasks leak; the waiting thread is not woken.
Shutdown ==
  /\ Alive
  /\ m_threadState' = "TERMINATED"
  /\ m_eventList' = {}
  /\ m_eventIds' = {}
  /\ stopped' = {}
  /\ UNCHANGED <<m_lastEvent, eventId, left, signalling, thread, queued>>

-----------------------------------------------------------------------------
(* schedulerThread.                                                        *)

Wait ==
  /\ pc = "loop"
  /\ m_threadState # "TERMINATED"
  /\ m_eventList = {}
  /\ pc' = "wait"
  /\ UNCHANGED <<m_threadState, m_eventIds, heap, signalling, deadline, popped, queued, stopped>>

TimedWait ==
  /\ pc = "loop"
  /\ m_threadState # "TERMINATED"
  /\ \E e \in Earliest : deadline' = left[e]
  /\ pc' = "timed"
  /\ UNCHANGED <<m_threadState, m_eventIds, heap, signalling, popped, queued, stopped>>

SpuriousWakeup ==
  /\ pc \in {"wait", "timed"}
  /\ pc' = IF pc = "wait" THEN "woken" ELSE "signalled"
  /\ UNCHANGED <<m_threadState, m_eventIds, heap, signalling, deadline, popped, queued, stopped>>

\* timed_wait returns false.
Timeout ==
  /\ pc = "timed"
  /\ deadline <= 0
  /\ pc' = "woken"
  /\ UNCHANGED <<m_threadState, m_eventIds, heap, signalling, deadline, popped, queued, stopped>>

\* timed_wait returned true, or the scheduler was shut down: nothing is popped.
Retry ==
  /\ \/ pc = "signalled"
     \/ pc = "woken" /\ m_threadState = "TERMINATED"
  /\ pc' = "loop"
  /\ UNCHANGED <<m_threadState, m_eventIds, heap, signalling, deadline, popped, queued, stopped>>

Mutant_NotStopped(e) == TRUE                          \* m_eventIds not asked
NotStopped(e) == eventId[e] \in m_eventIds

\* ret is false after a timeout and after the plain wait alike.  The earliest
\* task is popped; it is run when its id has not been erased, else deleted.
Pop(e) ==
  /\ pc = "woken"
  /\ m_threadState # "TERMINATED"
  /\ e \in Earliest
  /\ m_eventList' = m_eventList \ {e}
  /\ eventId' = [eventId EXCEPT ![e] = 0]
  /\ left' = [left EXCEPT ![e] = 0]
  /\ m_eventIds' = m_eventIds \ {eventId[e]}
  /\ stopped' = stopped \ {e}
  /\ IF NotStopped(e)
     THEN popped' = {e} /\ pc' = "handoff"
     ELSE popped' = {} /\ pc' = "loop"
  /\ UNCHANGED <<m_threadState, m_lastEvent, signalling, deadline, queued>>

\* top() and pop() of an empty heap are undefined.  The build's heap returns
\* the task popped last, already handed over or deleted, and counts below
\* zero: the process is taken to end here.
PopNothing ==
  /\ pc = "woken"
  /\ m_threadState # "TERMINATED"
  /\ m_eventList = {}
  /\ pc' = "undefined"
  /\ UNCHANGED <<m_threadState, m_eventIds, heap, signalling, deadline, popped, queued, stopped>>

\* unsetExpiration and Dispatcher::addTask, outside the lock.
HandOff ==
  /\ pc = "handoff"
  /\ queued' = queued \cup popped
  /\ popped' = {}
  /\ pc' = "loop"
  /\ UNCHANGED <<m_threadState, m_eventIds, heap, signalling, deadline, stopped>>

schedulerThread ==
  \/ Wait \/ TimedWait \/ Timeout \/ Retry \/ PopNothing \/ HandOff
  \/ \E e \in Events : Pop(e)

-----------------------------------------------------------------------------
\* The dispatcher runs and deletes the task (Dispatcher.tla).
Run(e) ==
  /\ Alive
  /\ e \in queued
  /\ queued' = queued \ {e}
  /\ UNCHANGED <<m_threadState, m_eventIds, heap, signalling, thread, stopped>>

Later(d) == IF d > -MaxLate THEN d - 1 ELSE d

Tick ==
  /\ Alive
  /\ left' = [e \in Events |-> IF e \in m_eventList THEN Later(left[e]) ELSE left[e]]
  /\ deadline' = IF pc = "timed" THEN Later(deadline) ELSE deadline
  /\ UNCHANGED <<m_threadState, m_lastEvent, m_eventIds, m_eventList, eventId, signalling,
                 pc, popped, queued, stopped>>

Others ==
  \/ schedulerThread
  \/ SpuriousWakeup
  \/ \E c \in Clients : Notify(c)
  \/ \E i \in 1..MaxId : StopEvent(i)
  \/ Stop
  \/ Shutdown
  \/ \E e \in Events : Run(e)
  \/ Tick

Next ==
  \/ Others
  \/ \E c \in Clients, e \in Events, delay \in 0..MaxDelay : AddEvent(c, e, delay)

Spec == Init /\ [][Next]_vars

-----------------------------------------------------------------------------
\* No event is added under an id that a task in the heap still carries: none
\* waits there while 2^32 - 1 others are added.
DistinctIds == \A e, f \in m_eventList : eventId[e] = eventId[f] => e = f

FreshNext ==
  \/ Others
  \/ \E c \in Clients, e \in Events, delay \in 0..MaxDelay :
        AddEvent(c, e, delay) /\ DistinctIds'

FreshSpec == Init /\ [][FreshNext]_vars

\* Threads are scheduled, time passes, and a timed_wait whose time is up is not
\* woken for another reason for ever.  The heap of the code orders all due times,
\* so only finitely many events are due before a given one; MaxLate merges the
\* oldest, and the fairness of Pop stands for that order.
Fairness == /\ WF_vars(schedulerThread)
            /\ WF_vars(Tick)
            /\ \A c \in Clients : WF_vars(Notify(c))
            /\ SF_vars(Timeout)
            /\ \A e \in Events : SF_vars(Pop(e))

FairSpec == FreshSpec /\ Fairness

-----------------------------------------------------------------------------
TypeOK ==
  /\ m_threadState \in {"RUNNING", "CLOSING", "TERMINATED"}
  /\ m_lastEvent \in 0..MaxId
  /\ m_eventIds \in SUBSET (1..MaxId)
  /\ m_eventList \in SUBSET Events
  /\ eventId \in [Events -> 0..MaxId]
  /\ left \in [Events -> -MaxLate..MaxDelay]
  /\ signalling \in SUBSET Clients
  /\ pc \in {"loop",      \* about to take the lock
             "wait",      \* in the plain wait of an empty heap
             "timed",     \* in timed_wait
             "signalled", \* out of timed_wait before its time
             "woken",     \* out of wait, or of timed_wait after its time
             "handoff",   \* a task popped, the lock released
             "undefined"} \* popped an empty heap
  /\ deadline \in -MaxLate..MaxDelay
  /\ popped \in SUBSET Events
  /\ queued \in SUBSET Events
  /\ stopped \in SUBSET Events

(* The thread never sleeps past the earliest event, unless the caller that *)
(* added it is still on its way to notify_one: addEvent signals only when  *)
(* the new task is the top of the heap, and the thread's deadline was read *)
(* from the top before it slept.                                           *)
SleepsNoLonger ==
  m_eventList # {} /\ signalling = {} =>
    /\ pc # "wait"
    /\ pc = "timed" => \A e \in m_eventList : deadline <= left[e]

(* m_eventIds says of every task in the heap whether it is to run: its id  *)
(* is there until, and only until, stopEvent has returned true for it.     *)
IdsMatch == \A e \in m_eventList : eventId[e] \in m_eventIds <=> e \notin stopped

(* Each accepted event fires once unless it is cancelled; the cancelled    *)
(* one does not.                                                           *)
T == INSTANCE Timers WITH
       armed <- {e \in m_eventList : eventId[e] \in m_eventIds},
       fired <- popped \cup queued

ImplementsTimers == T!SafeSpec
FiresTimers == T!Spec

(* "was not stopped so we should run it" (scheduler.cpp:65): the thread    *)
(* hands no event to the dispatcher for which stopEvent has returned true. *)
StoppedNeverRuns == [][\A e \in Events : e \in popped' => e \notin stopped]_vars

(* "ok we had a timeout" (scheduler.cpp:57): what the thread pops is due.  *)
PopsWhatIsDue == [][\A e \in m_eventList : e \in popped' => left[e] <= 0]_vars
=============================================================================
