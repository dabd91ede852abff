----------------------------- MODULE Dispatcher -----------------------------
(***************************************************************************)
(* The dispatcher (source/dispatcher.{h,cpp}): one thread that runs every  *)
(* piece of game logic, fed by the network, scheduler and signal threads   *)
(* and by the tasks it runs itself.                                        *)
(*                                                                         *)
(* m_taskLock is a plain boost::mutex.  Every critical section but one is  *)
(* short and is one atomic step here; the exception is shutdown(), which   *)
(* keeps the lock while flush() runs what is left: `flushing`.             *)
(***************************************************************************)
EXTENDS Naturals, Sequences

CONSTANTS
  Producers,      \* the threads that call addTask, the dispatcher's own excepted
  FrontProducers, \* those that may push to the front (a message released by the network thread)
  Tasks,          \* the task objects; an object is free again once deleted
  Jobs            \* the jobs tasks are created with

JobNames == {"quiet", "post", "release", "quit", "shutdown"}
CallNames == {"addTask", "addTaskFront", "addShutdown", "stop", "shutdown"}

\* A Mutant_ is a definition gone wrong: it takes the place of the one it is named
\* for to show that a property notices.  No behaviour of the specification uses it.
Mutant_Calls ==                       \* stops before it queues Game::shutdown
  [ quiet |-> <<>>, post |-> <<"addTask">>, release |-> <<"addTaskFront">>,
    quit |-> <<"stop", "addShutdown">>, shutdown |-> <<"shutdown">> ]

\* The calls into the dispatcher that running a job makes, in order.
Calls ==
  [ quiet    |-> <<>>,                        \* game logic that queues nothing
    post     |-> <<"addTask">>,               \* e.g. Game::playerUseItem queueing playerAutoWalk
    release  |-> <<"addTaskFront">>,          \* OutputMessagePool::releaseMessage
    quit     |-> <<"addShutdown", "stop">>,   \* Game::setGameState(GAMESTATE_SHUTDOWN)
    shutdown |-> <<"shutdown">> ]             \* Game::shutdown

ASSUME DispatcherAssumption ==
  /\ FrontProducers \subseteq Producers
  /\ Jobs \subseteq JobNames

VARIABLES
  m_threadState,  \* "RUNNING", "CLOSING" or "TERMINATED"
  m_taskList,     \* std::list<Task*>
  signalling,     \* threads between the unlock and the notify_one of addTask
  pc,             \* where the dispatcher thread stands, see TypeOK
  todo,           \* the calls the running task has still to make
  flushing,       \* shutdown() holds m_taskLock and flush() is on the stack
  quitting,       \* Game::gameState = GAMESTATE_SHUTDOWN
  task,           \* per object: where it is
  job,            \* per object: its m_f
  clock           \* per object: "never" (no m_expiration), "fresh" or "expired"

vars == <<m_threadState, m_taskList, signalling, pc, todo, flushing, quitting, task, job, clock>>
objects == <<task, job, clock>>

Init ==
  /\ m_threadState = "RUNNING"
  /\ m_taskList = <<>>
  /\ signalling = {}
  /\ pc = "loop"
  /\ todo = <<>>
  /\ flushing = FALSE
  /\ quitting = FALSE
  /\ task = [t \in Tasks |-> "free"]
  /\ job = [t \in Tasks |-> "quiet"]
  /\ clock = [t \in Tasks |-> "never"]

-----------------------------------------------------------------------------
(* addTask and its callers.                                                *)

Accepting == m_threadState = "RUNNING"

\* addTask(t) of a new object with job j, timed when it was created with
\* DISPATCHER_TASK_EXPIRATION.  A refused task is never deleted and never
\* referred to again: its name stays free.
Enqueue(t, j, timed, front) ==
  /\ task[t] = "free"
  /\ IF Accepting
     THEN /\ task' = [task EXCEPT ![t] = "queued"]
          /\ job' = [job EXCEPT ![t] = j]
          /\ clock' = [clock EXCEPT ![t] = IF timed THEN "fresh" ELSE "never"]
          /\ m_taskList' = IF front THEN <<t>> \o m_taskList ELSE Append(m_taskList, t)
     ELSE UNCHANGED <<m_taskList, objects>>

Mutant_WasEmpty == m_taskList' = <<>>         \* tested after the push
WasEmpty == m_taskList = <<>>

\* BOUND of the model: other threads leave one name for the task that runs,
\* whose own addTask never fails for want of memory.
NotTheLast(t) == \E u \in Tasks \ {t} : task[u] = "free"

\* addTask up to the unlock, called by another thread.
AddTask(p, t, j, timed, front) ==
  /\ pc # "exited"
  /\ ~flushing                          \* m_taskLock
  /\ p \notin signalling                \* p has returned from its last call
  /\ front => p \in FrontProducers
  /\ NotTheLast(t)
  /\ Enqueue(t, j, timed, front)
  /\ signalling' = IF Accepting /\ WasEmpty
                   THEN signalling \cup {p} ELSE signalling
  /\ UNCHANGED <<m_threadState, pc, todo, flushing, quitting>>

\* The notify_one that follows, outside the lock; lost when nobody waits.
Notify(p) ==
  /\ pc # "exited"
  /\ p \in signalling
  /\ signalling' = signalling \ {p}
  /\ pc' = IF pc = "wait" THEN "woken" ELSE pc
  /\ UNCHANGED <<m_threadState, m_taskList, todo, flushing, quitting, objects>>

-----------------------------------------------------------------------------
(* dispatcherThread.  m_threadState leaves "RUNNING" only in a task the    *)
(* thread runs itself, so reading it and taking the lock is one step.      *)

Wait ==
  /\ pc = "loop"
  /\ m_threadState # "TERMINATED"
  /\ m_taskList = <<>>
  /\ pc' = "wait"
  /\ UNCHANGED <<m_threadState, m_taskList, signalling, todo, flushing, quitting, objects>>

SpuriousWakeup ==
  /\ pc = "wait"
  /\ pc' = "woken"
  /\ UNCHANGED <<m_threadState, m_taskList, signalling, todo, flushing, quitting, objects>>

Mutant_NothingToTake ==               \* back to the wait without a look at the list
  /\ pc = "woken"
  /\ pc' = "wait"
  /\ UNCHANGED <<m_threadState, m_taskList, signalling, todo, flushing, quitting, objects>>

\* Woken with nothing to take: task stays NULL, back to the loop.
NothingToTake ==
  /\ pc = "woken"
  /\ m_taskList = <<>>
  /\ pc' = "loop"
  /\ UNCHANGED <<m_threadState, m_taskList, signalling, todo, flushing, quitting, objects>>

Mutant_Begin(t) ==                    \* runs the job as if it were one call
  /\ task' = [task EXCEPT ![t] = "running"]
  /\ todo' = <<job[t]>>
  /\ quitting' = quitting

Mutant_PopFront == UNCHANGED m_taskList       \* front() without pop_front()
PopFront == m_taskList' = Tail(m_taskList)

hasExpired(t) == clock[t] = "expired"

\* (*task)().  A second GAMESTATE_SHUTDOWN is ignored by setGameState.
Begin(t) ==
  /\ task' = [task EXCEPT ![t] = "running"]
  /\ todo' = IF job[t] = "quit" /\ quitting THEN <<>> ELSE Calls[job[t]]
  /\ quitting' = (quitting \/ job[t] = "quit")

\* delete task: the name can stand for another object.
Deleted(gone) ==
  /\ task' = [t \in Tasks |-> IF t \in gone THEN "free" ELSE task[t]]
  /\ job' = [t \in Tasks |-> IF t \in gone THEN "quiet" ELSE job[t]]
  /\ clock' = [t \in Tasks |-> IF t \in gone THEN "never" ELSE clock[t]]

\* The front task is taken; run unless it has expired, then deleted either way.
Take ==
  /\ pc \in {"loop", "woken"}
  /\ m_threadState # "TERMINATED"
  /\ m_taskList # <<>>
  /\ PopFront
  /\ LET t == Head(m_taskList) IN
       IF hasExpired(t)
       THEN /\ Deleted({t})
            /\ pc' = "loop"
            /\ UNCHANGED <<todo, quitting>>
       ELSE /\ Begin(t)
            /\ pc' = "exec"
            /\ UNCHANGED <<job, clock>>
  /\ UNCHANGED <<m_threadState, signalling, flushing>>

\* A call made by the running task.  Each takes m_taskLock, so none can be
\* made from within flush(): the mutex is not recursive.
Calling(c) == pc = "exec" /\ ~flushing /\ todo # <<>> /\ Head(todo) = c

\* Nobody waits on m_taskSignal while the dispatcher runs a task: the
\* notify_one of its own addTask has no effect.
SelfAddTask(t, j, timed, front) ==
  /\ Calling(IF front THEN "addTaskFront" ELSE "addTask")
  /\ Enqueue(t, j, timed, front)
  /\ todo' = Tail(todo)
  /\ UNCHANGED <<m_threadState, signalling, pc, flushing, quitting>>

Mutant_SelfAddShutdown(t) ==          \* as createTask(DISPATCHER_TASK_EXPIRATION, f)
  /\ Calling("addShutdown")
  /\ Enqueue(t, "shutdown", TRUE, FALSE)
  /\ todo' = Tail(todo)
  /\ UNCHANGED <<m_threadState, signalling, pc, flushing, quitting>>

SelfAddShutdown(t) ==
  /\ Calling("addShutdown")
  /\ Enqueue(t, "shutdown", FALSE, FALSE)
  /\ todo' = Tail(todo)
  /\ UNCHANGED <<m_threadState, signalling, pc, flushing, quitting>>

Stop ==
  /\ Calling("stop")
  /\ m_threadState' = "CLOSING"
  /\ todo' = Tail(todo)
  /\ UNCHANGED <<m_taskList, signalling, pc, flushing, quitting, objects>>

\* shutdown() up to the call of flush().
Shutdown ==
  /\ Calling("shutdown")
  /\ m_threadState' = "TERMINATED"
  /\ flushing' = TRUE
  /\ pc' = "flush"
  /\ UNCHANGED <<m_taskList, signalling, todo, quitting, objects>>

Mutant_Return ==                      \* the loop goes on before the task is over
  /\ pc = "exec"
  /\ todo = <<>>
  /\ pc' = IF flushing THEN "flush" ELSE "loop"
  /\ UNCHANGED <<m_threadState, m_taskList, signalling, todo, flushing, quitting, objects>>

\* The task returns and is deleted.
Return ==
  /\ pc = "exec"
  /\ todo = <<>>
  /\ Deleted({t \in Tasks : task[t] = "running" /\ job[t] # "shutdown"})
  /\ pc' = IF flushing THEN "flush" ELSE "loop"
  /\ UNCHANGED <<m_threadState, m_taskList, signalling, todo, flushing, quitting>>

\* flush() runs the next task without looking at its expiration.
FlushNext ==
  /\ pc = "flush"
  /\ m_taskList # <<>>
  /\ PopFront
  /\ LET t == Head(m_taskList) IN
       Begin(t)
  /\ pc' = "exec"
  /\ UNCHANGED <<m_threadState, signalling, flushing, job, clock>>

\* flush() and shutdown() return, and Game::shutdown ends in exit(-1).
Exit ==
  /\ pc = "flush"
  /\ m_taskList = <<>>
  /\ flushing' = FALSE
  /\ pc' = "exited"
  /\ UNCHANGED <<m_threadState, m_taskList, signalling, todo, quitting, objects>>

-----------------------------------------------------------------------------
\* Two seconds pass while a timed task is in the queue.
Expire(t) ==
  /\ pc # "exited"
  /\ task[t] = "queued"
  /\ clock[t] = "fresh"
  /\ clock' = [clock EXCEPT ![t] = "expired"]
  /\ UNCHANGED <<m_threadState, m_taskList, signalling, pc, todo, flushing, quitting, task, job>>

dispatcherThread ==
  \/ Wait \/ NothingToTake \/ Take \/ Stop \/ Shutdown \/ Return \/ FlushNext \/ Exit
  \/ \E t \in Tasks, j \in Jobs, timed, front \in BOOLEAN : SelfAddTask(t, j, timed, front)
  \/ \E t \in Tasks : SelfAddShutdown(t)

Next ==
  \/ dispatcherThread
  \/ SpuriousWakeup
  \/ \E p \in Producers, t \in Tasks, j \in Jobs, timed, front \in BOOLEAN :
        AddTask(p, t, j, timed, front)
  \/ \E p \in Producers : Notify(p)
  \/ \E t \in Tasks : Expire(t)

Spec == Init /\ [][Next]_vars

\* The operating system runs the dispatcher thread, and every thread that has
\* left the critical section of addTask reaches its notify_one.
Fairness == /\ WF_vars(dispatcherThread)
            /\ \A p \in Producers : WF_vars(Notify(p))

FairSpec == Spec /\ Fairness

-----------------------------------------------------------------------------
TypeOK ==
  /\ m_threadState \in {"RUNNING", "CLOSING", "TERMINATED"}
  /\ m_taskList \in Seq(Tasks)
  /\ signalling \in SUBSET Producers
  /\ pc \in {"loop",    \* about to take the lock
             "wait",    \* in m_taskSignal.wait
             "woken",   \* out of it, the lock not yet taken again
             "exec",    \* in (*task)()
             "flush",   \* in flush(), between two tasks
             "exited"}  \* the process has ended
  /\ todo \in Seq(CallNames)
  /\ flushing \in BOOLEAN
  /\ quitting \in BOOLEAN
  /\ task \in [Tasks -> {"free", "queued", "running"}]
  /\ job \in [Tasks -> JobNames]
  /\ clock \in [Tasks -> {"never", "fresh", "expired"}]

(* The dispatcher never sleeps on a queue that holds a task, unless the    *)
(* thread that put it there is still on its way to notify_one.  addTask    *)
(* signals only when the list was empty and only after the unlock, and     *)
(* dispatcherThread waits without re-testing: this is what makes both safe.*)
NoLostWakeup == pc = "wait" /\ m_taskList # <<>> => signalling # {}

(* The list and the objects agree: a queued object is in the list once,    *)
(* and nothing in the list has been run, deleted or refused.               *)
ListIsExact ==
  /\ \A i, j \in DOMAIN m_taskList : m_taskList[i] = m_taskList[j] => i = j
  /\ \A t \in Tasks : task[t] = "queued" <=> \E i \in DOMAIN m_taskList : m_taskList[i] = t

(* Whatever is on the dispatcher's stack, game logic runs one task at a    *)
(* time: only the final Game::shutdown has other tasks run under it.       *)
OneTaskAtATime ==
  \A t, u \in Tasks :
    task[t] = "running" /\ task[u] = "running" /\ t # u
      => flushing /\ "shutdown" \in {job[t], job[u]}

(* Once the state is GAMESTATE_SHUTDOWN, which nothing can take back,      *)
(* Game::shutdown is on its way: neither refused by the stop that follows  *)
(* it, nor dropped for the time it waited, nor run and forgotten; a second *)
(* order to shut down would be ignored, and nobody could end the server.   *)
ShutdownIsNotLost ==
  quitting => \/ \E i \in DOMAIN todo : todo[i] = "addShutdown"
              \/ \E t \in Tasks : job[t] = "shutdown" /\ task[t] # "free"

(* setGameState(GAMESTATE_SHUTDOWN) queues Game::shutdown and then stops   *)
(* the dispatcher: the refused tasks do not include the one that ends it.  *)
StopLeadsToShutdown == m_threadState = "CLOSING" ~> m_threadState = "TERMINATED"

(* Dispatcher::shutdown() ends the server: flush() runs dry and the        *)
(* process exits ("SIGTERM ... //shutdown", otserv.cpp).                   *)
ShutdownFinishes == m_threadState = "TERMINATED" ~> pc = "exited"

(* The dispatcher implements the promise of TaskQueue.                     *)
TQ == INSTANCE TaskQueue WITH
        queue <- m_taskList,
        active <- {t \in Tasks : task[t] = "running"},
        open <- (m_threadState = "RUNNING")

ImplementsTaskQueue == TQ!SafeSpec
ServesTaskQueue == TQ!Spec
=============================================================================
