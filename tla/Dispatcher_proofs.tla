------------------------- MODULE Dispatcher_proofs -------------------------
(* Theorems about Dispatcher, for any number of producers and tasks, and   *)
(* about Storage, for any players, things, calls and mishaps.              *)
EXTENDS Dispatcher, Storage, Lists_proofs

LEMMA TypeInit == Init => TypeOK
<1> SUFFICES ASSUME Init PROVE TypeOK
  OBVIOUS
<1>1. m_taskList \in Seq(Tasks) /\ todo \in Seq(CallNames)
  BY DEF Init
<1>2. job \in [Tasks -> JobNames]
  BY DEF Init, JobNames
<1> QED BY <1>1, <1>2 DEF Init, TypeOK

(* What running a job can make of todo.                                    *)
LEMMA CallsType == \A j \in JobNames : Calls[j] \in Seq(CallNames)
<1> SUFFICES ASSUME NEW j \in JobNames PROVE Calls[j] \in Seq(CallNames)
  OBVIOUS
<1>1. CASE j = "quiet"    BY <1>1 DEF Calls, CallNames
<1>2. CASE j = "post"     BY <1>2 DEF Calls, CallNames
<1>3. CASE j = "release"  BY <1>3 DEF Calls, CallNames
<1>4. CASE j = "quit"     BY <1>4 DEF Calls, CallNames
<1>5. CASE j = "shutdown" BY <1>5 DEF Calls, CallNames
<1> QED BY <1>1, <1>2, <1>3, <1>4, <1>5 DEF JobNames

LEMMA EnqueueType ==
  ASSUME TypeOK, NEW t \in Tasks, NEW j \in JobNames, NEW timed \in BOOLEAN,
         NEW front \in BOOLEAN, Enqueue(t, j, timed, front)
  PROVE  /\ m_taskList' \in Seq(Tasks)
         /\ task' \in [Tasks -> {"free", "queued", "running"}]
         /\ job' \in [Tasks -> JobNames]
         /\ clock' \in [Tasks -> {"never", "fresh", "expired"}]
<1>1. CASE Accepting
  <2>1. m_taskList \in Seq(Tasks)
    BY DEF TypeOK
  <2>2. <<t>> \o m_taskList \in Seq(Tasks) /\ Append(m_taskList, t) \in Seq(Tasks)
    BY <2>1
  <2>3. m_taskList' \in Seq(Tasks)
    BY <1>1, <2>2 DEF Enqueue
  <2> QED BY <1>1, <2>3 DEF TypeOK, Enqueue
<1>2. CASE ~Accepting
  BY <1>2 DEF TypeOK, Enqueue, objects
<1> QED BY <1>1, <1>2

LEMMA BeginType ==
  ASSUME TypeOK, NEW t \in Tasks, Begin(t)
  PROVE  /\ task' \in [Tasks -> {"free", "queued", "running"}]
         /\ todo' \in Seq(CallNames)
         /\ quitting' \in BOOLEAN
<1>1. Calls[job[t]] \in Seq(CallNames) /\ <<>> \in Seq(CallNames)
  BY CallsType DEF TypeOK
<1> QED BY <1>1 DEF TypeOK, Begin

LEMMA DeletedType ==
  ASSUME TypeOK, NEW gone \in SUBSET Tasks, Deleted(gone)
  PROVE  /\ task' \in [Tasks -> {"free", "queued", "running"}]
         /\ job' \in [Tasks -> JobNames]
         /\ clock' \in [Tasks -> {"never", "fresh", "expired"}]
<1>1. "quiet" \in JobNames
  BY DEF JobNames
<1> QED BY <1>1 DEF TypeOK, Deleted

\* Deleting one object, as an update of the functions.
LEMMA DeletedOne ==
  ASSUME TypeOK, NEW t \in Tasks, Deleted({t})
  PROVE  task' = [task EXCEPT ![t] = "free"] /\ \A u \in Tasks \ {t} : job'[u] = job[u]
<1>1. task = [u \in Tasks |-> task[u]]
  BY DEF TypeOK
<1> QED BY <1>1 DEF Deleted

LEMMA TypeStep == TypeOK /\ [Next]_vars => TypeOK'
<1> USE DispatcherAssumption
<1>1. ASSUME TypeOK, [Next]_vars PROVE TypeOK'
  <2>1. CASE Wait \/ SpuriousWakeup \/ NothingToTake
    BY <1>1, <2>1 DEF TypeOK, Wait, SpuriousWakeup, NothingToTake, objects
  <2>2. CASE Take
    <3> DEFINE t == Head(m_taskList)
    <3>1. t \in Tasks /\ Tail(m_taskList) \in Seq(Tasks)
      BY <1>1, <2>2 DEF TypeOK, Take, PopFront, hasExpired
    <3>2. CASE clock[t] = "expired"
      <4>1. /\ Deleted({t}) /\ pc' = "loop" /\ m_taskList' = Tail(m_taskList)
            /\ UNCHANGED <<m_threadState, signalling, todo, flushing, quitting>>
        BY <2>2, <3>2 DEF Take, PopFront, hasExpired
      <4> HIDE DEF t
      <4>2. {t} \in SUBSET Tasks
        BY <3>1
      <4> QED BY <1>1, <3>1, <4>1, <4>2, DeletedType DEF TypeOK
    <3>3. CASE clock[t] # "expired"
      <4>1. Begin(t)
        BY <2>2, <3>3 DEF Take, PopFront, hasExpired
      <4> HIDE DEF t
      <4> QED BY <1>1, <2>2, <3>1, <3>3, <4>1, BeginType DEF TypeOK, Take, PopFront, hasExpired, t
    <3> QED BY <3>2, <3>3
  <2>3. CASE Stop \/ Shutdown \/ Exit
    <3>1. CASE Stop
      <4>1. Tail(todo) \in Seq(CallNames)
        BY <1>1, <3>1 DEF TypeOK, Stop, Calling
      <4> QED BY <1>1, <3>1, <4>1 DEF TypeOK, Stop, objects
    <3>2. CASE Shutdown \/ Exit
      BY <1>1, <3>2 DEF TypeOK, Shutdown, Exit, objects
    <3> QED BY <2>3, <3>1, <3>2
  <2>4. CASE FlushNext
    BY <1>1, <2>4, CallsType DEF TypeOK, FlushNext, PopFront, Begin
  <2>5. ASSUME NEW t \in Tasks, NEW j \in Jobs, NEW timed \in BOOLEAN, NEW front \in BOOLEAN,
               SelfAddTask(t, j, timed, front)
        PROVE  TypeOK'
    <3>1. j \in JobNames
      OBVIOUS
    <3> QED BY <1>1, <2>5, <3>1, EnqueueType DEF TypeOK, SelfAddTask, Calling
  <2>6. ASSUME NEW t \in Tasks, SelfAddShutdown(t) PROVE TypeOK'
    <3>1. "shutdown" \in JobNames
      BY DEF JobNames
    <3>2. Tail(todo) \in Seq(CallNames)
      BY <1>1, <2>6 DEF TypeOK, SelfAddShutdown, Calling
    <3> QED BY <1>1, <2>6, <3>1, <3>2, EnqueueType DEF TypeOK, SelfAddShutdown
  <2>7. ASSUME NEW p \in Producers, NEW t \in Tasks, NEW j \in Jobs, NEW timed \in BOOLEAN,
               NEW front \in BOOLEAN, AddTask(p, t, j, timed, front)
        PROVE  TypeOK'
    <3>1. j \in JobNames
      OBVIOUS
    <3> QED BY <1>1, <2>7, <3>1, EnqueueType DEF TypeOK, AddTask
  <2>8. ASSUME NEW p \in Producers, Notify(p) PROVE TypeOK'
    BY <1>1, <2>8 DEF TypeOK, Notify, objects
  <2>9. ASSUME NEW t \in Tasks, Expire(t) PROVE TypeOK'
    BY <1>1, <2>9 DEF TypeOK, Expire
  <2>10. CASE UNCHANGED vars
    BY <1>1, <2>10 DEF TypeOK, vars, objects
  <2>11. CASE Return
    <3> DEFINE gone == {t \in Tasks : task[t] = "running" /\ job[t] # "shutdown"}
    <3>1. Deleted(gone)
      BY <2>11 DEF Return
    <3> HIDE DEF gone
    <3>2. gone \in SUBSET Tasks
      BY DEF gone
    <3> QED BY <1>1, <2>11, <3>1, <3>2, DeletedType DEF TypeOK, Return
  <2> QED BY <1>1, <2>1, <2>2, <2>3, <2>4, <2>5, <2>6, <2>7, <2>8, <2>9, <2>10, <2>11
          DEF Next, dispatcherThread
<1> QED BY <1>1

(* The variables of the dispatcher keep their types.                       *)
THEOREM TypeCorrect == Spec => []TypeOK
<1>1. Init => TypeOK BY TypeInit
<1>2. TypeOK /\ [Next]_vars => TypeOK' BY TypeStep
<1> QED BY <1>1, <1>2, PTL DEF Spec

-----------------------------------------------------------------------------
LEMMA NoLostWakeupStep == TypeOK /\ NoLostWakeup /\ [Next]_vars => NoLostWakeup'
<1>1. ASSUME TypeOK, NoLostWakeup, [Next]_vars PROVE NoLostWakeup'
  <2>1. ASSUME dispatcherThread \/ SpuriousWakeup PROVE NoLostWakeup'
    BY <2>1 DEF NoLostWakeup, PopFront, dispatcherThread, Wait, SpuriousWakeup, NothingToTake, Take, PopFront, hasExpired,
        Stop, Shutdown, Return, FlushNext, Exit, SelfAddTask, SelfAddShutdown, Calling
  <2>2. ASSUME NEW p \in Producers, NEW t \in Tasks, NEW j \in Jobs, NEW timed \in BOOLEAN,
               NEW front \in BOOLEAN, AddTask(p, t, j, timed, front)
        PROVE  NoLostWakeup'
    <3>1. CASE Accepting /\ m_taskList = <<>>
      BY <2>2, <3>1 DEF NoLostWakeup, AddTask, WasEmpty
    <3>2. CASE ~Accepting
      BY <1>1, <2>2, <3>2 DEF NoLostWakeup, AddTask, Enqueue, objects
    <3>3. CASE m_taskList # <<>>
      BY <1>1, <2>2, <3>3 DEF NoLostWakeup, AddTask
    <3> QED BY <3>1, <3>2, <3>3
  <2>3. ASSUME NEW p \in Producers, Notify(p) PROVE NoLostWakeup'
    BY <2>3 DEF NoLostWakeup, Notify
  <2>4. ASSUME NEW t \in Tasks, Expire(t) PROVE NoLostWakeup'
    BY <1>1, <2>4 DEF NoLostWakeup, Expire
  <2>5. CASE UNCHANGED vars
    BY <1>1, <2>5 DEF NoLostWakeup, vars
  <2> QED BY <1>1, <2>1, <2>2, <2>3, <2>4, <2>5 DEF Next
<1> QED BY <1>1

(* However many threads add tasks, in whatever order they reach their      *)
(* notify_one, dispatcherThread never waits on a list that holds a task    *)
(* without a signal on its way.                                            *)
THEOREM NoWakeupIsLost == Spec => []NoLostWakeup
<1>1. Init => NoLostWakeup BY DEF Init, NoLostWakeup
<1>2. TypeOK /\ NoLostWakeup /\ [Next]_vars => NoLostWakeup' BY NoLostWakeupStep
<1> QED BY <1>1, <1>2, TypeCorrect, PTL DEF Spec
-----------------------------------------------------------------------------
(* The list and the objects.                                               *)

LEMMA EnqueueExact ==
  ASSUME TypeOK, ListIsExact, NEW t \in Tasks, NEW jb, NEW timed, NEW front,
         Enqueue(t, jb, timed, front)
  PROVE  ListIsExact'
<1>1. CASE Accepting
  <2>1. m_taskList \in Seq(Tasks) /\ task \in [Tasks -> {"free", "queued", "running"}]
    BY DEF TypeOK
  <2>2. \A i \in DOMAIN m_taskList : m_taskList[i] # t
    BY <2>1 DEF ListIsExact, Enqueue
  <2>3. CASE front
    <3>1. m_taskList' = <<t>> \o m_taskList
      BY <1>1, <2>3 DEF Enqueue
    <3>2. /\ \A i \in DOMAIN m_taskList' :
               \/ i = 1 /\ m_taskList'[i] = t
               \/ i - 1 \in DOMAIN m_taskList /\ m_taskList'[i] = m_taskList[i - 1]
          /\ 1 \in DOMAIN m_taskList' /\ m_taskList'[1] = t
          /\ \A i \in DOMAIN m_taskList :
               i + 1 \in DOMAIN m_taskList' /\ m_taskList'[i + 1] = m_taskList[i]
      BY <2>1, <3>1
    <3>3. \A i, j \in DOMAIN m_taskList' : m_taskList'[i] = m_taskList'[j] => i = j
      <4> SUFFICES ASSUME NEW i \in DOMAIN m_taskList', NEW j \in DOMAIN m_taskList',
                          m_taskList'[i] = m_taskList'[j]
                   PROVE  i = j
        OBVIOUS
      <4>1. i \in Nat /\ j \in Nat
        BY <2>1, <3>1
      <4>2. CASE i = 1 \/ j = 1
        BY <2>2, <3>2, <4>2
      <4>3. CASE i # 1 /\ j # 1
        <5>1. i - 1 = j - 1
          BY <3>2, <4>3 DEF ListIsExact
        <5> QED BY <4>1, <5>1
      <4> QED BY <4>2, <4>3
    <3>4. \A u \in Tasks : task'[u] = "queued" <=> task[u] = "queued" \/ u = t
      BY <1>1, <2>1 DEF Enqueue
    <3>5. \A u \in Tasks : (\E i \in DOMAIN m_taskList' : m_taskList'[i] = u)
                        <=> (\E i \in DOMAIN m_taskList : m_taskList[i] = u) \/ u = t
      BY <3>2
    <3> QED BY <3>3, <3>4, <3>5 DEF ListIsExact
  <2>4. CASE ~front
    <3>1. m_taskList' = Append(m_taskList, t)
      BY <1>1, <2>4 DEF Enqueue
    <3>2. /\ \A i \in DOMAIN m_taskList' :
               \/ i = Len(m_taskList) + 1 /\ m_taskList'[i] = t
               \/ i \in DOMAIN m_taskList /\ m_taskList'[i] = m_taskList[i]
          /\ Len(m_taskList) + 1 \in DOMAIN m_taskList'
          /\ \A i \in DOMAIN m_taskList :
               i \in DOMAIN m_taskList' /\ m_taskList'[i] = m_taskList[i]
      BY <2>1, <3>1
    <3>3. \A i, j \in DOMAIN m_taskList' : m_taskList'[i] = m_taskList'[j] => i = j
      BY <2>2, <3>2 DEF ListIsExact
    <3>4. \A u \in Tasks : task'[u] = "queued" <=> task[u] = "queued" \/ u = t
      BY <1>1, <2>1 DEF Enqueue
    <3>5. \A u \in Tasks : (\E i \in DOMAIN m_taskList' : m_taskList'[i] = u)
                        <=> (\E i \in DOMAIN m_taskList : m_taskList[i] = u) \/ u = t
      BY <3>2
    <3> QED BY <3>3, <3>4, <3>5 DEF ListIsExact
  <2> QED BY <2>3, <2>4
<1>2. CASE ~Accepting
  BY <1>2 DEF ListIsExact, Enqueue, objects
<1> QED BY <1>1, <1>2

LEMMA TailExact ==
  ASSUME TypeOK, ListIsExact, m_taskList # <<>>, m_taskList' = Tail(m_taskList),
         NEW s \in {"free", "running"}, task' = [task EXCEPT ![Head(m_taskList)] = s]
  PROVE  ListIsExact'
<1>1. m_taskList \in Seq(Tasks) /\ task \in [Tasks -> {"free", "queued", "running"}]
  BY DEF TypeOK
<1>2. \A i \in DOMAIN m_taskList : m_taskList[i] = Head(m_taskList) <=> i = 1
  BY <1>1 DEF ListIsExact
<1>3. \A i \in DOMAIN Tail(m_taskList) :
         i + 1 \in DOMAIN m_taskList /\ Tail(m_taskList)[i] = m_taskList[i + 1]
  BY <1>1
<1>4. \A i \in DOMAIN m_taskList : i # 1 => i - 1 \in DOMAIN Tail(m_taskList)
  BY <1>1
<1>5. \A i, j \in DOMAIN m_taskList' : m_taskList'[i] = m_taskList'[j] => i = j
  BY <1>1, <1>3 DEF ListIsExact
<1>6. ASSUME NEW t \in Tasks
      PROVE  task'[t] = "queued" <=> \E i \in DOMAIN m_taskList' : m_taskList'[i] = t
  <2>1. CASE t = Head(m_taskList)
    BY <1>1, <1>2, <1>3, <2>1
  <2>2. CASE t # Head(m_taskList)
    <3>1. task'[t] = "queued" <=> \E i \in DOMAIN m_taskList : m_taskList[i] = t
      BY <1>1, <2>2 DEF ListIsExact
    <3>2. ASSUME NEW i \in DOMAIN m_taskList, m_taskList[i] = t
          PROVE  \E k \in DOMAIN m_taskList' : m_taskList'[k] = t
      <4>1. i # 1
        BY <1>2, <2>2, <3>2
      <4>2. i - 1 \in DOMAIN Tail(m_taskList) /\ Tail(m_taskList)[i - 1] = m_taskList[i]
        BY <1>1, <1>3, <1>4, <4>1
      <4> QED BY <3>2, <4>2
    <3>3. ASSUME NEW k \in DOMAIN m_taskList', m_taskList'[k] = t
          PROVE  \E i \in DOMAIN m_taskList : m_taskList[i] = t
      BY <1>3, <3>3
    <3> QED BY <3>1, <3>2, <3>3
  <2> QED BY <2>1, <2>2
<1> QED BY <1>5, <1>6 DEF ListIsExact

LEMMA ListIsExactStep == TypeOK /\ ListIsExact /\ [Next]_vars => ListIsExact'
<1>1. ASSUME TypeOK, ListIsExact, [Next]_vars PROVE ListIsExact'
  <2>1. CASE Wait \/ SpuriousWakeup \/ NothingToTake \/ Stop \/ Shutdown \/ Exit
    BY <1>1, <2>1 DEF ListIsExact, Wait, SpuriousWakeup, NothingToTake, Stop, Shutdown, Exit,
        objects
  <2>2. CASE Take
    <3>1. PICK s \in {"free", "running"} : task' = [task EXCEPT ![Head(m_taskList)] = s]
      <4>1. Head(m_taskList) \in Tasks
        BY <1>1, <2>2 DEF TypeOK, Take
      <4> QED BY <1>1, <2>2, <4>1, DeletedOne DEF Take, PopFront, hasExpired, Begin
    <3> QED BY <1>1, <2>2, <3>1, TailExact DEF Take, PopFront, hasExpired
  <2>3. CASE FlushNext
    BY <1>1, <2>3, TailExact DEF FlushNext, PopFront, Begin
  <2>4. CASE Return
    <3>1. \A t \in Tasks : task'[t] = "queued" <=> task[t] = "queued"
      BY <1>1, <2>4 DEF Return, TypeOK, Deleted
    <3> QED BY <1>1, <2>4, <3>1 DEF Return, ListIsExact
  <2>5. ASSUME NEW t \in Tasks, NEW j \in Jobs, NEW timed \in BOOLEAN, NEW front \in BOOLEAN,
               SelfAddTask(t, j, timed, front)
        PROVE  ListIsExact'
    BY <1>1, <2>5, EnqueueExact DEF SelfAddTask
  <2>6. ASSUME NEW t \in Tasks, SelfAddShutdown(t) PROVE ListIsExact'
    BY <1>1, <2>6, EnqueueExact DEF SelfAddShutdown
  <2>7. ASSUME NEW p \in Producers, NEW t \in Tasks, NEW j \in Jobs, NEW timed \in BOOLEAN,
               NEW front \in BOOLEAN, AddTask(p, t, j, timed, front)
        PROVE  ListIsExact'
    BY <1>1, <2>7, EnqueueExact DEF AddTask
  <2>8. ASSUME NEW p \in Producers, Notify(p) PROVE ListIsExact'
    BY <1>1, <2>8 DEF ListIsExact, Notify, objects
  <2>9. ASSUME NEW t \in Tasks, Expire(t) PROVE ListIsExact'
    BY <1>1, <2>9 DEF ListIsExact, Expire
  <2>10. CASE UNCHANGED vars
    BY <1>1, <2>10 DEF ListIsExact, vars
  <2> QED BY <1>1, <2>1, <2>2, <2>3, <2>4, <2>5, <2>6, <2>7, <2>8, <2>9, <2>10
          DEF Next, dispatcherThread
<1> QED BY <1>1

(* No task is in the list twice, and none is in it that was run, deleted   *)
(* or refused: the dispatcher never touches an object it has freed.        *)
THEOREM ListStaysExact == Spec => []ListIsExact
<1>1. Init => ListIsExact BY DEF Init, ListIsExact
<1>2. TypeOK /\ ListIsExact /\ [Next]_vars => ListIsExact' BY ListIsExactStep
<1> QED BY <1>1, <1>2, TypeCorrect, PTL DEF Spec
-----------------------------------------------------------------------------
(* The stack of the dispatcher thread: what OneTaskAtATime needs to be     *)
(* inductive.  Nothing runs between two tasks; Game::shutdown is the only  *)
(* task with a call to make when another starts on top of it.              *)
Running(t) == task[t] = "running"

Stack ==
  /\ pc \in {"loop", "wait", "woken"} => ~flushing /\ \A t \in Tasks : ~Running(t)
  /\ pc = "exec" /\ ~flushing => \A t, u \in Tasks : Running(t) /\ Running(u) => t = u
  /\ pc = "flush" => /\ flushing
                     /\ \A t \in Tasks : Running(t) => job[t] = "shutdown"
                     /\ \A t, u \in Tasks : Running(t) /\ Running(u) => t = u
  /\ pc = "exec" /\ ~flushing =>
       \A t \in Tasks : Running(t) =>
         IF job[t] = "shutdown" THEN todo = <<"shutdown">>
         ELSE \A i \in DOMAIN todo : todo[i] # "shutdown"
  /\ pc = "exec" /\ flushing /\ todo = <<>> =>
       \A t, u \in Tasks : Running(t) /\ Running(u) /\ job[t] = "shutdown" /\ job[u] = "shutdown"
                          => t = u
  /\ pc = "exited" => \A t, u \in Tasks : Running(t) /\ Running(u) => t = u

StackInv == OneTaskAtATime /\ Stack

LEMMA BeginTodo ==
  ASSUME TypeOK, NEW t \in Tasks, Begin(t)
  PROVE  IF job[t] = "shutdown" THEN todo' = <<"shutdown">>
         ELSE \A i \in DOMAIN todo' : todo'[i] # "shutdown"
<1>1. CASE job[t] = "quiet"    BY <1>1 DEF Begin, Calls
<1>2. CASE job[t] = "post"     BY <1>2 DEF Begin, Calls
<1>3. CASE job[t] = "release"  BY <1>3 DEF Begin, Calls
<1>4. CASE job[t] = "quit"     BY <1>4 DEF Begin, Calls
<1>5. CASE job[t] = "shutdown" BY <1>5 DEF Begin, Calls
<1> QED BY <1>1, <1>2, <1>3, <1>4, <1>5 DEF TypeOK, JobNames

LEMMA TailTodo ==
  ASSUME TypeOK, todo # <<>>, todo' = Tail(todo), \A i \in DOMAIN todo : todo[i] # "shutdown"
  PROVE  \A i \in DOMAIN todo' : todo'[i] # "shutdown"
<1>1. \A i \in DOMAIN Tail(todo) : i + 1 \in DOMAIN todo /\ Tail(todo)[i] = todo[i + 1]
  BY DEF TypeOK
<1> QED BY <1>1

LEMMA EnqueueStack ==
  ASSUME TypeOK, StackInv, NEW t \in Tasks, NEW j, NEW timed, NEW front,
         Enqueue(t, j, timed, front)
  PROVE  /\ \A u \in Tasks : task'[u] = "running" <=> task[u] = "running"
         /\ \A u \in Tasks : task[u] = "running" => job'[u] = job[u]
  BY DEF TypeOK, Enqueue, Accepting, objects

LEMMA StackInvStep == TypeOK /\ ListIsExact /\ StackInv /\ [Next]_vars => StackInv'
<1>1. ASSUME TypeOK, ListIsExact, StackInv, [Next]_vars PROVE StackInv'
  <2>1. CASE Wait \/ SpuriousWakeup \/ NothingToTake
    BY <1>1, <2>1 DEF StackInv, OneTaskAtATime, Stack, Running, Wait, SpuriousWakeup,
        NothingToTake, objects
  <2>2. CASE Take
    <3>1. /\ flushing' = flushing /\ ~flushing
          /\ \A t \in Tasks : task[t] # "running"
          /\ Head(m_taskList) \in Tasks
      BY <1>1, <2>2 DEF TypeOK, StackInv, Stack, Running, Take, PopFront, hasExpired
    <3>2. CASE clock[Head(m_taskList)] = "expired"
      BY <1>1, <2>2, <3>1, <3>2 DEF TypeOK, StackInv, OneTaskAtATime, Stack, Running, Take, PopFront, hasExpired, Deleted
    <3>3. CASE clock[Head(m_taskList)] # "expired"
      <4>1. /\ pc' = "exec" /\ job' = job
            /\ \A t \in Tasks : task'[t] = "running" <=> t = Head(m_taskList)
        BY <1>1, <2>2, <3>1, <3>3 DEF TypeOK, Take, PopFront, hasExpired, Begin
      <4>2. IF job[Head(m_taskList)] = "shutdown" THEN todo' = <<"shutdown">>
            ELSE \A i \in DOMAIN todo' : todo'[i] # "shutdown"
        BY <1>1, <2>2, <3>1, <3>3, BeginTodo DEF Take, PopFront, hasExpired
      <4> QED BY <3>1, <4>1, <4>2 DEF StackInv, OneTaskAtATime, Stack, Running
    <3> QED BY <3>2, <3>3
  <2>3. CASE FlushNext
    <3>1. /\ pc = "flush" /\ pc' = "exec" /\ flushing' = flushing /\ job' = job
          /\ Head(m_taskList) \in Tasks /\ flushing
      BY <1>1, <2>3 DEF TypeOK, FlushNext, PopFront, StackInv, Stack
    <3>2. \A t \in Tasks : task'[t] = "running" <=> task[t] = "running" \/ t = Head(m_taskList)
      BY <1>1, <2>3 DEF TypeOK, FlushNext, PopFront, Begin
    <3>3. job[Head(m_taskList)] = "shutdown" => todo' = <<"shutdown">>
      BY <2>3 DEF FlushNext, PopFront, Begin, Calls
    <3> QED BY <1>1, <3>1, <3>2, <3>3 DEF StackInv, OneTaskAtATime, Stack, Running
  <2>4. CASE Stop \/ Shutdown
    <3>1. CASE Stop
      <4>1. todo # <<>> /\ todo # <<"shutdown">> /\ todo' = Tail(todo)
        BY <3>1 DEF Stop, Calling
      <4> QED BY <1>1, <3>1, <4>1, TailTodo
              DEF StackInv, OneTaskAtATime, Stack, Running, Stop, Calling, objects
    <3>2. CASE Shutdown
      <4>1. ~(\A i \in DOMAIN todo : todo[i] # "shutdown")
        BY <1>1, <3>2 DEF TypeOK, Shutdown, Calling
      <4> QED BY <1>1, <3>2, <4>1 DEF StackInv, OneTaskAtATime, Stack, Running, Shutdown, Calling, objects
    <3> QED BY <2>4, <3>1, <3>2
  <2>5. CASE Return
    <3>1. /\ flushing' = flushing /\ todo' = <<>>
          /\ \A t \in Tasks : task'[t] = "running" <=> task[t] = "running" /\ job[t] = "shutdown"
          /\ \A t \in Tasks : task'[t] = "running" => job'[t] = job[t]
      BY <1>1, <2>5 DEF TypeOK, Return, Deleted
    <3>2. CASE flushing
      BY <1>1, <2>5, <3>1, <3>2 DEF StackInv, OneTaskAtATime, Stack, Running, Return
    <3>3. CASE ~flushing
      <4>1. todo # <<"shutdown">>
        BY <2>5 DEF Return
      <4> QED BY <1>1, <2>5, <3>1, <3>3, <4>1 DEF StackInv, OneTaskAtATime, Stack, Running, Return
    <3> QED BY <3>2, <3>3
  <2>6. CASE Exit
    BY <1>1, <2>6 DEF StackInv, OneTaskAtATime, Stack, Running, Exit, objects
  <2>7. ASSUME NEW t \in Tasks, NEW j \in Jobs, NEW timed \in BOOLEAN, NEW front \in BOOLEAN,
               SelfAddTask(t, j, timed, front)
        PROVE  StackInv'
    <3>1. todo # <<>> /\ todo' = Tail(todo) /\ todo # <<"shutdown">> /\ pc = "exec" /\ pc' = pc /\ ~flushing /\ flushing' = flushing
      BY <2>7 DEF SelfAddTask, Calling
    <3>2. /\ \A u \in Tasks : task'[u] = "running" <=> task[u] = "running"
          /\ \A u \in Tasks : task[u] = "running" => job'[u] = job[u]
      BY <1>1, <2>7, EnqueueStack DEF SelfAddTask
    <3> QED BY <1>1, <3>1, <3>2, TailTodo DEF StackInv, OneTaskAtATime, Stack, Running
  <2>8. ASSUME NEW t \in Tasks, SelfAddShutdown(t) PROVE StackInv'
    <3>1. todo # <<>> /\ todo' = Tail(todo) /\ todo # <<"shutdown">> /\ pc = "exec" /\ pc' = pc /\ ~flushing /\ flushing' = flushing
      BY <2>8 DEF SelfAddShutdown, Calling
    <3>2. /\ \A u \in Tasks : task'[u] = "running" <=> task[u] = "running"
          /\ \A u \in Tasks : task[u] = "running" => job'[u] = job[u]
      BY <1>1, <2>8, EnqueueStack DEF SelfAddShutdown
    <3> QED BY <1>1, <3>1, <3>2, TailTodo DEF StackInv, OneTaskAtATime, Stack, Running
  <2>9. ASSUME NEW p \in Producers, NEW t \in Tasks, NEW j \in Jobs, NEW timed \in BOOLEAN,
               NEW front \in BOOLEAN, AddTask(p, t, j, timed, front)
        PROVE  StackInv'
    <3>1. ~flushing /\ flushing' = flushing /\ pc' = pc /\ todo' = todo
      BY <2>9 DEF AddTask
    <3>2. /\ \A u \in Tasks : task'[u] = "running" <=> task[u] = "running"
          /\ \A u \in Tasks : task[u] = "running" => job'[u] = job[u]
      BY <1>1, <2>9, EnqueueStack DEF AddTask
    <3> QED BY <1>1, <3>1, <3>2 DEF StackInv, OneTaskAtATime, Stack, Running
  <2>10. ASSUME NEW p \in Producers, Notify(p) PROVE StackInv'
    BY <1>1, <2>10 DEF StackInv, OneTaskAtATime, Stack, Running, Notify, objects
  <2>11. ASSUME NEW t \in Tasks, Expire(t) PROVE StackInv'
    BY <1>1, <2>11 DEF StackInv, OneTaskAtATime, Stack, Running, Expire
  <2>12. CASE UNCHANGED vars
    BY <1>1, <2>12 DEF StackInv, OneTaskAtATime, Stack, Running, vars
  <2> QED BY <1>1, <2>1, <2>2, <2>3, <2>4, <2>5, <2>6, <2>7, <2>8, <2>9, <2>10, <2>11, <2>12
          DEF Next, dispatcherThread
<1> QED BY <1>1

(* Game logic is never re-entered: one task runs at a time, but for those  *)
(* that flush() runs inside the last Game::shutdown.                       *)
THEOREM OneTaskRuns == Spec => []OneTaskAtATime
<1>1. Init => StackInv BY DEF Init, StackInv, OneTaskAtATime, Stack, Running
<1>2. TypeOK /\ ListIsExact /\ StackInv /\ [Next]_vars => StackInv' BY StackInvStep
<1>3. StackInv => OneTaskAtATime BY DEF StackInv
<1> QED BY <1>1, <1>2, <1>3, TypeCorrect, ListStaysExact, PTL DEF Spec
-----------------------------------------------------------------------------
(* The dispatcher implements TaskQueue.                                    *)
Active == {t \in Tasks : task[t] = "running"}

LEMMA EnqueueAccepts ==
  ASSUME TypeOK, ListIsExact, NEW t \in Tasks, NEW j, NEW timed, NEW front,
         Enqueue(t, j, timed, front), m_threadState' = m_threadState
  PROVE  [TQ!Next]_TQ!vars
<1>1. CASE Accepting
  <2>1. t \notin TQ!Waiting /\ t \notin Active
    BY DEF ListIsExact, Enqueue, TQ!Waiting, Active
  <2>2. Active' = Active
    BY <1>1 DEF TypeOK, Enqueue, Active
  <2>3. TQ!Accept(t)
    BY <1>1, <2>1, <2>2 DEF Enqueue, Accepting, TQ!Accept, Active
  <2> QED BY <2>3 DEF TQ!Next
<1>2. CASE ~Accepting
  BY <1>2 DEF Enqueue, objects, TQ!vars
<1> QED BY <1>1, <1>2

LEMMA StepRefines == TypeOK /\ ListIsExact /\ StackInv /\ [Next]_vars => [TQ!Next]_TQ!vars
<1>1. ASSUME TypeOK, ListIsExact, StackInv, [Next]_vars PROVE [TQ!Next]_TQ!vars
  <2>1. CASE Wait \/ SpuriousWakeup \/ NothingToTake \/ Exit
    BY <2>1 DEF Wait, SpuriousWakeup, NothingToTake, Exit, objects, TQ!vars
  <2>2. CASE Take \/ FlushNext
    <3>1. Head(m_taskList) \in Tasks /\ task[Head(m_taskList)] = "queued"
      BY <1>1, <2>2 DEF TypeOK, ListIsExact, Take, PopFront, hasExpired, FlushNext, PopFront
    <3>2. PICK s \in {"free", "running"} : task' = [task EXCEPT ![Head(m_taskList)] = s]
      BY <1>1, <2>2, <3>1, DeletedOne DEF Take, PopFront, hasExpired, FlushNext, Begin
    <3>3. Active' = IF s = "running" THEN Active \cup {Head(m_taskList)} ELSE Active
      BY <1>1, <3>1, <3>2 DEF TypeOK, Active
    <3>4. TQ!Serve
      BY <2>2, <3>3 DEF Take, PopFront, hasExpired, FlushNext, PopFront, TQ!Serve, Active
    <3> QED BY <3>4 DEF TQ!Next
  <2>3. CASE Stop \/ Shutdown
    <3>1. TQ!Close
      BY <2>3 DEF Stop, Shutdown, objects, TQ!Close
    <3> QED BY <3>1 DEF TQ!Next
  <2>4. CASE Return
    <3>1. /\ m_taskList' = m_taskList /\ m_threadState' = m_threadState
          /\ \A t \in Tasks : task'[t] = "running" <=> task[t] = "running" /\ job[t] = "shutdown"
      BY <1>1, <2>4 DEF TypeOK, Return, Deleted
    <3>2. CASE \E t \in Active : job[t] # "shutdown"
      <4>1. PICK t \in Active : job[t] # "shutdown"
        BY <3>2
      <4>2. \A u \in Active : job[u] # "shutdown" => u = t
        BY <1>1, <4>1 DEF StackInv, OneTaskAtATime, Active
      <4>3. Active' = Active \ {t}
        BY <3>1, <4>1, <4>2 DEF Active
      <4>4. TQ!Finish(t)
        BY <3>1, <4>1, <4>3 DEF TQ!Finish, Active
      <4> QED BY <4>1, <4>4 DEF TQ!Next, Active
    <3>3. CASE ~\E t \in Active : job[t] # "shutdown"
      <4>1. Active' = Active
        BY <3>1, <3>3 DEF Active
      <4> QED BY <3>1, <4>1 DEF TQ!vars, Active
    <3> QED BY <3>2, <3>3
  <2>5. ASSUME NEW t \in Tasks, NEW j \in Jobs, NEW timed \in BOOLEAN, NEW front \in BOOLEAN,
               SelfAddTask(t, j, timed, front)
        PROVE  [TQ!Next]_TQ!vars
    BY <1>1, <2>5, EnqueueAccepts DEF SelfAddTask
  <2>6. ASSUME NEW t \in Tasks, SelfAddShutdown(t) PROVE [TQ!Next]_TQ!vars
    BY <1>1, <2>6, EnqueueAccepts DEF SelfAddShutdown
  <2>7. ASSUME NEW p \in Producers, NEW t \in Tasks, NEW j \in Jobs, NEW timed \in BOOLEAN,
               NEW front \in BOOLEAN, AddTask(p, t, j, timed, front)
        PROVE  [TQ!Next]_TQ!vars
    BY <1>1, <2>7, EnqueueAccepts DEF AddTask
  <2>8. ASSUME NEW p \in Producers, Notify(p) PROVE [TQ!Next]_TQ!vars
    BY <2>8 DEF Notify, objects, TQ!vars
  <2>9. ASSUME NEW t \in Tasks, Expire(t) PROVE [TQ!Next]_TQ!vars
    BY <2>9 DEF Expire, TQ!vars
  <2>10. CASE UNCHANGED vars
    BY <2>10 DEF vars, TQ!vars
  <2> QED BY <1>1, <2>1, <2>2, <2>3, <2>4, <2>5, <2>6, <2>7, <2>8, <2>9, <2>10
          DEF Next, dispatcherThread
<1> QED BY <1>1

(* Whatever the threads do, what tasks see is one double-ended queue, each *)
(* accepted task leaving it from the head, once.                           *)
THEOREM DispatcherRefinesTaskQueue == Spec => ImplementsTaskQueue
<1>1. Init => TQ!Init
  BY DEF Init, TQ!Init
<1>2. Init => StackInv BY DEF Init, StackInv, OneTaskAtATime, Stack, Running
<1>3. TypeOK /\ ListIsExact /\ StackInv /\ [Next]_vars => StackInv' BY StackInvStep
<1>4. TypeOK /\ ListIsExact /\ StackInv /\ [Next]_vars => [TQ!Next]_TQ!vars BY StepRefines
<1> QED BY <1>1, <1>2, <1>3, <1>4, TypeCorrect, ListStaysExact, PTL
        DEF Spec, ImplementsTaskQueue, TQ!SafeSpec
-----------------------------------------------------------------------------
(* The end of the server: what ShutdownIsNotLost needs to be inductive.    *)
(* The dispatcher closes only after the task that shuts down has queued    *)
(* Game::shutdown, so that is accepted; it has no expiration, so no Take   *)
(* drops it, and Return deletes any other task but not it.                 *)
ShutsDown(t) ==
  /\ job[t] = "shutdown"
  /\ \/ task[t] = "running"
     \/ task[t] = "queued" /\ clock[t] = "never"

ShutdownInv ==
  /\ todo \in {<<>>, Calls["post"], Calls["release"], Calls["quit"], <<"stop">>, Calls["shutdown"]}
  /\ todo \in {Calls["quit"], <<"stop">>} => quitting
  /\ m_threadState = "CLOSING" => quitting
  /\ todo = Calls["quit"] => pc = "exec" /\ (~ flushing => m_threadState = "RUNNING")
  /\ quitting /\ todo # Calls["quit"] => \E t \in Tasks : ShutsDown(t)

\* The calls of the jobs, and what is left of them.
LEMMA CallsAre ==
  /\ Calls["quiet"] = <<>> /\ Calls["post"] = <<"addTask">> /\ Calls["release"] = <<"addTaskFront">>
  /\ Calls["quit"] = <<"addShutdown", "stop">> /\ Calls["shutdown"] = <<"shutdown">>
  /\ Tail(Calls["quit"]) = <<"stop">> /\ Head(Calls["quit"]) = "addShutdown"
  /\ Tail(Calls["post"]) = <<>> /\ Tail(Calls["release"]) = <<>>
BY DEF Calls

LEMMA ShutdownBegins == Init => ShutdownInv
BY CallsAre DEF Init, ShutdownInv

LEMMA EnqueueKeeps ==
  ASSUME TypeOK, NEW u \in Tasks, NEW j, NEW timed, NEW front, Enqueue(u, j, timed, front)
  PROVE  \A t \in Tasks : ShutsDown(t) => ShutsDown(t)'
BY DEF TypeOK, Enqueue, objects, ShutsDown

LEMMA BeginShutsDown ==
  ASSUME TypeOK, ShutdownInv, NEW u \in Tasks, Begin(u), pc # "exec", pc' = "exec",
         UNCHANGED <<m_threadState, flushing, job, clock>>,
         flushing \/ m_threadState # "TERMINATED"
  PROVE  ShutdownInv'
<1>1. todo # Calls["quit"]
  BY DEF ShutdownInv
<1>2. \A t \in Tasks : ShutsDown(t) => ShutsDown(t)'
  BY DEF TypeOK, Begin, ShutsDown
<1>3. job[u] \in JobNames
  BY DEF TypeOK
<1>4. CASE job[u] = "quit" /\ ~ quitting
  <2>1. todo' = Calls["quit"] /\ quitting' = TRUE /\ m_threadState' = m_threadState /\ flushing' = flushing
    BY <1>4 DEF Begin
  <2>2. ~ flushing => m_threadState = "RUNNING"
    BY <1>4 DEF ShutdownInv, TypeOK
  <2> QED BY <2>1, <2>2 DEF ShutdownInv
<1>5. CASE ~ (job[u] = "quit" /\ ~ quitting)
  <2>1. todo' \in {<<>>, Calls["post"], Calls["release"], Calls["shutdown"]}
    BY <1>3, <1>5, CallsAre DEF Begin, JobNames
  <2>2. todo' # Calls["quit"] /\ todo' # <<"stop">>
    BY <2>1, CallsAre
  <2>3. quitting' = quitting
    BY <1>5 DEF Begin, TypeOK
  <2> QED BY <1>1, <1>2, <2>1, <2>2, <2>3 DEF ShutdownInv
<1> QED BY <1>4, <1>5

LEMMA ShutdownStep == TypeOK /\ ListIsExact /\ StackInv /\ ShutdownInv /\ [Next]_vars => ShutdownInv'
<1>1. ASSUME TypeOK, ListIsExact, StackInv, ShutdownInv, [Next]_vars PROVE ShutdownInv'
  <2>1. CASE Wait \/ SpuriousWakeup \/ NothingToTake
    BY <1>1, <2>1 DEF ShutdownInv, ShutsDown, Wait, SpuriousWakeup, NothingToTake, objects
  <2>2. CASE Take
    <3> DEFINE u == Head(m_taskList)
    <3>1. u \in Tasks /\ task[u] = "queued"
      BY <1>1, <2>2 DEF TypeOK, ListIsExact, Take
    <3>2. CASE clock[u] = "expired"
      <4>1. /\ Deleted({u}) /\ pc' = "loop" /\ pc # "exec"
            /\ UNCHANGED <<m_threadState, todo, flushing, quitting>>
        BY <2>2, <3>2 DEF Take, hasExpired
      <4> HIDE DEF u
      <4>2. \A t \in Tasks : ShutsDown(t) => ShutsDown(t)'
        BY <1>1, <3>1, <3>2, <4>1 DEF TypeOK, ShutsDown, Deleted
      <4> QED BY <1>1, <4>1, <4>2 DEF ShutdownInv
    <3>3. CASE clock[u] # "expired"
      <4>1. /\ Begin(u) /\ pc' = "exec" /\ pc # "exec" /\ m_threadState # "TERMINATED"
            /\ UNCHANGED <<m_threadState, flushing, job, clock>>
        BY <2>2, <3>3 DEF Take, hasExpired
      <4> HIDE DEF u
      <4> QED BY <1>1, <3>1, <4>1, BeginShutsDown
    <3> QED BY <3>2, <3>3
  <2>3. CASE FlushNext
    <3>1. Head(m_taskList) \in Tasks /\ flushing
      BY <1>1, <2>3 DEF TypeOK, FlushNext, StackInv, Stack
    <3> QED BY <1>1, <2>3, <3>1, BeginShutsDown DEF FlushNext
  <2>4. CASE Stop
    <3>1. todo = <<"stop">>
      BY <1>1, <2>4, CallsAre DEF Stop, Calling, ShutdownInv
    <3>2. todo' = <<>> /\ m_threadState' = "CLOSING" /\ UNCHANGED <<pc, quitting, flushing, objects>>
      BY <2>4, <3>1 DEF Stop
    <3> QED BY <1>1, <3>1, <3>2, CallsAre DEF ShutdownInv, ShutsDown, objects
  <2>5. CASE Shutdown
    <3>1. todo = Calls["shutdown"]
      BY <1>1, <2>5, CallsAre DEF Shutdown, Calling, ShutdownInv
    <3>2. todo' = todo /\ m_threadState' = "TERMINATED" /\ UNCHANGED <<quitting, objects>>
      BY <2>5 DEF Shutdown
    <3> QED BY <1>1, <3>1, <3>2, CallsAre DEF ShutdownInv, ShutsDown, objects
  <2>6. CASE Return
    <3>1. todo = <<>> /\ UNCHANGED <<m_threadState, todo, quitting, flushing>>
      BY <2>6 DEF Return
    <3>2. \A t \in Tasks : ShutsDown(t) => ShutsDown(t)'
      BY <1>1, <2>6 DEF TypeOK, Return, Deleted, ShutsDown
    <3> QED BY <1>1, <3>1, <3>2, CallsAre DEF ShutdownInv
  <2>7. CASE Exit
    <3>1. pc # "exec" /\ UNCHANGED <<m_threadState, todo, quitting, objects>>
      BY <2>7 DEF Exit
    <3> QED BY <1>1, <3>1 DEF ShutdownInv, ShutsDown, objects
  <2>8. ASSUME NEW t \in Tasks, NEW j \in Jobs, NEW timed \in BOOLEAN, NEW front \in BOOLEAN,
               SelfAddTask(t, j, timed, front)
        PROVE  ShutdownInv'
    <3>1. todo = Calls["post"] \/ todo = Calls["release"]
      BY <1>1, <2>8, CallsAre DEF SelfAddTask, Calling, ShutdownInv
    <3>2. todo' = <<>> /\ UNCHANGED <<m_threadState, quitting>>
      BY <2>8, <3>1, CallsAre DEF SelfAddTask
    <3>3. \A u \in Tasks : ShutsDown(u) => ShutsDown(u)'
      BY <1>1, <2>8, EnqueueKeeps DEF SelfAddTask
    <3> QED BY <1>1, <3>1, <3>2, <3>3, CallsAre DEF ShutdownInv
  <2>9. ASSUME NEW t \in Tasks, SelfAddShutdown(t) PROVE ShutdownInv'
    <3>1. todo = Calls["quit"] /\ ~ flushing
      BY <1>1, <2>9, CallsAre DEF SelfAddShutdown, Calling, ShutdownInv
    <3>2. todo' = <<"stop">> /\ UNCHANGED <<m_threadState, quitting, flushing, pc>>
      BY <2>9, <3>1, CallsAre DEF SelfAddShutdown
    <3>3. Accepting /\ quitting
      BY <1>1, <3>1 DEF ShutdownInv, Accepting
    <3>4. ShutsDown(t)'
      BY <1>1, <2>9, <3>3 DEF SelfAddShutdown, Enqueue, TypeOK, ShutsDown
    <3> QED BY <1>1, <3>2, <3>3, <3>4, CallsAre DEF ShutdownInv
  <2>10. ASSUME NEW p \in Producers, NEW t \in Tasks, NEW j \in Jobs, NEW timed \in BOOLEAN,
                NEW front \in BOOLEAN, AddTask(p, t, j, timed, front)
         PROVE  ShutdownInv'
    <3>1. UNCHANGED <<m_threadState, pc, todo, flushing, quitting>>
      BY <2>10 DEF AddTask
    <3>2. \A u \in Tasks : ShutsDown(u) => ShutsDown(u)'
      BY <1>1, <2>10, EnqueueKeeps DEF AddTask
    <3> QED BY <1>1, <3>1, <3>2 DEF ShutdownInv
  <2>11. ASSUME NEW p \in Producers, Notify(p) PROVE ShutdownInv'
    BY <1>1, <2>11 DEF ShutdownInv, ShutsDown, Notify, objects
  <2>12. ASSUME NEW t \in Tasks, Expire(t) PROVE ShutdownInv'
    <3>1. \A u \in Tasks : ShutsDown(u) => ShutsDown(u)'
      BY <1>1, <2>12 DEF TypeOK, Expire, ShutsDown
    <3> QED BY <1>1, <2>12, <3>1 DEF Expire, ShutdownInv
  <2>13. CASE UNCHANGED vars
    BY <1>1, <2>13 DEF ShutdownInv, ShutsDown, vars
  <2> QED BY <1>1, <2>1, <2>2, <2>3, <2>4, <2>5, <2>6, <2>7, <2>8, <2>9, <2>10, <2>11, <2>12, <2>13
          DEF Next, dispatcherThread
<1> QED BY <1>1

(* Whatever else is queued, refused, expired or flushed: once somebody has *)
(* ordered the server to shut down, Game::shutdown is on its way.          *)
THEOREM ShutdownStaysOnItsWay == Spec => []ShutdownIsNotLost
<1>1. Init => StackInv BY DEF Init, StackInv, OneTaskAtATime, Stack, Running
<1>2. TypeOK /\ ListIsExact /\ StackInv /\ [Next]_vars => StackInv' BY StackInvStep
<1>3. Init => ShutdownInv BY ShutdownBegins
<1>4. TypeOK /\ ListIsExact /\ StackInv /\ ShutdownInv /\ [Next]_vars => ShutdownInv' BY ShutdownStep
<1>5. ShutdownInv => ShutdownIsNotLost
  <2>1. 1 \in DOMAIN Calls["quit"] /\ Calls["quit"][1] = "addShutdown"
    BY CallsAre
  <2> QED BY <2>1 DEF ShutdownInv, ShutdownIsNotLost, ShutsDown
<1> QED BY <1>1, <1>2, <1>3, <1>4, <1>5, TypeCorrect, ListStaysExact, PTL DEF Spec

-----------------------------------------------------------------------------
(* Storage.                                                                *)

AllChests == [Chests -> SUBSET Wares]

\* The rows that say of memory what is in its chests, or of a house what it is.
RowOf(r, N) == [row |-> r, home |-> NoHome, chests |-> [c \in ChestsOf(r) |-> N[c]]]
HouseRow(h) == [row |-> Houses, home |-> h, chests |-> <<>>]
WritesFor(N) == {RowOf(r, N) : r \in Rows} \cup {HouseRow(h) : h \in {x \in HomeType : ~ x.clear}}

Unwritten(l, r) == \A i \in DOMAIN l : l[i].row # r

\* A player is saved once in a task, and before the house is.
Ordered(l) ==
  \A i, j \in DOMAIN l :
    /\ l[i].row = l[j].row /\ l[i].row \in Owners => i = j
    /\ l[i].row = Houses /\ j > i => l[j].row \notin Owners

\* A thing is in one place; money may have been spent.
OneOf(t, N) ==
  /\ \A c, d \in Chests : t \in N[c] /\ t \in N[d] => c = d
  /\ t \notin Gold => \E c \in Chests : t \in N[c]

\* What a call passes on: memory as the rows it leaves to be written will say, and as those
\* it leaves alone say, but for those of the players away whom it has yet to save.
Passed(W) == [chests : AllChests, home : HomeType, writes : W, moved : [Wares -> SUBSET Rows]]
Call(g, away) ==
  /\ g \in Passed(Seq(WritesFor(g.chests))) /\ Ordered(g.writes)
  /\ \A r \in Owners \ (present \cup away) :
       Unwritten(g.writes, r) => \A c \in ChestsOf(r) : g.chests[c] = stored[c]
  /\ \A t \in Wares, c \in Chests :
       c[1] \notin stale[t] \cup g.moved[t] => (t \in stored[c] <=> t \in g.chests[c])
  /\ \A t \in Wares \ suspect : OneOf(t, g.chests)

\* The lists are the owner's, and the rows of the house say who that is.
Fit(h) == h.lists \in {NoOwner, h.owner}
Housed(l, h) == \A i \in DOMAIN l : l[i].row = Houses => Fit(l[i].home) /\ l[i].home.owner = h.owner
Settled(g) == Fit(g.home) /\ Housed(g.writes, g.home)
Owned(g) == Settled(g) /\ (Unwritten(g.writes, Houses) => g.home.owner = homeRow.owner)

LEMMA ChestFacts ==
  /\ Land \in Chests /\ Tiles \in Rows /\ Tiles \notin Owners /\ Houses \notin Rows
  /\ Rows = Owners \cup {Tiles} /\ NoOwner \notin Owners
  /\ \A p \in Owners : Inv(p) \in Chests /\ Depot(p) \in Chests /\ Inv(p)[1] = p /\ Depot(p)[1] = p
  /\ \A p, q \in Owners : Inv(p) # Depot(q) /\ Inv(p) # Land /\ Depot(p) # Land
  /\ \A c \in Chests : c[1] \in Rows /\ (c[1] = Tiles <=> c = Land)
  /\ ChestsOf(Tiles) = {Land} /\ ChestsOf(Houses) = {} /\ Land[1] = Tiles
<1>1. Houses # Tiles /\ Tiles \notin Owners /\ Houses \notin Owners /\ NoOwner \notin Owners
  BY StorageAssumption DEF Houses, Tiles
<1>2. /\ Land \in Chests /\ Land[1] = Tiles
      /\ \A p \in Owners : Inv(p) \in Chests /\ Depot(p) \in Chests /\ Inv(p)[1] = p /\ Depot(p)[1] = p
  BY DEF Chests, Land, Inv, Depot
<1>3. \A p, q \in Owners : Inv(p) # Depot(q) /\ Inv(p) # Land /\ Depot(p) # Land
  BY <1>1, <1>2 DEF Inv, Depot
<1>4. \A c \in Chests : c[1] \in Rows /\ (c[1] = Tiles <=> c = Land)
  BY <1>1 DEF Chests, Rows, Land
<1> QED BY <1>1, <1>2, <1>3, <1>4 DEF Rows, ChestsOf

LEMMA WriteFacts ==
  ASSUME NEW N \in AllChests, NEW w \in WritesFor(N)
  PROVE  /\ w.row \in Rows \cup {Houses} /\ w.home \in HomeType
         /\ w.row = Houses => ~ w.home.clear
         /\ \A c \in Chests : c \in DOMAIN w.chests <=> c[1] = w.row
         /\ \A c \in Chests : c[1] = w.row => w.chests[c] = N[c]
<1>1. CASE \E r \in Rows : w = RowOf(r, N)
  <2>1. PICK r \in Rows : w = RowOf(r, N)
    BY <1>1
  <2>2. w.row = r /\ w.home = NoHome /\ w.chests = [c \in ChestsOf(r) |-> N[c]]
    BY <2>1 DEF RowOf
  <2>3. NoHome \in HomeType
    BY DEF NoHome, HomeType
  <2> QED BY <2>2, <2>3, ChestFacts DEF ChestsOf
<1>2. CASE \E h \in HomeType : ~ h.clear /\ w = HouseRow(h)
  <2>1. PICK h \in HomeType : ~ h.clear /\ w = HouseRow(h)
    BY <1>2
  <2>2. w.row = Houses /\ w.home = h /\ w.chests = <<>>
    BY <2>1 DEF HouseRow
  <2>3. DOMAIN <<>> = {}
    OBVIOUS
  <2> QED BY <2>1, <2>2, <2>3, ChestFacts
<1> QED BY <1>1, <1>2 DEF WritesFor

LEMMA SomeoneHereIsFine ==
  ASSUME NEW g, NEW away, Call(g, away), away \subseteq present \cup {Tiles}
  PROVE  Call(g, {})
<1>1. \A r \in Owners \ (present \cup {}) : r \in Owners \ (present \cup away)
  BY ChestFacts
<1> QED BY <1>1 DEF Call

-----------------------------------------------------------------------------
(* Adding a row.                                                            *)

AddWrite(g, w) == [g EXCEPT !.writes = Append(@, w)]

LEMMA Added ==
  ASSUME NEW g, NEW away, Call(g, away), NEW w \in WritesFor(g.chests),
         w.row \in Owners => Unwritten(g.writes, w.row) /\ Unwritten(g.writes, Houses)
  PROVE  LET v == AddWrite(g, w)
         IN  /\ Call(v, away \ {w.row}) /\ v.chests = g.chests /\ v.home = g.home
             /\ v.moved = g.moved /\ v.writes = Append(g.writes, w)
             /\ \A r : Unwritten(g.writes, r) /\ w.row # r => Unwritten(v.writes, r)
             /\ ~ Unwritten(v.writes, w.row)
             /\ Settled(g) /\ (w.row = Houses => Fit(w.home) /\ w.home.owner = g.home.owner) => Settled(v)
<1> DEFINE v == AddWrite(g, w)
           l == g.writes
           W == WritesFor(g.chests)
           n == Len(l)
<1>1. g \in Passed(Seq(W))
  BY DEF Call
<1>2. l \in Seq(W) /\ n \in Nat /\ DOMAIN l = 1 .. n
  BY <1>1, LenProperties DEF Passed
<1>3. /\ v \in Passed(Seq(W)) /\ v.chests = g.chests /\ v.home = g.home /\ v.moved = g.moved
      /\ v.writes = Append(l, w)
  <2> DEFINE S == Seq(W)
             a == Append(l, w)
             M == [Wares -> SUBSET Rows]
             R == [chests : AllChests, home : HomeType, writes : S, moved : M]
             e == [g EXCEPT !.writes = a]
  <2>1. a \in S
    BY <1>2 DEF W
  <2>2. g \in R
    BY <1>1 DEF Passed
  <2> HIDE DEF S, a, M
  <2>3. e \in R /\ e.chests = g.chests /\ e.home = g.home /\ e.moved = g.moved /\ e.writes = a
    BY <2>1, <2>2
  <2>4. v = e
    BY DEF AddWrite, a
  <2> HIDE DEF e, v
  <2> QED BY <2>3, <2>4 DEF Passed, S, a, M
<1>4. DOMAIN v.writes = 1 .. n + 1 /\ \A i \in 1 .. n + 1 : v.writes[i] = IF i = n + 1 THEN w ELSE l[i]
  BY <1>2, <1>3, AppendProperties
<1> HIDE DEF v, l, n, W
<1>5. ASSUME NEW r, Unwritten(v.writes, r) PROVE Unwritten(l, r) /\ r # w.row
  <2>1. n + 1 \in DOMAIN v.writes /\ v.writes[n + 1] = w
    BY <1>2, <1>4
  <2>2. \A i \in DOMAIN l : i \in DOMAIN v.writes /\ v.writes[i] = l[i]
    BY <1>2, <1>4
  <2> QED BY <1>5, <2>1, <2>2 DEF Unwritten
<1>6. Ordered(v.writes)
  <2>1. Ordered(l) /\ (w.row \in Owners => Unwritten(l, w.row) /\ Unwritten(l, Houses))
    BY DEF Call, l
  <2> SUFFICES ASSUME NEW i \in DOMAIN v.writes, NEW j \in DOMAIN v.writes
               PROVE  LET a == v.writes[i].row
                          b == v.writes[j].row
                      IN  (a = b /\ a \in Owners => i = j) /\ (a = Houses /\ j > i => b \notin Owners)
    BY DEF Ordered
  <2>2. i \in 1 .. n + 1 /\ j \in 1 .. n + 1
    BY <1>4
  <2>3. Houses \notin Owners
    BY ChestFacts
  <2>4. CASE i # n + 1 /\ j # n + 1
    <3>1. i \in DOMAIN l /\ j \in DOMAIN l /\ v.writes[i] = l[i] /\ v.writes[j] = l[j]
      BY <1>2, <1>4, <2>2, <2>4
    <3> QED BY <2>1, <3>1 DEF Ordered
  <2>5. CASE i = n + 1 /\ j # n + 1
    <3>1. j \in DOMAIN l /\ v.writes[i] = w /\ v.writes[j] = l[j] /\ ~(j > i)
      BY <1>2, <1>4, <2>2, <2>5
    <3> QED BY <2>1, <3>1 DEF Unwritten
  <2>6. CASE i # n + 1 /\ j = n + 1
    <3>1. i \in DOMAIN l /\ v.writes[i] = l[i] /\ v.writes[j] = w
      BY <1>2, <1>4, <2>2, <2>6
    <3> QED BY <2>1, <2>3, <3>1 DEF Unwritten
  <2>7. CASE i = n + 1 /\ j = n + 1
    BY <1>2, <2>7
  <2> QED BY <2>4, <2>5, <2>6, <2>7
<1>7. \A r \in Owners \ (present \cup (away \ {w.row})) :
        Unwritten(v.writes, r) => \A c \in ChestsOf(r) : v.chests[c] = stored[c]
  <2> SUFFICES ASSUME NEW r \in Owners \ (present \cup (away \ {w.row})), Unwritten(v.writes, r)
               PROVE  \A c \in ChestsOf(r) : v.chests[c] = stored[c]
    OBVIOUS
  <2>1. Unwritten(g.writes, r) /\ r \in Owners \ (present \cup away)
    BY <1>5 DEF l
  <2> QED BY <1>3, <2>1 DEF Call
<1>8. Call(v, away \ {w.row})
  <2>1. v \in Passed(Seq(WritesFor(v.chests)))
    BY <1>3 DEF W
  <2> QED BY <1>3, <1>6, <1>7, <2>1 DEF Call
<1>9. \A r : Unwritten(l, r) /\ w.row # r => Unwritten(v.writes, r)
  BY <1>2, <1>4 DEF Unwritten
<1>10. Settled(g) /\ (w.row = Houses => Fit(w.home) /\ w.home.owner = g.home.owner) => Settled(v)
  <2> SUFFICES ASSUME Settled(g), w.row = Houses => Fit(w.home) /\ w.home.owner = g.home.owner,
                      NEW i \in DOMAIN v.writes, v.writes[i].row = Houses
               PROVE  Fit(v.writes[i].home) /\ v.writes[i].home.owner = g.home.owner
    BY <1>3 DEF Settled, Housed
  <2>1. CASE i = n + 1
    BY <1>4, <2>1
  <2>2. CASE i # n + 1
    <3>1. i \in DOMAIN l /\ v.writes[i] = l[i]
      BY <1>2, <1>4, <2>2
    <3> QED BY <3>1 DEF Settled, Housed, l
  <2> QED BY <2>1, <2>2
<1> QED BY <1>3, <1>5, <1>8, <1>9, <1>10 DEF v, l

\* What only changes the house.
WithHome(g, h) == [g EXCEPT !.home = h]
LEMMA HomeChanged ==
  ASSUME NEW g, NEW away, Call(g, away), NEW h \in HomeType
  PROVE  LET v == WithHome(g, h)
         IN  /\ Call(v, away) /\ v.chests = g.chests /\ v.home = h /\ v.moved = g.moved
             /\ v.writes = g.writes
<1> DEFINE v == WithHome(g, h)
           W == Seq(WritesFor(g.chests))
<1>1. g \in Passed(W)
  BY DEF Call
<1>2. /\ v \in Passed(W) /\ v.chests = g.chests /\ v.home = h /\ v.moved = g.moved
      /\ v.writes = g.writes
  <2> HIDE DEF W
  <2> QED BY <1>1 DEF Passed, WithHome
<1> HIDE DEF v
<1> QED BY <1>2 DEF Call, v

-----------------------------------------------------------------------------
(* Moving things.                                                           *)

LEMMA NothingWritten ==
  ASSUME NEW g, g.writes = <<>>
  PROVE  /\ \A W : g \in Passed(W) => g \in Passed({<<>>})
         /\ \A S : g \in Passed({<<>>}) => g \in Passed(Seq(S))
         /\ Ordered(g.writes) /\ \A r : Unwritten(g.writes, r)
         /\ Owned(g) <=> Settled(g) /\ g.home.owner = homeRow.owner
         /\ Settled(g) <=> Fit(g.home)
<1>1. DOMAIN g.writes = {}
  OBVIOUS
<1>2. \A S : <<>> \in Seq(S)
  OBVIOUS
<1>3. Ordered(g.writes) /\ \A r : Unwritten(g.writes, r)
  BY <1>1 DEF Ordered, Unwritten
<1>4. Settled(g) <=> Fit(g.home)
  BY <1>1 DEF Settled, Housed
<1>5. \A W : g \in Passed(W) => g \in Passed({<<>>})
  BY DEF Passed
<1>6. \A S : g \in Passed({<<>>}) => g \in Passed(Seq(S))
  <2> SUFFICES ASSUME NEW S, g \in Passed({<<>>}) PROVE g \in Passed(Seq(S))
    OBVIOUS
  <2> DEFINE Q == Seq(S)
  <2>1. <<>> \in Q
    BY <1>2
  <2> HIDE DEF Q
  <2>2. g \in Passed(Q)
    BY <2>1 DEF Passed
  <2> QED BY <2>2 DEF Q
<1> QED BY <1>3, <1>4, <1>5, <1>6 DEF Owned

Moves(t, ts, c) == IF t \in ts THEN {c[1]} ELSE {}

LEMMA TakeAwayIs ==
  ASSUME NEW W, NEW g \in Passed(W), NEW ts \in SUBSET Wares, NEW c \in Chests
  PROVE  LET v == TakeAway(g, ts, c)
         IN  /\ v \in Passed(W) /\ v.home = g.home /\ v.writes = g.writes
             /\ v.chests = [g.chests EXCEPT ![c] = @ \ ts]
             /\ v.moved = [t \in Wares |-> g.moved[t] \cup Moves(t, ts, c)]
<1> DEFINE v == TakeAway(g, ts, c)
           N == [g.chests EXCEPT ![c] = @ \ ts]
           m == [t \in Wares |-> g.moved[t] \cup Moves(t, ts, c)]
           D == AllChests
           M == [Wares -> SUBSET Rows]
           R == [chests : D, home : HomeType, writes : W, moved : M]
           e == [g EXCEPT !.chests = N, !.moved = m]
<1>1. g \in R /\ g.chests \in D /\ g.moved \in M
  BY DEF Passed
<1>2. N \in D
  BY <1>1 DEF AllChests
<1>3. m \in M
  BY <1>1, ChestFacts DEF Moves
<1>4. v = e
  BY DEF TakeAway, Moves
<1> HIDE DEF N, m, D, M
<1>5. e \in R /\ e.home = g.home /\ e.writes = g.writes /\ e.chests = N /\ e.moved = m
  BY <1>1, <1>2, <1>3
<1> HIDE DEF e, v
<1> QED BY <1>4, <1>5 DEF Passed, v, N, m, D, M

LEMMA MoveIs ==
  ASSUME NEW W, NEW g \in Passed(W), NEW ts \in SUBSET Wares, NEW from \in Chests, NEW to \in Chests
  PROVE  LET v == Move(g, ts, from, to)
         IN  /\ v \in Passed(W) /\ v.home = g.home /\ v.writes = g.writes
             /\ v.chests = [[g.chests EXCEPT ![from] = @ \ ts] EXCEPT ![to] = @ \cup ts]
             /\ v.moved = [t \in Wares |-> (g.moved[t] \cup Moves(t, ts, from)) \cup Moves(t, ts, to)]
<1> DEFINE h == TakeAway(g, ts, from)
           v == Move(g, ts, from, to)
           N == [h.chests EXCEPT ![to] = @ \cup ts]
           m == [t \in Wares |-> h.moved[t] \cup Moves(t, ts, to)]
           D == AllChests
           M == [Wares -> SUBSET Rows]
           R == [chests : D, home : HomeType, writes : W, moved : M]
           e == [h EXCEPT !.chests = N, !.moved = m]
<1>0. /\ h \in Passed(W) /\ h.home = g.home /\ h.writes = g.writes
      /\ h.chests = [g.chests EXCEPT ![from] = @ \ ts]
      /\ h.moved = [t \in Wares |-> g.moved[t] \cup Moves(t, ts, from)]
  BY TakeAwayIs
<1>4. v = e
  BY DEF Move, Moves
<1> HIDE DEF h
<1>1. h \in R /\ h.chests \in D /\ h.moved \in M
  BY <1>0 DEF Passed
<1>2. N \in D
  BY <1>1 DEF AllChests
<1>3. m \in M
  BY <1>1, ChestFacts DEF Moves
<1>a. N = [[g.chests EXCEPT ![from] = @ \ ts] EXCEPT ![to] = @ \cup ts]
  BY <1>0
<1>b. m = [t \in Wares |-> (g.moved[t] \cup Moves(t, ts, from)) \cup Moves(t, ts, to)]
  BY <1>0
<1> HIDE DEF N, m, D, M
<1>5. e \in R /\ e.home = h.home /\ e.writes = h.writes /\ e.chests = N /\ e.moved = m
  BY <1>1, <1>2, <1>3
<1> HIDE DEF e, v
<1>6. v \in Passed(W)
  BY <1>4, <1>5 DEF Passed, D, M
<1> QED BY <1>0, <1>4, <1>5, <1>6, <1>a, <1>b DEF v

\* Money is spent.
LEMMA SpentGood ==
  ASSUME NEW g, NEW away, Call(g, away), g.writes = <<>>, NEW ts, ts \subseteq Gold, NEW c \in Chests,
         NEW after, away \subseteq after, c[1] \in after
  PROVE  LET v == TakeAway(g, ts, c)
         IN  Call(v, after) /\ v.home = g.home /\ v.writes = <<>>
<1> DEFINE v == TakeAway(g, ts, c)
<1>1. g \in Passed({<<>>}) /\ ts \in SUBSET Wares
  BY NothingWritten, StorageAssumption DEF Call
<1>2. /\ v \in Passed({<<>>}) /\ v.home = g.home /\ v.writes = <<>>
      /\ v.chests = [g.chests EXCEPT ![c] = @ \ ts]
      /\ v.moved = [t \in Wares |-> g.moved[t] \cup Moves(t, ts, c)]
  BY <1>1, TakeAwayIs
<1>3. g.chests \in [Chests -> SUBSET Wares]
  BY <1>1 DEF Passed, AllChests
<1> HIDE DEF v
<1>4. v \in Passed(Seq(WritesFor(v.chests))) /\ Ordered(v.writes)
  BY <1>2, NothingWritten
<1>5. ASSUME NEW r \in Owners \ (present \cup after), NEW d \in ChestsOf(r)
      PROVE  v.chests[d] = stored[d]
  <2>1. d \in Chests /\ d # c /\ r \in Owners \ (present \cup away) /\ Unwritten(g.writes, r)
    BY NothingWritten DEF ChestsOf
  <2>2. g.chests[d] = stored[d]
    BY <2>1 DEF Call
  <2> QED BY <1>2, <1>3, <2>1, <2>2
<1>6. ASSUME NEW t \in Wares, NEW d \in Chests, d[1] \notin stale[t] \cup v.moved[t]
      PROVE  t \in stored[d] <=> t \in v.chests[d]
  <2>1. d[1] \notin stale[t] \cup g.moved[t] /\ (t \in ts => d # c)
    BY <1>2, <1>6 DEF Moves
  <2>2. t \in stored[d] <=> t \in g.chests[d]
    BY <2>1 DEF Call
  <2> QED BY <1>2, <1>3, <2>1, <2>2
<1>7. ASSUME NEW t \in Wares \ suspect PROVE OneOf(t, v.chests)
  <2>1. OneOf(t, g.chests)
    BY DEF Call
  <2>2. \A d \in Chests : (t \in v.chests[d] => t \in g.chests[d]) /\ (t \notin Gold /\ t \in g.chests[d] => t \in v.chests[d])
    BY <1>2, <1>3
  <2> QED BY <2>1, <2>2 DEF OneOf
<1> QED BY <1>2, <1>4, <1>5, <1>6, <1>7 DEF Call, v

LEMMA MovedGood ==
  ASSUME NEW g, NEW away, Call(g, away), g.writes = <<>>, NEW from \in Chests, NEW to \in Chests,
         from # to, NEW ts, ts \subseteq g.chests[from],
         NEW after, away \subseteq after, from[1] \in after, to[1] \in after
  PROVE  LET v == Move(g, ts, from, to)
         IN  Call(v, after) /\ v.home = g.home /\ v.writes = <<>>
<1> DEFINE v == Move(g, ts, from, to)
<1>1. g \in Passed({<<>>})
  BY NothingWritten DEF Call
<1>3. g.chests \in [Chests -> SUBSET Wares] /\ ts \in SUBSET Wares
  BY <1>1 DEF Passed, AllChests
<1>2. /\ v \in Passed({<<>>}) /\ v.home = g.home /\ v.writes = <<>>
      /\ v.chests = [[g.chests EXCEPT ![from] = @ \ ts] EXCEPT ![to] = @ \cup ts]
      /\ v.moved = [t \in Wares |-> (g.moved[t] \cup Moves(t, ts, from)) \cup Moves(t, ts, to)]
  BY <1>1, <1>3, MoveIs
<1> HIDE DEF v
<1>4. v \in Passed(Seq(WritesFor(v.chests))) /\ Ordered(v.writes)
  BY <1>2, NothingWritten
<1>b. \A d \in Chests : v.chests[d] = IF d = to THEN g.chests[d] \cup ts
                                      ELSE IF d = from THEN g.chests[d] \ ts ELSE g.chests[d]
  BY <1>2, <1>3
<1>5. ASSUME NEW r \in Owners \ (present \cup after), NEW d \in ChestsOf(r)
      PROVE  v.chests[d] = stored[d]
  <2>1. d \in Chests /\ d # from /\ d # to /\ r \in Owners \ (present \cup away) /\ Unwritten(g.writes, r)
    BY NothingWritten DEF ChestsOf
  <2>2. g.chests[d] = stored[d]
    BY <2>1 DEF Call
  <2> QED BY <1>b, <2>1, <2>2
<1>6. ASSUME NEW t \in Wares, NEW d \in Chests, d[1] \notin stale[t] \cup v.moved[t]
      PROVE  t \in stored[d] <=> t \in v.chests[d]
  <2>1. d[1] \notin stale[t] \cup g.moved[t] /\ (t \in ts => d # from /\ d # to)
    BY <1>2, <1>6 DEF Moves
  <2>2. t \in stored[d] <=> t \in g.chests[d]
    BY <2>1 DEF Call
  <2> QED BY <1>b, <2>1, <2>2
<1>7. ASSUME NEW t \in Wares \ suspect PROVE OneOf(t, v.chests)
  <2>1. OneOf(t, g.chests)
    BY DEF Call
  <2>2. CASE t \notin ts
    <3>1. \A d \in Chests : t \in v.chests[d] <=> t \in g.chests[d]
      BY <1>b, <2>2
    <3> QED BY <2>1, <3>1 DEF OneOf
  <2>3. CASE t \in ts
    <3>1. \A d \in Chests : t \in g.chests[d] => d = from
      BY <2>1, <2>3 DEF OneOf
    <3>2. \A d \in Chests : t \in v.chests[d] <=> d = to
      BY <1>b, <2>3, <3>1
    <3> QED BY <3>2 DEF OneOf
  <2> QED BY <2>2, <2>3
<1> QED BY <1>2, <1>4, <1>5, <1>6, <1>7 DEF Call, v

-----------------------------------------------------------------------------
(* Saving.                                                                  *)

LEMMA SavePlayerGood ==
  ASSUME NEW g, NEW away, Call(g, away), NEW p \in Owners,
         Unwritten(g.writes, p), Unwritten(g.writes, Houses)
  PROVE  LET v == savePlayer(g, p)
         IN  /\ Call(v, away \ {p}) /\ v.chests = g.chests /\ v.home = g.home /\ v.moved = g.moved
             /\ v.writes = Append(g.writes, RowOf(p, g.chests))
             /\ ~ Unwritten(v.writes, p)
             /\ \A r : Unwritten(g.writes, r) /\ r # p => Unwritten(v.writes, r)
             /\ Owned(g) => Owned(v)
<1> DEFINE w == RowOf(p, g.chests)
           v == savePlayer(g, p)
<1>1. v = AddWrite(g, w)
  BY DEF savePlayer, AddWrite, RowOf
<1>2. w.row = p /\ w \in WritesFor(g.chests) /\ p # Houses
  BY ChestFacts DEF RowOf, WritesFor
<1> HIDE DEF v, w
<1>3. /\ Call(v, away \ {w.row}) /\ v.chests = g.chests /\ v.home = g.home
      /\ v.moved = g.moved /\ v.writes = Append(g.writes, w)
      /\ \A r : Unwritten(g.writes, r) /\ w.row # r => Unwritten(v.writes, r)
      /\ ~ Unwritten(v.writes, w.row)
      /\ Settled(g) /\ (w.row = Houses => Fit(w.home) /\ w.home.owner = g.home.owner) => Settled(v)
  BY <1>1, <1>2, Added
<1>4. Owned(g) => Owned(v)
  BY <1>2, <1>3 DEF Owned
<1> QED BY <1>2, <1>3, <1>4 DEF v, w

LEMMA SaveVirtualGood ==
  ASSUME NEW g, NEW q \in Owners, NEW away \in SUBSET (present \cup {Tiles, q}), Call(g, away),
         g.writes = <<>>
  PROVE  LET v == SaveVirtual(g, q)
         IN  /\ Call(v, {}) /\ Unwritten(v.writes, Houses) /\ v.home = g.home
             /\ Owned(g) => Owned(v)
<1> DEFINE v == SaveVirtual(g, q)
<1>1. Unwritten(g.writes, q) /\ Unwritten(g.writes, Houses)
  BY NothingWritten
<1>2. CASE q \in present
  <2>1. v = g
    BY <1>2 DEF SaveVirtual
  <2>2. away \subseteq present \cup {Tiles}
    BY <1>2
  <2> QED BY <1>1, <2>1, <2>2, SomeoneHereIsFine
<1>3. CASE q \notin present
  <2>1. v = savePlayer(g, q)
    BY <1>3 DEF SaveVirtual
  <2>a. Houses # q
    BY ChestFacts
  <2> HIDE DEF v
  <2>2. /\ Call(v, away \ {q}) /\ Unwritten(v.writes, Houses) /\ v.home = g.home
        /\ Owned(g) => Owned(v)
    BY <1>1, <2>1, <2>a, SavePlayerGood
  <2>3. away \ {q} \subseteq present \cup {Tiles}
    OBVIOUS
  <2> QED BY <2>2, <2>3, SomeoneHereIsFine DEF v
<1> QED BY <1>2, <1>3

LEMMA SaveHouseGood ==
  ASSUME NEW g, Call(g, {})
  PROVE  LET v == saveHouse(g)
         IN  Call(v, {}) /\ v.chests = g.chests /\ v.home = g.home /\ (Settled(g) => Owned(v))
<1> DEFINE h == [g.home EXCEPT !.clear = FALSE]
           w == HouseRow(h)
           v == saveHouse(g)
<1>1. v = AddWrite(g, w)
  BY DEF saveHouse, AddWrite, HouseRow
<1>2. g.home \in HomeType
  BY DEF Call, Passed
<1>3. h \in HomeType /\ ~ h.clear /\ h.owner = g.home.owner /\ h.lists = g.home.lists
  BY <1>2 DEF HomeType
<1>4. w.row = Houses /\ w.home = h
  BY DEF HouseRow
<1>5. w \in WritesFor(g.chests)
  BY <1>3 DEF WritesFor
<1> HIDE DEF h, v, w
<1>6. /\ Call(v, {} \ {w.row}) /\ v.chests = g.chests /\ v.home = g.home
      /\ ~ Unwritten(v.writes, w.row)
      /\ Settled(g) /\ (w.row = Houses => Fit(w.home) /\ w.home.owner = g.home.owner) => Settled(v)
  BY <1>1, <1>4, <1>5, Added, ChestFacts
<1>7. {} \ {w.row} = {}
  OBVIOUS
<1>8. Settled(g) => Owned(v)
  BY <1>3, <1>4, <1>6 DEF Owned, Settled, Fit
<1> QED BY <1>6, <1>7, <1>8 DEF v

LEMMA SaveMapGood ==
  ASSUME NEW g, Call(g, {})
  PROVE  LET v == saveMap(g)
         IN  Call(v, {}) /\ v.chests = g.chests /\ v.home = g.home /\ (Settled(g) => Owned(v))
<1> DEFINE h == saveHouse(g)
           w == RowOf(Tiles, g.chests)
           v == saveMap(g)
<1>1. Call(h, {}) /\ h.chests = g.chests /\ h.home = g.home /\ (Settled(g) => Owned(h))
  BY SaveHouseGood
<1>2. w.row = Tiles /\ w \in WritesFor(h.chests) /\ Tiles # Houses /\ Tiles \notin Owners
  BY <1>1, ChestFacts DEF RowOf, WritesFor
<1>3. v = AddWrite(h, w)
  BY <1>1, ChestFacts DEF saveMap, AddWrite, RowOf
<1> HIDE DEF h, v, w
<1>4. /\ Call(v, {} \ {w.row}) /\ v.chests = h.chests /\ v.home = h.home
      /\ \A r : Unwritten(h.writes, r) /\ w.row # r => Unwritten(v.writes, r)
      /\ Settled(h) /\ (w.row = Houses => Fit(w.home) /\ w.home.owner = h.home.owner) => Settled(v)
      /\ v.writes = Append(h.writes, w)
  BY <1>1, <1>2, <1>3, Added
<1>5. {} \ {w.row} = {}
  OBVIOUS
<1>6. Unwritten(v.writes, Houses) => Unwritten(h.writes, Houses)
  <2>1. h.writes \in Seq(WritesFor(h.chests))
    BY <1>1 DEF Call, Passed
  <2>2. \A i \in DOMAIN h.writes : i \in DOMAIN v.writes /\ v.writes[i] = h.writes[i]
    BY <1>4, <2>1, AppendProperties, LenProperties
  <2> QED BY <2>2 DEF Unwritten
<1>7. Settled(g) => Owned(v)
  BY <1>1, <1>2, <1>4, <1>6 DEF Owned
<1> QED BY <1>1, <1>4, <1>5, <1>7 DEF v

\* Things of the house go to the depot of its owner, wherever he is.
LEMMA ToDepotGood ==
  ASSUME NEW g, Call(g, {}), g.writes = <<>>, g.home.owner \in Owners
  PROVE  LET v == transferToDepot(g)
         IN  Call(v, {}) /\ Unwritten(v.writes, Houses) /\ v.home = g.home
<1> DEFINE p == g.home.owner
           u == Move(g, g.chests[Land], Land, Depot(p))
           away == {Tiles, p}
<1>1. Land \in Chests /\ Depot(p) \in Chests /\ Land # Depot(p) /\ Land[1] = Tiles /\ Depot(p)[1] = p
  BY ChestFacts
<1>3. Tiles \in away /\ p \in away /\ away \in SUBSET (present \cup {Tiles, p})
  OBVIOUS
<1>2. Call(u, away) /\ u.home = g.home /\ u.writes = <<>>
  <2>1. g.chests[Land] \subseteq g.chests[Land] /\ {} \subseteq away
    OBVIOUS
  <2> HIDE DEF away
  <2> QED BY <1>1, <1>3, <2>1, MovedGood
<1>4. transferToDepot(g) = SaveVirtual(u, p)
  BY DEF transferToDepot
<1> HIDE DEF u, away
<1> QED BY <1>2, <1>3, <1>4, SaveVirtualGood

Vacant(h) == [h EXCEPT !.rentWarnings = 0, !.paid = FALSE, !.lists = NoOwner]

LEMMA VacantIs ==
  ASSUME NEW x \in HomeType
  PROVE  Vacant(x) \in HomeType /\ Vacant(x).lists = NoOwner
<1>1. 0 \in 0 .. 1
  OBVIOUS
<1> DEFINE W == 0 .. 1
<1>2. x \in [owner : Owners \cup {NoOwner}, paid : BOOLEAN, rentWarnings : W,
             lists : Owners \cup {NoOwner}, clear : BOOLEAN]
  BY DEF HomeType
<1> HIDE DEF W
<1>3. /\ Vacant(x) \in [owner : Owners \cup {NoOwner}, paid : BOOLEAN, rentWarnings : W,
                        lists : Owners \cup {NoOwner}, clear : BOOLEAN]
      /\ Vacant(x).lists = NoOwner
  BY <1>1, <1>2 DEF Vacant, W
<1> QED BY <1>3 DEF HomeType, W

LEMMA VacateGood ==
  ASSUME NEW g, Call(g, {}), g.writes = <<>>, g.home.owner \in Owners, NEW transfer \in BOOLEAN
  PROVE  LET v == Vacate(g, transfer)
         IN  Call(v, {}) /\ Unwritten(v.writes, Houses) /\ v.home.lists = NoOwner
<1> DEFINE h == IF transfer THEN transferToDepot(g) ELSE g
           v == Vacate(g, transfer)
           k == Vacant(h.home)
<1>1. Call(h, {}) /\ Unwritten(h.writes, Houses)
  BY ToDepotGood, NothingWritten
<1>2. v = WithHome(h, k)
  BY DEF Vacate, WithHome, Vacant
<1> HIDE DEF h
<1>3. h.home \in HomeType
  BY <1>1 DEF Call, Passed
<1>4. k \in HomeType /\ k.lists = NoOwner
  BY <1>3, VacantIs
<1> HIDE DEF k, v
<1>5. Call(v, {}) /\ v.home = k /\ v.writes = h.writes
  BY <1>1, <1>2, <1>4, HomeChanged
<1> QED BY <1>1, <1>4, <1>5 DEF v

LEMMA SetOwnerGood ==
  ASSUME NEW g, Call(g, {}), g.writes = <<>>, NEW guid \in Owners \cup {NoOwner}, NEW transfer \in BOOLEAN
  PROVE  LET v == setOwnerEx(g, guid, transfer)
         IN  Call(v, {}) /\ (Owned(g) => Owned(v))
<1> DEFINE v == setOwnerEx(g, guid, transfer)
           h == IF g.home.owner = NoOwner THEN g ELSE Vacate(g, transfer)
           k == [h.home EXCEPT !.owner = guid]
           u == WithHome(h, k)
<1>0. g.home \in HomeType
  BY DEF Call, Passed
<1>1. CASE g.home.owner = guid
  <2>1. v = g
    BY <1>1 DEF setOwnerEx
  <2> QED BY <2>1
<1>2. CASE g.home.owner # guid
  <2>1. v = saveHouse(u)
    BY <1>2 DEF setOwnerEx, WithHome
  <2>2. Call(h, {}) /\ Unwritten(h.writes, Houses) /\ (Owned(g) => h.home.lists = NoOwner)
    <3>1. CASE g.home.owner = NoOwner
      <4>1. Owned(g) => g.home.lists = NoOwner
        BY <3>1 DEF Owned, Settled, Fit
      <4> QED BY <3>1, <4>1, NothingWritten
    <3>2. CASE g.home.owner # NoOwner
      <4>1. g.home.owner \in Owners
        BY <1>0, <3>2 DEF HomeType
      <4> QED BY <3>2, <4>1, VacateGood
    <3> QED BY <3>1, <3>2
  <2> HIDE DEF h, v
  <2>3. h.home \in HomeType
    BY <2>2 DEF Call, Passed
  <2>4. k \in HomeType /\ k.lists = h.home.lists /\ k.owner = guid
    BY <2>3 DEF HomeType
  <2> HIDE DEF k, u
  <2>5. Call(u, {}) /\ u.home = k /\ u.writes = h.writes
    BY <2>2, <2>4, HomeChanged DEF u
  <2>6. Owned(g) => Settled(u)
    BY <2>2, <2>4, <2>5 DEF Settled, Fit, Housed, Unwritten
  <2>7. Call(v, {}) /\ (Settled(u) => Owned(v))
    BY <2>1, <2>5, SaveHouseGood
  <2> QED BY <2>6, <2>7 DEF v
<1> QED BY <1>1, <1>2

\* What a change of the house that leaves its owner and lists alone keeps.
LEMMA HomeTouched ==
  ASSUME NEW g, Call(g, {}), NEW h \in HomeType, h.owner = g.home.owner, h.lists = g.home.lists
  PROVE  LET v == WithHome(g, h)
         IN  Call(v, {}) /\ v.home = h /\ v.writes = g.writes /\ v.chests = g.chests /\ (Owned(g) => Owned(v))
<1> DEFINE v == WithHome(g, h)
<1>1. Call(v, {}) /\ v.home = h /\ v.writes = g.writes /\ v.chests = g.chests
  BY HomeChanged
<1> HIDE DEF v
<1>2. Owned(g) => Owned(v)
  BY <1>1 DEF Owned, Settled, Fit, Housed
<1> QED BY <1>1, <1>2 DEF v

LEMMA PayHouseGood ==
  ASSUME NEW g, Call(g, {}), g.writes = <<>>, NEW unfit \in BOOLEAN, NEW late \in BOOLEAN
  PROVE  LET v == payHouse(g, unfit, late)
         IN  Call(v, {}) /\ (Owned(g) => Owned(v))
<1> DEFINE p == g.home.owner
           coins == g.chests[Depot(p)] \cap Gold
           h == [g.home EXCEPT !.paid = TRUE]
           paid == WithHome(g, h)
           v == payHouse(g, unfit, late)
<1>1. g.home \in HomeType /\ g.chests \in AllChests
  BY DEF Call, Passed
<1>2. h \in HomeType /\ h.owner = g.home.owner /\ h.lists = g.home.lists
  BY <1>1 DEF HomeType
<1> HIDE DEF h, coins, v
<1>3. Call(paid, {}) /\ paid.home = h /\ paid.writes = <<>> /\ (Owned(g) => Owned(paid))
  BY <1>2, HomeTouched
<1>4. CASE p = NoOwner \/ g.home.paid
  BY <1>4 DEF payHouse, v
<1>5. CASE ~(p = NoOwner \/ g.home.paid) /\ unfit
  <2>1. v = setOwnerEx(g, NoOwner, TRUE)
    BY <1>5 DEF payHouse, v
  <2> QED BY <2>1, SetOwnerGood DEF v
<1>6. CASE ~(p = NoOwner \/ g.home.paid) /\ ~unfit /\ coins # {}
  <2>0. p \in Owners
    BY <1>1, <1>6 DEF HomeType
  <2>1. CASE p \in present
    <3> DEFINE ts == {CHOOSE t \in coins : TRUE}
               d == Depot(p)
               after == {p}
               none == {}
    <3>1. v = TakeAway(paid, ts, d)
      BY <1>6, <2>1 DEF payHouse, v, coins, WithHome, h
    <3>2. ts \subseteq Gold
      <4>1. (CHOOSE t \in coins : TRUE) \in coins
        BY <1>6
      <4> QED BY <4>1 DEF coins
    <3>3. d \in Chests /\ d[1] = p
      BY <2>0, ChestFacts
    <3>4. d[1] \in after /\ none \subseteq after /\ after \subseteq present \cup {Tiles}
      BY <2>1, <3>3
    <3>8. Call(paid, none)
      BY <1>3
    <3> HIDE DEF ts, d, after, paid, none
    <3>5. Call(v, after) /\ v.home = paid.home /\ v.writes = <<>>
      BY <1>3, <3>8, <3>1, <3>2, <3>3, <3>4, SpentGood
    <3>6. Call(v, {})
      BY <3>4, <3>5, SomeoneHereIsFine
    <3>7. Owned(paid) => Owned(v)
      BY <1>3, <3>5, NothingWritten
    <3> QED BY <1>3, <3>6, <3>7 DEF v
  <2>2. CASE p \notin present
    <3>1. v = paid
      BY <1>6, <2>2 DEF payHouse, v, coins, WithHome, h
    <3> QED BY <1>3, <3>1 DEF v
  <2> QED BY <2>1, <2>2
<1>7. CASE ~(p = NoOwner \/ g.home.paid) /\ ~unfit /\ coins = {} /\ ~late
  <2>1. v = g
    BY <1>7 DEF payHouse, v, coins
  <2> QED BY <2>1 DEF v
<1>8. CASE ~(p = NoOwner \/ g.home.paid) /\ ~unfit /\ coins = {} /\ late /\ g.home.rentWarnings < warningsLimit
  <2> DEFINE k == [g.home EXCEPT !.rentWarnings = @ + 1]
             warned == WithHome(g, k)
             nobody == {}
  <2>0. p \in Owners
    BY <1>1, <1>8 DEF HomeType
  <2>1. v = SaveVirtual(warned, p)
    BY <1>8 DEF payHouse, v, coins, WithHome
  <2>2. k \in HomeType /\ k.owner = g.home.owner /\ k.lists = g.home.lists
    <3>1. g.home.rentWarnings \in 0 .. 1 /\ g.home.rentWarnings < 1
      BY <1>1, <1>8 DEF HomeType, warningsLimit
    <3>2. g.home.rentWarnings + 1 \in 0 .. 1
      BY <3>1
    <3> QED BY <1>1, <3>2 DEF HomeType
  <2> HIDE DEF k
  <2>3. Call(warned, nobody) /\ warned.writes = <<>> /\ (Owned(g) => Owned(warned))
    BY <2>2, HomeTouched
  <2>4. nobody \in SUBSET (present \cup {Tiles, p})
    OBVIOUS
  <2> HIDE DEF warned, nobody
  <2>5. Call(v, {}) /\ (Owned(warned) => Owned(v))
    BY <2>0, <2>1, <2>3, <2>4, SaveVirtualGood
  <2> QED BY <2>3, <2>5 DEF v
<1>9. CASE ~(p = NoOwner \/ g.home.paid) /\ ~unfit /\ coins = {} /\ late /\ ~(g.home.rentWarnings < warningsLimit)
  <2>1. v = setOwnerEx(g, NoOwner, TRUE)
    BY <1>9 DEF payHouse, v, coins
  <2> QED BY <2>1, SetOwnerGood DEF v
<1> QED BY <1>4, <1>5, <1>6, <1>7, <1>8, <1>9

\* Any of those present, each once.
LEMMA SavePlayersGood ==
  ASSUME Call(Found, {}), Found.writes = <<>>, NEW n \in Nat, NEW order \in [1 .. n -> Owners],
         \A i, j \in 1 .. n : order[i] = order[j] => i = j
  PROVE  LET v == SavePlayers(order)
         IN  Call(v, {}) /\ (Owned(Found) => Owned(v))
<1> DEFINE g == Found
           W == Seq(WritesFor(g.chests))
           X == {v \in Passed(W) : v.chests = g.chests}
           len == Len(order)
           go(v, p) == savePlayer(v, p)
           step == [k \in 1 .. len |-> [v \in X |-> go(v, order[k])]]
           body0(f) == [k \in 0 .. len |-> IF k = 0 THEN g ELSE go(f[k - 1], order[k])]
           along == CHOOSE f : f = body0(f)
<1>1. len = n /\ len \in Nat /\ \A k \in 1 .. len : order[k] \in Owners
  <2>1. order \in Seq(Owners) /\ DOMAIN order = 1 .. n
    OBVIOUS
  <2>2. len = n
    BY <2>1, LenProperties
  <2> QED BY <2>2
<1>6. SavePlayers(order) = along[len]
  BY DEF SavePlayers, InTurn
<1>2. g \in X
  BY DEF Call
<1> HIDE DEF g
<1>3. \A v \in X : \A p \in Owners : go(v, p) \in X
  <2> SUFFICES ASSUME NEW v \in X, NEW p \in Owners PROVE go(v, p) \in X
    OBVIOUS
  <2> DEFINE w == RowOf(p, v.chests)
             e == [v EXCEPT !.writes = Append(v.writes, w)]
  <2>1. go(v, p) = e
    BY DEF savePlayer, RowOf
  <2>2. w \in WritesFor(g.chests)
    BY DEF WritesFor, Rows
  <2>3. v.writes \in W
    BY DEF Passed
  <2> HIDE DEF w
  <2>4. Append(v.writes, w) \in W
    BY <2>2, <2>3, AppendProperties
  <2> HIDE DEF W
  <2>5. e \in Passed(W) /\ e.chests = v.chests
    <3> DEFINE a == Append(v.writes, w)
               M == [Wares -> SUBSET Rows]
               R == [chests : AllChests, home : HomeType, writes : W, moved : M]
    <3>1. v \in R /\ a \in W
      BY <2>4 DEF Passed
    <3> HIDE DEF a, M
    <3>2. [v EXCEPT !.writes = a] \in R /\ [v EXCEPT !.writes = a].chests = v.chests
      BY <3>1
    <3> QED BY <3>2 DEF Passed, a, M
  <2> HIDE DEF e, go
  <2> QED BY <2>1, <2>5
<1>4. step \in [1 .. len -> [X -> X]]
  BY <1>1, <1>3
<1>5. \A k \in 1 .. len : \A v \in X : step[k][v] = go(v, order[k])
  OBVIOUS
<1> HIDE DEF X, len, go, step
<1>7. PICK f \in [0 .. len -> X] : \A k \in 0 .. len : f[k] = IF k = 0 THEN g ELSE step[k][f[k - 1]]
  <2> HIDE DEF along, body0
  <2>1. \E f : Goes(f, len, X, g, step)
    BY <1>1, <1>2, <1>4, StepsMakeAFunction
  <2> QED BY <2>1 DEF Goes
<1>8. f = body0(f)
  <2>1. \A k \in 0 .. len : k # 0 => k \in 1 .. len /\ f[k - 1] \in X
    BY <1>1, <1>7
  <2>2. \A k \in 0 .. len : f[k] = IF k = 0 THEN g ELSE go(f[k - 1], order[k])
    BY <1>5, <1>7, <2>1
  <2> QED BY <1>7, <2>2
<1>9. along = body0(along)
  <2> HIDE DEF body0
  <2> QED BY <1>8
<1> HIDE DEF along
<1>10. \A k \in 0 .. len : along[k] = IF k = 0 THEN g ELSE go(along[k - 1], order[k])
  BY <1>9
<1> DEFINE none == {}
           So(v, k) == /\ Call(v, none) /\ (Owned(g) => Owned(v)) /\ Unwritten(v.writes, Houses)
                       /\ \A j \in 1 .. len : j > k => Unwritten(v.writes, order[j])
           P == {k \in 0 .. len : So(along[k], k)}
<1>11. 0 \in P
  <2>1. \A r : Unwritten(g.writes, r)
    BY NothingWritten DEF g
  <2>2. So(g, 0)
    BY <2>1 DEF g
  <2>3. along[0] = g
    BY <1>1, <1>10
  <2> QED BY <1>1, <2>2, <2>3
<1>12. ASSUME NEW k \in 1 .. len, k - 1 \in P PROVE k \in P
  <2> DEFINE u == along[k - 1]
             v == along[k]
             p == order[k]
  <2>1. k \in 0 .. len /\ k # 0 /\ So(u, k - 1) /\ p \in Owners /\ k > k - 1
    BY <1>1, <1>12
  <2>2. v = savePlayer(u, p)
    BY <1>10, <2>1 DEF go
  <2>3. Unwritten(u.writes, p) /\ Unwritten(u.writes, Houses) /\ Houses # p
    BY <2>1, ChestFacts
  <2> HIDE DEF u, v, p
  <2>4. /\ Call(v, none \ {p}) /\ (Owned(u) => Owned(v))
        /\ \A r : Unwritten(u.writes, r) /\ r # p => Unwritten(v.writes, r)
    <3> HIDE DEF none
    <3> QED BY <2>1, <2>2, <2>3, SavePlayerGood
  <2>5. ASSUME NEW j \in 1 .. len, j > k PROVE Unwritten(v.writes, order[j])
    <3>1. order[j] # p /\ j > k - 1
      BY <1>1, <2>5 DEF p
    <3> QED BY <2>1, <2>4, <3>1
  <2>6. none \ {p} = none
    OBVIOUS
  <2>7. So(v, k)
    BY <2>1, <2>3, <2>4, <2>5, <2>6
  <2> QED BY <2>1, <2>7 DEF v
<1>13. 0 .. len \subseteq P
  <2> HIDE DEF P
  <2> QED BY <1>1, <1>11, <1>12, UpTo
<1>14. So(along[len], len)
  BY <1>1, <1>13
<1> QED BY <1>6, <1>14 DEF g

-----------------------------------------------------------------------------
(* What every step keeps.                                                   *)

\* N is what memory comes to once everything is written; who is away is as his rows are.
Comes(N) ==
  /\ N \in AllChests
  /\ phase # "down" => \A c \in Chests : c[1] \in present \cup {Tiles} => holds[c] = N[c]
  /\ writes \in Seq(WritesFor(N)) /\ Ordered(writes)
  /\ \A r \in Owners \ present : Unwritten(writes, r) => \A c \in ChestsOf(r) : N[c] = stored[c]
  /\ phase = "down" => N[Land] = stored[Land]
  /\ \A t \in Wares, c \in Chests : c[1] \notin stale[t] => (t \in stored[c] <=> t \in N[c])
  /\ \A t \in Wares \ suspect : OneOf(t, N)

HouseKept ==
  marred \/ /\ Fit(home) /\ Fit(homeRow) /\ Housed(writes, home)
            /\ phase # "down" /\ Unwritten(writes, Houses) => home.owner = homeRow.owner

StorageKept ==
  /\ StorageTypeOK /\ IsFiniteSet(present)
  /\ homeRow.clear => homeRow.owner # NoOwner
  /\ phase = "down" => present = {} /\ writes = <<>>
  /\ HouseKept /\ \E N : Comes(N)

LEMMA FoundGood ==
  ASSUME StorageKept, writes = <<>>, phase # "down"
  PROVE  /\ Call(Found, {}) /\ Found.writes = <<>> /\ Found.home = home
         /\ \A c \in Chests : c[1] \in present \cup {Tiles} => Found.chests[c] = holds[c]
         /\ ~ marred => Owned(Found)
<1> DEFINE N0 == [c \in Chests |-> IF c[1] \in present \cup {Tiles} THEN holds[c] ELSE stored[c]]
           m0 == [t \in Wares |-> {}]
           g == Found
<1>1. PICK N : Comes(N)
  BY DEF StorageKept
<1>2. /\ holds \in AllChests /\ stored \in AllChests /\ home \in HomeType /\ N \in AllChests
  BY <1>1 DEF StorageKept, StorageTypeOK, AllChests, Comes
<1>3. g.chests = N0 /\ g.home = home /\ g.writes = <<>> /\ g.moved = m0
  BY DEF Found
<1>4. N0 \in AllChests /\ m0 \in [Wares -> SUBSET Rows]
  BY <1>2 DEF AllChests
<1>5. g \in Passed({<<>>})
  <2> HIDE DEF N0, m0
  <2>1. g = [chests |-> N0, home |-> home, writes |-> <<>>, moved |-> m0]
    BY DEF Found, N0, m0
  <2> QED BY <1>2, <1>4, <2>1 DEF Passed
<1>6. \A c \in Chests : N0[c] = N[c]
  <2> SUFFICES ASSUME NEW c \in Chests PROVE N0[c] = N[c]
    OBVIOUS
  <2>1. CASE c[1] \in present \cup {Tiles}
    BY <1>1, <2>1 DEF Comes
  <2>2. CASE c[1] \notin present \cup {Tiles}
    <3>1. c[1] \in Owners \ present /\ c \in ChestsOf(c[1])
      BY <2>2, ChestFacts DEF ChestsOf
    <3>2. \A r : Unwritten(writes, r)
      BY DEF Unwritten
    <3>3. N[c] = stored[c]
      BY <1>1, <3>1, <3>2 DEF Comes
    <3> QED BY <2>2, <3>3
  <2> QED BY <2>1, <2>2
<1>7. N0 = N
  BY <1>2, <1>4, <1>6 DEF AllChests
<1>8. /\ g \in Passed(Seq(WritesFor(g.chests))) /\ Ordered(g.writes) /\ Unwritten(g.writes, Houses)
      /\ \A r : Unwritten(g.writes, r)
      /\ Owned(g) <=> Settled(g) /\ g.home.owner = homeRow.owner
      /\ Settled(g) <=> Fit(g.home)
  <2> HIDE DEF g
  <2> QED BY <1>3, <1>5, NothingWritten
<1> HIDE DEF N0, g
<1>9. \A r \in Owners \ (present \cup {}) :
        Unwritten(g.writes, r) => \A c \in ChestsOf(r) : g.chests[c] = stored[c]
  <2>1. \A r : Unwritten(writes, r)
    BY DEF Unwritten
  <2> QED BY <1>1, <1>3, <1>7, <2>1 DEF Comes
<1>10. \A t \in Wares, c \in Chests :
         c[1] \notin stale[t] \cup g.moved[t] => (t \in stored[c] <=> t \in g.chests[c])
  BY <1>1, <1>3, <1>7 DEF Comes
<1>11. \A t \in Wares \ suspect : OneOf(t, g.chests)
  BY <1>1, <1>3, <1>7 DEF Comes
<1>12. Call(g, {})
  BY <1>8, <1>9, <1>10, <1>11 DEF Call
<1>13. ~ marred => Owned(g)
  <2>1. Unwritten(writes, Houses)
    BY DEF Unwritten
  <2> QED BY <1>3, <1>8, <2>1 DEF StorageKept, HouseKept
<1> QED BY <1>3, <1>12, <1>13 DEF g, N0

\* What a task leaves, those who are then in the game having been, or been saved.
LEMMA LeftComes ==
  ASSUME StorageKept, NEW g, Call(g, {}), NEW now \in SUBSET Owners, Left(g, now), phase' # "down",
         stored' = stored, suspect' = suspect,
         \A p \in present \ now : ~ Unwritten(g.writes, p)
  PROVE  /\ Comes(g.chests)' /\ present' = now /\ home' \in HomeType
         /\ holds' \in AllChests /\ stale' \in [Wares -> SUBSET Rows]
         /\ \A i \in DOMAIN writes' : writes'[i].row \in Rows \cup {Houses}
<1> DEFINE N == g.chests
           W == WritesFor(N)
<1>1. /\ present' = now /\ home' = g.home /\ writes' = g.writes
      /\ holds' = [c \in Chests |-> IF c[1] \in now \cup {Tiles} THEN N[c] ELSE {}]
      /\ stale' = [t \in Wares |-> stale[t] \cup g.moved[t]]
  BY DEF Left
<1>2. g \in Passed(Seq(W))
  BY DEF Call
<1>3. N \in AllChests /\ g.home \in HomeType /\ g.writes \in Seq(W) /\ g.moved \in [Wares -> SUBSET Rows]
  <2> HIDE DEF W, N
  <2> QED BY <1>2 DEF Passed, N
<1>4. stale \in [Wares -> SUBSET Rows]
  BY DEF StorageKept, StorageTypeOK
<1>5. holds' \in AllChests /\ stale' \in [Wares -> SUBSET Rows]
  BY <1>1, <1>3, <1>4 DEF AllChests
<1>6. ASSUME NEW i \in DOMAIN writes' PROVE writes'[i].row \in Rows \cup {Houses}
  <2>1. writes'[i] \in W
    BY <1>1, <1>3
  <2> QED BY <1>3, <2>1, WriteFacts
<1> HIDE DEF N, W
<1>7. \A c \in Chests : c[1] \in present' \cup {Tiles} => holds'[c] = N[c]
  BY <1>1
<1>8. ASSUME NEW r \in Owners \ present', Unwritten(writes', r), NEW c \in ChestsOf(r)
      PROVE  N[c] = stored'[c]
  <2>1. r \in Owners \ (present \cup {}) /\ Unwritten(g.writes, r)
    BY <1>1, <1>8
  <2> QED BY <2>1 DEF Call, N
<1>9. ASSUME NEW t \in Wares, NEW c \in Chests, c[1] \notin stale'[t]
      PROVE  t \in stored'[c] <=> t \in N[c]
  <2>1. c[1] \notin stale[t] \cup g.moved[t]
    BY <1>1, <1>9
  <2> QED BY <2>1 DEF Call, N
<1>10. \A t \in Wares \ suspect' : OneOf(t, N)
  BY DEF Call, N
<1>11. writes' \in Seq(WritesFor(N)) /\ Ordered(writes')
  BY <1>1, <1>3 DEF Call, W
<1>12. Comes(N)'
  BY <1>3, <1>7, <1>8, <1>9, <1>10, <1>11 DEF Comes, Ordered, Unwritten, WritesFor, RowOf, HouseRow, NoHome, OneOf, AllChests
<1> QED BY <1>1, <1>3, <1>5, <1>6, <1>12 DEF N

LEMMA TaskKeeps ==
  ASSUME StorageKept, NEW g, Call(g, {}), NEW now \in SUBSET Owners, Left(g, now), IsFiniteSet(now),
         phase' \in {"up", "leaving"}, stored' = stored, homeRow' = homeRow, suspect' = suspect,
         auction' \in Owners \cup {NoOwner}, doings' \in 0 .. MaxDoings, mishaps' \in 0 .. MaxMishaps,
         \A p \in present \ now : ~ Unwritten(g.writes, p),
         marred' = TRUE \/ (marred' = marred /\ (~ marred => Owned(g)))
  PROVE  StorageKept'
<1>1. phase' # "down"
  OBVIOUS
<1>2. /\ Comes(g.chests)' /\ present' = now /\ home' \in HomeType
      /\ holds' \in AllChests /\ stale' \in [Wares -> SUBSET Rows]
      /\ \A i \in DOMAIN writes' : writes'[i].row \in Rows \cup {Houses}
  BY <1>1, LeftComes
<1>3. StorageTypeOK'
  BY <1>2 DEF StorageKept, StorageTypeOK, AllChests
<1>4. HouseKept'
  <2> SUFFICES ASSUME ~ marred' PROVE HouseKept'
    BY DEF HouseKept
  <2>1. ~ marred /\ Owned(g) /\ home' = g.home /\ writes' = g.writes
    BY DEF Left
  <2>2. Fit(home') /\ Housed(writes', home') /\ (Unwritten(writes', Houses) => home'.owner = homeRow'.owner)
    BY <2>1 DEF Owned, Settled
  <2>3. Fit(homeRow')
    BY <2>1 DEF StorageKept, HouseKept
  <2> QED BY <2>2, <2>3 DEF HouseKept, Fit, Housed, Unwritten
<1>5. \E N : Comes(N)'
  BY <1>2
<1> QED BY <1>1, <1>2, <1>3, <1>4, <1>5 DEF StorageKept

LEMMA DoesKeeps ==
  ASSUME StorageKept, NEW g, Call(g, {}), Does(g), marred' = marred, ~ marred => Owned(g)
  PROVE  StorageKept'
<1>1. present \in SUBSET Owners /\ IsFiniteSet(present) /\ present \ present = {}
  BY DEF StorageKept, StorageTypeOK
<1>2. /\ Left(g, present) /\ phase' \in {"up", "leaving"} /\ stored' = stored /\ homeRow' = homeRow
      /\ suspect' = suspect /\ auction' \in Owners \cup {NoOwner} /\ mishaps' \in 0 .. MaxMishaps
  BY DEF Does, Doing, Serves, StorageKept, StorageTypeOK, rowsOf
<1>3. doings' \in 0 .. MaxDoings
  BY StorageAssumption DEF Does, Doing, StorageKept, StorageTypeOK
<1> QED BY <1>1, <1>2, <1>3, TaskKeeps

\* A task that moves nothing of the world but these.
LEMMA ComesAndGoes ==
  ASSUME StorageKept, NEW p \in Owners, Login(p) \/ onCreatureDisappear(p)
  PROVE  StorageKept'
<1>1. /\ writes = <<>> /\ phase = "up" /\ phase' = phase /\ stored' = stored /\ homeRow' = homeRow
      /\ suspect' = suspect /\ auction' = auction /\ mishaps' = mishaps /\ doings' = doings /\ marred' = marred
  BY DEF Login, onCreatureDisappear, Serves, rowsOf
<1>2. /\ Call(Found, {}) /\ Found.writes = <<>> /\ (~ marred => Owned(Found))
  BY <1>1, FoundGood
<1>3. /\ present \in SUBSET Owners /\ IsFiniteSet(present) /\ auction \in Owners \cup {NoOwner}
      /\ doings \in 0 .. MaxDoings /\ mishaps \in 0 .. MaxMishaps
  BY DEF StorageKept, StorageTypeOK
<1>4. CASE Login(p)
  <2> DEFINE now == present \cup {p}
  <2>1. now \in SUBSET Owners /\ IsFiniteSet(now) /\ present \ now = {}
    BY <1>3, FS_AddElement
  <2>2. PICK g : g = Found
    OBVIOUS
  <2>3. Left(g, now)
    BY <1>4, <2>2 DEF Login
  <2> HIDE DEF now
  <2> QED BY <1>1, <1>2, <1>3, <2>1, <2>2, <2>3, TaskKeeps
<1>5. CASE onCreatureDisappear(p)
  <2> DEFINE now == present \ {p}
  <2>1. now \in SUBSET Owners /\ IsFiniteSet(now) /\ \A q \in present \ now : q = p
    BY <1>3, FS_RemoveElement
  <2>2. PICK g : g = savePlayer(Found, p)
    OBVIOUS
  <2>3. Left(g, now)
    BY <1>5, <2>2 DEF onCreatureDisappear
  <2>4. Call(g, {}) /\ ~ Unwritten(g.writes, p) /\ (~ marred => Owned(g))
    <3>1. {} \ {p} = {} /\ \A r : Unwritten(Found.writes, r)
      BY <1>2, NothingWritten
    <3>2. Call(g, {} \ {p}) /\ ~ Unwritten(g.writes, p) /\ (Owned(Found) => Owned(g))
      BY <1>2, <2>2, <3>1, SavePlayerGood
    <3> QED BY <1>2, <3>1, <3>2
  <2> HIDE DEF now
  <2> QED BY <1>1, <1>3, <2>1, <2>3, <2>4, TaskKeeps
<1> QED BY <1>4, <1>5

LEMMA CarryKeeps ==
  ASSUME StorageKept, NEW p \in Owners, NEW t \in Wares, CarryItem(p, t)
  PROVE  StorageKept'
<1>1. PICK from \in {Inv(p), Depot(p), Land}, to \in {Inv(p), Depot(p), Land} :
        from # to /\ t \in holds[from] /\ Does(Move(Found, {t}, from, to))
  BY DEF CarryItem
<1>2. p \in present /\ marred' = marred /\ writes = <<>> /\ phase # "down"
  BY <1>1 DEF CarryItem, Does, Doing, Serves
<1>3. /\ Call(Found, {}) /\ Found.writes = <<>> /\ (~ marred => Owned(Found))
      /\ \A c \in Chests : c[1] \in present \cup {Tiles} => Found.chests[c] = holds[c]
  BY <1>2, FoundGood
<1> DEFINE none == {}
           after == {p, Tiles}
           ts == {t}
<1>4. from \in Chests /\ to \in Chests /\ from[1] \in after /\ to[1] \in after
  BY ChestFacts
<1>5. none \subseteq after /\ after \subseteq present \cup {Tiles} /\ ts \subseteq Found.chests[from]
  BY <1>1, <1>2, <1>3, <1>4
<1>6. PICK g : g = Move(Found, ts, from, to)
  OBVIOUS
<1>7. Call(Found, none) /\ Does(g)
  BY <1>1, <1>3, <1>6
<1> HIDE DEF none, after, ts
<1>8. Call(g, after) /\ g.home = Found.home /\ g.writes = <<>>
  BY <1>1, <1>3, <1>4, <1>5, <1>6, <1>7, MovedGood
<1>9. Call(g, {})
  BY <1>5, <1>8, SomeoneHereIsFine
<1>10. ~ marred => Owned(g)
  BY <1>3, <1>8, NothingWritten
<1> QED BY <1>2, <1>7, <1>9, <1>10, DoesKeeps

LEMMA MailKeeps ==
  ASSUME StorageKept, NEW p \in Owners, NEW q \in Owners, NEW t \in Wares, playerMail(p, q, t)
  PROVE  StorageKept'
<1> DEFINE none == {}
           after == {p, q, Tiles}
           ts == {t}
           from == Inv(p)
           to == Depot(q)
           u == Move(Found, ts, from, to)
<1>1. p \in present /\ t \in holds[from] /\ Does(SaveVirtual(u, q)) /\ marred' = marred
  BY DEF playerMail
<1>2. writes = <<>> /\ phase # "down"
  BY <1>1 DEF Does, Doing, Serves
<1>3. /\ Call(Found, {}) /\ Found.writes = <<>> /\ (~ marred => Owned(Found))
      /\ \A c \in Chests : c[1] \in present \cup {Tiles} => Found.chests[c] = holds[c]
  BY <1>2, FoundGood
<1>4. from \in Chests /\ to \in Chests /\ from[1] = p /\ to[1] = q /\ from # to
  BY ChestFacts
<1>5. /\ none \subseteq after /\ after \in SUBSET (present \cup {Tiles, q}) /\ ts \subseteq Found.chests[from]
      /\ from[1] \in after /\ to[1] \in after
  BY <1>1, <1>3, <1>4
<1>6. Call(Found, none)
  BY <1>3
<1> HIDE DEF none, after, ts, from, to
<1>7. Call(u, after) /\ u.home = Found.home /\ u.writes = <<>>
  BY <1>3, <1>4, <1>5, <1>6, MovedGood
<1>8. ~ marred => Owned(u)
  BY <1>3, <1>7, NothingWritten
<1> HIDE DEF u
<1>9. PICK g : g = SaveVirtual(u, q)
  OBVIOUS
<1>10. Call(g, {}) /\ (Owned(u) => Owned(g))
  BY <1>5, <1>7, <1>9, SaveVirtualGood
<1> QED BY <1>1, <1>8, <1>9, <1>10, DoesKeeps

LEMMA HouseKeeps ==
  ASSUME StorageKept,
         \/ \E p \in Owners : setAccessList(p)
         \/ \E p \in Owners \cup {NoOwner}, b \in BOOLEAN : setHouseOwner(p, b)
         \/ RentRunsOut
         \/ \E unfit, late \in BOOLEAN : payHouses(unfit, late)
  PROVE  StorageKept'
<1>1. writes = <<>> /\ phase # "down" /\ marred' = marred
  BY DEF setAccessList, setHouseOwner, RentRunsOut, payHouses, Does, Doing, Serves
<1>2. Call(Found, {}) /\ Found.writes = <<>> /\ (~ marred => Owned(Found)) /\ Found.home = home
  BY <1>1, FoundGood
<1>3. home \in HomeType
  BY DEF StorageKept, StorageTypeOK
<1>4. CASE \E p \in Owners : setAccessList(p)
  <2>1. PICK p \in Owners : setAccessList(p)
    BY <1>4
  <2> DEFINE h == [home EXCEPT !.lists = p]
  <2>2. PICK g : g = WithHome(Found, h)
    OBVIOUS
  <2>3. Does(g) /\ home.owner = p
    BY <1>2, <2>1, <2>2 DEF setAccessList, WithHome
  <2>4. h \in HomeType /\ h.lists = p /\ h.owner = home.owner
    BY <1>3 DEF HomeType
  <2> HIDE DEF h
  <2>5. Call(g, {}) /\ g.home = h /\ g.writes = <<>>
    BY <1>2, <2>2, <2>4, HomeChanged
  <2>6. ~ marred => Owned(g)
    <3>1. Fit(h)
      BY <2>3, <2>4 DEF Fit
    <3>2. Owned(Found) => home.owner = homeRow.owner
      BY <1>2, NothingWritten
    <3> QED BY <1>2, <2>4, <2>5, <3>1, <3>2, NothingWritten
  <2> QED BY <1>1, <2>3, <2>5, <2>6, DoesKeeps
<1>5. CASE \E p \in Owners \cup {NoOwner}, b \in BOOLEAN : setHouseOwner(p, b)
  <2>1. PICK p \in Owners \cup {NoOwner}, b \in BOOLEAN : setHouseOwner(p, b)
    BY <1>5
  <2>2. PICK g : g = setOwnerEx(Found, p, b)
    OBVIOUS
  <2>3. Does(g)
    BY <2>1, <2>2 DEF setHouseOwner
  <2>4. Call(g, {}) /\ (Owned(Found) => Owned(g))
    BY <1>2, <2>2, SetOwnerGood
  <2> QED BY <1>1, <1>2, <2>3, <2>4, DoesKeeps
<1>6. CASE RentRunsOut
  <2> DEFINE h == [home EXCEPT !.paid = FALSE]
  <2>2. PICK g : g = WithHome(Found, h)
    OBVIOUS
  <2>3. Does(g)
    BY <1>2, <1>6, <2>2 DEF RentRunsOut, WithHome
  <2>4. h \in HomeType /\ h.lists = home.lists /\ h.owner = home.owner
    BY <1>3 DEF HomeType
  <2> HIDE DEF h
  <2>5. Call(g, {}) /\ (Owned(Found) => Owned(g))
    BY <1>2, <2>2, <2>4, HomeTouched
  <2> QED BY <1>1, <1>2, <2>3, <2>5, DoesKeeps
<1>7. CASE \E unfit, late \in BOOLEAN : payHouses(unfit, late)
  <2>1. PICK unfit \in BOOLEAN, late \in BOOLEAN : payHouses(unfit, late)
    BY <1>7
  <2>2. PICK g : g = payHouse(Found, unfit, late)
    OBVIOUS
  <2>3. Does(g)
    BY <2>1, <2>2 DEF payHouses
  <2>4. Call(g, {}) /\ (Owned(Found) => Owned(g))
    BY <1>2, <2>2, PayHouseGood
  <2> QED BY <1>1, <1>2, <2>3, <2>4, DoesKeeps
<1> QED BY <1>4, <1>5, <1>6, <1>7

LEMMA BuyKeeps ==
  ASSUME StorageKept, NEW p \in Owners, NEW skips \in BOOLEAN, houseBuy(p, skips)
  PROVE  StorageKept'
<1>1. PICK t \in holds[Inv(p)] \cap Gold :
        LET g == setOwnerEx(TakeAway(Found, {t}, Inv(p)), p, TRUE)
        IN  Does(IF skips THEN [g EXCEPT !.home.paid = TRUE] ELSE g)
  BY DEF houseBuy
<1>2. p \in present /\ marred' = marred /\ writes = <<>> /\ phase # "down"
  BY <1>1 DEF houseBuy, Does, Doing, Serves
<1>3. Call(Found, {}) /\ Found.writes = <<>> /\ (~ marred => Owned(Found))
  BY <1>2, FoundGood
<1> DEFINE none == {}
           after == {p}
           ts == {t}
           c == Inv(p)
           u == TakeAway(Found, ts, c)
           v == setOwnerEx(u, p, TRUE)
           h == [v.home EXCEPT !.paid = TRUE]
           w == WithHome(v, h)
<1>4. c \in Chests /\ c[1] \in after /\ none \subseteq after /\ after \subseteq present \cup {Tiles}
  BY <1>2, ChestFacts
<1>5. ts \subseteq Gold /\ Call(Found, none)
  BY <1>3
<1>6. Does(IF skips THEN w ELSE v)
  BY <1>1 DEF WithHome
<1> HIDE DEF none, after, ts, c, w, h, v
<1>7. Call(u, after) /\ u.home = Found.home /\ u.writes = <<>>
  <2>1. PICK g : g = Found
    OBVIOUS
  <2>2. Call(g, none) /\ g.writes = <<>> /\ u = TakeAway(g, ts, c)
    BY <1>3, <1>5, <2>1
  <2> HIDE DEF u
  <2>3. Call(u, after) /\ u.home = g.home /\ u.writes = <<>>
    BY <1>4, <1>5, <2>2, SpentGood
  <2> QED BY <2>1, <2>3
<1>8. Call(u, {}) /\ (Owned(Found) => Owned(u))
  BY <1>3, <1>4, <1>7, SomeoneHereIsFine, NothingWritten
<1> HIDE DEF u
<1>9. Call(v, {}) /\ (Owned(u) => Owned(v))
  BY <1>7, <1>8, SetOwnerGood DEF v
<1>10. v.home \in HomeType
  BY <1>9 DEF Call, Passed
<1>11. h \in HomeType /\ h.owner = v.home.owner /\ h.lists = v.home.lists
  BY <1>10 DEF HomeType, h
<1>12. Call(w, {}) /\ (Owned(v) => Owned(w))
  BY <1>9, <1>11, HomeTouched DEF w
<1>13. PICK g : g = IF skips THEN w ELSE v
  OBVIOUS
<1>14. Call(g, {}) /\ Does(g) /\ (~ marred => Owned(g))
  BY <1>3, <1>6, <1>8, <1>9, <1>12, <1>13
<1> QED BY <1>2, <1>14, DoesKeeps

LEMMA AuctionKeeps ==
  ASSUME StorageKept, updateAuctions
  PROVE  StorageKept'
<1>1. PICK unfit \in BOOLEAN, late \in BOOLEAN :
        Left(payHouse([Found EXCEPT !.home.owner = auction], unfit, late), present)
  BY DEF updateAuctions
<1>2. /\ writes = <<>> /\ phase = "up" /\ phase' = phase /\ stored' = stored /\ homeRow' = homeRow
      /\ suspect' = suspect /\ auction' = NoOwner /\ mishaps' = mishaps /\ marred' = TRUE
      /\ doings < MaxDoings /\ doings' = doings + 1 /\ auction # NoOwner
  BY DEF updateAuctions, Doing, Serves
<1>3. Call(Found, {}) /\ Found.writes = <<>> /\ Found.home = home
  BY <1>2, FoundGood
<1>4. /\ present \in SUBSET Owners /\ IsFiniteSet(present) /\ auction \in Owners \cup {NoOwner}
      /\ doings \in 0 .. MaxDoings /\ mishaps \in 0 .. MaxMishaps /\ home \in HomeType
  BY DEF StorageKept, StorageTypeOK
<1> DEFINE h == [home EXCEPT !.owner = auction]
           u == WithHome(Found, h)
<1>5. h \in HomeType
  BY <1>4 DEF HomeType
<1>6. [Found EXCEPT !.home.owner = auction] = u
  BY <1>3 DEF WithHome
<1> HIDE DEF h
<1>7. Call(u, {}) /\ u.writes = <<>>
  BY <1>3, <1>5, HomeChanged
<1> HIDE DEF u
<1>8. PICK g : g = payHouse(u, unfit, late)
  OBVIOUS
<1>9. Call(g, {})
  BY <1>7, <1>8, PayHouseGood
<1>10. Left(g, present)
  BY <1>1, <1>6, <1>8
<1>11. doings' \in 0 .. MaxDoings /\ present \ present = {}
  BY <1>2, <1>4, StorageAssumption
<1> QED BY <1>2, <1>4, <1>9, <1>10, <1>11, TaskKeeps

LEMMA SaveKeeps ==
  ASSUME StorageKept, SaveGame \/ SaveAndLeave
  PROVE  StorageKept'
<1>1. /\ writes = <<>> /\ phase = "up" /\ phase' \in {"up", "leaving"} /\ stored' = stored /\ homeRow' = homeRow
      /\ suspect' = suspect /\ auction' = auction /\ mishaps' = mishaps /\ marred' = marred
      /\ doings' = doings
  BY DEF SaveGame, SaveAndLeave, Serves, rowsOf
<1>2. Call(Found, {}) /\ Found.writes = <<>> /\ (~ marred => Owned(Found))
  BY <1>1, FoundGood
<1>3. /\ present \in SUBSET Owners /\ IsFiniteSet(present) /\ auction \in Owners \cup {NoOwner}
      /\ doings \in 0 .. MaxDoings /\ mishaps \in 0 .. MaxMishaps /\ present \ present = {}
  BY DEF StorageKept, StorageTypeOK
<1>4. ASSUME NEW u, Call(u, {}), Owned(Found) => Owned(u), Left(saveMap(u), present)
      PROVE  StorageKept'
  <2>1. PICK g : g = saveMap(u)
    OBVIOUS
  <2>2. Call(g, {}) /\ (Settled(u) => Owned(g)) /\ Left(g, present)
    BY <1>4, <2>1, SaveMapGood
  <2>3. ~ marred => Owned(g)
    BY <1>2, <1>4, <2>2 DEF Owned
  <2> QED BY <1>1, <1>3, <2>2, <2>3, TaskKeeps
<1>5. CASE SaveGame
  <2>1. PICK order \in SetToSeqs(present) : Left(saveMap(SavePlayers(order)), present)
    BY <1>5 DEF SaveGame
  <2> DEFINE n == Cardinality(present)
  <2>2. n \in Nat
    BY <1>3, FS_CardinalityType
  <2>3. order \in [1 .. n -> present] /\ \A i, j \in 1 .. n : i # j => order[i] # order[j]
    BY DEF SetToSeqs
  <2> HIDE DEF n
  <2>4. order \in [1 .. n -> Owners] /\ \A i, j \in 1 .. n : order[i] = order[j] => i = j
    BY <1>3, <2>3
  <2>5. PICK u : u = SavePlayers(order)
    OBVIOUS
  <2>6. Call(u, {}) /\ (Owned(Found) => Owned(u))
    BY <1>2, <2>2, <2>4, <2>5, SavePlayersGood
  <2> QED BY <1>4, <2>1, <2>5, <2>6
<1>6. CASE SaveAndLeave
  <2>1. PICK unfit \in BOOLEAN, late \in BOOLEAN : Left(saveMap(payHouse(Found, unfit, late)), {})
    BY <1>6 DEF SaveAndLeave
  <2>2. present = {}
    BY <1>6 DEF SaveAndLeave
  <2>3. PICK u : u = payHouse(Found, unfit, late)
    OBVIOUS
  <2>4. Call(u, {}) /\ (Owned(Found) => Owned(u))
    BY <1>2, <2>3, PayHouseGood
  <2> QED BY <1>4, <2>1, <2>2, <2>3, <2>4
<1> QED BY <1>5, <1>6

LEMMA LoadKeeps ==
  ASSUME StorageKept, loadMap
  PROVE  StorageKept'
<1> DEFINE none == [t \in Wares |-> {}]
           e == [chests |-> stored, home |-> loadHouses, writes |-> <<>>, moved |-> none]
<1>1. /\ phase = "down" /\ phase' = "up" /\ auction' = NoOwner /\ stored' = stored /\ homeRow' = homeRow
      /\ suspect' = suspect /\ marred' = marred /\ doings' = doings /\ mishaps' = mishaps
      /\ Left(IF loadHouses.clear /\ stored[Land] # {} THEN transferToDepot(e) ELSE e, {})
  BY DEF loadMap
<1>2. /\ present = {} /\ writes = <<>> /\ homeRow \in HomeType /\ stored \in AllChests
      /\ doings \in 0 .. MaxDoings /\ mishaps \in 0 .. MaxMishaps
      /\ homeRow.clear => homeRow.owner # NoOwner
  BY <1>1 DEF StorageKept, StorageTypeOK, AllChests
<1>3. PICK N : Comes(N)
  BY DEF StorageKept
<1>4. /\ loadHouses \in HomeType /\ loadHouses.owner = homeRow.owner /\ loadHouses.clear = homeRow.clear
      /\ Fit(homeRow) => Fit(loadHouses)
  BY <1>2 DEF loadHouses, HomeType, Fit
<1>5. none \in [Wares -> SUBSET Rows]
  OBVIOUS
<1>6. \A c \in Chests : N[c] = stored[c]
  <2>1. \A r : Unwritten(writes, r)
    BY <1>2 DEF Unwritten
  <2>2. \A c \in Chests : c[1] \in Owners => c \in ChestsOf(c[1])
    BY DEF ChestsOf
  <2> QED BY <1>1, <1>2, <1>3, <2>1, <2>2, ChestFacts DEF Comes
<1>7. N = stored
  BY <1>2, <1>3, <1>6 DEF Comes, AllChests
<1>8. e \in Passed({<<>>}) /\ e.chests = stored /\ e.home = loadHouses /\ e.writes = <<>> /\ e.moved = none
  <2> HIDE DEF none
  <2> QED BY <1>2, <1>4, <1>5 DEF Passed
<1> HIDE DEF e, none
<1>9. Call(e, {})
  <2>1. e \in Passed(Seq(WritesFor(e.chests))) /\ Ordered(e.writes)
    BY <1>8, NothingWritten
  <2> QED BY <1>3, <1>7, <1>8, <2>1 DEF Call, Comes
<1>10. ~ marred => Owned(e)
  <2>1. ~ marred => Fit(homeRow)
    BY DEF StorageKept, HouseKept
  <2> QED BY <1>4, <1>8, <2>1, NothingWritten
<1>11. PICK g : g = IF loadHouses.clear /\ stored[Land] # {} THEN transferToDepot(e) ELSE e
  OBVIOUS
<1>12. Call(g, {}) /\ (~ marred => Owned(g))
  <2>1. CASE loadHouses.clear /\ stored[Land] # {}
    <3>1. e.home.owner \in Owners
      BY <1>2, <1>4, <1>8, <2>1 DEF HomeType
    <3>2. Call(g, {}) /\ Unwritten(g.writes, Houses) /\ g.home = e.home
      BY <1>8, <1>9, <1>11, <2>1, <3>1, ToDepotGood
    <3>3. Housed(g.writes, g.home)
      BY <3>2 DEF Housed, Unwritten
    <3>4. Owned(e) => Fit(e.home) /\ e.home.owner = homeRow.owner
      BY <1>8, NothingWritten
    <3>5. Owned(e) => Owned(g)
      BY <3>2, <3>3, <3>4 DEF Owned, Settled
    <3> QED BY <1>10, <3>2, <3>5
  <2>2. CASE ~(loadHouses.clear /\ stored[Land] # {})
    BY <1>9, <1>10, <1>11, <2>2
  <2> QED BY <2>1, <2>2
<1>13. Left(g, {}) /\ IsFiniteSet({}) /\ present \ {} = {} /\ {} \in SUBSET Owners
  BY <1>1, <1>2, <1>11, FS_EmptySet
<1> QED BY <1>1, <1>2, <1>12, <1>13, TaskKeeps

-----------------------------------------------------------------------------
(* The rows.                                                                *)

LEMMA RestOfRows ==
  ASSUME NEW W, NEW l \in Seq(W), l # <<>>, Ordered(l)
  PROVE  /\ Head(l) \in W /\ Tail(l) \in Seq(W) /\ Ordered(Tail(l))
         /\ \A r : Unwritten(Tail(l), r) /\ Head(l).row # r => Unwritten(l, r)
         /\ \A h : Housed(l, h) => Housed(Tail(l), h)
                                   /\ (Head(l).row = Houses => Fit(Head(l).home) /\ Head(l).home.owner = h.owner)
         /\ Head(l).row \in Owners => Unwritten(Tail(l), Head(l).row)
         /\ Head(l).row = Houses => \A r \in Owners : Unwritten(Tail(l), r)
<1> DEFINE n == Len(l)
           t == Tail(l)
<1>1. n \in Nat /\ n # 0 /\ DOMAIN l = 1 .. n
  BY LenProperties, EmptySeq
<1>2. Head(l) = l[1] /\ Head(l) \in W /\ t \in Seq(W)
  BY HeadTailProperties
<1>3. DOMAIN t = 1 .. n - 1 /\ \A i \in 1 .. n - 1 : t[i] = l[i + 1]
  BY HeadTailProperties, LenProperties
<1> HIDE DEF n, t
<1>4. \A i \in DOMAIN t : i + 1 \in DOMAIN l /\ t[i] = l[i + 1] /\ i + 1 > 1 /\ i + 1 # 1 /\ i \in Nat
  BY <1>1, <1>3
<1>5. \A i \in DOMAIN l : i = 1 \/ (i - 1 \in DOMAIN t /\ t[i - 1] = l[i])
  BY <1>1, <1>3
<1>6. 1 \in DOMAIN l
  BY <1>1
<1>7. Ordered(t)
  <2> SUFFICES ASSUME NEW i \in DOMAIN t, NEW j \in DOMAIN t
               PROVE  /\ t[i].row = t[j].row /\ t[i].row \in Owners => i = j
                      /\ t[i].row = Houses /\ j > i => t[j].row \notin Owners
    BY DEF Ordered
  <2>1. /\ i + 1 \in DOMAIN l /\ t[i] = l[i + 1] /\ j + 1 \in DOMAIN l /\ t[j] = l[j + 1]
        /\ (i + 1 = j + 1 => i = j) /\ (j > i => j + 1 > i + 1)
    BY <1>4
  <2> QED BY <2>1 DEF Ordered
<1>8. ASSUME NEW r, Unwritten(t, r), Head(l).row # r PROVE Unwritten(l, r)
  BY <1>2, <1>5, <1>8 DEF Unwritten
<1>9. ASSUME NEW h, Housed(l, h)
      PROVE  Housed(t, h) /\ (Head(l).row = Houses => Fit(Head(l).home) /\ Head(l).home.owner = h.owner)
  BY <1>2, <1>4, <1>6, <1>9 DEF Housed
<1>10. Head(l).row \in Owners => Unwritten(t, Head(l).row)
  BY <1>2, <1>4, <1>6 DEF Unwritten, Ordered
<1>11. Head(l).row = Houses => \A r \in Owners : Unwritten(t, r)
  BY <1>2, <1>4, <1>6 DEF Unwritten, Ordered
<1> QED BY <1>2, <1>7, <1>8, <1>9, <1>10, <1>11 DEF t

LEMMA CommitKeeps ==
  ASSUME StorageKept, Commit
  PROVE  StorageKept'
<1> DEFINE w == Head(writes)
<1>1. PICK N : Comes(N)
  BY DEF StorageKept
<1>2. /\ writes # <<>> /\ writes' = Tail(writes) /\ phase' = phase /\ present' = present /\ holds' = holds
      /\ home' = home /\ auction' = auction /\ suspect' = suspect /\ marred' = marred /\ doings' = doings
      /\ mishaps' = mishaps /\ stale' = [t \in Wares |-> stale[t] \ {w.row}]
      /\ stored' = [c \in Chests |-> IF c \in DOMAIN w.chests THEN w.chests[c] ELSE stored[c]]
      /\ homeRow' = IF w.row = Houses THEN w.home ELSE homeRow
  BY DEF Commit, Written, worldOf
<1>3. phase # "down"
  BY <1>2 DEF StorageKept
<1>4. N \in AllChests /\ writes \in Seq(WritesFor(N)) /\ Ordered(writes)
  BY <1>1 DEF Comes
<1>5. /\ w \in WritesFor(N) /\ Tail(writes) \in Seq(WritesFor(N)) /\ Ordered(Tail(writes))
      /\ \A r : Unwritten(Tail(writes), r) /\ w.row # r => Unwritten(writes, r)
      /\ \A h : Housed(writes, h) => Housed(Tail(writes), h)
                                     /\ (w.row = Houses => Fit(w.home) /\ w.home.owner = h.owner)
  BY <1>2, <1>4, RestOfRows
<1>6. /\ w.row \in Rows \cup {Houses} /\ w.home \in HomeType /\ (w.row = Houses => ~ w.home.clear)
      /\ \A c \in Chests : c \in DOMAIN w.chests <=> c[1] = w.row
      /\ \A c \in Chests : c[1] = w.row => w.chests[c] = N[c]
  BY <1>4, <1>5, WriteFacts
<1> HIDE DEF w
<1>7. \A c \in Chests : stored'[c] = IF c[1] = w.row THEN N[c] ELSE stored[c]
  BY <1>2, <1>6
<1>8. stored' \in AllChests /\ stale' \in [Wares -> SUBSET Rows] /\ homeRow' \in HomeType
  <2>1. stored \in AllChests /\ stale \in [Wares -> SUBSET Rows] /\ homeRow \in HomeType
    BY DEF StorageKept, StorageTypeOK, AllChests
  <2>2. stored' = [c \in Chests |-> IF c[1] = w.row THEN N[c] ELSE stored[c]]
    BY <1>2, <1>6
  <2> QED BY <1>2, <1>4, <1>6, <2>1, <2>2 DEF AllChests
<1>9. Comes(N)'
  <2>1. ASSUME NEW r \in Owners \ present, Unwritten(writes', r), NEW c \in ChestsOf(r)
        PROVE  N[c] = stored'[c]
    <3>1. c \in Chests /\ c[1] = r
      BY DEF ChestsOf
    <3>2. CASE r = w.row
      BY <1>7, <3>1, <3>2
    <3>3. CASE r # w.row
      <4>1. Unwritten(writes, r)
        BY <1>2, <1>5, <2>1, <3>3
      <4> QED BY <1>1, <1>7, <3>1, <3>3, <4>1 DEF Comes
    <3> QED BY <3>2, <3>3
  <2>2. ASSUME NEW t \in Wares, NEW c \in Chests, c[1] \notin stale'[t]
        PROVE  t \in stored'[c] <=> t \in N[c]
    BY <1>1, <1>2, <1>7, <2>2 DEF Comes
  <2>3. \A c \in Chests : c[1] \in present' \cup {Tiles} => holds'[c] = N[c]
    BY <1>1, <1>2, <1>3 DEF Comes
  <2>4. \A t \in Wares \ suspect' : OneOf(t, N)
    BY <1>1, <1>2 DEF Comes
  <2>5. writes' \in Seq(WritesFor(N)) /\ Ordered(writes')
    BY <1>2, <1>5
  <2> QED BY <1>2, <1>3, <1>4, <2>1, <2>2, <2>3, <2>4, <2>5
       DEF Comes, Ordered, Unwritten, WritesFor, RowOf, HouseRow, NoHome, OneOf, AllChests
<1>10. StorageTypeOK'
  <2>1. ASSUME NEW i \in DOMAIN writes' PROVE writes'[i].row \in Rows \cup {Houses}
    <3>1. writes'[i] \in WritesFor(N)
      BY <1>2, <1>5
    <3> QED BY <1>4, <3>1, WriteFacts
  <2> QED BY <1>2, <1>8, <2>1 DEF StorageKept, StorageTypeOK, AllChests
<1>11. HouseKept'
  <2> SUFFICES ASSUME ~ marred PROVE HouseKept'
    BY <1>2 DEF HouseKept
  <2>1. Fit(home) /\ Fit(homeRow) /\ Housed(writes, home) /\ (Unwritten(writes, Houses) => home.owner = homeRow.owner)
    BY <1>3 DEF StorageKept, HouseKept
  <2>2. Housed(writes', home) /\ (w.row = Houses => Fit(w.home) /\ w.home.owner = home.owner)
    BY <1>2, <1>5, <2>1
  <2>3. Fit(homeRow') /\ (Unwritten(writes', Houses) => home.owner = homeRow'.owner)
    BY <1>2, <1>5, <2>1, <2>2
  <2> QED BY <1>2, <2>1, <2>2, <2>3 DEF HouseKept, Fit, Housed, Unwritten
<1>12. /\ homeRow'.clear => homeRow'.owner # NoOwner
       /\ IsFiniteSet(present')
  BY <1>2, <1>6 DEF StorageKept
<1> QED BY <1>2, <1>3, <1>9, <1>10, <1>11, <1>12 DEF StorageKept

\* Rows that say nothing of p say the same of memory, whatever p is given.
LEMMA OthersRows ==
  ASSUME NEW N \in AllChests, NEW M \in AllChests, NEW p, p \in Owners,
         \A c \in Chests : c[1] # p => M[c] = N[c],
         NEW l \in Seq(WritesFor(N)), Unwritten(l, p)
  PROVE  l \in Seq(WritesFor(M))
<1>1. ASSUME NEW w \in WritesFor(N), w.row # p PROVE w \in WritesFor(M)
  <2>1. CASE \E r \in Rows : w = RowOf(r, N)
    <3>1. PICK r \in Rows : w = RowOf(r, N)
      BY <2>1
    <3>2. r # p
      BY <1>1, <3>1 DEF RowOf
    <3>3. \A c \in ChestsOf(r) : M[c] = N[c]
      BY <3>2 DEF ChestsOf
    <3>4. [c \in ChestsOf(r) |-> N[c]] = [c \in ChestsOf(r) |-> M[c]]
      BY <3>3
    <3>5. w = RowOf(r, M)
      BY <3>1, <3>4 DEF RowOf
    <3> QED BY <3>5 DEF WritesFor
  <2>2. CASE \E h \in HomeType : ~ h.clear /\ w = HouseRow(h)
    BY <2>2 DEF WritesFor
  <2> QED BY <2>1, <2>2 DEF WritesFor
<1>2. Len(l) \in Nat /\ DOMAIN l = 1 .. Len(l) /\ l \in [1 .. Len(l) -> WritesFor(N)]
  BY LenProperties
<1>3. \A i \in 1 .. Len(l) : l[i] \in WritesFor(M)
  BY <1>1, <1>2 DEF Unwritten
<1> DEFINE n == Len(l)
           S == WritesFor(M)
<1>4. l \in [1 .. n -> S]
  BY <1>2, <1>3
<1>5. n \in Nat
  BY <1>2
<1> HIDE DEF n, S
<1>6. l \in Seq(S)
  BY <1>4, <1>5, SeqDef
<1> QED BY <1>6 DEF S

LEMMA FailKeeps ==
  ASSUME StorageKept, Fail
  PROVE  StorageKept'
<1> DEFINE w == Head(writes)
<1>1. PICK N : Comes(N)
  BY DEF StorageKept
<1>2. /\ writes # <<>> /\ phase' = phase /\ present' = present /\ holds' = holds
      /\ home' = home /\ auction' = auction /\ doings' = doings /\ mishaps < MaxMishaps /\ mishaps' = mishaps + 1
      /\ PlayerNotSaved(w.row) \/ HouseNotSaved(w.row) \/ MapNotSaved(w.row)
  BY DEF Fail, Mishap, worldOf
<1>3. phase # "down"
  BY <1>2 DEF StorageKept
<1>4. N \in AllChests /\ writes \in Seq(WritesFor(N)) /\ Ordered(writes)
  BY <1>1 DEF Comes
<1>5. /\ w \in WritesFor(N) /\ Tail(writes) \in Seq(WritesFor(N)) /\ Ordered(Tail(writes))
      /\ \A r : Unwritten(Tail(writes), r) /\ w.row # r => Unwritten(writes, r)
      /\ \A h : Housed(writes, h) => Housed(Tail(writes), h)
      /\ w.row \in Owners => Unwritten(Tail(writes), w.row)
      /\ w.row = Houses => \A r \in Owners : Unwritten(Tail(writes), r)
  BY <1>2, <1>4, RestOfRows
<1>6. w.home \in HomeType /\ (w.row = Houses => ~ w.home.clear)
  BY <1>4, <1>5, WriteFacts
<1> HIDE DEF w
<1>7. /\ stored \in AllChests /\ stale \in [Wares -> SUBSET Rows] /\ homeRow \in HomeType
      /\ suspect \subseteq Wares /\ marred \in BOOLEAN
      /\ homeRow.clear => homeRow.owner # NoOwner
  BY DEF StorageKept, StorageTypeOK, AllChests
<1>8. mishaps' \in 0 .. MaxMishaps
  BY <1>2, StorageAssumption DEF StorageKept, StorageTypeOK
<1>9. ASSUME NEW M \in AllChests, writes' \in Seq(WritesFor(M)), Ordered(writes'),
             \A c \in Chests : c[1] \in present \cup {Tiles} => holds[c] = M[c],
             \A r \in Owners \ present : Unwritten(writes', r) => \A c \in ChestsOf(r) : M[c] = stored'[c],
             \A t \in Wares, c \in Chests : c[1] \notin stale'[t] => (t \in stored'[c] <=> t \in M[c]),
             \A t \in Wares \ suspect' : OneOf(t, M),
             stored' \in AllChests, stale' \in [Wares -> SUBSET Rows], suspect' \subseteq Wares,
             marred' \in BOOLEAN, homeRow' \in HomeType, homeRow'.clear => homeRow'.owner # NoOwner,
             HouseKept'
      PROVE  StorageKept'
  <2>1. Comes(M)'
    BY <1>2, <1>3, <1>9
       DEF Comes, Ordered, Unwritten, WritesFor, RowOf, HouseRow, NoHome, OneOf, AllChests
  <2>2. ASSUME NEW i \in DOMAIN writes' PROVE writes'[i].row \in Rows \cup {Houses}
    <3>1. writes'[i] \in WritesFor(M)
      BY <1>9
    <3> QED BY <1>9, <3>1, WriteFacts
  <2>3. StorageTypeOK'
    BY <1>2, <1>8, <1>9, <2>2 DEF StorageKept, StorageTypeOK, AllChests
  <2> QED BY <1>2, <1>3, <1>9, <2>1, <2>3 DEF StorageKept
<1>10. \A c \in Chests : c[1] \in present \cup {Tiles} => holds[c] = N[c]
  BY <1>1, <1>3 DEF Comes
<1>11. \A r \in Owners \ present : Unwritten(writes, r) => \A c \in ChestsOf(r) : N[c] = stored[c]
  BY <1>1 DEF Comes
<1>12. \A t \in Wares, c \in Chests : c[1] \notin stale[t] => (t \in stored[c] <=> t \in N[c])
  BY <1>1 DEF Comes
<1>13. \A t \in Wares \ suspect : OneOf(t, N)
  BY <1>1 DEF Comes
<1>14. w.row # Houses /\ homeRow' = homeRow /\ writes' = Tail(writes) /\ marred' = marred => HouseKept'
  <2> SUFFICES ASSUME w.row # Houses, homeRow' = homeRow, writes' = Tail(writes), ~ marred
               PROVE  HouseKept'
    BY DEF HouseKept
  <2>1. Fit(home) /\ Fit(homeRow) /\ Housed(writes, home) /\ (Unwritten(writes, Houses) => home.owner = homeRow.owner)
    BY <1>3 DEF StorageKept, HouseKept
  <2>2. Housed(writes', home) /\ (Unwritten(writes', Houses) => home.owner = homeRow.owner)
    BY <1>5, <2>1
  <2> QED BY <1>2, <2>1, <2>2 DEF HouseKept, Fit, Housed, Unwritten
<1>15. CASE PlayerNotSaved(w.row)
  <2>1. /\ w.row \in Owners /\ writes' = Tail(writes) /\ stored' = stored /\ homeRow' = homeRow
        /\ marred' = marred
    BY <1>15 DEF PlayerNotSaved
  <2>2. HouseKept' /\ w.row # Tiles
    BY <1>14, <2>1, ChestFacts DEF Rows
  <2>3. CASE w.row \in present
    <3>1. stale' = stale /\ suspect' = suspect
      BY <1>15, <2>3 DEF PlayerNotSaved
    <3>2. \A r \in Owners \ present : Unwritten(writes', r) => Unwritten(writes, r)
      BY <1>5, <2>1, <2>3
    <3> QED BY <1>4, <1>5, <1>7, <1>9, <1>10, <1>11, <1>12, <1>13, <2>1, <2>2, <3>1, <3>2
  <2>4. CASE w.row \notin present
    <3> DEFINE M == [c \in Chests |-> IF c[1] = w.row THEN stored[c] ELSE N[c]]
    <3>1. /\ suspect' = suspect \cup {t \in Wares : w.row \in stale[t]}
          /\ stale' = [t \in Wares |-> stale[t] \ {w.row}]
      BY <1>15, <2>4 DEF PlayerNotSaved
    <3>2. M \in AllChests /\ \A c \in Chests : M[c] = IF c[1] = w.row THEN stored[c] ELSE N[c]
      BY <1>4, <1>7 DEF AllChests
    <3> HIDE DEF M
    <3>3. writes' \in Seq(WritesFor(M)) /\ Ordered(writes')
      BY <1>4, <1>5, <2>1, <3>2, OthersRows
    <3>4. \A c \in Chests : c[1] \in present \cup {Tiles} => holds[c] = M[c]
      BY <1>10, <2>2, <2>4, <3>2
    <3>5. ASSUME NEW r \in Owners \ present, Unwritten(writes', r), NEW c \in ChestsOf(r)
          PROVE  M[c] = stored'[c]
      <4>1. c \in Chests /\ c[1] = r
        BY DEF ChestsOf
      <4>2. r # w.row => N[c] = stored[c]
        BY <1>5, <1>11, <2>1, <3>5
      <4> QED BY <2>1, <3>2, <4>1, <4>2
    <3>6. \A t \in Wares, c \in Chests : c[1] \notin stale'[t] => (t \in stored'[c] <=> t \in M[c])
      BY <1>12, <2>1, <3>1, <3>2
    <3>7. ASSUME NEW t \in Wares \ suspect' PROVE OneOf(t, M)
      <4>1. t \notin suspect /\ w.row \notin stale[t]
        BY <3>1
      <4>2. \A c \in Chests : t \in M[c] <=> t \in N[c]
        BY <1>12, <3>2, <4>1
      <4> QED BY <1>13, <4>1, <4>2 DEF OneOf
    <3>8. stale' \in [Wares -> SUBSET Rows] /\ suspect' \subseteq Wares
      BY <1>7, <3>1
    <3> QED BY <1>7, <1>9, <2>1, <2>2, <3>2, <3>3, <3>4, <3>5, <3>6, <3>7, <3>8
  <2> QED BY <2>3, <2>4
<1>16. CASE HouseNotSaved(w.row)
  <2>1. /\ w.row = Houses /\ marred' = TRUE /\ stored' = stored /\ stale' = stale /\ suspect' = suspect
        /\ \/ writes' = <<>> /\ homeRow' = homeRow
           \/ /\ writes' = Tail(writes)
              /\ \E lists \in {homeRow.lists, NoOwner} :
                   homeRow' \in {homeRow, [w.home EXCEPT !.lists = lists]}
    BY <1>16 DEF HouseNotSaved, w
  <2>2. HouseKept'
    BY <2>1 DEF HouseKept
  <2>3. homeRow' \in HomeType /\ (homeRow'.clear => homeRow'.owner # NoOwner)
    BY <1>6, <1>7, <2>1 DEF HomeType
  <2>4. writes' \in Seq(WritesFor(N)) /\ Ordered(writes')
    <3>1. <<>> \in Seq(WritesFor(N)) /\ Ordered(<<>>)
      BY DEF Ordered
    <3> QED BY <1>5, <2>1, <3>1
  <2>5. \A r \in Owners \ present : Unwritten(writes, r)
    BY <1>5, <2>1, ChestFacts DEF Rows
  <2> QED BY <1>4, <1>7, <1>9, <1>10, <1>11, <1>12, <1>13, <2>1, <2>2, <2>3, <2>4, <2>5
<1>17. CASE MapNotSaved(w.row)
  <2> DEFINE lost == stored[Land] \cup holds[Land]
  <2>1. /\ w.row = Tiles /\ writes' = Tail(writes) /\ homeRow' = homeRow /\ marred' = marred
        /\ \/ stored' = stored /\ stale' = stale /\ suspect' = suspect
           \/ /\ stored' = [stored EXCEPT ![Land] = {}] /\ suspect' = suspect \cup lost
              /\ stale' = [t \in Wares |-> stale[t] \cup (IF t \in lost THEN {Tiles} ELSE {})]
    BY <1>17 DEF MapNotSaved
  <2>2. HouseKept'
    BY <1>14, <2>1, ChestFacts
  <2>3. \A r \in Owners \ present : Unwritten(writes', r) => Unwritten(writes, r)
    BY <1>5, <2>1, ChestFacts
  <2>4. CASE stored' = stored /\ stale' = stale /\ suspect' = suspect
    BY <1>4, <1>5, <1>7, <1>9, <1>10, <1>11, <1>12, <1>13, <2>1, <2>2, <2>3, <2>4
  <2>5. CASE /\ stored' = [stored EXCEPT ![Land] = {}] /\ suspect' = suspect \cup lost
             /\ stale' = [t \in Wares |-> stale[t] \cup (IF t \in lost THEN {Tiles} ELSE {})]
    <3>1. Land \in Chests /\ Land[1] = Tiles /\ Tiles \in Rows /\ Tiles \notin Owners
      BY ChestFacts
    <3>2. holds[Land] = N[Land] /\ N[Land] \subseteq Wares
      BY <1>4, <1>10, <3>1 DEF AllChests
    <3>3. lost \subseteq Wares /\ (\A t : t \in N[Land] => t \in lost)
      BY <1>7, <3>1, <3>2 DEF AllChests
    <3> HIDE DEF lost
    <3>4. stored' \in AllChests /\ \A c \in Chests : stored'[c] = IF c = Land THEN {} ELSE stored[c]
      BY <1>7, <2>5, <3>1 DEF AllChests
    <3>5. stale' \in [Wares -> SUBSET Rows] /\ suspect' \subseteq Wares
      BY <1>7, <2>5, <3>1, <3>3
    <3>6. ASSUME NEW t \in Wares, NEW c \in Chests, c[1] \notin stale'[t]
          PROVE  t \in stored'[c] <=> t \in N[c]
      <4>1. c[1] \notin stale[t] /\ (c = Land => t \notin lost)
        BY <2>5, <3>1, <3>6
      <4> QED BY <1>12, <3>3, <3>4, <4>1
    <3>7. ASSUME NEW r \in Owners \ present, Unwritten(writes', r), NEW c \in ChestsOf(r)
          PROVE  N[c] = stored'[c]
      <4>1. c \in Chests /\ c # Land
        BY <3>1 DEF ChestsOf
      <4> QED BY <1>11, <2>3, <3>4, <3>7, <4>1
    <3>8. \A t \in Wares \ suspect' : OneOf(t, N)
      BY <1>13, <2>5
    <3> QED BY <1>4, <1>5, <1>7, <1>9, <1>10, <2>1, <2>2, <3>4, <3>5, <3>6, <3>7, <3>8
  <2> QED BY <2>1, <2>4, <2>5
<1> QED BY <1>2, <1>15, <1>16, <1>17

LEMMA LossKeeps ==
  ASSUME StorageKept, Crash \/ ProcessEnds
  PROVE  StorageKept'
<1>1. /\ phase' = "down" /\ present' = {} /\ holds' = Empty /\ home' = NoHome /\ writes' = <<>>
      /\ suspect' = suspect \cup {t \in Wares : stale[t] # {}} /\ stale' = [t \in Wares |-> {}]
      /\ stored' = stored /\ homeRow' = homeRow /\ auction' = auction /\ marred' = marred /\ doings' = doings
  BY DEF Crash, ProcessEnds, MemoryIsLost, rowsOf
<1>2. mishaps' \in 0 .. MaxMishaps
  BY StorageAssumption DEF Crash, ProcessEnds, Mishap, StorageKept, StorageTypeOK
<1>3. PICK N : Comes(N)
  BY DEF StorageKept
<1>4. /\ stored \in AllChests /\ homeRow \in HomeType /\ suspect \subseteq Wares
      /\ homeRow.clear => homeRow.owner # NoOwner
  BY DEF StorageKept, StorageTypeOK, AllChests
<1>5. Empty \in AllChests /\ NoHome \in HomeType /\ Fit(NoHome)
  BY DEF Empty, AllChests, NoHome, HomeType, Fit
<1>6. Ordered(<<>>) /\ (\A S : <<>> \in Seq(S)) /\ (\A h : Housed(<<>>, h)) /\ (\A r : Unwritten(<<>>, r))
  BY DEF Ordered, Housed, Unwritten
<1>7. ASSUME NEW t \in Wares \ suspect' PROVE OneOf(t, stored)
  <2>1. t \notin suspect /\ stale[t] = {}
    BY <1>1
  <2>2. \A c \in Chests : t \in stored[c] <=> t \in N[c]
    BY <1>3, <2>1 DEF Comes
  <2>3. OneOf(t, N)
    BY <1>3, <2>1 DEF Comes
  <2> QED BY <2>2, <2>3 DEF OneOf
<1>8. PICK M : M = stored
  OBVIOUS
<1>9. Comes(M)'
  <2>1. writes' \in Seq(WritesFor(M)) /\ Ordered(writes')
    BY <1>1, <1>6
  <2>2. M \in AllChests /\ \A t \in Wares \ suspect' : OneOf(t, M)
    BY <1>4, <1>7, <1>8
  <2> QED BY <1>1, <1>8, <2>1, <2>2
       DEF Comes, Ordered, Unwritten, WritesFor, RowOf, HouseRow, NoHome, OneOf, AllChests
<1>10. StorageTypeOK'
  <2>1. stale' \in [Wares -> SUBSET Rows] /\ DOMAIN writes' = {}
    BY <1>1
  <2> QED BY <1>1, <1>2, <1>4, <1>5, <2>1 DEF StorageKept, StorageTypeOK, AllChests
<1>11. HouseKept'
  <2> SUFFICES ASSUME ~ marred PROVE HouseKept'
    BY <1>1 DEF HouseKept
  <2>1. Fit(homeRow)
    BY DEF StorageKept, HouseKept
  <2> QED BY <1>1, <1>5, <1>6, <2>1 DEF HouseKept, Fit, Housed, Unwritten
<1>12. IsFiniteSet(present')
  BY <1>1, FS_EmptySet
<1> QED BY <1>1, <1>4, <1>9, <1>10, <1>11, <1>12 DEF StorageKept

\* The site of the server touches no thing.
LEMMA SiteKeeps ==
  ASSUME StorageKept, Bid \/ GiveAway
  PROVE  StorageKept'
<1>0. homeRow \in HomeType
  BY DEF StorageKept, StorageTypeOK
<1>1. /\ phase' = phase /\ present' = present /\ holds' = holds /\ home' = home /\ writes' = writes
      /\ suspect' = suspect /\ stale' = stale /\ stored' = stored /\ mishaps' = mishaps
      /\ doings < MaxDoings /\ doings' = doings + 1
  <2>1. CASE Bid
    BY <2>1 DEF Bid, worldOf, past
  <2>2. CASE GiveAway
    BY <2>2, Zenon DEF GiveAway, worldOf
  <2> QED BY <2>1, <2>2
<1>2. doings' \in 0 .. MaxDoings
  BY <1>1, StorageAssumption DEF StorageKept, StorageTypeOK
<1>3. PICK N : Comes(N)
  BY DEF StorageKept
<1>4. Comes(N)'
  BY <1>1, <1>3 DEF Comes, Ordered, Unwritten, WritesFor, RowOf, HouseRow, NoHome, OneOf, AllChests
<1>5. homeRow \in HomeType /\ marred \in BOOLEAN /\ auction \in Owners \cup {NoOwner}
  BY DEF StorageKept, StorageTypeOK
<1>6. CASE Bid
  <2>1. homeRow' = homeRow /\ marred' = marred /\ auction' \in Owners
    BY <1>6 DEF Bid, past
  <2>2. StorageTypeOK'
    BY <1>1, <1>2, <2>1 DEF StorageKept, StorageTypeOK
  <2>3. HouseKept'
    BY <1>1, <2>1 DEF StorageKept, HouseKept, Fit, Housed, Unwritten
  <2> QED BY <1>1, <1>4, <2>1, <2>2, <2>3 DEF StorageKept
<1>7. CASE GiveAway
  <2>1. PICK p \in Owners : homeRow' = [homeRow EXCEPT !.owner = p, !.clear = TRUE, !.paid = FALSE]
    BY <1>7, Zenon DEF GiveAway
  <2>2. phase = "down" /\ auction' = auction /\ marred' = (marred \/ homeRow.lists # NoOwner)
    BY <1>7, Zenon DEF GiveAway
  <2>3. homeRow' \in HomeType /\ homeRow'.owner = p /\ homeRow'.lists = homeRow.lists
    BY <1>5, <2>1 DEF HomeType
  <2>4. StorageTypeOK'
    BY <1>1, <1>2, <1>5, <2>2, <2>3 DEF StorageKept, StorageTypeOK
  <2>5. HouseKept'
    <3> SUFFICES ASSUME ~ marred, homeRow.lists = NoOwner PROVE HouseKept'
      BY <2>2 DEF HouseKept
    <3>1. Fit(home) /\ Housed(writes, home)
      BY DEF StorageKept, HouseKept
    <3>2. Fit(homeRow')
      BY <2>3 DEF Fit
    <3> QED BY <1>1, <2>2, <3>1, <3>2 DEF HouseKept, Fit, Housed, Unwritten
  <2>6. homeRow'.owner # NoOwner
    BY <2>3, ChestFacts
  <2> QED BY <1>1, <1>4, <2>2, <2>4, <2>5, <2>6 DEF StorageKept
<1> QED BY <1>6, <1>7

LEMMA StorageStarts == StorageInit => StorageKept
<1> SUFFICES ASSUME StorageInit PROVE StorageKept
  OBVIOUS
<1> DEFINE p == CHOOSE q \in Owners : TRUE
<1>1. p \in Owners
  BY StorageAssumption
<1>2. /\ phase = "up" /\ present = {} /\ stored = [Empty EXCEPT ![Inv(p)] = Wares]
      /\ homeRow = [NoHome EXCEPT !.owner = p, !.lists = p] /\ home = homeRow
      /\ holds = Empty /\ auction = NoOwner /\ writes = <<>>
      /\ stale = [t \in Wares |-> {}] /\ suspect = {} /\ marred = FALSE /\ doings = 0 /\ mishaps = 0
  BY DEF StorageInit
<1> HIDE DEF p
<1>3. Inv(p) \in Chests /\ Land \in Chests /\ Inv(p) # Land /\ \A c \in Chests : c[1] = Tiles => c = Land
  BY <1>1, ChestFacts
<1>4. /\ stored \in AllChests /\ holds \in AllChests
      /\ \A c \in Chests : stored[c] = (IF c = Inv(p) THEN Wares ELSE {}) /\ holds[c] = {}
  BY <1>2, <1>3 DEF Empty, AllChests
<1>5. homeRow \in HomeType /\ homeRow.lists = p /\ homeRow.owner = p /\ ~ homeRow.clear
  <2>1. homeRow = [owner |-> p, paid |-> FALSE, rentWarnings |-> 0, lists |-> p, clear |-> FALSE]
    BY <1>2 DEF NoHome
  <2> QED BY <1>1, <2>1 DEF HomeType
<1>6. Ordered(writes) /\ writes \in Seq(WritesFor(stored)) /\ Housed(writes, home) /\ DOMAIN writes = {}
  BY <1>2 DEF Ordered, Housed
<1>7. Comes(stored)
  <2>1. \A c \in Chests : c[1] \in present \cup {Tiles} => holds[c] = stored[c]
    BY <1>2, <1>3, <1>4
  <2>2. \A t \in Wares : OneOf(t, stored)
    BY <1>3, <1>4 DEF OneOf
  <2> QED BY <1>2, <1>4, <1>6, <2>1, <2>2 DEF Comes
<1>8. StorageTypeOK
  <2>1. stale \in [Wares -> SUBSET Rows]
    BY <1>2
  <2>2. doings \in 0 .. MaxDoings /\ mishaps \in 0 .. MaxMishaps
    BY <1>2, StorageAssumption
  <2>3. \A i \in DOMAIN writes : writes[i].row \in Rows \cup {Houses}
    BY <1>6
  <2>4. phase \in {"up", "leaving", "down"} /\ present \subseteq Owners /\ suspect \subseteq Wares /\ marred \in BOOLEAN
    BY <1>2
  <2>5. home \in HomeType /\ auction \in Owners \cup {NoOwner}
    BY <1>2, <1>5
  <2> QED BY <1>4, <1>5, <2>1, <2>2, <2>3, <2>4, <2>5 DEF StorageTypeOK, AllChests
<1>9. HouseKept
  BY <1>2, <1>5, <1>6 DEF HouseKept, Fit
<1> QED BY <1>2, <1>5, <1>7, <1>8, <1>9, FS_EmptySet DEF StorageKept

LEMMA StorageGoesOn == StorageKept /\ [StorageNext]_storageVars => StorageKept'
<1> SUFFICES ASSUME StorageKept, [StorageNext]_storageVars PROVE StorageKept'
  OBVIOUS
<1>1. CASE \E p \in Owners : Login(p) \/ onCreatureDisappear(p)
  BY <1>1, ComesAndGoes
<1>2. CASE \E p \in Owners, t \in Wares : CarryItem(p, t) \/ \E q \in Owners : playerMail(p, q, t)
  BY <1>2, CarryKeeps, MailKeeps
<1>3. CASE \E p \in Owners, b \in BOOLEAN : houseBuy(p, b)
  BY <1>3, BuyKeeps
<1>4. CASE \/ \E p \in Owners : setAccessList(p)
           \/ \E p \in Owners \cup {NoOwner}, b \in BOOLEAN : setHouseOwner(p, b)
           \/ RentRunsOut
           \/ \E unfit, late \in BOOLEAN : payHouses(unfit, late)
  BY <1>4, HouseKeeps
<1>5. CASE updateAuctions
  BY <1>5, AuctionKeeps
<1>6. CASE SaveGame \/ SaveAndLeave
  BY <1>6, SaveKeeps
<1>7. CASE Commit
  BY <1>7, CommitKeeps
<1>8. CASE Fail
  BY <1>8, FailKeeps
<1>9. CASE Crash \/ ProcessEnds
  BY <1>9, LossKeeps
<1>10. CASE loadMap
  BY <1>10, LoadKeeps
<1>11. CASE Bid \/ GiveAway
  BY <1>11, SiteKeeps
<1>12. CASE UNCHANGED storageVars
  <2>1. /\ phase' = phase /\ present' = present /\ holds' = holds /\ home' = home /\ stored' = stored
        /\ homeRow' = homeRow /\ auction' = auction /\ writes' = writes /\ stale' = stale
        /\ suspect' = suspect /\ marred' = marred /\ doings' = doings /\ mishaps' = mishaps
    BY <1>12 DEF storageVars
  <2>2. PICK N : Comes(N)
    BY DEF StorageKept
  <2>3. Comes(N)'
    BY <2>1, <2>2 DEF Comes, Ordered, Unwritten, WritesFor, RowOf, HouseRow, NoHome, OneOf, AllChests
  <2>4. StorageTypeOK'
    BY <2>1 DEF StorageKept, StorageTypeOK
  <2>5. HouseKept'
    BY <2>1 DEF StorageKept, HouseKept, Fit, Housed, Unwritten
  <2> QED BY <2>1, <2>3, <2>4, <2>5 DEF StorageKept
<1> QED BY <1>1, <1>2, <1>3, <1>4, <1>5, <1>6, <1>7, <1>8, <1>9, <1>10, <1>11, <1>12 DEF StorageNext

LEMMA StorageHolds == StorageKept => RowsAreTrue
<1> SUFFICES ASSUME StorageKept PROVE RowsKeepWhatRests /\ TheHouseIsTheOwners
  BY DEF StorageKept, RowsAreTrue
<1>1. PICK N : Comes(N)
  BY DEF StorageKept
<1>2. \A t \in Wares, c \in Chests : c[1] \notin stale[t] => (t \in stored[c] <=> t \in N[c])
  BY <1>1 DEF Comes
<1>3. ASSUME NEW t \in Wares \ suspect, stale[t] = {}
      PROVE  LET n == Cardinality({c \in Chests : t \in stored[c]})
             IN  n = 1 \/ (n = 0 /\ t \in Gold)
  <2> DEFINE S == {c \in Chests : t \in stored[c]}
  <2>1. OneOf(t, N) /\ \A c \in Chests : t \in stored[c] <=> t \in N[c]
    BY <1>1, <1>2, <1>3 DEF Comes
  <2>2. CASE S = {}
    <3>1. Cardinality(S) = 0
      BY <2>2, FS_EmptySet
    <3>2. t \in Gold
      BY <2>1, <2>2 DEF OneOf
    <3> QED BY <3>1, <3>2
  <2>3. CASE S # {}
    <3>1. PICK c \in Chests : t \in stored[c]
      BY <2>3
    <3>2. S = {c}
      BY <2>1, <3>1 DEF OneOf
    <3>3. Cardinality(S) = 1
      BY <3>2, FS_Singleton
    <3> QED BY <3>3
  <2> QED BY <2>2, <2>3
<1>4. ASSUME phase # "down", writes = <<>>, NEW r \in present \cup {Tiles}, NEW t \in Wares, r \notin stale[t],
             NEW c \in ChestsOf(r)
      PROVE  t \in holds[c] <=> t \in stored[c]
  <2>1. c \in Chests /\ c[1] = r
    BY DEF ChestsOf
  <2>2. holds[c] = N[c]
    BY <1>1, <1>4, <2>1 DEF Comes
  <2> QED BY <1>2, <1>4, <2>1, <2>2
<1>5. RowsKeepWhatRests
  BY <1>3, <1>4 DEF RowsKeepWhatRests
<1>6. TheHouseIsTheOwners
  <2>1. writes = <<>> => Unwritten(writes, Houses)
    BY DEF Unwritten
  <2> QED BY <2>1 DEF StorageKept, HouseKept, TheHouseIsTheOwners, Fit
<1> QED BY <1>5, <1>6

\* What is in the rows is nobody's loss: whatever crashes, fails to be saved or is loaded
\* again, a thing that has rested since its rows were saved is in one row and lies in memory
\* where its row says; and the access lists of a house are its owner's (IOLoginData::savePlayer,
\* IOMapSerialize::saveMap, House::setOwnerEx).
THEOREM RowsStayTrue == StorageSpec => []RowsAreTrue
<1>1. StorageInit => StorageKept
  BY StorageStarts
<1>2. StorageKept /\ [StorageNext]_storageVars => StorageKept'
  BY StorageGoesOn
<1>3. StorageKept => RowsAreTrue
  BY StorageHolds
<1> QED BY <1>1, <1>2, <1>3, PTL DEF StorageSpec
=============================================================================
