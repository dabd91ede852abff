-------------------------- MODULE Scheduler_proofs --------------------------
(* Theorems about Scheduler, for any number of callers and events and any  *)
(* delays, and about Shops, for any players, NPCs and references.          *)
EXTENDS Scheduler, Shops, Lists_proofs

-----------------------------------------------------------------------------
(* The scheduler.                                                          *)

LEMMA LaterType ==
  ASSUME NEW d \in -MaxLate..MaxDelay
  PROVE  Later(d) \in -MaxLate..MaxDelay
  BY SchedulerAssumption DEF Later

LEMMA TypeInit == Init => TypeOK
  BY SchedulerAssumption DEF Init, TypeOK

LEMMA TypeStep == TypeOK /\ [Next]_vars => TypeOK'
<1> USE SchedulerAssumption
<1>1. ASSUME TypeOK, [Next]_vars PROVE TypeOK'
  <2>1. CASE Wait \/ Timeout \/ Retry \/ PopNothing \/ SpuriousWakeup
    BY <1>1, <2>1 DEF TypeOK, Wait, Timeout, Retry, PopNothing, SpuriousWakeup, heap
  <2>2. CASE TimedWait
    BY <1>1, <2>2 DEF TypeOK, TimedWait, Earliest, heap
  <2>3. CASE HandOff
    BY <1>1, <2>3 DEF TypeOK, HandOff, heap
  <2>4. ASSUME NEW e \in Events, Pop(e) PROVE TypeOK'
    <3>1. /\ eventId' \in [Events -> 0..MaxId]
          /\ left' \in [Events -> -MaxLate..MaxDelay]
      BY <1>1, <2>4 DEF TypeOK, Pop, NotStopped
    <3> QED BY <1>1, <2>4, <3>1 DEF TypeOK, Pop, NotStopped
  <2>5. ASSUME NEW c \in Clients, NEW e \in Events, NEW delay \in 0..MaxDelay,
               AddEvent(c, e, delay)
        PROVE  TypeOK'
    <3>1. CASE m_threadState = "RUNNING"
      <4>1. NextId \in 1..MaxId
        BY <1>1 DEF TypeOK, NextId
      <4>2. /\ eventId' \in [Events -> 0..MaxId]
            /\ left' \in [Events -> -MaxLate..MaxDelay]
        BY <1>1, <2>5, <3>1, <4>1 DEF TypeOK, AddEvent
      <4>3. m_lastEvent' \in 0..MaxId /\ m_eventIds' \in SUBSET (1..MaxId)
        <5>1. m_eventIds \in SUBSET (1..MaxId) /\ NextId \in 0..MaxId
          BY <1>1, <4>1 DEF TypeOK
        <5>2. m_lastEvent' = NextId /\ m_eventIds' = m_eventIds \cup {NextId}
          BY <2>5, <3>1 DEF AddEvent
        <5> HIDE DEF NextId
        <5> QED BY <4>1, <5>1, <5>2
      <4> QED BY <1>1, <2>5, <3>1, <4>2, <4>3 DEF TypeOK, AddEvent, thread
    <3>2. CASE m_threadState # "RUNNING"
      BY <1>1, <2>5, <3>2 DEF TypeOK, AddEvent, thread, heap
    <3> QED BY <3>1, <3>2
  <2>6. ASSUME NEW c \in Clients, Notify(c) PROVE TypeOK'
    BY <1>1, <2>6 DEF TypeOK, Notify, heap
  <2>7. ASSUME NEW i \in 1..MaxId, StopEvent(i) PROVE TypeOK'
    BY <1>1, <2>7 DEF TypeOK, StopEvent, heap, thread
  <2>8. CASE Stop \/ Shutdown
    BY <1>1, <2>8 DEF TypeOK, Stop, Shutdown, heap, thread
  <2>9. ASSUME NEW e \in Events, Run(e) PROVE TypeOK'
    BY <1>1, <2>9 DEF TypeOK, Run, heap, thread
  <2>10. CASE Tick
    <3>1. left' \in [Events -> -MaxLate..MaxDelay] /\ deadline' \in -MaxLate..MaxDelay
      BY <1>1, <2>10, LaterType DEF TypeOK, Tick
    <3> QED BY <1>1, <2>10, <3>1 DEF TypeOK, Tick
  <2>11. CASE UNCHANGED vars
    BY <1>1, <2>11 DEF TypeOK, vars
  <2> QED BY <1>1, <2>1, <2>2, <2>3, <2>4, <2>5, <2>6, <2>7, <2>8, <2>9, <2>10, <2>11
          DEF Next, Others, schedulerThread
<1> QED BY <1>1

(* The variables of the scheduler keep their types; m_lastEvent stays      *)
(* within the width of an id.                                              *)
THEOREM TypeCorrect == Spec => []TypeOK
<1>1. TypeOK /\ [Next]_vars => TypeOK' BY TypeStep
<1> QED BY <1>1, TypeInit, PTL DEF Spec

-----------------------------------------------------------------------------
LEMMA LaterMonotone ==
  ASSUME NEW c \in -MaxLate..MaxDelay, NEW d \in -MaxLate..MaxDelay, c <= d
  PROVE  Later(c) <= Later(d)
  BY SchedulerAssumption DEF Later

LEMMA SleepsNoLongerStep == TypeOK /\ SleepsNoLonger /\ [Next]_vars => SleepsNoLonger'
<1> USE SchedulerAssumption
<1>1. ASSUME TypeOK, SleepsNoLonger, [Next]_vars PROVE SleepsNoLonger'
  <2>1. CASE Wait \/ Timeout \/ Retry \/ PopNothing \/ SpuriousWakeup \/ HandOff
    BY <1>1, <2>1 DEF SleepsNoLonger, Wait, Timeout, Retry, PopNothing, SpuriousWakeup, HandOff,
        heap
  <2>2. CASE TimedWait
    BY <1>1, <2>2 DEF SleepsNoLonger, TimedWait, Earliest, heap
  <2>3. ASSUME NEW e \in Events, Pop(e) PROVE SleepsNoLonger'
    BY <1>1, <2>3 DEF SleepsNoLonger, Pop, NotStopped
  <2>4. ASSUME NEW c \in Clients, NEW e \in Events, NEW delay \in 0..MaxDelay,
               AddEvent(c, e, delay)
        PROVE  SleepsNoLonger'
    <3> SUFFICES ASSUME m_eventList' # {}, signalling' = {}
                 PROVE  pc' # "wait" /\ (pc' = "timed" => \A f \in m_eventList' : deadline' <= left'[f])
      BY DEF SleepsNoLonger
    <3>1. CASE m_threadState = "RUNNING"
      <4>1. PICK f \in m_eventList : ~(delay < left[f])
        BY <2>4, <3>1 DEF AddEvent, NewTop
      <4>2. signalling = {} /\ m_eventList # {} /\ pc' = pc /\ deadline' = deadline
        BY <2>4, <3>1, <4>1 DEF AddEvent, thread
      <4>3. pc = "timed" => deadline <= delay
        BY <1>1, <4>1, <4>2 DEF TypeOK, SleepsNoLonger
      <4> QED BY <1>1, <2>4, <3>1, <4>2, <4>3 DEF TypeOK, SleepsNoLonger, AddEvent
    <3>2. CASE m_threadState # "RUNNING"
      BY <1>1, <2>4, <3>2 DEF SleepsNoLonger, AddEvent, heap, thread
    <3> QED BY <3>1, <3>2
  <2>5. ASSUME NEW c \in Clients, Notify(c) PROVE SleepsNoLonger'
    BY <1>1, <2>5 DEF SleepsNoLonger, Notify, heap
  <2>6. ASSUME NEW i \in 1..MaxId, StopEvent(i) PROVE SleepsNoLonger'
    BY <1>1, <2>6 DEF SleepsNoLonger, StopEvent, heap, thread
  <2>7. CASE Stop \/ Shutdown
    BY <1>1, <2>7 DEF SleepsNoLonger, Stop, Shutdown, heap, thread
  <2>8. ASSUME NEW e \in Events, Run(e) PROVE SleepsNoLonger'
    BY <1>1, <2>8 DEF SleepsNoLonger, Run, heap, thread
  <2>9. CASE Tick
    <3>1. \A e \in m_eventList : left'[e] = Later(left[e]) /\ left[e] \in -MaxLate..MaxDelay
      BY <1>1, <2>9 DEF TypeOK, Tick
    <3>2. pc = "timed" => deadline' = Later(deadline) /\ deadline \in -MaxLate..MaxDelay
      BY <1>1, <2>9 DEF TypeOK, Tick
    <3> QED BY <1>1, <2>9, <3>1, <3>2, LaterMonotone DEF SleepsNoLonger, Tick
  <2>10. CASE UNCHANGED vars
    BY <1>1, <2>10 DEF SleepsNoLonger, vars
  <2> QED BY <1>1, <2>1, <2>2, <2>3, <2>4, <2>5, <2>6, <2>7, <2>8, <2>9, <2>10
          DEF Next, Others, schedulerThread
<1> QED BY <1>1

(* Whichever callers add events, in whatever order they reach their        *)
(* notify_one, schedulerThread never sleeps past the earliest event        *)
(* without a signal on its way.                                            *)
THEOREM NoEventIsSleptOver == Spec => []SleepsNoLonger
<1>1. Init => SleepsNoLonger BY DEF Init, SleepsNoLonger
<1>2. TypeOK /\ SleepsNoLonger /\ [Next]_vars => SleepsNoLonger' BY SleepsNoLongerStep
<1> QED BY <1>1, <1>2, TypeCorrect, PTL DEF Spec

-----------------------------------------------------------------------------
(* Cancelling.  IdsMatch is inductive once no id is carried twice and      *)
(* stopped speaks of tasks in the heap only.                               *)
IdsInv == IdsMatch /\ DistinctIds /\ stopped \subseteq m_eventList

LEMMA IdsInvStep == TypeOK /\ IdsInv /\ [Next /\ DistinctIds']_vars => IdsInv'
<1>1. ASSUME TypeOK, IdsInv, [Next /\ DistinctIds']_vars PROVE IdsInv'
  <2>1. CASE Wait \/ TimedWait \/ Timeout \/ Retry \/ PopNothing \/ SpuriousWakeup \/ HandOff
    BY <1>1, <2>1 DEF IdsInv, IdsMatch, DistinctIds, Wait, TimedWait, Timeout, Retry, PopNothing,
        SpuriousWakeup, HandOff, heap
  <2>2. ASSUME NEW e \in Events, Pop(e) PROVE IdsInv'
    <3>1. /\ m_eventList' = m_eventList \ {e} /\ stopped' = stopped \ {e} /\ e \in m_eventList
          /\ m_eventIds' = m_eventIds \ {eventId[e]}
          /\ \A f \in m_eventList' : eventId'[f] = eventId[f]
      BY <1>1, <2>2 DEF TypeOK, Pop, NotStopped, Earliest
    <3> QED BY <1>1, <3>1 DEF IdsInv, IdsMatch, DistinctIds
  <2>3. ASSUME NEW c \in Clients, NEW e \in Events, NEW delay \in 0..MaxDelay,
               AddEvent(c, e, delay), DistinctIds'
        PROVE  IdsInv'
    <3>1. CASE m_threadState = "RUNNING"
      <4>1. /\ m_eventList' = m_eventList \cup {e} /\ e \notin m_eventList /\ stopped' = stopped
            /\ m_eventIds' = m_eventIds \cup {NextId} /\ eventId'[e] = NextId
            /\ \A f \in m_eventList : eventId'[f] = eventId[f]
        BY <1>1, <2>3, <3>1 DEF TypeOK, AddEvent
      <4>2. \A f \in m_eventList : eventId[f] # NextId
        BY <2>3, <4>1 DEF DistinctIds
      <4> QED BY <1>1, <2>3, <4>1, <4>2 DEF IdsInv, IdsMatch
    <3>2. CASE m_threadState # "RUNNING"
      BY <1>1, <2>3, <3>2 DEF IdsInv, IdsMatch, DistinctIds, AddEvent, heap
    <3> QED BY <3>1, <3>2
  <2>4. ASSUME NEW c \in Clients, Notify(c) PROVE IdsInv'
    BY <1>1, <2>4 DEF IdsInv, IdsMatch, DistinctIds, Notify, heap
  <2>5. ASSUME NEW i \in 1..MaxId, StopEvent(i) PROVE IdsInv'
    BY <1>1, <2>5 DEF IdsInv, IdsMatch, DistinctIds, StopEvent, heap
  <2>6. CASE Stop \/ Shutdown
    BY <1>1, <2>6 DEF IdsInv, IdsMatch, DistinctIds, Stop, Shutdown, heap
  <2>7. ASSUME NEW e \in Events, Run(e) PROVE IdsInv'
    BY <1>1, <2>7 DEF IdsInv, IdsMatch, DistinctIds, Run, heap
  <2>8. CASE Tick
    BY <1>1, <2>8 DEF IdsInv, IdsMatch, DistinctIds, Tick
  <2>9. CASE UNCHANGED vars
    BY <1>1, <2>9 DEF IdsInv, IdsMatch, DistinctIds, vars
  <2> QED BY <1>1, <2>1, <2>2, <2>3, <2>4, <2>5, <2>6, <2>7, <2>8, <2>9
          DEF Next, Others, schedulerThread
<1> QED BY <1>1

\* FreshNext only keeps addEvent from reusing an id: the other steps add none.
LEMMA FreshStep == TypeOK /\ IdsInv /\ [FreshNext]_vars => [Next /\ DistinctIds']_vars
<1>1. ASSUME TypeOK, IdsInv, Others PROVE DistinctIds'
  <2>1. ASSUME NEW e \in Events, Pop(e) PROVE DistinctIds'
    <3>1. m_eventList' = m_eventList \ {e} /\ \A f \in m_eventList' : eventId'[f] = eventId[f]
      BY <1>1, <2>1 DEF TypeOK, Pop, NotStopped, Earliest
    <3> QED BY <1>1, <3>1 DEF IdsInv, DistinctIds
  <2>2. CASE m_eventList' \subseteq m_eventList /\ eventId' = eventId
    BY <1>1, <2>2 DEF IdsInv, DistinctIds
  <2> QED BY <1>1, <2>1, <2>2 DEF Others, schedulerThread, Wait, TimedWait, Timeout, Retry,
          PopNothing, HandOff, SpuriousWakeup, Notify, StopEvent, Stop, Shutdown, Run, Tick, heap
<1> QED BY <1>1 DEF FreshNext, Next

LEMMA FreshIsSafe == FreshSpec => []TypeOK /\ []IdsInv
<1>1. Init => TypeOK /\ IdsInv
  BY TypeInit DEF Init, IdsInv, IdsMatch, DistinctIds
<1>2. TypeOK /\ [FreshNext]_vars => TypeOK'
  BY TypeStep DEF FreshNext, Next
<1>3. TypeOK /\ IdsInv /\ [FreshNext]_vars => IdsInv'
  BY FreshStep, IdsInvStep
<1> QED BY <1>1, <1>2, <1>3, PTL DEF FreshSpec

(* As long as ids are not reused too soon, m_eventIds tells the stopped    *)
(* events from the others.                                                 *)
THEOREM StopsAreRemembered == FreshSpec => []IdsMatch
<1>1. IdsInv => IdsMatch BY DEF IdsInv
<1> QED BY <1>1, FreshIsSafe, PTL

-----------------------------------------------------------------------------
(* A task is in one place at a time.                                       *)
Places ==
  /\ popped \cap m_eventList = {}
  /\ queued \cap m_eventList = {}
  /\ queued \cap popped = {}
  /\ pc # "handoff" => popped = {}

LEMMA PlacesStep == TypeOK /\ Places /\ [Next]_vars => Places'
<1>1. ASSUME TypeOK, Places, [Next]_vars PROVE Places'
  <2>1. CASE Wait \/ TimedWait \/ Timeout \/ Retry \/ PopNothing \/ SpuriousWakeup \/ HandOff
    BY <1>1, <2>1 DEF Places, Wait, TimedWait, Timeout, Retry, PopNothing, SpuriousWakeup,
        HandOff, heap
  <2>2. ASSUME NEW e \in Events, Pop(e) PROVE Places'
    BY <1>1, <2>2 DEF Places, Pop, NotStopped, Earliest
  <2>3. ASSUME NEW c \in Clients, NEW e \in Events, NEW delay \in 0..MaxDelay,
               AddEvent(c, e, delay)
        PROVE  Places'
    BY <1>1, <2>3 DEF Places, AddEvent, heap, thread
  <2>4. ASSUME NEW c \in Clients, Notify(c) PROVE Places'
    BY <1>1, <2>4 DEF Places, Notify, heap
  <2>5. ASSUME NEW i \in 1..MaxId, StopEvent(i) PROVE Places'
    BY <1>1, <2>5 DEF Places, StopEvent, heap, thread
  <2>6. CASE Stop \/ Shutdown
    BY <1>1, <2>6 DEF Places, Stop, Shutdown, heap, thread
  <2>7. ASSUME NEW e \in Events, Run(e) PROVE Places'
    BY <1>1, <2>7 DEF Places, Run, heap, thread
  <2>8. CASE Tick
    BY <1>1, <2>8 DEF Places, Tick
  <2>9. CASE UNCHANGED vars
    BY <1>1, <2>9 DEF Places, vars
  <2> QED BY <1>1, <2>1, <2>2, <2>3, <2>4, <2>5, <2>6, <2>7, <2>8, <2>9
          DEF Next, Others, schedulerThread
<1> QED BY <1>1

LEMMA PlacesHold == FreshSpec => []Places
<1>1. Init => TypeOK /\ Places
  BY TypeInit DEF Init, Places
<1>2. TypeOK /\ [FreshNext]_vars => TypeOK'
  BY TypeStep DEF FreshNext, Next
<1>3. TypeOK /\ Places /\ [FreshNext]_vars => Places'
  BY PlacesStep DEF FreshNext, Next
<1> QED BY <1>1, <1>2, <1>3, PTL DEF FreshSpec

HandsOverUnstopped == \A e \in Events : e \in popped' => e \notin stopped

LEMMA StepHandsOver ==
  TypeOK /\ IdsInv /\ Places /\ [Next /\ DistinctIds']_vars => HandsOverUnstopped
<1> SUFFICES ASSUME TypeOK, IdsInv, Places, [Next /\ DistinctIds']_vars,
                    NEW e \in Events, e \in popped'
             PROVE  e \notin stopped
  BY DEF HandsOverUnstopped
<1>1. e \in popped => e \notin stopped
  BY DEF IdsInv, Places
<1>2. ASSUME NEW f \in Events, Pop(f) PROVE e \notin stopped
  <2>1. e = f /\ eventId[f] \in m_eventIds /\ f \in m_eventList
    BY <1>2 DEF Pop, NotStopped, Earliest
  <2> QED BY <2>1 DEF IdsInv, IdsMatch
<1>3. CASE popped' \subseteq popped
  BY <1>1, <1>3
<1> QED BY <1>2, <1>3 DEF Next, Others, schedulerThread, Wait, TimedWait, Timeout, Retry, PopNothing,
        HandOff, SpuriousWakeup, AddEvent, Notify, StopEvent, Stop, Shutdown, Run, Tick,
        thread, vars

(* An event for which stopEvent returned true is never handed over.        *)
THEOREM StoppedEventsNeverRun == FreshSpec => StoppedNeverRuns
<1>1. TypeOK /\ IdsInv /\ Places /\ [FreshNext]_vars => [HandsOverUnstopped]_vars
  BY StepHandsOver, FreshStep
<1> QED BY <1>1, FreshIsSafe, PlacesHold, PTL
        DEF FreshSpec, StoppedNeverRuns, HandsOverUnstopped

-----------------------------------------------------------------------------
(* The scheduler implements Timers.                                        *)
Armed == {e \in m_eventList : eventId[e] \in m_eventIds}
Fired == popped \cup queued

LEMMA StepRefines ==
  TypeOK /\ IdsInv /\ Places /\ [Next /\ DistinctIds']_vars => [T!Next]_T!vars
<1>1. ASSUME TypeOK, IdsInv, Places, [Next /\ DistinctIds']_vars PROVE [T!Next]_T!vars
  <2>1. CASE Wait \/ TimedWait \/ Timeout \/ Retry \/ PopNothing \/ SpuriousWakeup \/ HandOff
    <3>1. Armed' = Armed
      BY <2>1 DEF Armed, Wait, TimedWait, Timeout, Retry, PopNothing, SpuriousWakeup, HandOff, heap
    <3>2. Fired' = Fired
      BY <2>1 DEF Fired, Wait, TimedWait, Timeout, Retry, PopNothing, SpuriousWakeup, HandOff
    <3> QED BY <3>1, <3>2 DEF T!vars, Armed, Fired
  <2>2. ASSUME NEW e \in Events, Pop(e) PROVE [T!Next]_T!vars
    <3>1. /\ m_eventList' = m_eventList \ {e} /\ e \in m_eventList
          /\ m_eventIds' = m_eventIds \ {eventId[e]}
          /\ \A f \in m_eventList' : eventId'[f] = eventId[f]
          /\ popped = {} /\ queued' = queued
      BY <1>1, <2>2 DEF TypeOK, Places, Pop, NotStopped, Earliest
    <3>2. Armed' = Armed \ {e}
      BY <1>1, <3>1 DEF Armed, IdsInv, DistinctIds
    <3>3. CASE eventId[e] \in m_eventIds
      <4>1. Fired' = Fired \cup {e}
        BY <2>2, <3>1, <3>3 DEF Fired, Pop, NotStopped
      <4>2. T!Fire(e)
        BY <3>1, <3>2, <3>3, <4>1 DEF T!Fire, Armed, Fired
      <4> QED BY <4>2 DEF T!Next
    <3>4. CASE eventId[e] \notin m_eventIds
      <4>1. Fired' = Fired /\ Armed' = Armed
        BY <2>2, <3>1, <3>2, <3>4 DEF Fired, Armed, Pop, NotStopped
      <4> QED BY <4>1 DEF T!vars, Armed, Fired
    <3> QED BY <3>3, <3>4
  <2>3. ASSUME NEW c \in Clients, NEW e \in Events, NEW delay \in 0..MaxDelay,
               AddEvent(c, e, delay), DistinctIds'
        PROVE  [T!Next]_T!vars
    <3>0. Fired' = Fired
      BY <2>3 DEF Fired, AddEvent, thread
    <3>1. CASE m_threadState = "RUNNING"
      <4>1. /\ m_eventList' = m_eventList \cup {e} /\ e \notin m_eventList
            /\ m_eventIds' = m_eventIds \cup {NextId} /\ eventId'[e] = NextId
            /\ \A f \in m_eventList : eventId'[f] = eventId[f]
        BY <1>1, <2>3, <3>1 DEF TypeOK, AddEvent
      <4>2. \A f \in m_eventList : eventId[f] # NextId
        BY <2>3, <4>1 DEF DistinctIds
      <4>3. Armed' = Armed \cup {e}
        BY <4>1, <4>2 DEF Armed
      <4>4. T!Arm(e)
        BY <2>3, <3>0, <4>1, <4>3 DEF T!Arm, Armed, Fired, AddEvent
      <4> QED BY <4>4 DEF T!Next
    <3>2. CASE m_threadState # "RUNNING"
      <4>1. Armed' = Armed
        BY <2>3, <3>2 DEF Armed, AddEvent, heap
      <4> QED BY <3>0, <4>1 DEF T!vars, Armed, Fired
    <3> QED BY <3>1, <3>2
  <2>4. ASSUME NEW c \in Clients, Notify(c) PROVE [T!Next]_T!vars
    BY <2>4 DEF Notify, heap, T!vars
  <2>5. ASSUME NEW i \in 1..MaxId, StopEvent(i) PROVE [T!Next]_T!vars
    <3>0. Fired' = Fired
      BY <2>5 DEF Fired, StopEvent, thread
    <3>1. CASE \E e \in m_eventList : eventId[e] = i
      <4>1. PICK e \in m_eventList : eventId[e] = i
        BY <3>1
      <4>2. Armed' = Armed \ {e}
        BY <1>1, <2>5, <4>1 DEF Armed, StopEvent, heap, IdsInv, DistinctIds
      <4>3. T!Cancel(e) /\ e \in Events
        BY <1>1, <2>5, <3>0, <4>1, <4>2 DEF TypeOK, T!Cancel, Armed, Fired, StopEvent
      <4> QED BY <4>3 DEF T!Next
    <3>2. CASE ~\E e \in m_eventList : eventId[e] = i
      <4>1. Armed' = Armed
        BY <2>5, <3>2 DEF Armed, StopEvent, heap
      <4> QED BY <3>0, <4>1 DEF T!vars, Armed, Fired
    <3> QED BY <3>1, <3>2
  <2>6. CASE Stop
    BY <2>6 DEF Stop, heap, thread, T!vars
  <2>7. CASE Shutdown
    <3>1. T!Abandon
      BY <2>7 DEF Shutdown, thread, T!Abandon
    <3> QED BY <3>1 DEF T!Next
  <2>8. ASSUME NEW e \in Events, Run(e) PROVE [T!Next]_T!vars
    <3>1. Fired' = Fired \ {e} /\ e \in Fired
      BY <1>1, <2>8 DEF Fired, Run, Places, thread
    <3>2. T!Done(e)
      BY <2>8, <3>1 DEF T!Done, Fired, Run, heap
    <3> QED BY <3>2 DEF T!Next
  <2>9. CASE Tick
    BY <2>9 DEF Tick, T!vars
  <2>10. CASE UNCHANGED vars
    BY <2>10 DEF vars, T!vars
  <2> QED BY <1>1, <2>1, <2>2, <2>3, <2>4, <2>5, <2>6, <2>7, <2>8, <2>9, <2>10
          DEF Next, Others, schedulerThread
<1> QED BY <1>1

(* To its callers the scheduler is a set of timers, each firing once unless *)
(* cancelled.                                                              *)
THEOREM SchedulerRefinesTimers == FreshSpec => ImplementsTimers
<1>1. Init => T!Init
  BY DEF Init, T!Init
<1>2. TypeOK /\ IdsInv /\ Places /\ [FreshNext]_vars => [T!Next]_T!vars
  BY StepRefines, FreshStep
<1> QED BY <1>1, <1>2, FreshIsSafe, PlacesHold, PTL DEF FreshSpec, ImplementsTimers, T!SafeSpec

-----------------------------------------------------------------------------
(* The shops.                                                               *)

\* One state each of those heard of, and whose words are put off waits in the queue.
Lined(l, q, heard) ==
  /\ IsInjective(q)
  /\ \A i, j \in DOMAIN l :
       l[i].respondToCreature = l[j].respondToCreature /\ l[i].respondToCreature # NoBuyer => i = j
  /\ \A i \in DOMAIN l : l[i].isQueued /\ l[i].respondToCreature \in heard => l[i].respondToCreature \in ToSet(q)

\* A window is known on both sides.
Shown(w) ==
  /\ \A n \in Npcs : /\ IsInjective(w.shopPlayerList[n])
                     /\ ToSet(w.shopPlayerList[n]) = {p \in Buyers : w.owner[p] = n}
  /\ \A p \in Buyers : (w.window[p] <=> w.owner[p] # NoNpc) /\ (w.owner[p] # NoNpc => p \in visitors)

\* A reference is held for one window, or one is lost.
Referred(w) ==
  /\ \A p \in Buyers : (w.callback[p] = NoCallback <=> w.owner[p] = NoNpc) /\ w.callback[p] \notin w.lost
  /\ \A p, q \in Buyers : w.callback[p] = w.callback[q] /\ w.owner[p] # NoNpc => p = q
  /\ w.held = ({w.callback[p] : p \in Buyers} \ {NoCallback}) \cup w.lost
  /\ \A c, d \in w.lost : c = d

\* What every call finds and leaves; an NPC that thinks may forget, until it is through, those who
\* have gone.
Good(w, heard) ==
  /\ w \in ShopsType /\ Shown(w) /\ Referred(w)
  /\ \A n \in Npcs : Lined(w.stateList[n], w.queueList[n], heard[n])

SameShops(w, v) ==
  /\ v.owner = w.owner /\ v.callback = w.callback /\ v.window = w.window
  /\ v.held = w.held /\ v.lost = w.lost /\ v.shopPlayerList = w.shopPlayerList

-----------------------------------------------------------------------------
(* Lists of states.                                                         *)

LEMMA NewStateIs ==
  NewState \in TalkType /\ NewState.respondToCreature = NoBuyer /\ ~ NewState.isQueued
BY DEF NewState, TalkType

LEMMA StateAdded ==
  ASSUME NEW l \in Seq(TalkType), NEW q, NEW heard, Lined(l, q, heard)
  PROVE  /\ Append(l, NewState) \in Seq(TalkType) /\ Lined(Append(l, NewState), q, heard)
         /\ Len(Append(l, NewState)) = Len(l) + 1
         /\ \A i \in DOMAIN l : i \in DOMAIN Append(l, NewState) /\ Append(l, NewState)[i] = l[i]
         /\ Append(l, NewState)[Len(l) + 1] = NewState
<1> DEFINE a == Append(l, NewState)
<1>1. a \in Seq(TalkType) /\ Len(l) \in Nat /\ DOMAIN l = 1 .. Len(l)
  BY NewStateIs
<1>2. DOMAIN a = 1 .. Len(l) + 1 /\ \A i \in 1 .. Len(l) + 1 : a[i] = IF i = Len(l) + 1 THEN NewState ELSE l[i]
  BY NewStateIs
<1>3. ASSUME NEW i \in DOMAIN a, NEW j \in DOMAIN a, a[i].respondToCreature = a[j].respondToCreature,
             a[i].respondToCreature # NoBuyer
      PROVE  i = j
  <2>1. i # Len(l) + 1 /\ j # Len(l) + 1
    BY <1>1, <1>2, <1>3, NewStateIs
  <2>2. i \in DOMAIN l /\ j \in DOMAIN l /\ a[i] = l[i] /\ a[j] = l[j]
    BY <1>1, <1>2, <2>1
  <2> QED BY <1>3, <2>2 DEF Lined
<1>4. ASSUME NEW i \in DOMAIN a, a[i].isQueued, a[i].respondToCreature \in heard
      PROVE  a[i].respondToCreature \in ToSet(q)
  <2>1. i # Len(l) + 1
    BY <1>1, <1>2, <1>4, NewStateIs
  <2>2. i \in DOMAIN l /\ a[i] = l[i]
    BY <1>1, <1>2, <2>1
  <2> QED BY <1>4, <2>2 DEF Lined
<1>5. Lined(a, q, heard)
  <2> HIDE DEF a
  <2> QED BY <1>3, <1>4 DEF Lined
<1>6. Len(a) = Len(l) + 1 /\ a[Len(l) + 1] = NewState
  BY <1>1, <1>2
<1>7. \A i \in DOMAIN l : i \in DOMAIN a /\ a[i] = l[i]
  BY <1>1, <1>2
<1> QED BY <1>1, <1>5, <1>6, <1>7

PutAt(l, i, s) == [l EXCEPT ![i] = s]

\* A state changed in place: of the same player, or of one who had none.
LEMMA StateSet ==
  ASSUME NEW l \in Seq(TalkType), NEW q, NEW heard, Lined(l, q, heard),
         NEW i \in DOMAIN l, NEW s \in TalkType,
         \A j \in DOMAIN l : l[j].respondToCreature = s.respondToCreature /\ s.respondToCreature # NoBuyer => j = i,
         s.isQueued /\ s.respondToCreature \in heard => s.respondToCreature \in ToSet(q)
  PROVE  /\ PutAt(l, i, s) \in Seq(TalkType) /\ Lined(PutAt(l, i, s), q, heard)
         /\ Len(PutAt(l, i, s)) = Len(l) /\ DOMAIN PutAt(l, i, s) = DOMAIN l
         /\ \A j \in DOMAIN l : PutAt(l, i, s)[j] = IF j = i THEN s ELSE l[j]
<1> DEFINE a == PutAt(l, i, s)
<1>1. a \in Seq(TalkType) /\ Len(a) = Len(l) /\ DOMAIN a = DOMAIN l
  BY DEF PutAt
<1>2. \A j \in DOMAIN l : a[j] = IF j = i THEN s ELSE l[j]
  BY DEF PutAt
<1> HIDE DEF a
<1>3. ASSUME NEW j \in DOMAIN l, NEW k \in DOMAIN l, a[j].respondToCreature = a[k].respondToCreature,
             a[j].respondToCreature # NoBuyer
      PROVE  j = k
  <2>1. CASE j = i /\ k # i
    BY <1>2, <1>3, <2>1
  <2>2. CASE k = i /\ j # i
    BY <1>2, <1>3, <2>2
  <2>3. CASE j # i /\ k # i
    BY <1>2, <1>3, <2>3 DEF Lined
  <2> QED BY <2>1, <2>2, <2>3
<1>4. ASSUME NEW j \in DOMAIN l, a[j].isQueued, a[j].respondToCreature \in heard
      PROVE  a[j].respondToCreature \in ToSet(q)
  BY <1>2, <1>4 DEF Lined
<1>5. Lined(a, q, heard)
  BY <1>1, <1>3, <1>4 DEF Lined
<1> QED BY <1>1, <1>2, <1>5 DEF a

\* One more waits.
LEMMA QueueLonger ==
  ASSUME NEW l, NEW q \in Seq(Buyers), NEW heard, Lined(l, q, heard), NEW p \in Buyers, p \notin ToSet(q)
  PROVE  /\ Append(q, p) \in Seq(Buyers) /\ Lined(l, Append(q, p), heard) /\ p \in ToSet(Append(q, p))
<1>1. IsInjective(q)
  BY DEF Lined
<1>2. Append(q, p) \in Seq(Buyers) /\ IsInjective(Append(q, p)) /\ ToSet(Append(q, p)) = ToSet(q) \cup {p}
  BY <1>1, AppendedToList
<1> DEFINE r == Append(q, p)
<1> HIDE DEF r
<1>3. IsInjective(r) /\ ToSet(r) = ToSet(q) \cup {p}
  BY <1>2 DEF r
<1>4. Lined(l, r, heard)
  BY <1>3 DEF Lined
<1> QED BY <1>2, <1>4 DEF r

LEMMA StateRemoved ==
  ASSUME NEW l \in Seq(TalkType), NEW q, NEW heard, Lined(l, q, heard), NEW i \in DOMAIN l
  PROVE  RemoveAt(l, i) \in Seq(TalkType) /\ Lined(RemoveAt(l, i), q, heard)
<1> DEFINE a == RemoveAt(l, i)
<1>1. /\ a \in Seq(TalkType) /\ Len(a) = Len(l) - 1
      /\ \A k \in DOMAIN a : a[k] = IF k < i THEN l[k] ELSE l[k + 1]
  BY RemoveAtFacts
<1> HIDE DEF a
<1>2. DOMAIN a = 1 .. Len(l) - 1 /\ i \in 1 .. Len(l) /\ Len(l) \in Nat /\ DOMAIN l = 1 .. Len(l)
  BY <1>1
<1>3. \A k \in 1 .. Len(l) - 1 : k \in 1 .. Len(l) /\ k + 1 \in 1 .. Len(l)
  BY <1>2
<1>4. ASSUME NEW j \in DOMAIN a, NEW k \in DOMAIN a, a[j].respondToCreature = a[k].respondToCreature,
             a[j].respondToCreature # NoBuyer
      PROVE  j = k
  <2> DEFINE at(m) == IF m < i THEN m ELSE m + 1
  <2>1. at(j) \in DOMAIN l /\ at(k) \in DOMAIN l /\ a[j] = l[at(j)] /\ a[k] = l[at(k)]
    BY <1>1, <1>2, <1>3
  <2>2. at(j) = at(k)
    <3> HIDE DEF at
    <3> QED BY <1>4, <2>1 DEF Lined
  <2> QED BY <1>2, <2>2
<1>5. ASSUME NEW j \in DOMAIN a, a[j].isQueued, a[j].respondToCreature \in heard
      PROVE  a[j].respondToCreature \in ToSet(q)
  <2>1. PICK k \in DOMAIN l : a[j] = l[k]
    BY <1>1, <1>2, <1>3
  <2> QED BY <1>5, <2>1 DEF Lined
<1>6. Lined(a, q, heard)
  BY <1>4, <1>5 DEF Lined
<1> QED BY <1>1, <1>6 DEF a

-----------------------------------------------------------------------------
(* What is said.                                                            *)

\* A call that changes what an NPC keeps of conversations, and no window.
WithStates(w, n, l) == [w EXCEPT !.stateList[n] = l]
WithTalks(w, n, l, q) == [w EXCEPT !.stateList[n] = l, !.queueList[n] = q]

LEMMA TalksGood ==
  ASSUME NEW heard, NEW w, Good(w, heard), NEW n \in Npcs, NEW l \in Seq(TalkType), NEW q \in Seq(Buyers),
         Lined(l, q, heard[n])
  PROVE  LET v == WithTalks(w, n, l, q)
         IN  /\ Good(v, heard) /\ SameShops(w, v)
             /\ v.stateList = [w.stateList EXCEPT ![n] = l] /\ v.queueList = [w.queueList EXCEPT ![n] = q]
<1> DEFINE v == WithTalks(w, n, l, q)
<1>v. v = WithTalks(w, n, l, q)
  OBVIOUS
<1> HIDE DEF v
<1> USE <1>v
<1> DEFINE L == Seq(TalkType)
           B == Seq(Buyers)
<1>1. w \in [owner : [Buyers -> Npcs \cup {NoNpc}], callback : [Buyers -> Callbacks \cup {NoCallback}],
             window : [Buyers -> BOOLEAN], held : SUBSET Callbacks, lost : SUBSET Callbacks,
             shopPlayerList : [Npcs -> B], stateList : [Npcs -> L], queueList : [Npcs -> B]]
  BY DEF Good, ShopsType
<1>2. l \in L /\ q \in B /\ v = [w EXCEPT !.stateList[n] = l, !.queueList[n] = q]
  BY DEF WithTalks
<1> HIDE DEF L, B
<1>3. v.stateList = [w.stateList EXCEPT ![n] = l] /\ v.queueList = [w.queueList EXCEPT ![n] = q] /\ SameShops(w, v)
  BY <1>1, <1>2 DEF SameShops
<1>4. v.stateList \in [Npcs -> L] /\ v.queueList \in [Npcs -> B]
  BY <1>1, <1>2, <1>3
<1>5. v \in [owner : [Buyers -> Npcs \cup {NoNpc}], callback : [Buyers -> Callbacks \cup {NoCallback}],
             window : [Buyers -> BOOLEAN], held : SUBSET Callbacks, lost : SUBSET Callbacks,
             shopPlayerList : [Npcs -> B], stateList : [Npcs -> L], queueList : [Npcs -> B]]
  <2> DEFINE e == [w EXCEPT !.stateList[n] = l, !.queueList[n] = q]
  <2>1. e \in [owner : [Buyers -> Npcs \cup {NoNpc}], callback : [Buyers -> Callbacks \cup {NoCallback}],
                window : [Buyers -> BOOLEAN], held : SUBSET Callbacks, lost : SUBSET Callbacks,
                shopPlayerList : [Npcs -> B], stateList : [Npcs -> L], queueList : [Npcs -> B]]
    BY <1>1, <1>2
  <2>2. v = e
    BY <1>2
  <2> HIDE DEF e
  <2> QED BY <2>1, <2>2
<1>6. v \in ShopsType
  BY <1>5 DEF ShopsType, L, B
<1>7. \A m \in Npcs : Lined(v.stateList[m], v.queueList[m], heard[m])
  BY <1>1, <1>3 DEF Good
<1>8. Shown(v) /\ Referred(v)
  BY <1>3 DEF Good, Shown, Referred, SameShops
<1> QED BY <1>3, <1>6, <1>7, <1>8 DEF Good, v

LEMMA StatesGood ==
  ASSUME NEW heard, NEW w, Good(w, heard), NEW n \in Npcs, NEW l \in Seq(TalkType),
         Lined(l, w.queueList[n], heard[n])
  PROVE  LET v == WithStates(w, n, l)
         IN  /\ Good(v, heard) /\ SameShops(w, v)
             /\ v.stateList = [w.stateList EXCEPT ![n] = l] /\ v.queueList = w.queueList
<1> DEFINE v == WithStates(w, n, l)
<1>v. v = WithStates(w, n, l)
  OBVIOUS
<1> HIDE DEF v
<1> USE <1>v
<1> DEFINE u == WithTalks(w, n, l, w.queueList[n])
<1>1. w \in ShopsType /\ w.queueList \in [Npcs -> Seq(Buyers)]
  BY DEF Good, ShopsType
<1>2. v = u
  <2> DEFINE L == [Npcs -> Seq(TalkType)]
             B == [Npcs -> Seq(Buyers)]
  <2>1. w \in [owner : [Buyers -> Npcs \cup {NoNpc}], callback : [Buyers -> Callbacks \cup {NoCallback}],
                window : [Buyers -> BOOLEAN], held : SUBSET Callbacks, lost : SUBSET Callbacks,
                shopPlayerList : B, stateList : L, queueList : B]
    BY <1>1 DEF ShopsType
  <2>2. [w.queueList EXCEPT ![n] = w.queueList[n]] = w.queueList
    BY <1>1
  <2> HIDE DEF L, B
  <2> QED BY <2>1, <2>2 DEF WithStates, WithTalks
<1>3. w.queueList[n] \in Seq(Buyers)
  BY <1>1
<1>4. /\ Good(u, heard) /\ SameShops(w, u)
      /\ u.stateList = [w.stateList EXCEPT ![n] = l] /\ u.queueList = [w.queueList EXCEPT ![n] = w.queueList[n]]
  BY <1>3, TalksGood
<1>5. [w.queueList EXCEPT ![n] = w.queueList[n]] = w.queueList
  BY <1>1
<1> HIDE DEF u
<1>6. /\ Good(v, heard) /\ SameShops(w, v)
      /\ v.stateList = [w.stateList EXCEPT ![n] = l] /\ v.queueList = w.queueList
  BY <1>2, <1>4, <1>5
<1> QED BY <1>6 DEF v

LEMMA TalkFacts ==
  ASSUME NEW heard, NEW w, Good(w, heard), NEW n \in Npcs
  PROVE  /\ w.stateList \in [Npcs -> Seq(TalkType)] /\ w.queueList \in [Npcs -> Seq(Buyers)]
         /\ w.stateList[n] \in Seq(TalkType) /\ w.queueList[n] \in Seq(Buyers)
         /\ Len(w.stateList[n]) \in Nat /\ DOMAIN w.stateList[n] = 1 .. Len(w.stateList[n])
         /\ Lined(w.stateList[n], w.queueList[n], heard[n])
<1>1. w.stateList \in [Npcs -> Seq(TalkType)] /\ w.queueList \in [Npcs -> Seq(Buyers)]
  BY DEF Good, ShopsType
<1>2. w.stateList[n] \in Seq(TalkType) /\ w.queueList[n] \in Seq(Buyers)
  BY <1>1
<1> QED BY <1>1, <1>2, LenProperties DEF Good

\* What a call about p leaves: no state is another's, and p has no second one.
Follows(w, v, p) ==
  \A n \in Npcs :
    /\ Len(w.stateList[n]) <= Len(v.stateList[n])
    /\ \A i \in DOMAIN w.stateList[n] : v.stateList[n][i].respondToCreature = w.stateList[n][i].respondToCreature
    /\ Known(w, n, p) => Len(v.stateList[n]) = Len(w.stateList[n])

LEMMA StillKnown ==
  ASSUME NEW heard, NEW w, Good(w, heard), NEW v, Good(v, heard), NEW p, Follows(w, v, p),
         NEW n \in Npcs, Known(w, n, p)
  PROVE  Known(v, n, p)
<1>1. PICK i \in DOMAIN w.stateList[n] : w.stateList[n][i].respondToCreature = p
  BY DEF Known
<1>2. i \in 1 .. Len(w.stateList[n]) /\ Len(w.stateList[n]) \in Nat /\ Len(v.stateList[n]) \in Nat
  BY TalkFacts
<1>3. i \in DOMAIN v.stateList[n]
  <2>1. i \in 1 .. Len(v.stateList[n])
    BY <1>2 DEF Follows
  <2> QED BY <2>1, TalkFacts
<1>4. v.stateList[n][i].respondToCreature = p
  BY <1>1 DEF Follows
<1> QED BY <1>3, <1>4 DEF Known

LEMMA FollowsOn ==
  ASSUME NEW heard, NEW w, Good(w, heard), NEW v, Good(v, heard), NEW u, Good(u, heard), NEW p,
         Follows(w, v, p), Follows(v, u, p)
  PROVE  Follows(w, u, p)
<1> SUFFICES ASSUME NEW n \in Npcs
    PROVE /\ Len(w.stateList[n]) <= Len(u.stateList[n])
          /\ \A i \in DOMAIN w.stateList[n] : u.stateList[n][i].respondToCreature = w.stateList[n][i].respondToCreature
          /\ Known(w, n, p) => Len(u.stateList[n]) = Len(w.stateList[n])
  BY DEF Follows
<1>1. /\ Len(w.stateList[n]) \in Nat /\ DOMAIN w.stateList[n] = 1 .. Len(w.stateList[n])
      /\ Len(v.stateList[n]) \in Nat /\ DOMAIN v.stateList[n] = 1 .. Len(v.stateList[n])
      /\ Len(u.stateList[n]) \in Nat
  BY TalkFacts
<1>2. Len(w.stateList[n]) <= Len(v.stateList[n]) /\ Len(v.stateList[n]) <= Len(u.stateList[n])
  BY DEF Follows
<1>3. ASSUME NEW i \in DOMAIN w.stateList[n]
      PROVE  u.stateList[n][i].respondToCreature = w.stateList[n][i].respondToCreature
  <2>1. i \in DOMAIN v.stateList[n]
    BY <1>1, <1>2
  <2> QED BY <2>1 DEF Follows
<1>4. ASSUME Known(w, n, p) PROVE Len(u.stateList[n]) = Len(w.stateList[n])
  BY <1>4, StillKnown DEF Follows
<1> QED BY <1>1, <1>2, <1>3, <1>4

\* The state found is p's, or new.
LEMMA StateFound ==
  ASSUME NEW heard, NEW w, Good(w, heard), NEW n \in Npcs, NEW p, Known(w, n, p)
  PROVE  StateOf(w, n, p) \in DOMAIN w.stateList[n] /\ w.stateList[n][StateOf(w, n, p)].respondToCreature = p
<1> DEFINE l == w.stateList[n]
           I == {i \in DOMAIN l : l[i].respondToCreature = p}
<1>1. DOMAIN l = 1 .. Len(l) /\ Len(l) \in Nat
  BY TalkFacts
<1>2. I \in SUBSET Nat /\ I # {}
  BY <1>1 DEF Known
<1>3. Min(I) \in I /\ \A y \in I : Min(I) <= y
  <2> HIDE DEF I
  <2> QED BY <1>2, SmallestIsOne
<1> DEFINE m == Min(I)
<1>4. m \in I /\ \A y \in I : m <= y
  BY <1>3
<1> HIDE DEF m
<1>5. m \in DOMAIN l /\ l[m].respondToCreature = p /\ \A j \in 1 .. (m - 1) : l[j].respondToCreature # p
  <2>1. m \in 1 .. Len(l) /\ l[m].respondToCreature = p
    BY <1>1, <1>4
  <2>2. ASSUME NEW j \in 1 .. (m - 1), l[j].respondToCreature = p PROVE FALSE
    <3>1. j \in I /\ ~(m <= j)
      BY <1>1, <2>1, <2>2
    <3> QED BY <1>4, <3>1
  <2> QED BY <1>1, <2>1, <2>2
<1>6. \E i \in DOMAIN l : l[i].respondToCreature = p /\ \A j \in 1 .. (i - 1) : l[j].respondToCreature # p
  BY <1>5
<1> QED BY <1>6 DEF StateOf

Ready(w, n, p) ==
  /\ StateOf(w, n, p) \in DOMAIN w.stateList[n]
  /\ w.stateList[n][StateOf(w, n, p)].respondToCreature \in {NoBuyer, p}

LEMMA GetStateGood ==
  ASSUME NEW heard, NEW w, Good(w, heard), NEW n \in Npcs, NEW p \in Buyers
  PROVE  LET v == getState(w, n, p)
         IN  /\ Good(v, heard) /\ SameShops(w, v) /\ v.queueList = w.queueList /\ Follows(w, v, p)
             /\ Known(w, n, p) => v = w
             /\ ~ Known(w, n, p) => /\ ~ Known(v, n, p) /\ StateOf(v, n, p) = Len(v.stateList[n])
                                    /\ Len(v.stateList[n]) = Len(w.stateList[n]) + 1
                                    /\ v.stateList[n][Len(v.stateList[n])] = NewState
             /\ Ready(v, n, p)
<1> DEFINE v == getState(w, n, p)
<1>v. v = getState(w, n, p)
  OBVIOUS
<1> HIDE DEF v
<1> USE <1>v
<1> DEFINE l == w.stateList[n]
           a == Append(l, NewState)
<1>1. CASE Known(w, n, p)
  <2>1. v = w
    BY <1>1 DEF getState
  <2>2. SameShops(w, w)
    BY DEF SameShops
  <2>3. Follows(w, w, p)
    BY TalkFacts DEF Follows
  <2>4. Ready(w, n, p)
    BY <1>1, StateFound DEF Ready
  <2> QED BY <1>1, <2>1, <2>2, <2>3, <2>4
<1>2. CASE ~ Known(w, n, p)
  <2>1. v = WithStates(w, n, a)
    BY <1>2 DEF getState, WithStates
  <2>2. l \in Seq(TalkType) /\ Lined(l, w.queueList[n], heard[n]) /\ Len(l) \in Nat /\ DOMAIN l = 1 .. Len(l)
    BY TalkFacts
  <2>3. /\ a \in Seq(TalkType) /\ Lined(a, w.queueList[n], heard[n]) /\ Len(a) = Len(l) + 1
        /\ \A i \in DOMAIN l : i \in DOMAIN a /\ a[i] = l[i]
        /\ a[Len(l) + 1] = NewState
    BY <2>2, StateAdded
  <2>0. DOMAIN a = 1 .. Len(a)
    BY <2>3, LenProperties
  <2> HIDE DEF a
  <2>4. /\ Good(v, heard) /\ SameShops(w, v)
        /\ v.stateList = [w.stateList EXCEPT ![n] = a] /\ v.queueList = w.queueList
    BY <2>1, <2>3, StatesGood
  <2>5. v.stateList[n] = a /\ \A m \in Npcs : m # n => v.stateList[m] = w.stateList[m]
    BY <2>4, TalkFacts
  <2>6. ~ Known(v, n, p)
    <3> SUFFICES ASSUME NEW i \in DOMAIN a, a[i].respondToCreature = p PROVE FALSE
      BY <2>5 DEF Known
    <3>1. i # Len(l) + 1
      BY <2>3, NewStateIs, ShopsAssumption
    <3>2. i \in DOMAIN l /\ l[i].respondToCreature = p
      BY <2>0, <2>2, <2>3, <3>1
    <3> QED BY <1>2, <3>2 DEF Known
  <2>7. StateOf(v, n, p) = Len(a) /\ a[Len(a)] = NewState /\ Len(a) \in DOMAIN a
    BY <2>0, <2>2, <2>3, <2>5, <2>6 DEF StateOf
  <2>8. Follows(w, v, p)
    <3> SUFFICES ASSUME NEW m \in Npcs
        PROVE /\ Len(w.stateList[m]) <= Len(v.stateList[m])
              /\ \A i \in DOMAIN w.stateList[m] : v.stateList[m][i].respondToCreature = w.stateList[m][i].respondToCreature
              /\ Known(w, m, p) => Len(v.stateList[m]) = Len(w.stateList[m])
      BY DEF Follows
    <3>1. CASE m = n
      <4>1. \A i \in DOMAIN l : a[i].respondToCreature = l[i].respondToCreature
        BY <2>3
      <4>2. Len(l) <= Len(a)
        BY <2>2, <2>3
      <4> QED BY <1>2, <2>5, <3>1, <4>1, <4>2
    <3>2. CASE m # n
      BY <2>5, <3>2, TalkFacts
    <3> QED BY <3>1, <3>2
  <2>9. Ready(v, n, p)
    BY <2>5, <2>7, NewStateIs DEF Ready
  <2> QED BY <1>2, <2>3, <2>4, <2>5, <2>6, <2>7, <2>8, <2>9
<1> QED BY <1>1, <1>2 DEF v

\* A state of the same player, with nothing more put off.
Rewritten(w, v, n, i, s) ==
  /\ v.queueList = w.queueList /\ DOMAIN v.stateList[n] = DOMAIN w.stateList[n]
  /\ \A j \in DOMAIN w.stateList[n] : v.stateList[n][j] = IF j = i THEN s ELSE w.stateList[n][j]
  /\ \A m \in Npcs : Len(v.stateList[m]) = Len(w.stateList[m])

SameTalk(s, t) == s \in TalkType /\ s.respondToCreature = t.respondToCreature /\ (s.isQueued => t.isQueued)

LEMMA StateAgain ==
  ASSUME NEW heard, NEW w, Good(w, heard), NEW n \in Npcs, NEW i \in DOMAIN w.stateList[n],
         NEW s, SameTalk(s, w.stateList[n][i])
  PROVE  LET v == WithStates(w, n, PutAt(w.stateList[n], i, s))
         IN  Good(v, heard) /\ SameShops(w, v) /\ Rewritten(w, v, n, i, s) /\ \A p : Follows(w, v, p)
<1>s. s \in TalkType /\ s.respondToCreature = w.stateList[n][i].respondToCreature /\ (s.isQueued => w.stateList[n][i].isQueued)
  BY DEF SameTalk
<1> USE <1>s
<1> DEFINE v == WithStates(w, n, PutAt(w.stateList[n], i, s))
<1>v. v = WithStates(w, n, PutAt(w.stateList[n], i, s))
  OBVIOUS
<1> HIDE DEF v
<1> USE <1>v
<1> DEFINE l == w.stateList[n]
           a == PutAt(l, i, s)
<1>1. /\ l \in Seq(TalkType) /\ Lined(l, w.queueList[n], heard[n]) /\ w.queueList[n] \in Seq(Buyers)
      /\ Len(l) \in Nat /\ DOMAIN l = 1 .. Len(l)
  BY TalkFacts
<1>2. IsInjective(w.queueList[n])
  BY <1>1 DEF Lined
<1>3. \A j \in DOMAIN l : l[j].respondToCreature = s.respondToCreature /\ s.respondToCreature # NoBuyer => j = i
  BY <1>1 DEF Lined
<1>4. s.isQueued /\ s.respondToCreature \in heard[n] => s.respondToCreature \in ToSet(w.queueList[n])
  BY <1>1 DEF Lined
<1>5. /\ a \in Seq(TalkType) /\ Lined(a, w.queueList[n], heard[n]) /\ Len(a) = Len(l) /\ DOMAIN a = DOMAIN l
      /\ \A j \in DOMAIN l : a[j] = IF j = i THEN s ELSE l[j]
  <2> DEFINE q == w.queueList[n]
             h == heard[n]
  <2>1. l \in Seq(TalkType) /\ Lined(l, q, h) /\ i \in DOMAIN l /\ s \in TalkType
    BY <1>1
  <2>2. \A j \in DOMAIN l : l[j].respondToCreature = s.respondToCreature /\ s.respondToCreature # NoBuyer => j = i
    BY <1>3
  <2>3. s.isQueued /\ s.respondToCreature \in h => s.respondToCreature \in ToSet(q)
    BY <1>4
  <2> HIDE DEF l, q, h
  <2> QED BY <2>1, <2>2, <2>3, StateSet DEF l, q, h
<1>6. /\ Good(v, heard) /\ SameShops(w, v)
      /\ v.stateList = [w.stateList EXCEPT ![n] = a] /\ v.queueList = w.queueList
  <2> HIDE DEF a
  <2>1. v = WithStates(w, n, a)
    BY DEF a
  <2> QED BY <1>5, <2>1, StatesGood
<1>7. \A m \in Npcs : v.stateList[m] = IF m = n THEN a ELSE w.stateList[m]
  <2> HIDE DEF a
  <2> QED BY <1>6, TalkFacts
<1>8. \A j \in DOMAIN l : a[j].respondToCreature = l[j].respondToCreature
  <2> HIDE DEF a
  <2> QED BY <1>5
<1>10. \A m \in Npcs : Len(v.stateList[m]) = Len(w.stateList[m])
  <2> HIDE DEF a
  <2> QED BY <1>5, <1>7
<1>11. \A p : Follows(w, v, p)
  <2> HIDE DEF a
  <2> SUFFICES ASSUME NEW m \in Npcs
      PROVE /\ Len(w.stateList[m]) <= Len(v.stateList[m])
            /\ \A j \in DOMAIN w.stateList[m] : v.stateList[m][j].respondToCreature = w.stateList[m][j].respondToCreature
            /\ Len(v.stateList[m]) = Len(w.stateList[m])
    BY DEF Follows
  <2>1. Len(w.stateList[m]) \in Nat
    BY TalkFacts
  <2>2. \A j \in DOMAIN w.stateList[m] : v.stateList[m][j].respondToCreature = w.stateList[m][j].respondToCreature
    BY <1>7, <1>8
  <2>3. Len(v.stateList[m]) = Len(w.stateList[m])
    BY <1>10
  <2> QED BY <2>1, <2>2, <2>3
<1>12. v.stateList[n] = a
  <2> HIDE DEF a
  <2> QED BY <1>7
<1> HIDE DEF a
<1>13. Rewritten(w, v, n, i, s)
  BY <1>5, <1>6, <1>10, <1>12 DEF Rewritten
<1> QED BY <1>6, <1>11, <1>13 DEF v

LEMMA NoticedGood ==
  ASSUME NEW heard, NEW w, Good(w, heard), NEW n \in Npcs, NEW p \in Buyers
  PROVE  LET u == Noticed(w, n, p)
         IN  /\ Good(u, heard) /\ SameShops(w, u) /\ u.queueList = w.queueList
             /\ Follows(w, u, p) /\ Known(u, n, p)
<1> DEFINE u == Noticed(w, n, p)
<1>u. u = Noticed(w, n, p)
  OBVIOUS
<1> HIDE DEF u
<1> USE <1>u
<1> DEFINE v == getState(w, n, p)
<1>1. /\ Good(v, heard) /\ SameShops(w, v) /\ v.queueList = w.queueList /\ Follows(w, v, p)
      /\ Known(w, n, p) => v = w
      /\ ~ Known(w, n, p) => /\ ~ Known(v, n, p) /\ StateOf(v, n, p) = Len(v.stateList[n])
                             /\ Len(v.stateList[n]) = Len(w.stateList[n]) + 1
                             /\ v.stateList[n][Len(v.stateList[n])] = NewState
      /\ Ready(v, n, p)
  BY GetStateGood
<1> DEFINE i == StateOf(v, n, p)
           l == v.stateList[n]
           s == [l[i] EXCEPT !.respondToCreature = p]
           a == PutAt(l, i, s)
<1>2. u = WithStates(v, n, a)
  BY DEF Noticed, WithStates, PutAt
<1> HIDE DEF v
<1>3. /\ l \in Seq(TalkType) /\ Lined(l, v.queueList[n], heard[n]) /\ Len(l) \in Nat /\ DOMAIN l = 1 .. Len(l)
  BY <1>1, TalkFacts
<1>4. i \in DOMAIN l /\ l[i].respondToCreature \in {NoBuyer, p} /\ l[i] \in TalkType
  BY <1>1, <1>3 DEF Ready
<1>5. s \in TalkType /\ s.respondToCreature = p /\ s.isQueued = l[i].isQueued
  <2> HIDE DEF i, l
  <2> QED BY <1>4 DEF TalkType
<1>6. l[i].respondToCreature = NoBuyer => ~ l[i].isQueued /\ ~ Known(v, n, p)
  <2> SUFFICES ASSUME l[i].respondToCreature = NoBuyer PROVE ~ l[i].isQueued /\ ~ Known(v, n, p)
    OBVIOUS
  <2>1. ~ Known(v, n, p)
    <3> SUFFICES ASSUME Known(v, n, p) PROVE FALSE
      OBVIOUS
    <3>1. l[i].respondToCreature = p
      BY <1>1, StateFound
    <3> QED BY <3>1, ShopsAssumption
  <2>2. ~ Known(w, n, p)
    BY <1>1, <2>1
  <2>3. l[i] = NewState
    BY <1>1, <2>2
  <2> QED BY <2>1, <2>3, NewStateIs
<1>7. \A j \in DOMAIN l : l[j].respondToCreature = s.respondToCreature /\ s.respondToCreature # NoBuyer => j = i
  <2> SUFFICES ASSUME NEW j \in DOMAIN l, l[j].respondToCreature = p PROVE j = i
    BY <1>5
  <2>1. Known(v, n, p)
    BY DEF Known
  <2>2. l[i].respondToCreature = p
    BY <1>4, <1>6, <2>1
  <2>3. p # NoBuyer
    BY ShopsAssumption
  <2> HIDE DEF i
  <2> QED BY <1>3, <1>4, <2>2, <2>3 DEF Lined
<1>8. s.isQueued /\ s.respondToCreature \in heard[n] => s.respondToCreature \in ToSet(v.queueList[n])
  BY <1>3, <1>4, <1>5, <1>6 DEF Lined
<1>9. /\ a \in Seq(TalkType) /\ Lined(a, v.queueList[n], heard[n]) /\ Len(a) = Len(l) /\ DOMAIN a = DOMAIN l
      /\ \A j \in DOMAIN l : a[j] = IF j = i THEN s ELSE l[j]
  <2> DEFINE q == v.queueList[n]
             h == heard[n]
  <2> HIDE DEF s, l, i
  <2>1. l \in Seq(TalkType) /\ Lined(l, q, h) /\ i \in DOMAIN l /\ s \in TalkType
    BY <1>3, <1>4, <1>5
  <2>2. s.isQueued /\ s.respondToCreature \in h => s.respondToCreature \in ToSet(q)
    BY <1>8
  <2> HIDE DEF q, h
  <2> QED BY <1>7, <2>1, <2>2, StateSet DEF q, h
<1> HIDE DEF a, s
<1>10. DOMAIN a = DOMAIN l /\ a[i] = s /\ \A j \in DOMAIN l : j # i => a[j] = l[j]
  BY <1>4, <1>9
<1>11. /\ Good(u, heard) /\ SameShops(v, u)
       /\ u.stateList = [v.stateList EXCEPT ![n] = a] /\ u.queueList = v.queueList
  BY <1>1, <1>2, <1>9, StatesGood
<1>12. u.stateList[n] = a /\ \A m \in Npcs : m # n => u.stateList[m] = v.stateList[m]
  BY <1>1, <1>11, TalkFacts
<1>13. Known(u, n, p)
  BY <1>4, <1>5, <1>10, <1>12 DEF Known
<1>14. Follows(w, u, p)
  <2> SUFFICES ASSUME NEW m \in Npcs
      PROVE /\ Len(w.stateList[m]) <= Len(u.stateList[m])
            /\ \A j \in DOMAIN w.stateList[m] : u.stateList[m][j].respondToCreature = w.stateList[m][j].respondToCreature
            /\ Known(w, m, p) => Len(u.stateList[m]) = Len(w.stateList[m])
    BY DEF Follows
  <2>1. Len(u.stateList[m]) = Len(v.stateList[m])
    BY <1>9, <1>12
  <2>2. ASSUME NEW j \in DOMAIN w.stateList[m]
        PROVE  u.stateList[m][j].respondToCreature = v.stateList[m][j].respondToCreature
    <3>1. CASE m # n \/ j # i
      <4>1. j \in DOMAIN v.stateList[m]
        <5>1. j \in 1 .. Len(w.stateList[m]) /\ Len(w.stateList[m]) \in Nat
          BY TalkFacts
        <5>2. Len(w.stateList[m]) <= Len(v.stateList[m]) /\ Len(v.stateList[m]) \in Nat
          BY <1>1, TalkFacts DEF Follows
        <5>3. j \in 1 .. Len(v.stateList[m])
          BY <5>1, <5>2
        <5> QED BY <1>1, <5>3, TalkFacts
      <4> QED BY <1>10, <1>12, <3>1, <4>1
    <3>2. CASE m = n /\ j = i
      <4>1. l[i].respondToCreature = p
        <5>1. CASE Known(w, n, p)
          BY <1>1, <5>1, StateFound
        <5>2. CASE ~ Known(w, n, p)
          <6>1. i = Len(w.stateList[n]) + 1 /\ DOMAIN w.stateList[n] = 1 .. Len(w.stateList[n]) /\ Len(w.stateList[n]) \in Nat
            BY <1>1, <5>2, TalkFacts
          <6> QED BY <3>2, <6>1
        <5> QED BY <5>1, <5>2
      <4> QED BY <1>5, <1>10, <1>12, <3>2, <4>1
    <3> QED BY <3>1, <3>2
  <2> QED BY <1>1, <2>1, <2>2 DEF Follows
<1>15. SameShops(w, u) /\ u.queueList = w.queueList
  BY <1>1, <1>11 DEF SameShops
<1> QED BY <1>11, <1>13, <1>14, <1>15 DEF u

-----------------------------------------------------------------------------
(* Windows.                                                                 *)

\* What closing a window leaves, field by field.
LEMMA CloseIs ==
  ASSUME NEW w \in ShopsType, \A n \in Npcs : IsInjective(w.shopPlayerList[n]), NEW p \in Buyers
  PROVE  LET v == closeShopWindow(w, p)
         IN  /\ v \in ShopsType /\ v.lost = w.lost /\ v.queueList = w.queueList
             /\ v.owner = [w.owner EXCEPT ![p] = NoNpc]
             /\ v.callback = [w.callback EXCEPT ![p] = NoCallback]
             /\ v.window = [w.window EXCEPT ![p] = FALSE]
             /\ w.owner[p] = NoNpc => /\ v.held = w.held /\ v.shopPlayerList = w.shopPlayerList
                                     /\ v.stateList = w.stateList
             /\ w.owner[p] # NoNpc =>
                  /\ v.held = w.held \ {w.callback[p]}
                  /\ v.shopPlayerList = [w.shopPlayerList EXCEPT ![w.owner[p]] = RemoveFirst(@, p)]
                  /\ v.stateList = getState(w, w.owner[p], p).stateList
<1> DEFINE v == closeShopWindow(w, p)
<1>v. v = closeShopWindow(w, p)
  OBVIOUS
<1> HIDE DEF v
<1> USE <1>v
<1> DEFINE L == Seq(TalkType)
           B == Seq(Buyers)
           Rec == [owner : [Buyers -> Npcs \cup {NoNpc}], callback : [Buyers -> Callbacks \cup {NoCallback}],
                   window : [Buyers -> BOOLEAN], held : SUBSET Callbacks, lost : SUBSET Callbacks,
                   shopPlayerList : [Npcs -> B], stateList : [Npcs -> L], queueList : [Npcs -> B]]
           shut(y) == [y EXCEPT !.owner[p] = NoNpc, !.callback[p] = NoCallback, !.window[p] = FALSE]
<1>1. ShopsType = Rec
  BY DEF ShopsType
<1>2. \A l \in L : Append(l, NewState) \in L
  BY NewStateIs
<1>3. \A n \in Npcs : RemoveFirst(w.shopPlayerList[n], p) \in B
  <2> SUFFICES ASSUME NEW n \in Npcs PROVE RemoveFirst(w.shopPlayerList[n], p) \in B
    OBVIOUS
  <2>1. w.shopPlayerList[n] \in Seq(Buyers)
    BY DEF ShopsType
  <2> QED BY <2>1, ErasedFromList
<1> HIDE DEF L, B
<1>4. ASSUME NEW y \in Rec
      PROVE  /\ shut(y) \in Rec /\ shut(y).lost = y.lost /\ shut(y).queueList = y.queueList /\ shut(y).held = y.held
             /\ shut(y).shopPlayerList = y.shopPlayerList /\ shut(y).stateList = y.stateList
             /\ shut(y).owner = [y.owner EXCEPT ![p] = NoNpc]
             /\ shut(y).callback = [y.callback EXCEPT ![p] = NoCallback]
             /\ shut(y).window = [y.window EXCEPT ![p] = FALSE]
  OBVIOUS
<1>5. CASE w.owner[p] = NoNpc
  <2>1. v = shut(w)
    BY <1>5 DEF closeShopWindow
  <2> HIDE DEF Rec, shut
  <2> QED BY <1>1, <1>4, <1>5, <2>1
<1>6. CASE w.owner[p] # NoNpc
  <2> DEFINE n == w.owner[p]
             u == [GiveBack(w, w.callback[p]) EXCEPT !.shopPlayerList[n] = RemoveFirst(@, p)]
             x == getState(u, n, p)
  <2>1. n \in Npcs
    BY <1>1, <1>6
  <2>2. v = shut(x)
    BY <1>6 DEF closeShopWindow, onPlayerEndTrade
  <2>3. /\ u \in Rec /\ u.owner = w.owner /\ u.callback = w.callback /\ u.window = w.window
        /\ u.held = w.held \ {w.callback[p]} /\ u.lost = w.lost /\ u.stateList = w.stateList
        /\ u.queueList = w.queueList
        /\ u.shopPlayerList = [w.shopPlayerList EXCEPT ![n] = RemoveFirst(@, p)]
    <3> HIDE DEF n
    <3> QED BY <1>1, <1>3, <2>1 DEF GiveBack
  <2> HIDE DEF u
  <2>4. Known(u, n, p) <=> Known(w, n, p)
    BY <2>3 DEF Known
  <2>5. /\ x \in Rec /\ x.owner = u.owner /\ x.callback = u.callback /\ x.window = u.window
        /\ x.held = u.held /\ x.lost = u.lost /\ x.shopPlayerList = u.shopPlayerList /\ x.queueList = u.queueList
        /\ x.stateList = getState(w, n, p).stateList
    <3>1. CASE Known(w, n, p)
      BY <2>3, <2>4, <3>1 DEF getState
    <3>2. CASE ~ Known(w, n, p)
      <4> DEFINE l == w.stateList[n]
      <4> HIDE DEF n
      <4>1. /\ x = [u EXCEPT !.stateList[n] = Append(u.stateList[n], NewState)]
            /\ getState(w, n, p) = [w EXCEPT !.stateList[n] = Append(w.stateList[n], NewState)]
        BY <2>4, <3>2 DEF getState
      <4>2. Append(u.stateList[n], NewState) \in L
        BY <1>2, <2>1, <2>3
      <4>3. getState(w, n, p).stateList = [w.stateList EXCEPT ![n] = Append(w.stateList[n], NewState)]
        BY <1>1, <4>1
      <4> HIDE DEF x
      <4>4. x = [u EXCEPT !.stateList[n] = Append(u.stateList[n], NewState)]
        BY <4>1
      <4> DEFINE e == [u EXCEPT !.stateList[n] = Append(u.stateList[n], NewState)]
      <4>5. /\ e \in Rec /\ e.owner = u.owner /\ e.callback = u.callback /\ e.window = u.window
            /\ e.held = u.held /\ e.lost = u.lost /\ e.shopPlayerList = u.shopPlayerList /\ e.queueList = u.queueList
            /\ e.stateList = [u.stateList EXCEPT ![n] = Append(u.stateList[n], NewState)]
        BY <2>3, <4>2
      <4> HIDE DEF e, Rec
      <4> QED BY <2>3, <4>3, <4>4, <4>5 DEF e
    <3> QED BY <3>1, <3>2
  <2> HIDE DEF x, Rec, shut, n
  <2> QED BY <1>1, <1>4, <1>6, <2>2, <2>3, <2>5 DEF n
<1> QED BY <1>5, <1>6 DEF v

Closed(w, v, p) ==
  /\ v.queueList = w.queueList /\ v.lost = w.lost
  /\ v.owner = [w.owner EXCEPT ![p] = NoNpc]
  /\ v.callback = [w.callback EXCEPT ![p] = NoCallback]
  /\ v.window = [w.window EXCEPT ![p] = FALSE]
  /\ v.held = w.held \ {w.callback[p]}

LEMMA CloseGood ==
  ASSUME NEW heard, NEW w, Good(w, heard), NEW p \in Buyers
  PROVE  LET v == closeShopWindow(w, p)
         IN  Good(v, heard) /\ Follows(w, v, p) /\ Closed(w, v, p)
<1> DEFINE v == closeShopWindow(w, p)
<1>v. v = closeShopWindow(w, p)
  OBVIOUS
<1> HIDE DEF v
<1> USE <1>v
<1>1. w \in ShopsType /\ \A n \in Npcs : IsInjective(w.shopPlayerList[n])
  BY DEF Good, Shown
<1>2. /\ v \in ShopsType /\ v.lost = w.lost /\ v.queueList = w.queueList
      /\ v.owner = [w.owner EXCEPT ![p] = NoNpc]
      /\ v.callback = [w.callback EXCEPT ![p] = NoCallback]
      /\ v.window = [w.window EXCEPT ![p] = FALSE]
      /\ w.owner[p] = NoNpc => /\ v.held = w.held /\ v.shopPlayerList = w.shopPlayerList
                              /\ v.stateList = w.stateList
      /\ w.owner[p] # NoNpc =>
           /\ v.held = w.held \ {w.callback[p]}
           /\ v.shopPlayerList = [w.shopPlayerList EXCEPT ![w.owner[p]] = RemoveFirst(@, p)]
           /\ v.stateList = getState(w, w.owner[p], p).stateList
  BY <1>1, CloseIs
<1>3. /\ w.owner \in [Buyers -> Npcs \cup {NoNpc}] /\ w.callback \in [Buyers -> Callbacks \cup {NoCallback}]
      /\ w.window \in [Buyers -> BOOLEAN] /\ w.held \subseteq Callbacks /\ w.lost \subseteq Callbacks
      /\ \A n \in Npcs : w.shopPlayerList[n] \in Seq(Buyers)
      /\ w.shopPlayerList \in [Npcs -> Seq(Buyers)]
  BY <1>1 DEF ShopsType
<1>4. /\ v.owner[p] = NoNpc /\ v.callback[p] = NoCallback /\ ~ v.window[p]
      /\ \A q \in Buyers : q # p => /\ v.owner[q] = w.owner[q] /\ v.callback[q] = w.callback[q]
                                    /\ v.window[q] = w.window[q]
  BY <1>2, <1>3
<1>5. v.held = w.held \ {w.callback[p]}
  <2>1. CASE w.owner[p] = NoNpc
    <3>1. w.callback[p] = NoCallback
      BY <2>1 DEF Good, Referred
    <3> QED BY <1>2, <1>3, <2>1, <3>1, ShopsAssumption
  <2> QED BY <1>2, <2>1
<1>6. \A n \in Npcs : /\ IsInjective(v.shopPlayerList[n])
                      /\ ToSet(v.shopPlayerList[n]) = {q \in Buyers : v.owner[q] = n}
  <2> SUFFICES ASSUME NEW n \in Npcs
      PROVE IsInjective(v.shopPlayerList[n]) /\ ToSet(v.shopPlayerList[n]) = {q \in Buyers : v.owner[q] = n}
    OBVIOUS
  <2>1. IsInjective(w.shopPlayerList[n]) /\ ToSet(w.shopPlayerList[n]) = {q \in Buyers : w.owner[q] = n}
    BY DEF Good, Shown
  <2>2. n # NoNpc
    BY ShopsAssumption
  <2>3. {q \in Buyers : v.owner[q] = n} = {q \in Buyers : w.owner[q] = n} \ {p}
    BY <1>4, <2>2
  <2>4. CASE w.owner[p] = n
    <3>1. v.shopPlayerList[n] = RemoveFirst(w.shopPlayerList[n], p)
      BY <1>2, <1>3, <2>2, <2>4
    <3>2. w.shopPlayerList[n] \in Seq(Buyers)
      BY <1>3
    <3> QED BY <2>1, <2>3, <3>1, <3>2, ErasedFromList
  <2>5. CASE w.owner[p] # n
    <3>1. v.shopPlayerList[n] = w.shopPlayerList[n]
      BY <1>2, <1>3, <2>5
    <3>2. p \notin {q \in Buyers : w.owner[q] = n}
      BY <2>5
    <3> QED BY <2>1, <2>3, <3>1, <3>2
  <2> QED BY <2>4, <2>5
<1>7. Shown(v)
  BY <1>4, <1>6 DEF Good, Shown
<1>8. Referred(v)
  <2>1. /\ \A q \in Buyers : (w.callback[q] = NoCallback <=> w.owner[q] = NoNpc) /\ w.callback[q] \notin w.lost
        /\ \A q, r \in Buyers : w.callback[q] = w.callback[r] /\ w.owner[q] # NoNpc => q = r
        /\ w.held = ({w.callback[q] : q \in Buyers} \ {NoCallback}) \cup w.lost
        /\ \A c, d \in w.lost : c = d
    BY DEF Good, Referred
  <2>2. NoCallback \notin w.lost
    BY <1>3, ShopsAssumption
  <2>3. v.held = ({v.callback[q] : q \in Buyers} \ {NoCallback}) \cup v.lost
    <3>1. ASSUME NEW c \in v.held, c \notin w.lost PROVE \E q \in Buyers : v.callback[q] = c /\ c # NoCallback
      <4>1. PICK q \in Buyers : w.callback[q] = c /\ c # NoCallback
        BY <1>5, <2>1, <3>1
      <4>2. q # p
        BY <1>5, <4>1
      <4> QED BY <1>4, <4>1, <4>2
    <3>2. w.lost \subseteq v.held
      BY <1>5, <2>1
    <3>3. ASSUME NEW q \in Buyers, v.callback[q] # NoCallback PROVE v.callback[q] \in v.held
      <4>1. q # p /\ v.callback[q] = w.callback[q]
        BY <1>4, <3>3
      <4>2. w.owner[q] # NoNpc
        BY <2>1, <3>3, <4>1
      <4>3. w.callback[q] # w.callback[p]
        BY <2>1, <4>1, <4>2
      <4> QED BY <1>5, <2>1, <3>3, <4>1, <4>3
    <3> QED BY <1>2, <3>1, <3>2, <3>3
  <2>4. \A q \in Buyers : (v.callback[q] = NoCallback <=> v.owner[q] = NoNpc) /\ v.callback[q] \notin v.lost
    BY <1>2, <1>4, <2>1, <2>2
  <2>5. \A q, r \in Buyers : v.callback[q] = v.callback[r] /\ v.owner[q] # NoNpc => q = r
    <3> SUFFICES ASSUME NEW q \in Buyers, NEW r \in Buyers, v.callback[q] = v.callback[r], v.owner[q] # NoNpc
        PROVE q = r
      OBVIOUS
    <3>1. q # p /\ v.callback[q] # NoCallback
      BY <1>4, <2>4
    <3>2. r # p
      BY <1>4, <3>1
    <3> QED BY <1>4, <2>1, <3>1, <3>2
  <2>6. \A c, d \in v.lost : c = d
    BY <1>2, <2>1
  <2> QED BY <2>3, <2>4, <2>5, <2>6 DEF Referred
<1>9. (\A n \in Npcs : Lined(v.stateList[n], v.queueList[n], heard[n])) /\ Follows(w, v, p)
  <2>1. CASE w.owner[p] = NoNpc
    <3>1. v.stateList = w.stateList
      BY <1>2, <2>1
    <3>2. Follows(w, v, p)
      BY <3>1, TalkFacts DEF Follows
    <3> QED BY <1>2, <3>1, <3>2 DEF Good
  <2>2. CASE w.owner[p] # NoNpc
    <3> DEFINE g == getState(w, w.owner[p], p)
    <3>1. w.owner[p] \in Npcs
      BY <1>3, <2>2
    <3>2. Good(g, heard) /\ g.queueList = w.queueList /\ Follows(w, g, p)
      BY <3>1, GetStateGood
    <3>3. v.stateList = g.stateList
      BY <1>2, <2>2
    <3> HIDE DEF g
    <3>4. Follows(w, v, p)
      BY <3>2, <3>3 DEF Follows
    <3> QED BY <1>2, <3>2, <3>3, <3>4 DEF Good
  <2> QED BY <2>1, <2>2
<1> QED BY <1>2, <1>5, <1>7, <1>8, <1>9 DEF Good, Closed, v

\* One held for each player and one lost leave another.
LEMMA SomeReferenceFree ==
  ASSUME NEW heard, NEW w, Good(w, heard)
  PROVE  popCallback(w) \in Callbacks /\ popCallback(w) \notin w.held
<1> DEFINE C == {w.callback[p] : p \in Buyers}
<1>1. IsFiniteSet(C) /\ Cardinality(C) <= Cardinality(Buyers)
  <2> DEFINE f == [p \in Buyers |-> w.callback[p]]
  <2>1. f \in Surjection(Buyers, C)
    BY DEF Surjection
  <2> HIDE DEF f, C
  <2> QED BY <2>1, FS_Surjection, ShopsAssumption
<1>2. IsFiniteSet(w.lost) /\ Cardinality(w.lost) <= 1
  <2>1. \A c, d \in w.lost : c = d
    BY DEF Good, Referred
  <2>2. CASE w.lost = {}
    BY <2>2, FS_EmptySet
  <2>3. CASE w.lost # {}
    <3>1. PICK c \in w.lost : w.lost = {c}
      BY <2>1, <2>3
    <3> QED BY <3>1, FS_Singleton
  <2> QED BY <2>2, <2>3
<1>3. w.held \subseteq C \cup w.lost
  BY DEF Good, Referred
<1>4. IsFiniteSet(w.held) /\ Cardinality(w.held) <= Cardinality(Buyers) + 1
  <2> HIDE DEF C
  <2>1. IsFiniteSet(C \cup w.lost)
    BY <1>1, <1>2, FS_Union
  <2>2. IsFiniteSet(C \cap w.lost) /\ Cardinality(C \cap w.lost) \in Nat
    BY <1>1, FS_Subset, FS_CardinalityType
  <2>3. Cardinality(C) \in Nat /\ Cardinality(w.lost) \in Nat /\ Cardinality(Buyers) \in Nat
    BY <1>1, <1>2, FS_CardinalityType, ShopsAssumption
  <2>4. Cardinality(C \cup w.lost) = Cardinality(C) + Cardinality(w.lost) - Cardinality(C \cap w.lost)
    BY <1>1, <1>2, FS_Union
  <2>5. Cardinality(C \cup w.lost) <= Cardinality(Buyers) + 1
    BY <1>1, <1>2, <2>2, <2>3, <2>4
  <2>6. IsFiniteSet(w.held) /\ Cardinality(w.held) <= Cardinality(C \cup w.lost)
    BY <1>3, <2>1, FS_Subset
  <2>7. Cardinality(w.held) \in Nat /\ Cardinality(C \cup w.lost) \in Nat
    BY <2>1, <2>6, FS_CardinalityType
  <2> QED BY <2>3, <2>5, <2>6, <2>7
<1>5. \E c \in Callbacks : c \notin w.held
  <2> SUFFICES ASSUME Callbacks \subseteq w.held PROVE FALSE
    OBVIOUS
  <2>1. Callbacks = w.held
    BY DEF Good, ShopsType
  <2>2. Cardinality(Callbacks) > Cardinality(Buyers) + 1
    BY <1>4, <2>1, ShopsAssumption
  <2>3. Cardinality(w.held) \in Nat /\ Cardinality(Buyers) \in Nat
    BY <1>4, FS_CardinalityType, ShopsAssumption
  <2> QED BY <1>4, <2>1, <2>2, <2>3
<1> QED BY <1>5 DEF popCallback

LEMMA OpenGood ==
  ASSUME NEW heard, NEW w, Good(w, heard), NEW n \in Npcs, NEW p \in visitors, visitors \subseteq Buyers
  PROVE  LET o == luaOpenShopWindow(w, n, p)
         IN  Good(o, heard) /\ Follows(w, o, p) /\ o.owner = [w.owner EXCEPT ![p] = n]
<1> DEFINE o == luaOpenShopWindow(w, n, p)
<1>o. o = luaOpenShopWindow(w, n, p)
  OBVIOUS
<1> HIDE DEF o
<1> USE <1>o
<1> DEFINE c == popCallback(w)
           x == [w EXCEPT !.held = @ \cup {c}]
           v == closeShopWindow(w, p)
           y == closeShopWindow(x, p)
<1>0. p \in Buyers /\ c \in Callbacks /\ c \notin w.held /\ c # NoCallback /\ n # NoNpc
  BY SomeReferenceFree, ShopsAssumption
<1> HIDE DEF c
<1>1. w \in ShopsType /\ \A m \in Npcs : IsInjective(w.shopPlayerList[m])
  BY DEF Good, Shown
<1>2. /\ x \in ShopsType /\ x.owner = w.owner /\ x.callback = w.callback /\ x.window = w.window
      /\ x.held = w.held \cup {c} /\ x.lost = w.lost /\ x.shopPlayerList = w.shopPlayerList
      /\ x.stateList = w.stateList /\ x.queueList = w.queueList
  <2> DEFINE L == [Npcs -> Seq(TalkType)]
             B == [Npcs -> Seq(Buyers)]
             Rec == [owner : [Buyers -> Npcs \cup {NoNpc}], callback : [Buyers -> Callbacks \cup {NoCallback}],
                     window : [Buyers -> BOOLEAN], held : SUBSET Callbacks, lost : SUBSET Callbacks,
                     shopPlayerList : B, stateList : L, queueList : B]
  <2>1. w \in Rec /\ ShopsType = Rec
    BY <1>1 DEF ShopsType
  <2> HIDE DEF L, B
  <2>2. /\ x \in Rec /\ x.owner = w.owner /\ x.callback = w.callback /\ x.window = w.window
        /\ x.held = w.held \cup {c} /\ x.lost = w.lost /\ x.shopPlayerList = w.shopPlayerList
        /\ x.stateList = w.stateList /\ x.queueList = w.queueList
    BY <1>0, <2>1
  <2> HIDE DEF Rec, x
  <2> QED BY <2>1, <2>2
<1> HIDE DEF x
<1>v. v = closeShopWindow(w, p) /\ y = closeShopWindow(x, p)
  OBVIOUS
<1>6. o = [y EXCEPT !.shopPlayerList[n] = IF p \in ToSet(@) THEN @ ELSE Append(@, p),
                    !.owner[p] = n, !.callback[p] = c, !.window[p] = TRUE]
  BY DEF luaOpenShopWindow, c, x
<1> HIDE DEF v, y
<1>3. /\ Good(v, heard) /\ Follows(w, v, p) /\ v.queueList = w.queueList /\ v.lost = w.lost
      /\ v.owner = [w.owner EXCEPT ![p] = NoNpc]
      /\ v.callback = [w.callback EXCEPT ![p] = NoCallback]
      /\ v.window = [w.window EXCEPT ![p] = FALSE]
      /\ v.held = w.held \ {w.callback[p]}
  BY <1>0, <1>v, CloseGood DEF Closed
<1>4. /\ v \in ShopsType /\ v.lost = w.lost /\ v.queueList = w.queueList
      /\ v.owner = [w.owner EXCEPT ![p] = NoNpc]
      /\ v.callback = [w.callback EXCEPT ![p] = NoCallback]
      /\ v.window = [w.window EXCEPT ![p] = FALSE]
      /\ w.owner[p] = NoNpc => /\ v.held = w.held /\ v.shopPlayerList = w.shopPlayerList
                              /\ v.stateList = w.stateList
      /\ w.owner[p] # NoNpc =>
           /\ v.held = w.held \ {w.callback[p]}
           /\ v.shopPlayerList = [w.shopPlayerList EXCEPT ![w.owner[p]] = RemoveFirst(@, p)]
           /\ v.stateList = getState(w, w.owner[p], p).stateList
  BY <1>0, <1>1, <1>v, CloseIs
<1>5. /\ y \in ShopsType /\ y.lost = x.lost /\ y.queueList = x.queueList
      /\ y.owner = [x.owner EXCEPT ![p] = NoNpc]
      /\ y.callback = [x.callback EXCEPT ![p] = NoCallback]
      /\ y.window = [x.window EXCEPT ![p] = FALSE]
      /\ x.owner[p] = NoNpc => /\ y.held = x.held /\ y.shopPlayerList = x.shopPlayerList
                              /\ y.stateList = x.stateList
      /\ x.owner[p] # NoNpc =>
           /\ y.held = x.held \ {x.callback[p]}
           /\ y.shopPlayerList = [x.shopPlayerList EXCEPT ![x.owner[p]] = RemoveFirst(@, p)]
           /\ y.stateList = getState(x, x.owner[p], p).stateList
  BY <1>0, <1>1, <1>2, <1>v, CloseIs
<1>7. w.callback[p] # c /\ (w.owner[p] # NoNpc => w.callback[p] \in w.held)
  <2>1. (w.callback[p] = NoCallback <=> w.owner[p] = NoNpc) /\ ({w.callback[q] : q \in Buyers} \ {NoCallback}) \subseteq w.held
    BY <1>0 DEF Good, Referred
  <2> QED BY <1>0, <2>1
<1>8. /\ y.owner = v.owner /\ y.callback = v.callback /\ y.window = v.window /\ y.lost = v.lost
      /\ y.held = v.held \cup {c} /\ y.queueList = v.queueList
      /\ y.shopPlayerList = v.shopPlayerList
  BY <1>2, <1>3, <1>4, <1>5, <1>7
<1>9. y.stateList = v.stateList
  <2>1. CASE w.owner[p] = NoNpc
    BY <1>2, <1>4, <1>5, <2>1
  <2>2. CASE w.owner[p] # NoNpc
    <3> DEFINE m == w.owner[p]
               l == Append(w.stateList[m], NewState)
               Rec == [held : SUBSET Callbacks, stateList : [Npcs -> Seq(TalkType)]]
    <3>1. m \in Npcs
      BY <1>0, <1>1, <2>2 DEF ShopsType
    <3>2. Known(x, m, p) <=> Known(w, m, p)
      BY <1>2 DEF Known
    <3>3. getState(x, m, p).stateList = getState(w, m, p).stateList
      <4>1. CASE Known(w, m, p)
        BY <1>2, <3>2, <4>1 DEF getState
      <4>2. CASE ~ Known(w, m, p)
        <5>1. getState(x, m, p) = WithStates(x, m, l) /\ getState(w, m, p) = WithStates(w, m, l)
          BY <1>2, <3>2, <4>2 DEF getState, WithStates
        <5>2. "stateList" \in DOMAIN x /\ "stateList" \in DOMAIN w
          BY <1>1, <1>2 DEF ShopsType
        <5> HIDE DEF l, m
        <5>3. WithStates(x, m, l).stateList = [x.stateList EXCEPT ![m] = l]
          BY <5>2 DEF WithStates
        <5>4. WithStates(w, m, l).stateList = [w.stateList EXCEPT ![m] = l]
          BY <5>2 DEF WithStates
        <5> QED BY <1>2, <5>1, <5>3, <5>4
      <4> QED BY <4>1, <4>2
    <3> QED BY <1>2, <1>4, <1>5, <2>2, <3>3
  <2> QED BY <2>1, <2>2
<1>10. Shown(v) /\ Referred(v) /\ v \in ShopsType
  BY <1>3 DEF Good
<1>11. /\ v.owner[p] = NoNpc /\ \A m \in Npcs : p \notin ToSet(v.shopPlayerList[m])
       /\ v.owner \in [Buyers -> Npcs \cup {NoNpc}] /\ v.callback \in [Buyers -> Callbacks \cup {NoCallback}]
       /\ v.window \in [Buyers -> BOOLEAN] /\ v.held \subseteq Callbacks /\ v.lost \subseteq Callbacks
       /\ v.shopPlayerList \in [Npcs -> Seq(Buyers)] /\ v.stateList \in [Npcs -> Seq(TalkType)]
       /\ v.queueList \in [Npcs -> Seq(Buyers)]
  <2>1. v.owner[p] = NoNpc
    BY <1>0, <1>1, <1>3 DEF ShopsType
  <2>2. \A m \in Npcs : ToSet(v.shopPlayerList[m]) = {q \in Buyers : v.owner[q] = m}
    BY <1>10 DEF Shown
  <2> QED BY <1>10, <2>1, <2>2, ShopsAssumption DEF ShopsType
<1> DEFINE l == v.shopPlayerList[n]
           a == Append(l, p)
<1>12. l \in Seq(Buyers) /\ IsInjective(l) /\ ToSet(l) = {q \in Buyers : v.owner[q] = n} /\ p \notin ToSet(l)
  BY <1>10, <1>11 DEF Shown
<1>13. a \in Seq(Buyers) /\ IsInjective(a) /\ ToSet(a) = ToSet(l) \cup {p}
  <2> HIDE DEF l
  <2> QED BY <1>0, <1>12, AppendedToList
<1> HIDE DEF a
<1>14. /\ o \in ShopsType
       /\ o.owner = [v.owner EXCEPT ![p] = n] /\ o.callback = [v.callback EXCEPT ![p] = c]
       /\ o.window = [v.window EXCEPT ![p] = TRUE] /\ o.held = v.held \cup {c} /\ o.lost = v.lost
       /\ o.shopPlayerList = [v.shopPlayerList EXCEPT ![n] = a]
       /\ o.stateList = v.stateList /\ o.queueList = v.queueList
  <2> DEFINE L == [Npcs -> Seq(TalkType)]
             B == Seq(Buyers)
             Rec == [owner : [Buyers -> Npcs \cup {NoNpc}], callback : [Buyers -> Callbacks \cup {NoCallback}],
                     window : [Buyers -> BOOLEAN], held : SUBSET Callbacks, lost : SUBSET Callbacks,
                     shopPlayerList : [Npcs -> B], stateList : L, queueList : [Npcs -> B]]
             e == [y EXCEPT !.shopPlayerList[n] = a, !.owner[p] = n, !.callback[p] = c, !.window[p] = TRUE]
  <2>1. y \in Rec /\ ShopsType = Rec /\ a \in B
    BY <1>5, <1>13 DEF ShopsType
  <2>2. o = e
    <3>1. p \notin ToSet(y.shopPlayerList[n]) /\ a = Append(y.shopPlayerList[n], p)
      BY <1>8, <1>12 DEF a
    <3> HIDE DEF L, B
    <3> QED BY <1>6, <2>1, <3>1
  <2> HIDE DEF L, B
  <2>3. /\ e \in Rec /\ e.owner = [y.owner EXCEPT ![p] = n] /\ e.callback = [y.callback EXCEPT ![p] = c]
        /\ e.window = [y.window EXCEPT ![p] = TRUE] /\ e.held = y.held /\ e.lost = y.lost
        /\ e.shopPlayerList = [y.shopPlayerList EXCEPT ![n] = a]
        /\ e.stateList = y.stateList /\ e.queueList = y.queueList
    BY <1>0, <2>1
  <2> HIDE DEF Rec, e
  <2> QED BY <1>8, <1>9, <2>1, <2>2, <2>3
<1>15. /\ o.owner[p] = n /\ o.callback[p] = c /\ o.window[p]
       /\ \A q \in Buyers : q # p => /\ o.owner[q] = v.owner[q] /\ o.callback[q] = v.callback[q]
                                     /\ o.window[q] = v.window[q]
       /\ o.shopPlayerList[n] = a /\ \A m \in Npcs : m # n => o.shopPlayerList[m] = v.shopPlayerList[m]
  BY <1>0, <1>11, <1>14
<1>16. Shown(o)
  <2>1. ASSUME NEW m \in Npcs
        PROVE  IsInjective(o.shopPlayerList[m]) /\ ToSet(o.shopPlayerList[m]) = {q \in Buyers : o.owner[q] = m}
    <3>1. IsInjective(v.shopPlayerList[m]) /\ ToSet(v.shopPlayerList[m]) = {q \in Buyers : v.owner[q] = m}
      BY <1>10 DEF Shown
    <3>2. CASE m = n
      <4>1. {q \in Buyers : o.owner[q] = n} = {q \in Buyers : v.owner[q] = n} \cup {p}
        BY <1>0, <1>15
      <4> QED BY <1>12, <1>13, <1>15, <3>2, <4>1
    <3>3. CASE m # n
      <4>1. {q \in Buyers : o.owner[q] = m} = {q \in Buyers : v.owner[q] = m}
        <5>1. o.owner[p] # m /\ v.owner[p] # m
          BY <1>11, <1>15, <3>3, ShopsAssumption
        <5>2. \A q \in Buyers : o.owner[q] = m <=> v.owner[q] = m
          BY <1>15, <5>1
        <5> QED BY <5>2
      <4> QED BY <1>15, <3>1, <3>3, <4>1
    <3> QED BY <3>2, <3>3
  <2>2. \A q \in Buyers : (o.window[q] <=> o.owner[q] # NoNpc) /\ (o.owner[q] # NoNpc => q \in visitors)
    BY <1>0, <1>10, <1>15 DEF Shown
  <2> QED BY <2>1, <2>2 DEF Shown
<1>17. Referred(o)
  <2>1. /\ \A q \in Buyers : (v.callback[q] = NoCallback <=> v.owner[q] = NoNpc) /\ v.callback[q] \notin v.lost
        /\ \A q, r \in Buyers : v.callback[q] = v.callback[r] /\ v.owner[q] # NoNpc => q = r
        /\ v.held = ({v.callback[q] : q \in Buyers} \ {NoCallback}) \cup v.lost
        /\ \A d, e \in v.lost : d = e
    BY <1>10 DEF Referred
  <2>2. c \notin v.held /\ c \notin v.lost /\ v.callback[p] = NoCallback
    BY <1>0, <1>3, <1>11, <2>1
  <2>3. \A q \in Buyers : q # p => o.callback[q] # c
    BY <1>0, <1>15, <2>1, <2>2
  <2>4. {o.callback[q] : q \in Buyers} \ {NoCallback} = ({v.callback[q] : q \in Buyers} \ {NoCallback}) \cup {c}
    BY <1>0, <1>15, <2>2
  <2>5. o.held = ({o.callback[q] : q \in Buyers} \ {NoCallback}) \cup o.lost
    BY <1>14, <2>1, <2>4
  <2>6. \A q \in Buyers : (o.callback[q] = NoCallback <=> o.owner[q] = NoNpc) /\ o.callback[q] \notin o.lost
    BY <1>0, <1>14, <1>15, <2>1, <2>2
  <2>7. \A q, r \in Buyers : o.callback[q] = o.callback[r] /\ o.owner[q] # NoNpc => q = r
    BY <1>0, <1>15, <2>1, <2>3
  <2>8. \A d, e \in o.lost : d = e
    BY <1>14, <2>1
  <2> QED BY <2>5, <2>6, <2>7, <2>8 DEF Referred
<1>18. Good(o, heard) /\ Follows(w, o, p)
  BY <1>3, <1>14, <1>16, <1>17 DEF Good, Follows
<1>19. o.owner = [w.owner EXCEPT ![p] = n]
  <2>1. w.owner \in [Buyers -> Npcs \cup {NoNpc}]
    BY <1>1 DEF ShopsType
  <2> QED BY <1>3, <1>14, <2>1
<1> QED BY <1>18, <1>19 DEF o

-----------------------------------------------------------------------------
(* Answers.                                                                 *)

Hearing == [Npcs -> SUBSET Buyers]

LEMMA QueuedGood ==
  ASSUME NEW heard \in Hearing, NEW w, Good(w, heard), NEW n \in Npcs, NEW p \in Buyers,
         NEW i \in DOMAIN w.stateList[n], w.stateList[n][i].respondToCreature \in {NoBuyer, p}
  PROVE  LET v == Queued(w, n, p, i)
         IN  Good(v, heard) /\ SameShops(w, v) /\ Follows(w, v, p)
<1> DEFINE v == Queued(w, n, p, i)
<1>v. v = Queued(w, n, p, i)
  OBVIOUS
<1> HIDE DEF v
<1> USE <1>v
<1>1. CASE p \in ToSet(w.queueList[n])
  <2>1. v = w
    BY <1>1 DEF Queued
  <2> QED BY <2>1, TalkFacts DEF SameShops, Follows
<1>2. CASE p \notin ToSet(w.queueList[n])
  <2> DEFINE l == w.stateList[n]
             s == [l[i] EXCEPT !.isQueued = TRUE]
             a == PutAt(l, i, s)
             q == w.queueList[n]
             r == Append(q, p)
             h == heard[n]
  <2>1. v = WithTalks(w, n, a, r)
    BY <1>2 DEF Queued, WithTalks, PutAt
  <2>2. l \in Seq(TalkType) /\ q \in Seq(Buyers) /\ Lined(l, q, h) /\ DOMAIN l = 1 .. Len(l) /\ Len(l) \in Nat
    BY TalkFacts
  <2>3. i \in DOMAIN l /\ l[i] \in TalkType /\ l[i].respondToCreature \in {NoBuyer, p}
    BY <2>2
  <2>4. s \in TalkType /\ s.respondToCreature = l[i].respondToCreature
    <3> HIDE DEF l
    <3> QED BY <2>3 DEF TalkType
  <2>5. NoBuyer \notin h
    BY ShopsAssumption DEF Hearing
  <2> HIDE DEF l, s, q, h
  <2>6. r \in Seq(Buyers) /\ Lined(l, r, h) /\ p \in ToSet(r)
    BY <1>2, <2>2, QueueLonger DEF q
  <2> HIDE DEF r
  <2>7. \A j \in DOMAIN l : l[j].respondToCreature = s.respondToCreature /\ s.respondToCreature # NoBuyer => j = i
    BY <2>2, <2>3, <2>4 DEF Lined
  <2>8. s.isQueued /\ s.respondToCreature \in h => s.respondToCreature \in ToSet(r)
    BY <2>3, <2>4, <2>5, <2>6
  <2>9. /\ a \in Seq(TalkType) /\ Lined(a, r, h) /\ Len(a) = Len(l) /\ DOMAIN a = DOMAIN l
        /\ \A j \in DOMAIN l : a[j] = IF j = i THEN s ELSE l[j]
    <3>1. l \in Seq(TalkType) /\ Lined(l, r, h) /\ i \in DOMAIN l /\ s \in TalkType
      BY <2>2, <2>3, <2>4, <2>6
    <3> QED BY <2>7, <2>8, <3>1, StateSet
  <2> HIDE DEF a
  <2>10. /\ Good(v, heard) /\ SameShops(w, v)
         /\ v.stateList = [w.stateList EXCEPT ![n] = a] /\ v.queueList = [w.queueList EXCEPT ![n] = r]
    <3>1. a \in Seq(TalkType) /\ r \in Seq(Buyers) /\ Lined(a, r, heard[n])
      BY <2>6, <2>9 DEF h
    <3> QED BY <2>1, <3>1, TalksGood
  <2>11. v.stateList[n] = a /\ \A m \in Npcs : m # n => v.stateList[m] = w.stateList[m]
    BY <2>10, TalkFacts
  <2>12. \A j \in DOMAIN l : a[j].respondToCreature = l[j].respondToCreature
    BY <2>4, <2>9
  <2>13. Follows(w, v, p)
    <3> SUFFICES ASSUME NEW m \in Npcs
        PROVE /\ Len(w.stateList[m]) <= Len(v.stateList[m])
              /\ \A j \in DOMAIN w.stateList[m] : v.stateList[m][j].respondToCreature = w.stateList[m][j].respondToCreature
              /\ Len(v.stateList[m]) = Len(w.stateList[m])
      BY DEF Follows
    <3>1. Len(v.stateList[m]) = Len(w.stateList[m])
      BY <2>9, <2>11 DEF l
    <3>2. Len(w.stateList[m]) \in Nat
      BY TalkFacts
    <3>3. \A j \in DOMAIN w.stateList[m] : v.stateList[m][j].respondToCreature = w.stateList[m][j].respondToCreature
      BY <2>11, <2>12 DEF l
    <3> QED BY <3>1, <3>2, <3>3
  <2> QED BY <2>10, <2>13
<1> QED BY <1>1, <1>2 DEF v

\* Whose window the player's is after a call about him and n.
OwnerAfter(w, v, n, p, answer) ==
  /\ v.owner \in [Buyers -> Npcs \cup {NoNpc}]
  /\ \A q \in Buyers : q # p => v.owner[q] = w.owner[q]
  /\ v.owner[p] = w.owner[p] \/ v.owner[p] = NoNpc \/ (answer = "open" /\ v.owner[p] = n)

LEMMA ExecuteGood ==
  ASSUME NEW heard \in Hearing, NEW w, Good(w, heard), NEW n \in Npcs, NEW p \in Buyers, visitors \subseteq Buyers,
         NEW i \in DOMAIN w.stateList[n], w.stateList[n][i].respondToCreature \in {NoBuyer, p},
         NEW answer \in Answers
  PROVE  LET v == executeResponse(w, n, p, i, answer)
         IN  /\ Good(v, heard) /\ Follows(w, v, p) /\ OwnerAfter(w, v, n, p, answer)
             /\ answer \notin {"open", "close"} => SameShops(w, v)
<1> DEFINE v == executeResponse(w, n, p, i, answer)
<1>v. v = executeResponse(w, n, p, i, answer)
  OBVIOUS
<1> HIDE DEF v
<1> USE <1>v
<1>0. w.owner \in [Buyers -> Npcs \cup {NoNpc}]
  BY DEF Good, ShopsType
<1>1. CASE answer = "none"
  <2>1. v = w
    BY <1>1 DEF executeResponse
  <2>2. Follows(w, v, p)
    BY <2>1, TalkFacts DEF Follows
  <2>3. OwnerAfter(w, v, n, p, answer)
    BY <1>0, <2>1 DEF OwnerAfter
  <2> QED BY <2>1, <2>2, <2>3 DEF SameShops
<1>2. CASE answer # "none"
  <2> DEFINE l == w.stateList[n]
             s == [l[i] EXCEPT !.isIdle = answer = "idle"]
             x == WithStates(w, n, PutAt(l, i, s))
  <2>1. l[i] \in TalkType
    <3>1. l \in Seq(TalkType)
      BY TalkFacts
    <3> QED BY <3>1
  <2>2. s \in TalkType /\ s.respondToCreature = l[i].respondToCreature /\ (s.isQueued => l[i].isQueued)
    <3>1. (answer = "idle") \in BOOLEAN
      OBVIOUS
    <3> HIDE DEF l
    <3> QED BY <2>1, <3>1 DEF TalkType
  <2>x. x = [w EXCEPT !.stateList[n][i].isIdle = answer = "idle"]
    BY DEF WithStates, PutAt
  <2> HIDE DEF s
  <2>3. Good(x, heard) /\ SameShops(w, x) /\ Rewritten(w, x, n, i, s) /\ Follows(w, x, p)
    <3>1. SameTalk(s, w.stateList[n][i])
      BY <2>2 DEF SameTalk
    <3> QED BY <3>1, StateAgain
  <2> HIDE DEF x
  <2>4. i \in DOMAIN x.stateList[n] /\ x.stateList[n][i].respondToCreature \in {NoBuyer, p}
    BY <2>2, <2>3 DEF Rewritten
  <2>5. v = CASE answer = "queue" -> Queued(x, n, p, i)
              [] answer = "open" /\ p \in visitors -> luaOpenShopWindow(x, n, p)
              [] answer = "close" /\ p \in visitors -> luaCloseShopWindow(x, n, p)
              [] OTHER -> x
    BY <1>2, <2>x DEF executeResponse
  <2>6. x.owner = w.owner
    BY <2>3 DEF SameShops
  <2>7. CASE answer = "queue"
    <3>1. v = Queued(x, n, p, i)
      BY <2>5, <2>7
    <3>2. Good(v, heard) /\ SameShops(x, v) /\ Follows(x, v, p)
      BY <2>3, <2>4, <3>1, QueuedGood
    <3>3. Follows(w, v, p)
      BY <2>3, <3>2, FollowsOn
    <3>4. SameShops(w, v)
      BY <2>3, <3>2 DEF SameShops
    <3>5. OwnerAfter(w, v, n, p, answer)
      BY <1>0, <3>4 DEF OwnerAfter, SameShops
    <3> QED BY <3>2, <3>3, <3>4, <3>5
  <2>8. CASE answer = "open" /\ p \in visitors
    <3>1. v = luaOpenShopWindow(x, n, p)
      BY <2>5, <2>8
    <3>2. Good(v, heard) /\ Follows(x, v, p) /\ v.owner = [x.owner EXCEPT ![p] = n]
      BY <2>3, <2>8, <3>1, OpenGood
    <3>3. Follows(w, v, p)
      BY <2>3, <3>2, FollowsOn
    <3>4. OwnerAfter(w, v, n, p, answer)
      BY <1>0, <2>6, <2>8, <3>2 DEF OwnerAfter
    <3> QED BY <2>8, <3>2, <3>3, <3>4
  <2>9. CASE answer = "close" /\ p \in visitors
    <3>1. v = IF x.owner[p] = n THEN closeShopWindow(x, p) ELSE x
      BY <2>5, <2>9 DEF luaCloseShopWindow
    <3>2. CASE x.owner[p] = n
      <4>1. v = closeShopWindow(x, p)
        BY <3>1, <3>2
      <4>2. Good(v, heard) /\ Follows(x, v, p) /\ Closed(x, v, p)
        BY <2>3, <4>1, CloseGood
      <4>3. Follows(w, v, p)
        BY <2>3, <4>2, FollowsOn
      <4>4. OwnerAfter(w, v, n, p, answer)
        BY <1>0, <2>6, <4>2 DEF OwnerAfter, Closed
      <4> QED BY <2>9, <4>2, <4>3, <4>4
    <3>3. CASE x.owner[p] # n
      <4>1. v = x
        BY <3>1, <3>3
      <4>2. OwnerAfter(w, v, n, p, answer)
        BY <1>0, <2>6, <4>1 DEF OwnerAfter
      <4> QED BY <2>3, <2>9, <4>1, <4>2
    <3> QED BY <3>2, <3>3
  <2>10. CASE answer \in {"idle", "listen"} \/ (answer \in {"open", "close"} /\ p \notin visitors)
    <3>1. v = x
      BY <2>5, <2>10
    <3>2. OwnerAfter(w, v, n, p, answer)
      BY <1>0, <2>6, <3>1 DEF OwnerAfter
    <3> QED BY <2>3, <3>1, <3>2
  <2> QED BY <1>2, <2>7, <2>8, <2>9, <2>10 DEF Answers
<1> QED BY <1>1, <1>2 DEF v

\* A player who is known is answered in his state.
LEMMA RespondGood ==
  ASSUME NEW heard \in Hearing, NEW w, Good(w, heard), NEW n \in Npcs, NEW p \in Buyers, visitors \subseteq Buyers,
         NEW answer \in Answers, Ready(w, n, p)
  PROVE  LET v == Respond(w, n, p, answer)
         IN  /\ Good(v, heard) /\ Follows(w, v, p) /\ OwnerAfter(w, v, n, p, answer)
             /\ answer \notin {"open", "close"} => SameShops(w, v)
<1> DEFINE i == StateOf(w, n, p)
<1>1. i \in DOMAIN w.stateList[n] /\ w.stateList[n][i].respondToCreature \in {NoBuyer, p}
  BY DEF Ready
<1> HIDE DEF i
<1>2. Respond(w, n, p, answer) = executeResponse(w, n, p, i, answer)
  BY DEF Respond, i
<1> QED BY <1>1, <1>2, ExecuteGood

LEMMA KnownIsReady ==
  ASSUME NEW heard, NEW w, Good(w, heard), NEW n \in Npcs, NEW p, Known(w, n, p)
  PROVE  Ready(w, n, p)
BY StateFound DEF Ready

LEMMA EnterGood ==
  ASSUME NEW heard \in Hearing, NEW w, Good(w, heard), NEW n \in Npcs, NEW p \in Buyers, visitors \subseteq Buyers,
         NEW answer \in Answers
  PROVE  LET v == onPlayerEnter(w, n, p, answer)
         IN  Good(v, heard) /\ Follows(w, v, p) /\ OwnerAfter(w, v, n, p, answer)
<1> DEFINE u == Noticed(w, n, p)
           v == Respond(u, n, p, answer)
<1>1. /\ Good(u, heard) /\ SameShops(w, u) /\ Follows(w, u, p) /\ Known(u, n, p)
  BY NoticedGood
<1> HIDE DEF u
<1>2. Ready(u, n, p)
  BY <1>1, KnownIsReady
<1>3. Good(v, heard) /\ Follows(u, v, p) /\ OwnerAfter(u, v, n, p, answer)
  BY <1>1, <1>2, RespondGood
<1>4. onPlayerEnter(w, n, p, answer) = v
  BY DEF onPlayerEnter, u
<1> HIDE DEF v
<1>5. Follows(w, v, p)
  BY <1>1, <1>3, FollowsOn
<1>6. OwnerAfter(w, v, n, p, answer)
  BY <1>1, <1>3 DEF OwnerAfter, SameShops
<1> QED BY <1>3, <1>4, <1>5, <1>6

\* Who goes out of sight closes his window, whoever's it is.
LEMMA LeaveGood ==
  ASSUME NEW heard \in Hearing, NEW w, Good(w, heard), NEW n \in Npcs, NEW p \in Buyers, visitors \subseteq Buyers,
         NEW answer \in Answers
  PROVE  LET v == onPlayerLeave(w, n, p, answer)
         IN  Good(v, heard) /\ Follows(w, v, p) /\ OwnerAfter(w, v, n, p, "none") /\ v.owner[p] = NoNpc
<1> DEFINE u == Noticed(w, n, p)
           x == closeShopWindow(u, p)
           v == Respond(x, n, p, Farewell(answer))
<1>1. /\ Good(u, heard) /\ SameShops(w, u) /\ Follows(w, u, p) /\ Known(u, n, p)
  BY NoticedGood
<1> HIDE DEF u
<1>2. Good(x, heard) /\ Follows(u, x, p) /\ Closed(u, x, p)
  BY <1>1, CloseGood
<1> HIDE DEF x
<1>3. Known(x, n, p) /\ Ready(x, n, p)
  BY <1>1, <1>2, StillKnown, KnownIsReady
<1>4. Farewell(answer) \in Answers /\ Farewell(answer) # "open"
  BY DEF Farewell, Answers
<1>5. Good(v, heard) /\ Follows(x, v, p) /\ OwnerAfter(x, v, n, p, Farewell(answer))
  <2> DEFINE f == Farewell(answer)
  <2>1. f \in Answers
    BY <1>4
  <2> HIDE DEF f
  <2>2. v = Respond(x, n, p, f)
    BY DEF f
  <2> HIDE DEF v
  <2> QED BY <1>2, <1>3, <2>1, <2>2, RespondGood DEF f
<1>6. onPlayerLeave(w, n, p, answer) = v
  BY DEF onPlayerLeave, u, x
<1> HIDE DEF v
<1>7. Follows(w, v, p)
  BY <1>1, <1>2, <1>5, FollowsOn
<1>8. w.owner \in [Buyers -> Npcs \cup {NoNpc}] /\ u.owner = w.owner /\ x.owner = [w.owner EXCEPT ![p] = NoNpc]
  BY <1>1, <1>2 DEF Good, ShopsType, SameShops, Closed
<1>9. OwnerAfter(w, v, n, p, "none") /\ v.owner[p] = NoNpc
  BY <1>4, <1>5, <1>8 DEF OwnerAfter
<1> QED BY <1>5, <1>6, <1>7, <1>9

\* Who is told of a step: a window is opened only for one in sight.
LEMMA MoveGood ==
  ASSUME NEW heard \in Hearing, NEW w, Good(w, heard), NEW n \in Npcs, NEW p \in Buyers, visitors \subseteq Buyers,
         NEW answer \in Answers, NEW sees \in BOOLEAN, NEW saw \in BOOLEAN
  PROVE  LET v == onCreatureMove(w, n, p, sees, saw, answer)
         IN  /\ Good(v, heard) /\ OwnerAfter(w, v, n, p, IF sees THEN answer ELSE "none")
             /\ saw /\ ~ sees => v.owner[p] = NoNpc
<1> DEFINE v == onCreatureMove(w, n, p, sees, saw, answer)
<1>1. CASE sees /\ ~ saw
  <2>1. v = onPlayerEnter(w, n, p, answer)
    BY <1>1 DEF onCreatureMove
  <2> HIDE DEF v
  <2>2. Good(v, heard) /\ OwnerAfter(w, v, n, p, answer)
    BY <2>1, EnterGood
  <2> QED BY <1>1, <2>2 DEF v
<1>2. CASE saw /\ ~ sees
  <2>1. v = onPlayerLeave(w, n, p, answer)
    BY <1>2 DEF onCreatureMove
  <2> HIDE DEF v
  <2>2. Good(v, heard) /\ OwnerAfter(w, v, n, p, "none") /\ v.owner[p] = NoNpc
    BY <2>1, LeaveGood
  <2> QED BY <1>2, <2>2 DEF v
<1>3. CASE sees /\ saw
  <2>1. v = onPlayerEnter(w, n, p, answer)
    BY <1>3 DEF onCreatureMove, onPlayerEnter
  <2> HIDE DEF v
  <2>2. Good(v, heard) /\ OwnerAfter(w, v, n, p, answer)
    BY <2>1, EnterGood
  <2> QED BY <1>3, <2>2 DEF v
<1>4. CASE ~ saw /\ ~ sees
  <2>1. v = getState(w, n, p)
    BY <1>4 DEF onCreatureMove
  <2> HIDE DEF v
  <2>2. Good(v, heard) /\ SameShops(w, v)
    BY <2>1, GetStateGood
  <2>3. w.owner \in [Buyers -> Npcs \cup {NoNpc}]
    BY DEF Good, ShopsType
  <2>4. OwnerAfter(w, v, n, p, "none")
    BY <2>2, <2>3 DEF OwnerAfter, SameShops
  <2> QED BY <1>4, <2>2, <2>4 DEF v
<1> QED BY <1>1, <1>2, <1>3, <1>4

-----------------------------------------------------------------------------
(* One after the other.                                                     *)

\* Along the list p keeps the window he had, loses it, or is shown one by somebody of the list who
\* sees him; with whom he has lost sight of, and who is told, he has none.
LEMMA AllHearGood ==
  ASSUME NEW heard \in Hearing, NEW w, Good(w, heard), NEW l \in Seq(Npcs), NEW p \in Buyers, visitors \subseteq Buyers,
         NEW seeing, NEW saw, NEW answer \in Answers
  PROVE  LET v == AllHear(w, l, p, seeing, saw, answer)
         IN  /\ Good(v, heard) /\ v.owner \in [Buyers -> Npcs \cup {NoNpc}]
             /\ \A q \in Buyers : q # p => v.owner[q] = w.owner[q]
             /\ \A n \in ToSet(l) : n \in saw /\ n \notin seeing => v.owner[p] # n
<1> DEFINE X == {v \in ShopsType : Good(v, heard)}
           n == Len(l)
           go(v, m) == onCreatureMove(v, m, p, m \in seeing, m \in saw, answer)
           step == [k \in 1 .. n |-> [v \in X |-> go(v, l[k])]]
           body0(g) == [k \in 0 .. n |-> IF k = 0 THEN w ELSE go(g[k - 1], l[k])]
           along == CHOOSE g : g = body0(g)
           At(k) == l[k]
<1>1. n \in Nat /\ \A k \in 1 .. n : l[k] \in Npcs
  OBVIOUS
<1>2. w \in X
  BY DEF Good
<1>3. \A v \in X : \A m \in Npcs :
        /\ go(v, m) \in X
        /\ OwnerAfter(v, go(v, m), m, p, IF m \in seeing THEN answer ELSE "none")
        /\ m \in saw /\ m \notin seeing => go(v, m).owner[p] = NoNpc
  <2> SUFFICES ASSUME NEW v \in X, NEW m \in Npcs
      PROVE /\ go(v, m) \in X
            /\ OwnerAfter(v, go(v, m), m, p, IF m \in seeing THEN answer ELSE "none")
            /\ m \in saw /\ m \notin seeing => go(v, m).owner[p] = NoNpc
    OBVIOUS
  <2> DEFINE a == m \in seeing
             b == m \in saw
             u == onCreatureMove(v, m, p, a, b, answer)
  <2>1. a \in BOOLEAN /\ b \in BOOLEAN /\ Good(v, heard)
    OBVIOUS
  <2>2. /\ Good(u, heard) /\ OwnerAfter(v, u, m, p, IF a THEN answer ELSE "none")
        /\ b /\ ~ a => u.owner[p] = NoNpc
    <3> HIDE DEF a, b
    <3> QED BY <2>1, MoveGood
  <2>3. go(v, m) = u
    OBVIOUS
  <2> HIDE DEF u, go
  <2> QED BY <2>2, <2>3 DEF Good
<1>4. step \in [1 .. n -> [X -> X]]
  BY <1>1, <1>3
<1>5. \A k \in 1 .. n : \A v \in X : step[k][v] = go(v, l[k])
  OBVIOUS
<1>6. AllHear(w, l, p, seeing, saw, answer) = along[n]
  BY DEF AllHear, InTurn
<1> HIDE DEF X, n, go, step
<1>7. PICK f \in [0 .. n -> X] : \A k \in 0 .. n : f[k] = IF k = 0 THEN w ELSE step[k][f[k - 1]]
  <2> HIDE DEF along, body0
  <2>1. \E f : Goes(f, n, X, w, step)
    BY <1>1, <1>2, <1>4, StepsMakeAFunction
  <2> QED BY <2>1 DEF Goes
<1>8. f = body0(f)
  <2>1. \A k \in 0 .. n : k # 0 => k \in 1 .. n /\ f[k - 1] \in X
    BY <1>1, <1>7
  <2>2. \A k \in 0 .. n : f[k] = IF k = 0 THEN w ELSE go(f[k - 1], l[k])
    BY <1>5, <1>7, <2>1
  <2> QED BY <1>7, <2>2
<1>9. along = body0(along)
  <2> HIDE DEF body0
  <2> QED BY <1>8
<1> HIDE DEF along
<1>10. \A k \in 0 .. n : along[k] = IF k = 0 THEN w ELSE go(along[k - 1], l[k])
  BY <1>9
<1> DEFINE So(v, k) == /\ v \in X /\ v.owner \in [Buyers -> Npcs \cup {NoNpc}]
                       /\ \A q \in Buyers : q # p => v.owner[q] = w.owner[q]
                       /\ \A j \in 1 .. k : l[j] \in saw /\ l[j] \notin seeing => v.owner[p] # l[j]
           P == {k \in 0 .. n : So(along[k], k)}
<1>11. 0 \in P
  <2>1. w.owner \in [Buyers -> Npcs \cup {NoNpc}]
    BY DEF Good, ShopsType
  <2>2. So(w, 0)
    BY <1>2, <2>1
  <2>3. along[0] = w
    BY <1>1, <1>10
  <2> QED BY <1>1, <2>2, <2>3
<1>12. ASSUME NEW k \in 1 .. n, k - 1 \in P PROVE k \in P
  <2> DEFINE u == along[k - 1]
             v == along[k]
             m == l[k]
  <2>1. k \in 0 .. n /\ k # 0 /\ So(u, k - 1) /\ m \in Npcs
    BY <1>1, <1>12
  <2>2. v = go(u, m)
    BY <1>10, <2>1
  <2> HIDE DEF u, v
  <2>3. /\ v \in X /\ OwnerAfter(u, v, m, p, IF m \in seeing THEN answer ELSE "none")
        /\ m \in saw /\ m \notin seeing => v.owner[p] = NoNpc
    BY <1>3, <2>1, <2>2
  <2>4. /\ v.owner \in [Buyers -> Npcs \cup {NoNpc}]
        /\ \A q \in Buyers : q # p => v.owner[q] = w.owner[q]
    BY <2>1, <2>3 DEF OwnerAfter
  <2>5. ASSUME NEW j \in 1 .. k, l[j] \in saw, l[j] \notin seeing PROVE v.owner[p] # l[j]
    <3>1. l[j] \in Npcs /\ l[j] # NoNpc
      BY <1>1, ShopsAssumption
    <3>2. CASE j = k
      BY <2>3, <2>5, <3>1, <3>2
    <3>3. CASE j # k
      <4>1. j \in 1 .. k - 1
        BY <3>3
      <4>2. u.owner[p] # l[j]
        BY <2>1, <2>5, <4>1
      <4>3. v.owner[p] = u.owner[p] \/ v.owner[p] = NoNpc \/ (m \in seeing /\ v.owner[p] = m)
        BY <2>3 DEF OwnerAfter
      <4> QED BY <2>5, <3>1, <4>2, <4>3
    <3> QED BY <3>2, <3>3
  <2>6. So(v, k)
    BY <2>3, <2>4, <2>5
  <2> QED BY <2>1, <2>6 DEF v
<1>13. 0 .. n \subseteq P
  <2> HIDE DEF P
  <2> QED BY <1>1, <1>11, <1>12, UpTo
<1>14. So(along[n], n)
  BY <1>1, <1>13
<1> DEFINE v == along[n]
<1>15. \A m \in ToSet(l) : \E j \in 1 .. n : m = l[j]
  BY DEF ToSet, n
<1> HIDE DEF v
<1>16. /\ Good(v, heard) /\ v.owner \in [Buyers -> Npcs \cup {NoNpc}]
       /\ \A q \in Buyers : q # p => v.owner[q] = w.owner[q]
       /\ \A m \in ToSet(l) : m \in saw /\ m \notin seeing => v.owner[p] # m
  BY <1>14, <1>15 DEF v, X
<1> QED BY <1>6, <1>16 DEF v

\* Windows are closed, and none is opened.
Fewer(w, v) ==
  /\ v.owner \in [Buyers -> Npcs \cup {NoNpc}]
  /\ \A q \in Buyers : v.owner[q] = w.owner[q] \/ v.owner[q] = NoNpc

\* Afterwards n shows nobody a window.
LEMMA CloseAllGood ==
  ASSUME NEW heard, NEW w, Good(w, heard), NEW n \in Npcs
  PROVE  LET v == closeAllShopWindows(w, n)
         IN  Good(v, heard) /\ Fewer(w, v) /\ \A q \in Buyers : v.owner[q] # n
<1> DEFINE l == w.shopPlayerList[n]
           X == {v \in ShopsType : Good(v, heard)}
           len == Len(l)
           go(v, p) == closeShopWindow(v, p)
           step == [k \in 1 .. len |-> [v \in X |-> go(v, l[k])]]
           body0(g) == [k \in 0 .. len |-> IF k = 0 THEN w ELSE go(g[k - 1], l[k])]
           along == CHOOSE g : g = body0(g)
<1>0. l \in Seq(Buyers) /\ ToSet(l) = {q \in Buyers : w.owner[q] = n}
  BY DEF Good, ShopsType, Shown
<1>6. closeAllShopWindows(w, n) = along[len]
  BY DEF closeAllShopWindows, InTurn
<1>a. w.owner \in [Buyers -> Npcs \cup {NoNpc}]
  BY DEF Good, ShopsType
<1> HIDE DEF l
<1>1. len \in Nat /\ \A k \in 1 .. len : l[k] \in Buyers
  BY <1>0
<1>2. w \in X
  BY DEF Good
<1>3. \A v \in X : \A p \in Buyers : go(v, p) \in X /\ Closed(v, go(v, p), p)
  <2> SUFFICES ASSUME NEW v \in X, NEW p \in Buyers PROVE go(v, p) \in X /\ Closed(v, go(v, p), p)
    OBVIOUS
  <2>1. Good(v, heard)
    OBVIOUS
  <2>2. Good(go(v, p), heard) /\ Closed(v, go(v, p), p)
    BY <2>1, CloseGood
  <2> HIDE DEF go
  <2> QED BY <2>2 DEF Good
<1>4. step \in [1 .. len -> [X -> X]]
  BY <1>1, <1>3
<1>5. \A k \in 1 .. len : \A v \in X : step[k][v] = go(v, l[k])
  OBVIOUS
<1> HIDE DEF X, len, go, step
<1>7. PICK f \in [0 .. len -> X] : \A k \in 0 .. len : f[k] = IF k = 0 THEN w ELSE step[k][f[k - 1]]
  <2> HIDE DEF along, body0
  <2>1. \E f : Goes(f, len, X, w, step)
    BY <1>1, <1>2, <1>4, StepsMakeAFunction
  <2> QED BY <2>1 DEF Goes
<1>8. f = body0(f)
  <2>1. \A k \in 0 .. len : k # 0 => k \in 1 .. len /\ f[k - 1] \in X
    BY <1>1, <1>7
  <2>2. \A k \in 0 .. len : f[k] = IF k = 0 THEN w ELSE go(f[k - 1], l[k])
    BY <1>5, <1>7, <2>1
  <2> QED BY <1>7, <2>2
<1>9. along = body0(along)
  <2> HIDE DEF body0
  <2> QED BY <1>8
<1> HIDE DEF along
<1>10. \A k \in 0 .. len : along[k] = IF k = 0 THEN w ELSE go(along[k - 1], l[k])
  BY <1>9
<1> DEFINE So(v, k) == v \in X /\ Fewer(w, v) /\ \A j \in 1 .. k : v.owner[l[j]] = NoNpc
           P == {k \in 0 .. len : So(along[k], k)}
<1>11. 0 \in P
  <2>1. So(w, 0)
    BY <1>2, <1>a DEF Fewer
  <2>2. along[0] = w
    BY <1>1, <1>10
  <2> QED BY <1>1, <2>1, <2>2
<1>12. ASSUME NEW k \in 1 .. len, k - 1 \in P PROVE k \in P
  <2> DEFINE u == along[k - 1]
             v == along[k]
             p == l[k]
  <2>1. k \in 0 .. len /\ k # 0 /\ So(u, k - 1) /\ p \in Buyers
    BY <1>1, <1>12
  <2>2. v = go(u, p)
    BY <1>10, <2>1
  <2> HIDE DEF u, v
  <2>3. v \in X /\ v.owner = [u.owner EXCEPT ![p] = NoNpc]
    BY <1>3, <2>1, <2>2 DEF Closed
  <2>4. Fewer(w, v)
    BY <2>1, <2>3 DEF Fewer
  <2>5. ASSUME NEW j \in 1 .. k PROVE v.owner[l[j]] = NoNpc
    <3>1. l[j] \in Buyers /\ u.owner \in [Buyers -> Npcs \cup {NoNpc}]
      BY <1>1, <2>1 DEF Fewer
    <3>2. j # k => j \in 1 .. k - 1
      OBVIOUS
    <3> QED BY <2>1, <2>3, <3>1, <3>2
  <2>6. So(v, k)
    BY <2>3, <2>4, <2>5
  <2> QED BY <2>1, <2>6 DEF v
<1>13. 0 .. len \subseteq P
  <2> HIDE DEF P
  <2> QED BY <1>1, <1>11, <1>12, UpTo
<1>14. So(along[len], len)
  BY <1>1, <1>13
<1> DEFINE v == along[len]
<1>15. \A q \in ToSet(l) : \E j \in 1 .. len : q = l[j]
  BY DEF ToSet, len
<1> HIDE DEF v
<1>16. Good(v, heard) /\ Fewer(w, v)
  BY <1>14 DEF v, X
<1>17. ASSUME NEW q \in Buyers, v.owner[q] = n PROVE FALSE
  <2>1. n # NoNpc
    BY ShopsAssumption
  <2>2. q \in ToSet(l)
    BY <1>0, <1>16, <1>17, <2>1 DEF Fewer
  <2> QED BY <1>14, <1>15, <1>17, <2>1, <2>2 DEF v
<1> QED BY <1>6, <1>16, <1>17 DEF v

\* When all have closed theirs, no window is left.
LEMMA AllClosedGood ==
  ASSUME NEW heard, NEW w, Good(w, heard)
  PROVE  LET v == InTurn(closeAllShopWindows, w, SetToSeq(Npcs))
         IN  Good(v, heard) /\ \A q \in Buyers : v.owner[q] = NoNpc
<1> DEFINE l == SetToSeq(Npcs)
           X == {v \in ShopsType : Good(v, heard)}
           len == Len(l)
           go(v, n) == closeAllShopWindows(v, n)
           step == [k \in 1 .. len |-> [v \in X |-> go(v, l[k])]]
           body0(g) == [k \in 0 .. len |-> IF k = 0 THEN w ELSE go(g[k - 1], l[k])]
           along == CHOOSE g : g = body0(g)
<1>0. l \in Seq(Npcs) /\ ToSet(l) = Npcs
  BY SetToSeqFacts, ShopsAssumption
<1>6. InTurn(closeAllShopWindows, w, SetToSeq(Npcs)) = along[len]
  BY DEF InTurn
<1>a. w.owner \in [Buyers -> Npcs \cup {NoNpc}]
  BY DEF Good, ShopsType
<1> HIDE DEF l
<1>1. len \in Nat /\ \A k \in 1 .. len : l[k] \in Npcs
  BY <1>0
<1>2. w \in X
  BY DEF Good
<1>3. \A v \in X : \A n \in Npcs :
        go(v, n) \in X /\ Fewer(v, go(v, n)) /\ \A q \in Buyers : go(v, n).owner[q] # n
  <2> SUFFICES ASSUME NEW v \in X, NEW n \in Npcs
      PROVE go(v, n) \in X /\ Fewer(v, go(v, n)) /\ \A q \in Buyers : go(v, n).owner[q] # n
    OBVIOUS
  <2>1. Good(v, heard)
    OBVIOUS
  <2>2. Good(go(v, n), heard) /\ Fewer(v, go(v, n)) /\ \A q \in Buyers : go(v, n).owner[q] # n
    BY <2>1, CloseAllGood
  <2> HIDE DEF go
  <2> QED BY <2>2 DEF Good
<1>4. step \in [1 .. len -> [X -> X]]
  BY <1>1, <1>3
<1>5. \A k \in 1 .. len : \A v \in X : step[k][v] = go(v, l[k])
  OBVIOUS
<1> HIDE DEF X, len, go, step
<1>7. PICK f \in [0 .. len -> X] : \A k \in 0 .. len : f[k] = IF k = 0 THEN w ELSE step[k][f[k - 1]]
  <2> HIDE DEF along, body0
  <2>1. \E f : Goes(f, len, X, w, step)
    BY <1>1, <1>2, <1>4, StepsMakeAFunction
  <2> QED BY <2>1 DEF Goes
<1>8. f = body0(f)
  <2>1. \A k \in 0 .. len : k # 0 => k \in 1 .. len /\ f[k - 1] \in X
    BY <1>1, <1>7
  <2>2. \A k \in 0 .. len : f[k] = IF k = 0 THEN w ELSE go(f[k - 1], l[k])
    BY <1>5, <1>7, <2>1
  <2> QED BY <1>7, <2>2
<1>9. along = body0(along)
  <2> HIDE DEF body0
  <2> QED BY <1>8
<1> HIDE DEF along
<1>10. \A k \in 0 .. len : along[k] = IF k = 0 THEN w ELSE go(along[k - 1], l[k])
  BY <1>9
<1> DEFINE So(v, k) == /\ v \in X /\ v.owner \in [Buyers -> Npcs \cup {NoNpc}]
                       /\ \A j \in 1 .. k : \A q \in Buyers : v.owner[q] # l[j]
           P == {k \in 0 .. len : So(along[k], k)}
<1>11. 0 \in P
  <2>1. So(w, 0)
    BY <1>2, <1>a
  <2>2. along[0] = w
    BY <1>1, <1>10
  <2> QED BY <1>1, <2>1, <2>2
<1>12. ASSUME NEW k \in 1 .. len, k - 1 \in P PROVE k \in P
  <2> DEFINE u == along[k - 1]
             v == along[k]
             n == l[k]
  <2>1. k \in 0 .. len /\ k # 0 /\ So(u, k - 1) /\ n \in Npcs
    BY <1>1, <1>12
  <2>2. v = go(u, n)
    BY <1>10, <2>1
  <2> HIDE DEF u, v
  <2>3. v \in X /\ Fewer(u, v) /\ \A q \in Buyers : v.owner[q] # n
    BY <1>3, <2>1, <2>2
  <2>4. ASSUME NEW j \in 1 .. k, NEW q \in Buyers PROVE v.owner[q] # l[j]
    <3>1. l[j] # NoNpc
      BY <1>1, ShopsAssumption
    <3>2. j # k => j \in 1 .. k - 1
      OBVIOUS
    <3> QED BY <2>1, <2>3, <3>1, <3>2 DEF Fewer
  <2>5. v.owner \in [Buyers -> Npcs \cup {NoNpc}]
    BY <2>3 DEF Fewer
  <2>6. So(v, k)
    BY <2>3, <2>4, <2>5
  <2> QED BY <2>1, <2>6 DEF v
<1>13. 0 .. len \subseteq P
  <2> HIDE DEF P
  <2> QED BY <1>1, <1>11, <1>12, UpTo
<1>14. So(along[len], len)
  BY <1>1, <1>13
<1> DEFINE v == along[len]
<1>15. \A n \in ToSet(l) : \E j \in 1 .. len : n = l[j]
  BY DEF ToSet, len
<1> HIDE DEF v
<1>16. Good(v, heard)
  BY <1>14 DEF v, X
<1>17. ASSUME NEW q \in Buyers PROVE v.owner[q] = NoNpc
  BY <1>0, <1>14, <1>15 DEF v
<1> QED BY <1>6, <1>16, <1>17 DEF v

-----------------------------------------------------------------------------
(* An NPC thinks.                                                           *)

WithQueue(w, n, q) == [w EXCEPT !.queueList[n] = q]

LEMMA QueueGood ==
  ASSUME NEW heard, NEW w, Good(w, heard), NEW n \in Npcs, NEW q \in Seq(Buyers),
         Lined(w.stateList[n], q, heard[n])
  PROVE  LET v == WithQueue(w, n, q)
         IN  Good(v, heard) /\ SameShops(w, v) /\ v.stateList = w.stateList
<1> DEFINE v == WithQueue(w, n, q)
<1>v. v = WithQueue(w, n, q)
  OBVIOUS
<1> HIDE DEF v
<1> USE <1>v
<1> DEFINE u == WithTalks(w, n, w.stateList[n], q)
<1>1. w \in ShopsType /\ w.stateList \in [Npcs -> Seq(TalkType)]
  BY DEF Good, ShopsType
<1>5. [w.stateList EXCEPT ![n] = w.stateList[n]] = w.stateList
  BY <1>1
<1>2. v = u
  <2> DEFINE L == [Npcs -> Seq(TalkType)]
             B == [Npcs -> Seq(Buyers)]
  <2>1. w \in [owner : [Buyers -> Npcs \cup {NoNpc}], callback : [Buyers -> Callbacks \cup {NoCallback}],
                window : [Buyers -> BOOLEAN], held : SUBSET Callbacks, lost : SUBSET Callbacks,
                shopPlayerList : B, stateList : L, queueList : B]
    BY <1>1 DEF ShopsType
  <2> HIDE DEF L, B
  <2> QED BY <1>5, <2>1 DEF WithQueue, WithTalks
<1>3. w.stateList[n] \in Seq(TalkType)
  BY <1>1
<1>4. /\ Good(u, heard) /\ SameShops(w, u)
      /\ u.stateList = [w.stateList EXCEPT ![n] = w.stateList[n]]
  <2> DEFINE l == w.stateList[n]
  <2>1. l \in Seq(TalkType) /\ Lined(l, q, heard[n]) /\ u = WithTalks(w, n, l, q)
    BY <1>3
  <2> HIDE DEF l, u
  <2>2. /\ Good(u, heard) /\ SameShops(w, u)
        /\ u.stateList = [w.stateList EXCEPT ![n] = l] /\ u.queueList = [w.queueList EXCEPT ![n] = q]
    BY <2>1, TalksGood
  <2> QED BY <2>2 DEF l
<1> HIDE DEF u
<1>6. Good(v, heard) /\ SameShops(w, v) /\ v.stateList = w.stateList
  BY <1>2, <1>4, <1>5
<1> QED BY <1>6 DEF v

\* Who is there and waits is not passed over.
LEMMA NextGood ==
  ASSUME NEW heard \in Hearing, NEW w, Good(w, heard), NEW n \in Npcs, heard[n] \subseteq visitors,
         w.stateList[n] # <<>>
  PROVE  LET v == NextInQueue(w, n)
         IN  Good(v, heard) /\ SameShops(w, v) /\ \A p : Follows(w, v, p)
<1> DEFINE v == NextInQueue(w, n)
           l == w.stateList[n]
           q == w.queueList[n]
           waits(p) == p \in visitors /\ Known(w, n, p)
           I == {i \in DOMAIN q : \E j \in 1 .. i : waits(q[j])}
           r == Picked(q, I)
           u == WithQueue(w, n, r)
           answered(s) == [s EXCEPT !.isQueued = FALSE, !.respondToText = s.prevRespondToText]
<1>1. l \in Seq(TalkType) /\ q \in Seq(Buyers) /\ Lined(l, q, heard[n])
  BY TalkFacts
<1>2. v = IF u.queueList[n] = <<>> THEN u
          ELSE [u EXCEPT !.stateList[n][StateOf(u, n, Head(u.queueList[n]))] = answered(@)]
  BY DEF NextInQueue, WithQueue
<1>3. \A i \in DOMAIN q : waits(q[i]) => i \in I
  <2>1. \A i \in DOMAIN q : i \in 1 .. i
    BY <1>1
  <2> HIDE DEF waits
  <2> QED BY <2>1
<1> HIDE DEF v, l, q
<1>4. I \in SUBSET DOMAIN q
  OBVIOUS
<1> HIDE DEF I
<1>5. /\ r \in Seq(Buyers)
      /\ \A i \in I : \E k \in DOMAIN r : r[k] = q[i]
      /\ (\A i, j \in I : q[i] = q[j] => i = j) => \A k, m \in DOMAIN r : r[k] = r[m] => k = m
  BY <1>1, <1>4, PickedFacts
<1> HIDE DEF r
<1>6. IsInjective(r)
  <2>1. \A i, j \in I : q[i] = q[j] => i = j
    BY <1>1, <1>4 DEF Lined, IsInjective
  <2> QED BY <1>5, <2>1 DEF IsInjective
<1>7. ASSUME NEW i \in DOMAIN l, l[i].isQueued, l[i].respondToCreature \in heard[n]
      PROVE  l[i].respondToCreature \in ToSet(r)
  <2>1. l[i].respondToCreature \in ToSet(q)
    BY <1>1, <1>7 DEF Lined
  <2>2. PICK j \in DOMAIN q : q[j] = l[i].respondToCreature
    BY <2>1 DEF ToSet
  <2>3. waits(q[j])
    BY <1>7, <2>2 DEF Known, l
  <2>4. j \in I
    BY <1>3, <2>3
  <2>5. \E k \in DOMAIN r : r[k] = q[j]
    BY <1>5, <2>4
  <2> QED BY <2>2, <2>5 DEF ToSet
<1>8. Lined(l, r, heard[n])
  BY <1>1, <1>6, <1>7 DEF Lined
<1>9. Good(u, heard) /\ SameShops(w, u) /\ u.stateList = w.stateList
  BY <1>5, <1>8, QueueGood DEF l
<1> HIDE DEF u
<1>10. \A p : Follows(w, u, p)
  BY <1>9, TalkFacts DEF Follows
<1>11. CASE u.queueList[n] = <<>>
  <2>1. v = u
    BY <1>2, <1>11
  <2> QED BY <1>9, <1>10, <2>1 DEF v
<1>12. CASE u.queueList[n] # <<>>
  <2> DEFINE p == Head(u.queueList[n])
             i == StateOf(u, n, p)
             s == answered(u.stateList[n][i])
  <2>1. v = WithStates(u, n, PutAt(u.stateList[n], i, s))
    BY <1>2, <1>12 DEF WithStates, PutAt
  <2>2. i \in DOMAIN u.stateList[n]
    <3>1. CASE Known(u, n, p)
      BY <1>9, <3>1, StateFound
    <3>2. CASE ~ Known(u, n, p)
      <4>1. i = Len(u.stateList[n])
        BY <3>2 DEF StateOf
      <4>2. l # <<>> /\ l \in Seq(TalkType) /\ u.stateList[n] = l
        BY <1>1, <1>9 DEF l
      <4>3. Len(l) \in DOMAIN l
        BY <4>2, EmptySeq, LenProperties
      <4> QED BY <4>1, <4>2, <4>3
    <3> QED BY <3>1, <3>2
  <2> HIDE DEF i
  <2>3. SameTalk(s, u.stateList[n][i])
    <3> DEFINE t == u.stateList[n][i]
    <3>1. t \in TalkType
      <4>1. u.stateList[n] \in Seq(TalkType)
        BY <1>9, TalkFacts
      <4> QED BY <2>2, <4>1
    <3> HIDE DEF t
    <3>2. answered(t) \in TalkType /\ answered(t).respondToCreature = t.respondToCreature /\ ~ answered(t).isQueued
      BY <3>1 DEF TalkType
    <3> QED BY <3>2 DEF SameTalk, t
  <2> HIDE DEF s
  <2>4. Good(v, heard) /\ SameShops(u, v) /\ \A x : Follows(u, v, x)
    BY <1>9, <2>1, <2>2, <2>3, StateAgain
  <2>5. \A x : Follows(w, v, x)
    BY <1>9, <1>10, <2>4, FollowsOn
  <2>6. SameShops(w, v)
    BY <1>9, <2>4 DEF SameShops
  <2> QED BY <2>4, <2>5, <2>6 DEF v
<1> QED BY <1>11, <1>12

LEMMA ForgottenGood ==
  ASSUME NEW heard, NEW w, Good(w, heard), NEW n \in Npcs, NEW i \in DOMAIN w.stateList[n]
  PROVE  LET v == Forgotten(w, n, i)
         IN  /\ Good(v, heard) /\ SameShops(w, v) /\ Len(v.stateList[n]) = Len(w.stateList[n]) - 1
             /\ \A k \in DOMAIN v.stateList[n] :
                  v.stateList[n][k] = IF k < i THEN w.stateList[n][k] ELSE w.stateList[n][k + 1]
<1> DEFINE v == Forgotten(w, n, i)
           l == w.stateList[n]
           a == RemoveAt(l, i)
<1>1. v = WithStates(w, n, a)
  BY DEF Forgotten, WithStates
<1>2. l \in Seq(TalkType) /\ Lined(l, w.queueList[n], heard[n]) /\ i \in DOMAIN l
  BY TalkFacts
<1> HIDE DEF v, l
<1>3. a \in Seq(TalkType) /\ Lined(a, w.queueList[n], heard[n])
  BY <1>2, StateRemoved
<1>4. Len(a) = Len(l) - 1 /\ \A k \in DOMAIN a : a[k] = IF k < i THEN l[k] ELSE l[k + 1]
  BY <1>2, RemoveAtFacts
<1> HIDE DEF a
<1>5. Good(v, heard) /\ SameShops(w, v) /\ v.stateList = [w.stateList EXCEPT ![n] = a]
  BY <1>1, <1>3, StatesGood
<1>6. v.stateList[n] = a
  BY <1>5, TalkFacts
<1> QED BY <1>4, <1>5, <1>6 DEF v, l

\* While n thinks: those it has been through are there.
Visits == [w : ShopsType, i : Nat]
Thinking(a, n, heard) ==
  /\ Good(a.w, heard) /\ a.i \in 1 .. Len(a.w.stateList[n]) + 1
  /\ \A j \in 1 .. a.i - 1 : a.w.stateList[n][j].respondToCreature \in visitors

\* A visit ends a state or goes on to the next.
LEMMA ThinkOfOneGood ==
  ASSUME NEW heard \in Hearing, NEW n \in Npcs, heard[n] = visitors, visitors \subseteq Buyers,
         NEW a \in Visits, Thinking(a, n, heard), NEW answer \in Answers, NEW timeout \in BOOLEAN
  PROVE  LET b == ThinkOfOne(a, n, answer, timeout)
         IN  /\ b \in Visits /\ Thinking(b, n, heard)
             /\ IF a.i > Len(a.w.stateList[n]) THEN b = a
                ELSE Len(b.w.stateList[n]) - b.i = Len(a.w.stateList[n]) - a.i - 1
<1> DEFINE b == ThinkOfOne(a, n, answer, timeout)
<1>b. b = ThinkOfOne(a, n, answer, timeout)
  OBVIOUS
<1> HIDE DEF b
<1> USE <1>b
<1> DEFINE w == a.w
           i == a.i
           l == w.stateList[n]
<1>1. Good(w, heard) /\ i \in 1 .. Len(l) + 1 /\ \A j \in 1 .. i - 1 : l[j].respondToCreature \in visitors
  BY DEF Thinking
<1>2. l \in Seq(TalkType) /\ Len(l) \in Nat /\ DOMAIN l = 1 .. Len(l)
  BY <1>1, TalkFacts
<1>3. CASE i > Len(l)
  <2>1. b = a
    BY <1>3 DEF ThinkOfOne
  <2> QED BY <1>3, <2>1 DEF b
<1>4. CASE ~ (i > Len(l))
  <2> DEFINE s == l[i]
             p == s.respondToCreature
             ends == ~ s.isQueued /\ (timeout \/ (w.queueList[n] # <<>> /\ s.isIdle /\ ~ s.respondToText))
             v == IF w.queueList[n] # <<>> THEN NextInQueue(w, n)
                  ELSE IF p \in visitors THEN onPlayerLeave(w, n, p, answer)
                  ELSE w
             t == [s EXCEPT !.prevRespondToText = @ \/ s.respondToText, !.respondToText = FALSE]
             y == WithStates(w, n, PutAt(l, i, t))
             u == executeResponse(y, n, p, i, answer)
  <2>1. i \in DOMAIN l /\ i \in Nat /\ i >= 1 /\ i <= Len(l)
    BY <1>1, <1>2, <1>4
  <2>2. s \in TalkType
    BY <1>2, <2>1
  <2>3. b = IF p \notin visitors \/ ends THEN [a EXCEPT !.w = Forgotten(v, n, i)] ELSE [w |-> u, i |-> i + 1]
    BY <1>4 DEF ThinkOfOne, WithStates, PutAt
  <2>4. Known(w, n, p)
    BY <2>1 DEF Known
  <2> HIDE DEF ends, v, y, u
  <2>5. CASE p \notin visitors \/ ends
    <3> DEFINE f == Forgotten(v, n, i)
    <3>1. Good(v, heard) /\ Follows(w, v, p)
      <4> USE <1>1 DEF v
      <4>1. CASE w.queueList[n] # <<>>
        <5>1. l # <<>> /\ heard[n] \subseteq visitors
          BY <1>2, <2>1, EmptySeq
        <5>2. v = NextInQueue(w, n)
          BY <4>1
        <5> HIDE DEF v, s, w
        <5> QED BY <5>1, <5>2, NextGood
      <4>2. CASE w.queueList[n] = <<>> /\ p \in visitors
        <5>1. v = onPlayerLeave(w, n, p, answer) /\ p \in Buyers
          BY <4>2
        <5> HIDE DEF v, s, w, p
        <5> QED BY <5>1, LeaveGood
      <4>3. CASE w.queueList[n] = <<>> /\ p \notin visitors
        <5>1. v = w
          BY <4>3
        <5>2. Follows(w, w, p)
          BY TalkFacts DEF Follows
        <5> QED BY <5>1, <5>2
      <4> QED BY <4>1, <4>2, <4>3
    <3>2. /\ Len(v.stateList[n]) = Len(l)
          /\ \A j \in DOMAIN l : v.stateList[n][j].respondToCreature = l[j].respondToCreature
      BY <2>4, <3>1 DEF Follows
    <3>3. DOMAIN v.stateList[n] = DOMAIN l
      BY <1>2, <3>1, <3>2, TalkFacts
    <3>4. /\ Good(f, heard) /\ Len(f.stateList[n]) = Len(l) - 1
          /\ \A k \in DOMAIN f.stateList[n] :
               f.stateList[n][k] = IF k < i THEN v.stateList[n][k] ELSE v.stateList[n][k + 1]
      BY <2>1, <3>1, <3>2, <3>3, ForgottenGood
    <3>5. b = [a EXCEPT !.w = f]
      BY <2>3, <2>5
    <3> HIDE DEF f
    <3>6. b \in Visits /\ b.w = f /\ b.i = i
      <4>1. f \in ShopsType
        BY <3>4 DEF Good
      <4>2. a \in [w : ShopsType, i : Nat]
        BY DEF Visits
      <4> QED BY <3>5, <4>1, <4>2 DEF Visits
    <3>7. DOMAIN f.stateList[n] = 1 .. Len(l) - 1
      <4>1. f.stateList[n] \in Seq(TalkType)
        BY <3>4, TalkFacts
      <4> QED BY <3>4, <4>1, LenProperties
    <3>8. ASSUME NEW j \in 1 .. i - 1 PROVE f.stateList[n][j].respondToCreature \in visitors
      <4>1. j \in 1 .. Len(l) - 1 /\ j < i /\ j \in DOMAIN l
        BY <1>2, <2>1
      <4>2. f.stateList[n][j] = v.stateList[n][j]
        BY <3>4, <3>7, <4>1
      <4> QED BY <1>1, <3>2, <4>1, <4>2
    <3>9. i \in 1 .. Len(f.stateList[n]) + 1
      BY <1>2, <2>1, <3>4
    <3>10. Thinking(b, n, heard)
      BY <3>4, <3>6, <3>8, <3>9 DEF Thinking
    <3>11. Len(b.w.stateList[n]) - b.i = Len(l) - i - 1
      BY <1>2, <2>1, <3>4, <3>6
    <3> QED BY <1>4, <3>6, <3>10, <3>11 DEF b
  <2>6. CASE ~ (p \notin visitors \/ ends)
    <3>1. p \in visitors /\ p \in Buyers /\ b = [w |-> u, i |-> i + 1]
      BY <2>3, <2>6
    <3>2. SameTalk(t, l[i])
      <4> HIDE DEF s
      <4>1. (s.prevRespondToText \/ s.respondToText) \in BOOLEAN
        BY Zenon
      <4>2. t \in TalkType /\ t.respondToCreature = s.respondToCreature /\ t.isQueued = s.isQueued
        BY <2>2, <4>1 DEF TalkType
      <4> HIDE DEF t
      <4> QED BY <4>2 DEF SameTalk, s
    <3> HIDE DEF t, s, w
    <3>3. Good(y, heard) /\ Rewritten(w, y, n, i, t) /\ Follows(w, y, p)
      <4>1. SameTalk(t, w.stateList[n][i]) /\ i \in DOMAIN w.stateList[n]
        BY <2>1, <3>2
      <4>2. y = WithStates(w, n, PutAt(w.stateList[n], i, t))
        BY DEF y
      <4> HIDE DEF i
      <4> QED BY <1>1, <4>1, <4>2, StateAgain
    <3>4. i \in DOMAIN y.stateList[n] /\ y.stateList[n][i].respondToCreature = p
      BY <2>1, <3>2, <3>3 DEF Rewritten, SameTalk, s
    <3>5. Good(u, heard) /\ Follows(y, u, p)
      <4>1. i \in DOMAIN y.stateList[n] /\ y.stateList[n][i].respondToCreature \in {NoBuyer, p}
        BY <3>4
      <4>2. p \in Buyers
        BY <3>1
      <4>3. u = executeResponse(y, n, p, i, answer)
        BY DEF u
      <4> HIDE DEF p, i, u, y
      <4> QED BY <3>3, <4>1, <4>2, <4>3, ExecuteGood
    <3>6. Follows(w, u, p)
      BY <1>1, <3>3, <3>5, FollowsOn
    <3>7. /\ Len(u.stateList[n]) = Len(l)
          /\ \A j \in DOMAIN l : u.stateList[n][j].respondToCreature = l[j].respondToCreature
      BY <2>4, <3>6 DEF Follows
    <3>8. b \in Visits /\ b.w = u /\ b.i = i + 1
      <4>1. u \in ShopsType
        BY <3>5 DEF Good
      <4> HIDE DEF i, u
      <4> QED BY <2>1, <3>1, <4>1 DEF Visits
    <3>9. ASSUME NEW j \in 1 .. i PROVE u.stateList[n][j].respondToCreature \in visitors
      <4>1. j \in DOMAIN l /\ (j # i => j \in 1 .. i - 1)
        BY <1>2, <2>1
      <4>2. u.stateList[n][j].respondToCreature = l[j].respondToCreature
        BY <3>7, <4>1
      <4>3. CASE j = i
        BY <3>1, <4>2, <4>3 DEF s
      <4>4. CASE j # i
        BY <1>1, <4>1, <4>2, <4>4
      <4> QED BY <4>3, <4>4
    <3>10. Thinking(b, n, heard)
      <4>1. i + 1 \in 1 .. Len(u.stateList[n]) + 1 /\ (i + 1) - 1 = i
        BY <1>2, <2>1, <3>7
      <4> HIDE DEF i, u
      <4> QED BY <3>5, <3>8, <3>9, <4>1 DEF Thinking
    <3>11. Len(b.w.stateList[n]) - b.i = Len(l) - i - 1
      BY <1>2, <2>1, <3>7, <3>8
    <3> QED BY <1>4, <3>8, <3>10, <3>11 DEF b, w
  <2> QED BY <2>5, <2>6
<1> QED BY <1>3, <1>4

\* Between two calls every player is heard of.
All == [n \in Npcs |-> Buyers]

\* It comes to the end of its list, and has forgotten who is gone.
LEMMA ThoughtGood ==
  ASSUME NEW w, Good(w, All), NEW n \in Npcs, visitors \subseteq Buyers,
         NEW answer \in Answers, NEW timeout \in BOOLEAN
  PROVE  Good(Thought(w, n, answer, timeout), All)
<1> DEFINE heard == [m \in Npcs |-> IF m = n THEN visitors ELSE Buyers]
           X == {a \in Visits : Thinking(a, n, heard)}
           len == Len(w.stateList[n])
           x0 == [w |-> w, i |-> 1]
           go(a) == ThinkOfOne(a, n, answer, timeout)
           step == [k \in 1 .. len + 1 |-> [a \in X |-> go(a)]]
           body0(g) == [k \in 0 .. len + 1 |-> IF k = 0 THEN x0 ELSE go(g[k - 1])]
           walk == CHOOSE g : g = body0(g)
<1>0. heard \in Hearing /\ heard[n] = visitors /\ \A m \in Npcs : m # n => heard[m] = All[m]
  BY DEF Hearing, All
<1>1. len \in Nat
  BY TalkFacts
<1>2. x0 \in X /\ x0.w = w /\ x0.i = 1
  <2>1. Good(w, heard)
    <3>1. \A m \in Npcs : heard[m] \subseteq All[m]
      BY DEF All
    <3> HIDE DEF heard
    <3>2. ASSUME NEW m \in Npcs PROVE Lined(w.stateList[m], w.queueList[m], heard[m])
      BY <3>1 DEF Good, Lined
    <3> QED BY <3>2 DEF Good
  <2> HIDE DEF heard
  <2>2. w \in ShopsType
    BY DEF Good
  <2>3. 1 \in 1 .. Len(w.stateList[n]) + 1 /\ 1 .. 1 - 1 = {}
    BY <1>1
  <2>4. x0 \in Visits /\ x0.w = w /\ x0.i = 1
    BY <2>2 DEF Visits
  <2> HIDE DEF x0
  <2>5. Thinking(x0, n, heard)
    BY <2>1, <2>3, <2>4 DEF Thinking
  <2> QED BY <2>4, <2>5
<1>b. heard[n] = visitors
  BY <1>0
<1> HIDE DEF heard
<1>3. \A a \in X : /\ go(a) \in X
                   /\ IF a.i > Len(a.w.stateList[n]) THEN go(a) = a
                      ELSE Len(go(a).w.stateList[n]) - go(a).i = Len(a.w.stateList[n]) - a.i - 1
  BY <1>0, ThinkOfOneGood
<1>4. step \in [1 .. len + 1 -> [X -> X]]
  BY <1>3
<1>5. \A k \in 1 .. len + 1 : \A a \in X : step[k][a] = go(a)
  OBVIOUS
<1>6. Thought(w, n, answer, timeout) = walk[len + 1].w
  BY DEF Thought
<1> DEFINE N == len + 1
<1>n. N \in Nat /\ N = len + 1
  BY <1>1
<1> HIDE DEF X, len, x0, go, step
<1>7. PICK f \in [0 .. N -> X] : \A k \in 0 .. N : f[k] = IF k = 0 THEN x0 ELSE step[k][f[k - 1]]
  <2> HIDE DEF walk, body0
  <2>1. \E f : Goes(f, N, X, x0, step)
    BY <1>n, <1>2, <1>4, StepsMakeAFunction
  <2> QED BY <2>1 DEF Goes
<1>8. f = body0(f)
  <2>1. \A k \in 0 .. N : k # 0 => k \in 1 .. N /\ f[k - 1] \in X
    BY <1>n, <1>7
  <2>2. \A k \in 0 .. N : f[k] = IF k = 0 THEN x0 ELSE go(f[k - 1])
    BY <1>5, <1>7, <2>1
  <2> QED BY <1>7, <2>2
<1>9. walk = body0(walk)
  <2> HIDE DEF body0
  <2> QED BY <1>8
<1> HIDE DEF walk
<1>10. \A k \in 0 .. N : walk[k] = IF k = 0 THEN x0 ELSE go(walk[k - 1])
  BY <1>9
<1>x. \A a \in X : Len(a.w.stateList[n]) \in Nat /\ a.i \in 1 .. Len(a.w.stateList[n]) + 1
  <2> SUFFICES ASSUME NEW a \in X PROVE Len(a.w.stateList[n]) \in Nat /\ a.i \in 1 .. Len(a.w.stateList[n]) + 1
    OBVIOUS
  <2>1. Good(a.w, heard) /\ a.i \in 1 .. Len(a.w.stateList[n]) + 1
    BY DEF X, Thinking
  <2> QED BY <2>1, TalkFacts
<1> DEFINE Left(a) == Len(a.w.stateList[n]) + 1 - a.i
           P == {k \in 0 .. N : walk[k] \in X /\ (Left(walk[k]) = 0 \/ Left(walk[k]) + k <= len)}
<1>11. 0 \in P
  <2>1. walk[0] = x0
    BY <1>n, <1>10
  <2>2. Left(x0) = len
    BY <1>1, <1>2 DEF len
  <2> QED BY <1>n, <1>1, <1>2, <2>1, <2>2
<1>12. ASSUME NEW k \in 1 .. N, k - 1 \in P PROVE k \in P
  <2> DEFINE a == walk[k - 1]
             b == walk[k]
  <2>1. k \in 0 .. N /\ k # 0 /\ a \in X /\ (Left(a) = 0 \/ Left(a) + (k - 1) <= len)
    BY <1>n, <1>12
  <2>2. b = go(a)
    BY <1>10, <2>1
  <2> HIDE DEF a, b
  <2>3. /\ b \in X
        /\ IF a.i > Len(a.w.stateList[n]) THEN b = a
           ELSE Len(b.w.stateList[n]) - b.i = Len(a.w.stateList[n]) - a.i - 1
    BY <1>3, <2>1, <2>2
  <2>4. /\ Len(a.w.stateList[n]) \in Nat /\ a.i \in 1 .. Len(a.w.stateList[n]) + 1
        /\ Len(b.w.stateList[n]) \in Nat /\ b.i \in 1 .. Len(b.w.stateList[n]) + 1
    BY <1>x, <2>1, <2>3
  <2>5. Left(b) = 0 \/ Left(b) + k <= len
    <3>1. CASE a.i > Len(a.w.stateList[n])
      <4>1. Left(a) = 0
        <5> DEFINE A == Len(a.w.stateList[n])
                   i == a.i
        <5>1. A \in Nat /\ i \in 1 .. A + 1 /\ i > A
          BY <2>4, <3>1
        <5> HIDE DEF A, i
        <5>2. A + 1 - i = 0
          BY <5>1
        <5> QED BY <5>2 DEF A, i
      <4> QED BY <2>3, <3>1, <4>1
    <3>2. CASE ~ (a.i > Len(a.w.stateList[n]))
      <4> DEFINE A == Len(a.w.stateList[n])
                 B == Len(b.w.stateList[n])
                 i == a.i
                 j == b.i
      <4>1. /\ A \in Nat /\ i \in 1 .. A + 1 /\ B \in Nat /\ j \in 1 .. B + 1
            /\ ~ (i > A) /\ B - j = A - i - 1 /\ (A + 1 - i = 0 \/ (A + 1 - i) + (k - 1) <= len)
        BY <2>1, <2>3, <2>4, <3>2
      <4> HIDE DEF A, B, i, j
      <4>2. (B + 1 - j) + k <= len
        BY <1>1, <1>n, <4>1
      <4> QED BY <4>2 DEF B, j
    <3> QED BY <3>1, <3>2
  <2> QED BY <2>1, <2>3, <2>5 DEF b
<1>13. 0 .. N \subseteq P
  <2> HIDE DEF P
  <2> QED BY <1>n, <1>11, <1>12, UpTo
<1> DEFINE e == walk[N]
           v == e.w
<1>14. e \in X /\ (Left(e) = 0 \/ Left(e) + N <= len)
  BY <1>n, <1>13
<1> HIDE DEF e
<1>15. e.i = Len(v.stateList[n]) + 1
  <2> DEFINE A == Len(e.w.stateList[n])
             i == e.i
  <2>1. A \in Nat /\ i \in 1 .. A + 1 /\ (A + 1 - i = 0 \/ (A + 1 - i) + N <= len)
    BY <1>x, <1>14
  <2> HIDE DEF A, i
  <2>2. i = A + 1
    BY <1>1, <1>n, <2>1
  <2> QED BY <2>2 DEF A, i
<1>16. /\ Good(v, heard)
       /\ \A j \in 1 .. e.i - 1 : v.stateList[n][j].respondToCreature \in visitors
  BY <1>14 DEF X, Thinking
<1> HIDE DEF v
<1>17. \A j \in DOMAIN v.stateList[n] : v.stateList[n][j].respondToCreature \in visitors
  <2>1. DOMAIN v.stateList[n] = 1 .. Len(v.stateList[n]) /\ Len(v.stateList[n]) \in Nat
    BY <1>16, TalkFacts
  <2>2. 1 .. e.i - 1 = 1 .. Len(v.stateList[n])
    BY <1>15, <2>1
  <2> QED BY <1>16, <2>1, <2>2
<1>18. ASSUME NEW m \in Npcs PROVE Lined(v.stateList[m], v.queueList[m], All[m])
  <2>1. Lined(v.stateList[m], v.queueList[m], heard[m])
    BY <1>16 DEF Good
  <2>2. CASE m # n
    BY <1>0, <2>1, <2>2
  <2>3. CASE m = n
    BY <1>b, <1>17, <2>1, <2>3 DEF Lined
  <2> QED BY <2>2, <2>3
<1>19. Good(v, All)
  BY <1>16, <1>18 DEF Good
<1>20. Thought(w, n, answer, timeout) = v
  BY <1>6 DEF v, e
<1> QED BY <1>19, <1>20

-----------------------------------------------------------------------------
(* The other calls.                                                         *)

WithLists(w, shown, l, q) == [w EXCEPT !.shopPlayerList = shown, !.stateList = l, !.queueList = q]
WithRegistry(w, held, lost) == [w EXCEPT !.held = held, !.lost = lost]

LEMMA EmptyLists ==
  /\ <<>> \in Seq(Buyers) /\ IsInjective(<<>>) /\ ToSet(<<>>) = {}
  /\ <<>> \in Seq(TalkType) /\ Lined(<<>>, <<>>, Buyers)
<1>1. <<>> \in Seq(Buyers) /\ <<>> \in Seq(TalkType) /\ DOMAIN <<>> = {}
  OBVIOUS
<1>2. IsInjective(<<>>)
  BY <1>1 DEF IsInjective
<1> QED BY <1>1, <1>2 DEF ToSet, Lined

\* An NPC whose windows are closed is forgotten with all it keeps.
LEMMA ResetGood ==
  ASSUME NEW w, Good(w, All), NEW gone \in SUBSET Npcs, \A q \in Buyers : w.owner[q] \notin gone
  PROVE  LET v == Reset(w, gone)
         IN  Good(v, All) /\ v.owner = w.owner
<1> DEFINE cleared(x) == [n \in Npcs |-> IF n \in gone THEN <<>> ELSE x[n]]
           a == cleared(w.shopPlayerList)
           l == cleared(w.stateList)
           q == cleared(w.queueList)
           v == WithLists(w, a, l, q)
           B == Seq(Buyers)
           L == Seq(TalkType)
           Rec == [owner : [Buyers -> Npcs \cup {NoNpc}], callback : [Buyers -> Callbacks \cup {NoCallback}],
                   window : [Buyers -> BOOLEAN], held : SUBSET Callbacks, lost : SUBSET Callbacks,
                   shopPlayerList : [Npcs -> B], stateList : [Npcs -> L], queueList : [Npcs -> B]]
<1>1. Reset(w, gone) = v
  BY DEF Reset, WithLists
<1>2. w \in Rec /\ ShopsType = Rec
  BY DEF Good, ShopsType
<1>3. <<>> \in B /\ <<>> \in L
  BY EmptyLists
<1> HIDE DEF B, L
<1>4. a \in [Npcs -> B] /\ l \in [Npcs -> L] /\ q \in [Npcs -> B]
  BY <1>2, <1>3
<1>5. \A n \in Npcs : /\ n \in gone => a[n] = <<>> /\ l[n] = <<>> /\ q[n] = <<>>
                      /\ n \notin gone => a[n] = w.shopPlayerList[n] /\ l[n] = w.stateList[n] /\ q[n] = w.queueList[n]
  OBVIOUS
<1> HIDE DEF a, l, q
<1>6. /\ v \in Rec /\ v.owner = w.owner /\ v.callback = w.callback /\ v.window = w.window
      /\ v.held = w.held /\ v.lost = w.lost /\ v.shopPlayerList = a /\ v.stateList = l /\ v.queueList = q
  <2> DEFINE e == [w EXCEPT !.shopPlayerList = a, !.stateList = l, !.queueList = q]
  <2>1. /\ e \in Rec /\ e.owner = w.owner /\ e.callback = w.callback /\ e.window = w.window
        /\ e.held = w.held /\ e.lost = w.lost /\ e.shopPlayerList = a /\ e.stateList = l /\ e.queueList = q
    BY <1>2, <1>4
  <2>2. v = e
    BY DEF WithLists
  <2> HIDE DEF e, v, Rec
  <2> QED BY <2>1, <2>2
<1> HIDE DEF v, Rec
<1>7. Shown(v)
  <2>1. ASSUME NEW n \in Npcs
        PROVE  IsInjective(v.shopPlayerList[n]) /\ ToSet(v.shopPlayerList[n]) = {p \in Buyers : v.owner[p] = n}
    <3>1. IsInjective(w.shopPlayerList[n]) /\ ToSet(w.shopPlayerList[n]) = {p \in Buyers : w.owner[p] = n}
      BY DEF Good, Shown
    <3>2. CASE n \in gone
      <4>1. {p \in Buyers : v.owner[p] = n} = {}
        <5>1. \A p \in Buyers : v.owner[p] # n
          BY <1>6, <3>2
        <5> QED BY <5>1
      <4>2. v.shopPlayerList[n] = <<>>
        BY <1>5, <1>6, <3>2
      <4> QED BY <4>1, <4>2, EmptyLists
    <3>3. CASE n \notin gone
      <4>1. v.shopPlayerList[n] = w.shopPlayerList[n]
        BY <1>5, <1>6, <3>3
      <4>2. \A p \in Buyers : v.owner[p] = w.owner[p]
        BY <1>6
      <4> QED BY <3>1, <4>1, <4>2
    <3> QED BY <3>2, <3>3
  <2> QED BY <1>6, <2>1 DEF Good, Shown
<1>8. Referred(v)
  BY <1>6 DEF Good, Referred
<1>9. ASSUME NEW n \in Npcs PROVE Lined(v.stateList[n], v.queueList[n], All[n])
  <2>1. All[n] = Buyers /\ Lined(w.stateList[n], w.queueList[n], All[n])
    BY DEF Good, All
  <2>2. CASE n \in gone
    <3>1. v.stateList[n] = <<>> /\ v.queueList[n] = <<>>
      BY <1>5, <1>6, <2>2
    <3> QED BY <2>1, <3>1, EmptyLists
  <2>3. CASE n \notin gone
    <3>1. v.stateList[n] = w.stateList[n] /\ v.queueList[n] = w.queueList[n]
      BY <1>5, <1>6, <2>3
    <3> QED BY <2>1, <3>1
  <2> QED BY <2>2, <2>3
<1> QED BY <1>1, <1>2, <1>6, <1>7, <1>8, <1>9 DEF Good

\* What changes the registry alone.
LEMMA RegistryGood ==
  ASSUME NEW w, Good(w, All), NEW held \in SUBSET Callbacks, NEW lost \in SUBSET Callbacks,
         held = ({w.callback[p] : p \in Buyers} \ {NoCallback}) \cup lost,
         \A p \in Buyers : w.callback[p] \notin lost, \A c, d \in lost : c = d
  PROVE  LET v == WithRegistry(w, held, lost)
         IN  Good(v, All) /\ v.owner = w.owner
<1> DEFINE v == WithRegistry(w, held, lost)
           B == [Npcs -> Seq(Buyers)]
           L == [Npcs -> Seq(TalkType)]
           Rec == [owner : [Buyers -> Npcs \cup {NoNpc}], callback : [Buyers -> Callbacks \cup {NoCallback}],
                   window : [Buyers -> BOOLEAN], held : SUBSET Callbacks, lost : SUBSET Callbacks,
                   shopPlayerList : B, stateList : L, queueList : B]
<1>1. w \in Rec /\ ShopsType = Rec
  BY DEF Good, ShopsType
<1> HIDE DEF B, L
<1>2. /\ v \in Rec /\ v.owner = w.owner /\ v.callback = w.callback /\ v.window = w.window
      /\ v.held = held /\ v.lost = lost /\ v.shopPlayerList = w.shopPlayerList
      /\ v.stateList = w.stateList /\ v.queueList = w.queueList
  <2> DEFINE e == [w EXCEPT !.held = held, !.lost = lost]
  <2>1. /\ e \in Rec /\ e.owner = w.owner /\ e.callback = w.callback /\ e.window = w.window
        /\ e.held = held /\ e.lost = lost /\ e.shopPlayerList = w.shopPlayerList
        /\ e.stateList = w.stateList /\ e.queueList = w.queueList
    BY <1>1
  <2>2. v = e
    BY DEF WithRegistry
  <2> HIDE DEF e, v, Rec
  <2> QED BY <2>1, <2>2
<1> HIDE DEF v, Rec
<1>3. Shown(v)
  BY <1>2 DEF Good, Shown
<1>4. Referred(v)
  BY <1>2 DEF Good, Referred
<1>5. \A n \in Npcs : Lined(v.stateList[n], v.queueList[n], All[n])
  BY <1>2 DEF Good
<1> QED BY <1>1, <1>2, <1>3, <1>4, <1>5 DEF Good, v

\* A player says something.
LEMMA SayGood ==
  ASSUME NEW w, Good(w, All), NEW n \in Npcs, NEW p \in Buyers
  PROVE  LET u == Noticed(w, n, p)
         IN  Good([u EXCEPT !.stateList[n][StateOf(u, n, p)].respondToText = TRUE], All)
<1> DEFINE u == Noticed(w, n, p)
           i == StateOf(u, n, p)
           s == u.stateList[n][i]
           t == [s EXCEPT !.respondToText = TRUE]
           v == [u EXCEPT !.stateList[n][i].respondToText = TRUE]
<1>1. Good(u, All) /\ Known(u, n, p)
  BY NoticedGood
<1>2. v = WithStates(u, n, PutAt(u.stateList[n], i, t))
  BY DEF WithStates, PutAt
<1> HIDE DEF u, v
<1>3. i \in DOMAIN u.stateList[n]
  BY <1>1, StateFound
<1>4. s \in TalkType
  <2>1. u.stateList[n] \in Seq(TalkType)
    BY <1>1, TalkFacts
  <2> QED BY <1>3, <2>1
<1> HIDE DEF i
<1>5. SameTalk(t, u.stateList[n][i])
  <2> HIDE DEF s
  <2>1. t \in TalkType /\ t.respondToCreature = s.respondToCreature /\ t.isQueued = s.isQueued
    BY <1>4 DEF TalkType
  <2> HIDE DEF t
  <2> QED BY <2>1 DEF SameTalk, s
<1> HIDE DEF t, s
<1>6. Good(v, All)
  BY <1>1, <1>2, <1>3, <1>5, StateAgain
<1> QED BY <1>6 DEF v, u, i

-----------------------------------------------------------------------------
(* What every step keeps.                                                   *)

ShopsKept == ShopsTypeOK /\ Good(shops, All) /\ ~ misused /\ ShopsInSight

LEMMA ShopsKeptSays == ShopsKept => ShopsAgree
<1> SUFFICES ASSUME ShopsKept PROVE ShopsAgree
  OBVIOUS
<1>1. /\ ShopsTypeOK /\ ~ misused /\ ShopsInSight /\ shops \in ShopsType /\ Shown(shops) /\ Referred(shops)
      /\ \A n \in Npcs : Lined(shops.stateList[n], shops.queueList[n], All[n])
  BY DEF ShopsKept, Good
<1>2. WindowsMatch
  BY <1>1 DEF WindowsMatch, Shown, Shoppers
<1>3. CallbacksHeld
  <2>1. {shops.callback[p] : p \in Buyers} \ {NoCallback} = {shops.callback[p] : p \in Shoppers}
    BY <1>1 DEF Referred, Shoppers
  <2>2. shops.held = {shops.callback[p] : p \in Shoppers} \cup shops.lost
    BY <1>1, <2>1 DEF Referred
  <2>3. \A p \in Buyers : shops.callback[p] = NoCallback <=> p \notin Shoppers
    BY <1>1 DEF Referred, Shoppers
  <2>4. \A p, q \in Shoppers : shops.callback[p] = shops.callback[q] => p = q
    BY <1>1 DEF Referred, Shoppers
  <2> QED BY <1>1, <2>2, <2>3, <2>4 DEF CallbacksHeld
<1>4. ConversationsQueue
  <2> SUFFICES ASSUME NEW n \in Npcs
      PROVE /\ IsInjective(shops.queueList[n])
            /\ \A i, j \in DOMAIN shops.stateList[n] :
                 LET s == shops.stateList[n][i]
                 IN  /\ (s.respondToCreature = shops.stateList[n][j].respondToCreature /\ s.respondToCreature # NoBuyer)
                          => i = j
                     /\ (s.isQueued /\ s.respondToCreature \in visitors) => s.respondToCreature \in ToSet(shops.queueList[n])
    BY DEF ConversationsQueue
  <2>1. Lined(shops.stateList[n], shops.queueList[n], All[n]) /\ visitors \subseteq All[n]
    BY <1>1 DEF All, ShopsTypeOK
  <2> QED BY <2>1 DEF Lined
<1> QED BY <1>1, <1>2, <1>3, <1>4 DEF ShopsAgree

\* Who keeps his window and was in sight of the shop is still.
LEMMA SightKept ==
  ASSUME ShopsInSight, shops \in ShopsType, shops' \in ShopsType, strayed' = Straying(shops', inView'),
         \A q \in Buyers, n \in Npcs :
           shops.owner[q] = n /\ shops'.owner[q] = n /\ <<n, q>> \in inView => <<n, q>> \in inView'
  PROVE  ShopsInSight'
<1> SUFFICES ASSUME NEW q \in Buyers, shops'.owner[q] # NoNpc
    PROVE  <<shops'.owner[q], q>> \in inView' \/ <<shops'.owner[q], q>> \in strayed'
  BY DEF ShopsInSight, Shoppers
<1> DEFINE n == shops'.owner[q]
           x == <<n, q>>
<1>1. n \in Npcs /\ x \in Npcs \X Buyers /\ x[1] = n /\ x[2] = q
  BY DEF ShopsType
<1>2. x \in strayed \/ (x \notin inView' /\ shops.owner[q] # n) => x \in strayed'
  BY <1>1 DEF Straying
<1>3. CASE shops.owner[q] = n
  <2>1. q \in Shoppers
    BY <1>3 DEF Shoppers
  <2>2. x \in inView \/ x \in strayed
    BY <1>3, <2>1 DEF ShopsInSight
  <2> QED BY <1>1, <1>2, <1>3, <2>2
<1>4. CASE shops.owner[q] # n
  BY <1>2, <1>4
<1> QED BY <1>3, <1>4

\* What a call leaves is as good when who has left the game has no window.
LEMMA GoodStill ==
  ASSUME Good(shops', All), \A q \in Buyers : shops'.owner[q] # NoNpc /\ q \in visitors => q \in visitors'
  PROVE  Good(shops, All)'
BY DEF Good, Shown, Referred, All

LEMMA StepKeeps ==
  ASSUME ShopsKept, Talk, Good(shops', All), strayed' = Straying(shops', inView'), misused' = FALSE,
         \A q \in Buyers : shops'.owner[q] # NoNpc /\ q \in visitors => q \in visitors',
         visitors' \subseteq Buyers, inView' \subseteq Npcs \X visitors',
         \A q \in Buyers, n \in Npcs :
           shops.owner[q] = n /\ shops'.owner[q] = n /\ <<n, q>> \in inView => <<n, q>> \in inView'
  PROVE  ShopsKept'
<1>1. shops \in ShopsType /\ shops' \in ShopsType
  BY DEF ShopsKept, Good
<1>2. ShopsInSight'
  BY <1>1, SightKept DEF ShopsKept
<1>3. strayed' \subseteq Npcs \X Buyers
  BY DEF Straying
<1>4. talks' \in 0 .. MaxTalks
  BY ShopsAssumption DEF Talk, ShopsKept, ShopsTypeOK
<1>5. misused' \in BOOLEAN /\ ~ misused'
  OBVIOUS
<1>6. ShopsTypeOK'
  BY <1>1, <1>3, <1>4, <1>5 DEF ShopsTypeOK
<1>7. Good(shops, All)'
  BY GoodStill
<1> QED BY <1>2, <1>5, <1>6, <1>7 DEF ShopsKept

\* Each action; in the end, all of them.
LEMMA NextKeeps == ShopsKept /\ [ShopsNext]_shopVars => ShopsKept'
<1> SUFFICES ASSUME ShopsKept, [ShopsNext]_shopVars PROVE ShopsKept'
  OBVIOUS
<1>0. /\ shops \in ShopsType /\ Good(shops, All) /\ All \in Hearing /\ visitors \subseteq Buyers
      /\ inView \subseteq Npcs \X visitors /\ misused = FALSE /\ ShopsInSight
      /\ strayed \subseteq Npcs \X Buyers /\ talks \in 0 .. MaxTalks
  BY DEF ShopsKept, ShopsTypeOK, Hearing, All
<1> DEFINE Held == shops'.owner \in [Buyers -> Npcs \cup {NoNpc}]
           Sight == \A q \in Buyers, n \in Npcs :
                      shops.owner[q] = n /\ shops'.owner[q] = n /\ <<n, q>> \in inView => <<n, q>> \in inView'
\* Steps after which all who were in the game and in sight are.
<1>s. ASSUME Talk, Good(shops', All), strayed' = Straying(shops', inView'), misused' = FALSE,
             visitors \subseteq visitors', visitors' \subseteq Buyers,
             inView' \subseteq Npcs \X visitors', inView \subseteq inView'
      PROVE  ShopsKept'
  <2>1. \A q \in Buyers : shops'.owner[q] # NoNpc /\ q \in visitors => q \in visitors'
    BY <1>s
  <2>2. Sight
    BY <1>s
  <2> QED BY <1>s, <2>1, <2>2, StepKeeps
<1>k. ASSUME Talk, Kept, Good(shops', All), strayed' = Straying(shops', inView), misused' = FALSE
      PROVE  ShopsKept'
  BY <1>0, <1>k, <1>s DEF Kept
<1>1. ASSUME NEW p \in Buyers, Enter(p) PROVE ShopsKept'
  <2>1. PICK S \in SUBSET Npcs, answer \in {"none", "listen"} :
          /\ inView' = inView \cup (S \X {p})
          /\ Becomes(AllHear(shops, SetToSeq(S), p, S, {}, answer), inView')
    BY <1>1 DEF Enter
  <2> DEFINE v == AllHear(shops, SetToSeq(S), p, S, {}, answer)
             l == SetToSeq(S)
  <2>2. l \in Seq(Npcs)
    <3>1. IsFiniteSet(S)
      BY FS_Subset, ShopsAssumption
    <3>2. l \in Seq(S)
      BY <3>1, SetToSeqFacts
    <3> QED BY <3>2
  <2>3. answer \in Answers
    BY DEF Answers
  <2> HIDE DEF l
  <2>4. Good(v, All)
    <3>1. v = AllHear(shops, l, p, S, {}, answer)
      BY DEF l
    <3> HIDE DEF v
    <3> QED BY <1>0, <2>2, <2>3, <3>1, AllHearGood
  <2>5. Talk /\ visitors' = visitors \cup {p}
    BY <1>1 DEF Enter
  <2>6. shops' = v /\ strayed' = Straying(shops', inView') /\ misused' = misused
    BY <2>1 DEF Becomes, v, l
  <2> HIDE DEF v
  <2>7. inView' \subseteq Npcs \X visitors' /\ inView \subseteq inView'
    BY <1>0, <2>1, <2>5
  <2> QED BY <1>0, <1>s, <2>4, <2>5, <2>6, <2>7
<1>2. ASSUME NEW p \in Buyers, Leave(p) PROVE ShopsKept'
  <2> DEFINE saw == {n \in Npcs : <<n, p>> \in inView}
             l == SetToSeq(saw)
  <2>1. PICK answer \in {"none", "idle"} :
          Becomes(closeShopWindow(AllHear(shops, SetToSeq(saw), p, {}, saw, answer), p), inView')
    BY <1>2 DEF Leave
  <2> DEFINE u == AllHear(shops, l, p, {}, saw, answer)
             v == closeShopWindow(u, p)
  <2>2. l \in Seq(Npcs)
    <3>1. IsFiniteSet(saw)
      <4>1. saw \subseteq Npcs
        OBVIOUS
      <4> HIDE DEF saw
      <4> QED BY <4>1, FS_Subset, ShopsAssumption
    <3> HIDE DEF saw
    <3>2. l \in Seq(saw)
      BY <3>1, SetToSeqFacts
    <3>3. saw \subseteq Npcs
      BY DEF saw
    <3> QED BY <3>2, <3>3
  <2>3. answer \in Answers
    BY DEF Answers
  <2>6. shops' = v /\ strayed' = Straying(shops', inView') /\ misused' = misused
    BY <2>1 DEF Becomes
  <2> HIDE DEF l, saw
  <2>4. Good(u, All) /\ u.owner \in [Buyers -> Npcs \cup {NoNpc}]
    BY <1>0, <2>2, <2>3, AllHearGood
  <2> HIDE DEF u
  <2>v. v = closeShopWindow(u, p)
    OBVIOUS
  <2> HIDE DEF v
  <2>c. Good(v, All) /\ Closed(u, v, p)
    BY <2>4, <2>v, CloseGood
  <2>5. Good(v, All) /\ v.owner = [u.owner EXCEPT ![p] = NoNpc]
    BY <2>c DEF Closed
  <2>7. shops'.owner[p] = NoNpc
    BY <2>4, <2>5, <2>6
  <2>8. Talk /\ visitors' = visitors \ {p} /\ inView' = {x \in inView : x[2] # p}
    BY <1>2 DEF Leave
  <2>9. \A q \in Buyers : shops'.owner[q] # NoNpc /\ q \in visitors => q \in visitors'
    BY <2>7, <2>8
  <2>10. visitors' \subseteq Buyers /\ inView' \subseteq Npcs \X visitors'
    BY <1>0, <2>8
  <2>11. Sight
    <3> SUFFICES ASSUME NEW q \in Buyers, NEW n \in Npcs, shops'.owner[q] = n, <<n, q>> \in inView
        PROVE <<n, q>> \in inView'
      OBVIOUS
    <3>1. q # p
      BY <2>7, ShopsAssumption
    <3> QED BY <2>8, <3>1
  <2> QED BY <1>0, <2>5, <2>6, <2>8, <2>9, <2>10, <2>11, StepKeeps
<1>3. ASSUME NEW p \in Buyers, Step(p) PROVE ShopsKept'
  <2> DEFINE saw == {n \in Npcs : <<n, p>> \in inView}
             l == SetToSeq(Npcs)
  <2>1. PICK S \in SUBSET Npcs, answer \in Answers :
          /\ inView' = {x \in inView : x[2] # p} \cup (S \X {p})
          /\ Becomes(AllHear(shops, l, p, S, saw, answer), inView')
    BY <1>3 DEF Step
  <2> DEFINE v == AllHear(shops, l, p, S, saw, answer)
  <2>2. l \in Seq(Npcs) /\ ToSet(l) = Npcs
    BY SetToSeqFacts, ShopsAssumption
  <2>6. shops' = v /\ strayed' = Straying(shops', inView') /\ misused' = misused
    BY <2>1 DEF Becomes
  <2>s. \A n \in Npcs : <<n, p>> \in inView => n \in saw
    OBVIOUS
  <2> HIDE DEF l, saw
  <2>4. Good(v, All) /\ \A n \in ToSet(l) : n \in saw /\ n \notin S => v.owner[p] # n
    BY <1>0, <2>2, AllHearGood
  <2> HIDE DEF v
  <2>8. Talk /\ visitors' = visitors /\ p \in visitors
    BY <1>3 DEF Step
  <2>10. inView' \subseteq Npcs \X visitors'
    BY <1>0, <2>1, <2>8
  <2>11. Sight
    <3> SUFFICES ASSUME NEW q \in Buyers, NEW n \in Npcs, shops'.owner[q] = n, <<n, q>> \in inView
        PROVE <<n, q>> \in inView'
      OBVIOUS
    <3>1. CASE q # p
      BY <2>1, <3>1
    <3>2. CASE q = p
      <4>1. n \in S
        BY <2>2, <2>4, <2>6, <2>s, <3>2
      <4> QED BY <2>1, <3>2, <4>1
    <3> QED BY <3>1, <3>2
  <2> QED BY <1>0, <2>4, <2>6, <2>8, <2>10, <2>11, StepKeeps
<1>4. ASSUME NEW p \in Buyers, playerPurchaseItem(p) PROVE ShopsKept'
  <2> DEFINE n == shops.owner[p]
  <2>1. Talk /\ Kept /\ n \in Npcs /\ n # NoNpc
    BY <1>0, <1>4 DEF playerPurchaseItem, onPlayerTrade, ShopsType
  <2>2. PICK answer \in Answers :
          LET w == Respond(getState(shops, n, p), n, p, answer)
          IN  /\ shops' = w
              /\ strayed' = Straying(w, inView)
              /\ misused' = (misused \/ (answer \notin {"open", "close"} /\ shops.callback[p] \notin w.held))
    BY <1>4 DEF playerPurchaseItem, onPlayerTrade
  <2> HIDE DEF n
  <2> DEFINE u == getState(shops, n, p)
             w == Respond(u, n, p, answer)
  <2>3. Good(u, All) /\ SameShops(shops, u) /\ Ready(u, n, p)
    BY <1>0, <2>1, GetStateGood
  <2> HIDE DEF u
  <2>4. Good(w, All) /\ (answer \notin {"open", "close"} => SameShops(u, w))
    BY <1>0, <2>1, <2>3, RespondGood
  <2>5. shops' = w /\ strayed' = Straying(shops', inView)
        /\ misused' = (misused \/ (answer \notin {"open", "close"} /\ shops.callback[p] \notin w.held))
    BY <2>2 DEF u
  <2> HIDE DEF w
  <2>6. misused' = FALSE
    <3>1. answer \notin {"open", "close"} => shops.callback[p] \in w.held
      <4> SUFFICES ASSUME answer \notin {"open", "close"} PROVE shops.callback[p] \in w.held
        OBVIOUS
      <4>1. w.held = shops.held
        BY <2>3, <2>4 DEF SameShops
      <4>2. shops.callback[p] # NoCallback /\ ({shops.callback[q] : q \in Buyers} \ {NoCallback}) \subseteq shops.held
        BY <1>0, <2>1 DEF Good, Referred, n
      <4> QED BY <4>1, <4>2
    <3> QED BY <1>0, <2>5, <3>1
  <2>7. Good(shops', All)
    BY <2>4, <2>5
  <2> QED BY <1>k, <2>1, <2>5, <2>6, <2>7
<1>5. ASSUME NEW p \in Buyers, playerCloseShop(p) PROVE ShopsKept'
  <2>1. Good(closeShopWindow(shops, p), All)
    BY <1>0, CloseGood
  <2> DEFINE v == closeShopWindow(shops, p)
  <2>2. Talk /\ Kept /\ shops' = v /\ strayed' = Straying(shops', inView) /\ misused' = misused
    BY <1>5 DEF playerCloseShop, Becomes
  <2> HIDE DEF v
  <2>3. Good(v, All)
    BY <2>1 DEF v
  <2> QED BY <1>0, <1>k, <2>2, <2>3
<1>6. ASSUME NEW n \in Npcs, NpcStep(n) PROVE ShopsKept'
  <2>1. PICK S \in SUBSET visitors :
          /\ inView' = {x \in inView : x[1] # n} \cup ({n} \X S)
          /\ strayed' = strayed \cup {x \in inView \ inView' : shops.owner[x[2]] = n}
    BY <1>6 DEF NpcStep
  <2>2. Talk /\ shops' = shops /\ visitors' = visitors /\ misused' = misused
    BY <1>6 DEF NpcStep
  <2>3. talks' \in 0 .. MaxTalks
    BY <1>0, <2>2, ShopsAssumption DEF Talk
  <2>4. inView' \subseteq Npcs \X visitors' /\ strayed' \subseteq Npcs \X Buyers
    BY <1>0, <2>1, <2>2
  <2>5. ShopsTypeOK'
    BY <1>0, <2>2, <2>3, <2>4 DEF ShopsTypeOK
  <2>6. Good(shops, All)'
    BY <1>0, <2>2, GoodStill
  <2>7. ShopsInSight'
    <3> SUFFICES ASSUME NEW q \in Buyers, shops.owner[q] # NoNpc
        PROVE <<shops.owner[q], q>> \in inView' \/ <<shops.owner[q], q>> \in strayed'
      BY <2>2 DEF ShopsInSight, Shoppers
    <3>1. <<shops.owner[q], q>> \in inView \/ <<shops.owner[q], q>> \in strayed
      BY <1>0 DEF ShopsInSight, Shoppers
    <3> QED BY <2>1, <3>1
  <2> QED BY <1>0, <2>2, <2>5, <2>6, <2>7 DEF ShopsKept
<1>7. ASSUME NEW n \in Npcs, onThink(n) PROVE ShopsKept'
  <2>1. PICK answer \in Answers, timeout \in BOOLEAN : Becomes(Thought(shops, n, answer, timeout), inView)
    BY <1>7 DEF onThink
  <2> DEFINE v == Thought(shops, n, answer, timeout)
  <2>2. Good(v, All)
    BY <1>0, ThoughtGood
  <2>3. Talk /\ Kept /\ shops' = v /\ strayed' = Straying(shops', inView) /\ misused' = misused
    BY <1>7, <2>1 DEF onThink, Becomes
  <2> HIDE DEF v
  <2> QED BY <1>0, <1>k, <2>2, <2>3
<1>8. ASSUME NEW n \in Npcs, NpcLeaves(n) PROVE ShopsKept'
  <2> DEFINE u == closeAllShopWindows(shops, n)
             v == Reset(u, {n})
  <2>1. Talk /\ inView' = {x \in inView : x[1] # n} /\ visitors' = visitors
        /\ shops' = v /\ strayed' = Straying(shops', inView') /\ misused' = misused
    BY <1>8 DEF NpcLeaves, Becomes
  <2>2. Good(u, All) /\ \A q \in Buyers : u.owner[q] # n
    BY <1>0, CloseAllGood
  <2> HIDE DEF u
  <2>3. Good(v, All) /\ v.owner = u.owner
    BY <2>2, ResetGood
  <2> HIDE DEF v
  <2>4. inView' \subseteq Npcs \X visitors'
    BY <1>0, <2>1
  <2>5. Sight
    BY <2>1, <2>2, <2>3
  <2> QED BY <1>0, <2>1, <2>3, <2>4, <2>5, StepKeeps
<1>9. ASSUME NEW n \in Npcs, NEW p \in Buyers, onCreatureSay(n, p) PROVE ShopsKept'
  <2> DEFINE u == Noticed(shops, n, p)
             v == [u EXCEPT !.stateList[n][StateOf(u, n, p)].respondToText = TRUE]
  <2>1. Talk /\ Kept /\ shops' = v /\ strayed' = Straying(shops', inView) /\ misused' = misused
    BY <1>9 DEF onCreatureSay, Becomes
  <2>2. Good(v, All)
    BY <1>0, SayGood
  <2> HIDE DEF v
  <2> QED BY <1>0, <1>k, <2>1, <2>2
<1>10. ASSUME OpenFails PROVE ShopsKept'
  <2> DEFINE c == popCallback(shops)
             v == WithRegistry(shops, shops.held \cup {c}, {c})
  <2>1. Talk /\ Kept /\ shops' = v /\ strayed' = Straying(shops', inView) /\ misused' = misused /\ shops.lost = {}
    BY <1>10 DEF OpenFails, Becomes, WithRegistry
  <2>2. c \in Callbacks /\ c \notin shops.held
    BY <1>0, SomeReferenceFree
  <2> HIDE DEF c
  <2>3. /\ shops.held = {shops.callback[p] : p \in Buyers} \ {NoCallback}
        /\ shops.held \in SUBSET Callbacks
    BY <1>0, <2>1 DEF Good, Referred, ShopsType
  <2>4. \A p \in Buyers : shops.callback[p] # c
    BY <2>2, <2>3, ShopsAssumption
  <2>5. shops.held \cup {c} = ({shops.callback[p] : p \in Buyers} \ {NoCallback}) \cup {c}
    BY <2>3
  <2>6. Good(v, All)
    <3> DEFINE held == shops.held \cup {c}
               lost == {c}
    <3>1. /\ held \in SUBSET Callbacks /\ lost \in SUBSET Callbacks
          /\ held = ({shops.callback[p] : p \in Buyers} \ {NoCallback}) \cup lost
          /\ \A p \in Buyers : shops.callback[p] \notin lost
          /\ \A d, e \in lost : d = e
      BY <2>2, <2>3, <2>4, <2>5
    <3> HIDE DEF held, lost
    <3>2. v = WithRegistry(shops, held, lost)
      BY DEF held, lost
    <3> HIDE DEF v
    <3> QED BY <1>0, <3>1, <3>2, RegistryGood
  <2> HIDE DEF v
  <2> QED BY <1>0, <1>k, <2>1, <2>6
<1>11. ASSUME reload PROVE ShopsKept'
  <2> DEFINE u == InTurn(closeAllShopWindows, shops, SetToSeq(Npcs))
             x == Reset(u, Npcs)
             v == WithRegistry(x, {}, {})
  <2>1. Talk /\ Kept /\ shops' = v /\ strayed' = Straying(shops', inView) /\ misused' = misused
    BY <1>11 DEF reload, Becomes, WithRegistry
  <2>2. Good(u, All) /\ \A q \in Buyers : u.owner[q] = NoNpc
    BY <1>0, AllClosedGood
  <2> HIDE DEF u
  <2>3. Good(x, All) /\ x.owner = u.owner
    <3>1. \A q \in Buyers : u.owner[q] \notin Npcs
      BY <2>2, ShopsAssumption
    <3> QED BY <2>2, <3>1, ResetGood
  <2> HIDE DEF x
  <2>4. \A p \in Buyers : x.callback[p] = NoCallback
    BY <2>2, <2>3 DEF Good, Referred
  <2>5. {} = ({x.callback[p] : p \in Buyers} \ {NoCallback}) \cup {}
    BY <2>4
  <2>6. Good(v, All)
    BY <2>3, <2>4, <2>5, RegistryGood
  <2> HIDE DEF v
  <2> QED BY <1>0, <1>k, <2>1, <2>6
<1>12. CASE UNCHANGED shopVars
  BY <1>12 DEF shopVars, ShopsKept, ShopsTypeOK, Good, Shown, Referred, ShopsInSight, Shoppers
<1> QED BY <1>1, <1>2, <1>3, <1>4, <1>5, <1>6, <1>7, <1>8, <1>9, <1>10, <1>11, <1>12 DEF ShopsNext

LEMMA ShopsStart == ShopsInit => ShopsKept
<1> SUFFICES ASSUME ShopsInit PROVE ShopsKept
  OBVIOUS
<1> DEFINE B == Seq(Buyers)
           L == Seq(TalkType)
           none == [n \in Npcs |-> <<>>]
<1>1. none \in [Npcs -> B] /\ none \in [Npcs -> L] /\ \A n \in Npcs : none[n] = <<>>
  OBVIOUS
<1>2. /\ shops.owner = [p \in Buyers |-> NoNpc] /\ shops.callback = [p \in Buyers |-> NoCallback]
      /\ shops.window = [p \in Buyers |-> FALSE] /\ shops.held = {} /\ shops.lost = {}
      /\ shops.shopPlayerList = none /\ shops.stateList = none /\ shops.queueList = none
      /\ shops = [owner |-> [p \in Buyers |-> NoNpc], callback |-> [p \in Buyers |-> NoCallback],
                  window |-> [p \in Buyers |-> FALSE], held |-> {}, lost |-> {},
                  shopPlayerList |-> none, stateList |-> none, queueList |-> none]
      /\ visitors = {} /\ inView = {} /\ strayed = {} /\ misused = FALSE /\ talks = 0
  BY DEF ShopsInit
<1> HIDE DEF B, L, none
<1>3. shops \in [owner : [Buyers -> Npcs \cup {NoNpc}], callback : [Buyers -> Callbacks \cup {NoCallback}],
                 window : [Buyers -> BOOLEAN], held : SUBSET Callbacks, lost : SUBSET Callbacks,
                 shopPlayerList : [Npcs -> B], stateList : [Npcs -> L], queueList : [Npcs -> B]]
  BY <1>1, <1>2
<1>4. shops \in ShopsType
  BY <1>3 DEF ShopsType, B, L
<1>5. Shown(shops)
  <2>1. ASSUME NEW n \in Npcs
        PROVE  /\ IsInjective(shops.shopPlayerList[n])
               /\ ToSet(shops.shopPlayerList[n]) = {p \in Buyers : shops.owner[p] = n}
    <3>1. {p \in Buyers : shops.owner[p] = n} = {}
      BY <1>2, ShopsAssumption
    <3>2. shops.shopPlayerList[n] = <<>>
      BY <1>1, <1>2
    <3> QED BY <3>1, <3>2, EmptyLists
  <2> QED BY <1>2, <2>1 DEF Shown
<1>6. Referred(shops)
  BY <1>2 DEF Referred
<1>7. ASSUME NEW n \in Npcs PROVE Lined(shops.stateList[n], shops.queueList[n], All[n])
  <2>1. shops.stateList[n] = <<>> /\ shops.queueList[n] = <<>> /\ All[n] = Buyers
    BY <1>1, <1>2 DEF All
  <2> QED BY <2>1, EmptyLists
<1>8. Good(shops, All)
  BY <1>4, <1>5, <1>6, <1>7 DEF Good
<1>9. ShopsTypeOK
  <2>1. talks \in 0 .. MaxTalks /\ misused \in BOOLEAN
    <3>1. misused \in BOOLEAN
      BY <1>2
    <3>2. talks = 0 /\ MaxTalks \in Nat
      BY <1>2, ShopsAssumption
    <3>3. talks \in 0 .. MaxTalks
      BY <3>2
    <3> QED BY <3>1, <3>3
  <2>2. visitors \subseteq Buyers /\ inView \subseteq Npcs \X visitors /\ strayed \subseteq Npcs \X Buyers
    BY <1>2
  <2> QED BY <1>4, <2>1, <2>2 DEF ShopsTypeOK
<1>10. ShopsInSight
  BY <1>2 DEF ShopsInSight, Shoppers
<1> QED BY <1>2, <1>8, <1>9, <1>10 DEF ShopsKept

\* Whoever enters, leaves, walks, talks, buys or is taken off the map, and whatever the scripts
\* answer: windows are known on both sides, functions are held once and never called after they
\* are given back, and nobody has two conversations or waits outside the queue.
THEOREM ShopsStayInAgreement == ShopsSpec => []ShopsAgree
<1>1. ShopsInit => ShopsKept
  BY ShopsStart
<1>2. ShopsKept /\ [ShopsNext]_shopVars => ShopsKept'
  BY NextKeeps
<1>3. ShopsKept => ShopsAgree
  BY ShopsKeptSays
<1> QED BY <1>1, <1>2, <1>3, PTL DEF ShopsSpec
=============================================================================
