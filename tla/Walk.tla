-------------------------------- MODULE Walk --------------------------------
(***************************************************************************)
(* The walk of one creature (source/creature.cpp, monster.cpp, player.cpp) *)
(* and the requests of a player that wait for it (source/game.cpp).        *)
(*                                                                         *)
(* A walk is a list of directions and one event of the scheduler, known by *)
(* its id in eventWalk, that takes a step and adds itself anew.  A player  *)
(* who asks for something out of reach is sent walking; the request waits  *)
(* in walkTask until the list is empty, then 400 ms in the scheduler.  One *)
(* who is exhausted waits in the scheduler.  stopEvent cannot recall what  *)
(* is a task of the dispatcher already.  A creature that follows another   *)
(* asks for a path when it turns to it, when it thinks and, by a task,     *)
(* after either has moved; the path replaces whatever walk there was.      *)
(*                                                                         *)
(* Abstractions.  The ground is a line and requests are for what lies at   *)
(* its end, `away' steps off.  Whom a creature follows and where that is   *)
(* are not kept, so any path may be the one there.  Of time, only the      *)
(* order is kept: any event may be the next, a creature may think at any   *)
(* moment, and of those thoughts any may look for the path (isUpdatingPath *)
(* and its ticks).  Summons, death, drunkenness, setNoMove, the teleport   *)
(* of a gamemaster and what scripts do in the middle of a step are left    *)
(* out.                                                                    *)
(***************************************************************************)
EXTENDS Integers, Sequences, FiniteSets, SequencesExt, FiniteSetsExt

CONSTANTS
  Requests,       \* what the player asks for, each once: <<handler, n>>
  NoRequest,
  MaxAway,        \* BOUND: the length of the ground
  MaxInputs,      \* BOUND: how often anyone asks something of it
  WalkIds         \* ids of events, given again once nobody remembers them

Handlers == {"playerMoveItem", "playerMoveCreature", "playerUseItem", "playerUseItemEx",
             "playerUseBattleWindow", "playerRotateItem", "playerRequestTrade"}

ASSUME WalkAssumption ==
  /\ MaxAway \in Nat /\ MaxInputs \in Nat
  /\ WalkIds \subseteq Nat \ {0}
  /\ \A r \in Requests : r[1] \in Handlers
  /\ NoRequest \notin Requests

VARIABLES
  creature,       \* the fields of Creature, Monster and Player the walk uses
  timers,         \* its events in the scheduler
  tasks,          \* its tasks in the queue of the dispatcher, in order
  asked, done,    \* requests made, requests carried out
  slowed,         \* history: setSpeed has stopped it
  inputs          \* BOUND: what players and the world have asked of it so far

walkVars == <<creature, timers, tasks, asked, done, slowed, inputs>>

WalkerKinds == {"player", "monster"}
Steps == {-1, 1}

\* The paths getPathToEx may find to whom the creature follows.
Paths == {<<>>} \cup {<<d>> : d \in Steps} \cup {<<-1, -1>>}

WalkInit ==
  /\ creature \in [kind : WalkerKinds, listWalkDir : {<<>>}, cancelNextWalk : {FALSE},
                   eventWalk : {0}, fast : {TRUE}, isIdle : {FALSE}, resting : {FALSE},
                   following : {FALSE}, hasFollowPath : {FALSE}, away : 0..MaxAway,
                   walkTask : {NoRequest}, walkTaskEvent : {0}, actionTaskEvent : {0},
                   exhausted : {FALSE}]
  /\ timers = {}
  /\ tasks = <<>>
  /\ asked = {}
  /\ done = {}
  /\ slowed = FALSE
  /\ inputs = 0

\* The state as the calls below pass it on.
Before == [c |-> creature, timers |-> timers, tasks |-> tasks]
After(s) == creature' = s.c /\ timers' = s.timers /\ tasks' = s.tasks

Step == [what |-> "step"]
Act(r, delay) == [what |-> "act", request |-> r, delay |-> delay]
AutoWalk(path) == [what |-> "autowalk", path |-> path]
GoToFollow == [what |-> "follow"]                  \* Game::updateCreatureWalk
Send(s, task) == [s EXCEPT !.tasks = Append(@, task)]

-----------------------------------------------------------------------------
(* Events.                                                                 *)

Known(s) == {t.id : t \in s.timers}
              \cup {s.c.eventWalk, s.c.walkTaskEvent, s.c.actionTaskEvent}
NewId(s) == Min(WalkIds \ Known(s))
addEvent(s, task) == [s EXCEPT !.timers = @ \cup {[id |-> NewId(s), task |-> task]}]
stopEvent(s, id) == [s EXCEPT !.timers = {t \in @ : t.id # id}]

setNextActionTask(s, r, delay) ==
  LET v == [stopEvent(s, s.c.actionTaskEvent) EXCEPT !.c.actionTaskEvent = 0]
  IN  IF r = NoRequest THEN v
      ELSE [addEvent(v, Act(r, delay)) EXCEPT !.c.actionTaskEvent = NewId(v)]

setNextWalkActionTask(s, r) ==
  [stopEvent(s, s.c.walkTaskEvent) EXCEPT !.c.walkTaskEvent = 0, !.c.walkTask = r]

Mutant_onWalkComplete(s) ==             \* walkTask keeps the task of the event
  IF s.c.walkTask = NoRequest THEN s
  ELSE [addEvent(s, Act(s.c.walkTask, TRUE)) EXCEPT !.c.walkTaskEvent = NewId(s)]
onWalkComplete(s) ==
  IF s.c.walkTask = NoRequest THEN s
  ELSE [addEvent(s, Act(s.c.walkTask, TRUE))
          EXCEPT !.c.walkTaskEvent = NewId(s), !.c.walkTask = NoRequest]

onWalkAborted(s) == IF s.c.kind = "player" THEN setNextWalkActionTask(s, NoRequest) ELSE s

-----------------------------------------------------------------------------
(* The walk.                                                               *)

Mutant_stopEventWalk(s) == stopEvent(s, s.c.eventWalk)      \* the id is kept
stopEventWalk(s) == [stopEvent(s, s.c.eventWalk) EXCEPT !.c.eventWalk = 0]

\* The event that takes the next step is added, whatever eventWalk was.
AnotherStep(s) == [addEvent(s, Step) EXCEPT !.c.eventWalk = NewId(s)]

addEventWalk(s) ==
  LET v == [s EXCEPT !.c.cancelNextWalk = FALSE]
  IN  IF ~ s.c.fast \/ s.c.eventWalk # 0 THEN v ELSE AnotherStep(v)

\* A monster without a path to follow goes where it likes and leaves the list alone.
Wanders(c) == c.kind = "monster" /\ ~ (c.following /\ c.hasFollowPath)

\* Where getNextStep may lead, 0 being nowhere; a monster at the end of a path may dance.
NextSteps(c) ==
  IF c.isIdle THEN {0}
  ELSE IF c.listWalkDir # <<>> /\ ~ Wanders(c) THEN {Head(c.listWalkDir)}
  ELSE IF c.kind = "monster" THEN Steps \cup {0}
  ELSE {0}

\* setFollowCreature of nobody, or of one out of sight; where a script denies a player
\* whom he would follow, it ends like this too.  The walk is the next onWalk's to end.
StopFollowing(s) ==
  [s EXCEPT !.c.following = FALSE, !.c.cancelNextWalk = @ \/ s.c.kind = "player"]

\* Told that it has moved itself, or whom it follows has.
onCreatureMove(s, lost) ==
  LET v == IF s.c.hasFollowPath THEN Send(s, GoToFollow) ELSE s
  IN  IF ~ s.c.following THEN s ELSE IF lost THEN StopFollowing(v) ELSE v

\* What may come of a step: something is in the way, or the creature moves and may lose
\* sight of whom it follows.  Likewise each of the calls below has a set of results.
TakeStep(s, d) ==
  LET v == [s EXCEPT !.c.listWalkDir = IF Wanders(s.c) \/ @ = <<>> THEN @ ELSE Tail(@)]
      freed == IF s.c.kind = "player" THEN setNextActionTask(v, NoRequest, FALSE) ELSE v
      moved == [freed EXCEPT !.c.resting = TRUE, !.c.away = Max({0, Min({MaxAway, @ + d})})]
  IN  {freed} \cup {onCreatureMove(moved, lost) : lost \in BOOLEAN}

Mutant_StopWalking(s) == stopEventWalk(s)       \* the end of the walk goes unnoticed
\* A monster that nobody watches forgets its event.
StopWalking(s) ==
  LET v == IF s.c.isIdle THEN [s EXCEPT !.c.eventWalk = 0] ELSE s
  IN  stopEventWalk(IF s.c.listWalkDir = <<>> THEN onWalkComplete(v) ELSE v)

Halted(s) ==
  IF ~ s.c.cancelNextWalk THEN s
  ELSE onWalkAborted([s EXCEPT !.c.cancelNextWalk = FALSE, !.c.listWalkDir = <<>>])

GoesOn(s) == IF s.c.eventWalk = 0 THEN s ELSE addEventWalk([s EXCEPT !.c.eventWalk = 0])

onWalk(s) ==
  LET Stepped == IF s.c.resting THEN {s}
                 ELSE UNION {IF d = 0 THEN {StopWalking(s)} ELSE TakeStep(s, d) :
                               d \in NextSteps(s.c)}
  IN  {GoesOn(v) : v \in {Halted(v) : v \in Stepped}}

\* A single step, without a delay to wait for, is taken at once.
startAutoWalk(s, path) ==
  LET v == [s EXCEPT !.c.listWalkDir = path]
  IN  IF Len(path) = 1 /\ ~ s.c.resting /\ s.c.fast /\ s.c.eventWalk = 0
      THEN {AnotherStep(u) : u \in onWalk([v EXCEPT !.c.cancelNextWalk = FALSE])}
      ELSE {addEventWalk(v)}

\* Creature::goToFollowCreature, for players too: creature.h:280 does not make it virtual
\* and both calls of it (creature.cpp:214, game.cpp:4301) are made on a Creature, so
\* Player::goToFollowCreature, which spares a walk a request waits for, is never called.
goToFollowCreature(s) ==
  IF ~ s.c.following THEN {s}
  ELSE {[s EXCEPT !.c.hasFollowPath = FALSE, !.c.listWalkDir = <<>>]}
         \cup UNION {startAutoWalk([s EXCEPT !.c.hasFollowPath = TRUE], path) : path \in Paths}

\* setFollowCreature of another in sight: the walk is given up and, in the same call,
\* the one to follow him begins.
setFollowCreature(s) ==
  LET v == IF s.c.listWalkDir = <<>> THEN s ELSE onWalkAborted([s EXCEPT !.c.listWalkDir = <<>>])
  IN  goToFollowCreature([v EXCEPT !.c.following = TRUE, !.c.hasFollowPath = FALSE])

-----------------------------------------------------------------------------
(* The requests of a player.                                               *)

UsesThings(r) == r[1] \in {"playerUseItem", "playerUseItemEx", "playerUseBattleWindow"}
TurnsThings(r) == r[1] \in {"playerRotateItem", "playerRequestTrade"}

Way(s) == [i \in 1..s.c.away |-> -1]

\* Out of reach: the walk is left to a task of its own; with no way there,
\* the request is dropped.
WalkThere(s, r) == {setNextWalkActionTask(Send(s, AutoWalk(Way(s))), r), s}

\* useItem stops the walk; what the player does exhausts him.
CarryOut(s, r) ==
  [s EXCEPT !.c.exhausted = @ \/ ~ TurnsThings(r),
            !.c.cancelNextWalk = @ \/ UsesThings(r)]

\* What becomes of a request, and whether it is carried out.
PutOff(S) == {[s |-> v, carried |-> FALSE] : v \in S}
Done(s, r) == {[s |-> CarryOut(s, r), carried |-> TRUE]}
Later(s, r) == PutOff({setNextActionTask(s, r, TRUE)})
Freed(s) == setNextActionTask(s, NoRequest, FALSE)

MoveItem(s, r) ==
  IF s.c.exhausted THEN Later(s, r)
  ELSE IF s.c.away > 0 THEN PutOff(WalkThere(Freed(s), r))
  ELSE Done(Freed(s), r)

\* A creature is pushed after a moment, so that it may get away.
MoveCreature(s, r, delay) ==
  IF s.c.exhausted THEN Later(s, r)
  ELSE IF s.c.away > 0 THEN PutOff(WalkThere(Freed(s), r))
  ELSE IF delay THEN PutOff({setNextActionTask(Freed(s), r, FALSE)})
  ELSE Done(Freed(s), r)

UseThing(s, r) ==
  IF s.c.away > 0 THEN PutOff(WalkThere(s, r))
  ELSE IF s.c.exhausted THEN Later(s, r)
  ELSE Done(Freed(s), r)

TurnThing(s, r) == IF s.c.away > 0 THEN PutOff(WalkThere(s, r)) ELSE Done(s, r)

Served(s, r, delay) ==
  CASE r[1] = "playerMoveItem" -> MoveItem(s, r)
    [] r[1] = "playerMoveCreature" -> MoveCreature(s, r, delay)
    [] UsesThings(r) -> UseThing(s, r)
    [] TurnsThings(r) -> TurnThing(s, r)

Serve(s, r, delay) ==
  \E o \in Served(s, r, delay) :
    /\ After(o.s)
    /\ done' = IF o.carried THEN done \cup {r} ELSE done

-----------------------------------------------------------------------------
(* What the creature does.                                                 *)

Request(r) ==
  /\ creature.kind = "player"
  /\ r \notin asked
  /\ asked' = asked \cup {r}
  /\ inputs < MaxInputs /\ inputs' = inputs + 1
  /\ Serve(Before, r, TRUE)
  /\ UNCHANGED slowed

Interferes ==
  /\ inputs < MaxInputs
  /\ inputs' = inputs + 1
  /\ slowed' = (slowed \/ ~ creature'.fast)
  /\ UNCHANGED <<asked, done>>

playerMove(d) ==
  /\ creature.kind = "player"
  /\ \E s \in startAutoWalk(Before, <<d>>) : After(s)
  /\ Interferes

playerStopAutoWalk ==
  /\ creature.kind = "player"
  /\ After([Before EXCEPT !.c.cancelNextWalk = TRUE])
  /\ Interferes

\* setSpeed below one: conditions and scripts may stop a creature for a while.
SlowDown ==
  /\ creature.fast
  /\ After([stopEventWalk(Before) EXCEPT !.c.fast = FALSE, !.c.cancelNextWalk = TRUE])
  /\ Interferes

SpeedUp ==
  /\ ~ creature.fast
  /\ LET s == [Before EXCEPT !.c.fast = TRUE]
     IN  After(IF s.c.listWalkDir # <<>> THEN addEventWalk(s) ELSE s)
  /\ UNCHANGED <<asked, done, slowed, inputs>>

\* Game::playerFollowCreature: whoever is attacked no more is not followed either; the task
\* is queued before the creature, if any, is followed.
WalkFollow ==
  /\ creature.kind = "player"
  /\ LET s == Send(StopFollowing(Before), GoToFollow)
     IN  \E v \in {s} \cup setFollowCreature(s) : After(v)
  /\ Interferes

\* Game::playerSetAttackedCreature: the target is out of sight or followed already; fought
\* without a chase; chased.
WalkAttack ==
  /\ creature.kind = "player"
  /\ \E s \in {Before, StopFollowing(Before)} \cup setFollowCreature(Before) : After(Send(s, GoToFollow))
  /\ Interferes

\* Other calls: the chase mode changes, a target is lost, attacked no more or selected, a
\* script of an NPC.
FollowsAnother ==
  /\ \E s \in {StopFollowing(Before)} \cup setFollowCreature(Before) : After(s)
  /\ Interferes

FollowedMoves(lost) ==
  /\ creature.following
  /\ After(onCreatureMove(Before, lost))
  /\ Interferes

\* Creature::onThink: whom it follows has vanished, or a path to him is looked for anew.
Thoughts(s) ==
  IF ~ s.c.following THEN {s}
  ELSE {s, StopFollowing(s)} \cup goToFollowCreature(s)

\* A monster with targets in sight goes on walking and may select another target.
Hunts(s) ==
  LET v == addEventWalk(s) IN {v} \cup setFollowCreature(v)

onThink ==
  /\ ~ creature.isIdle
  /\ \E s \in Thoughts(Before) :
        \/ creature.kind = "player" /\ After(s)
        \/ creature.kind = "monster" /\ After([s EXCEPT !.c.isIdle = TRUE])
        \/ creature.kind = "monster" /\ \E v \in Hunts(s) : After(v)
  /\ UNCHANGED <<asked, done, slowed, inputs>>

updateIdleStatus ==
  /\ creature.kind = "monster"
  /\ After([Before EXCEPT !.c.isIdle = ~ @])
  /\ Interferes

-----------------------------------------------------------------------------
(* The scheduler hands over an event; the dispatcher runs a task.          *)

EventDue(t) ==
  /\ t \in timers
  /\ timers' = timers \ {t}
  /\ tasks' = Append(tasks, t.task)
  /\ UNCHANGED <<creature, asked, done, slowed, inputs>>

RunTask ==
  /\ tasks # <<>>
  /\ UNCHANGED <<asked, slowed, inputs>>
  /\ LET t == Head(tasks)
         s == [Before EXCEPT !.tasks = Tail(@)]
     IN  \/ t.what = "act" /\ Serve(s, t.request, t.delay)
         \/ /\ t.what # "act" /\ UNCHANGED done
            /\ \E v \in CASE t.what = "step" -> onWalk(s)
                         [] t.what = "autowalk" -> startAutoWalk(s, t.path)
                         [] t.what = "follow" -> goToFollowCreature(s) : After(v)

\* Time: the last step is over, or the exhaustion.
Rested ==
  /\ creature.resting
  /\ creature' = [creature EXCEPT !.resting = FALSE]
  /\ UNCHANGED <<timers, tasks, asked, done, slowed, inputs>>

Recovered ==
  /\ creature.exhausted
  /\ creature' = [creature EXCEPT !.exhausted = FALSE]
  /\ UNCHANGED <<timers, tasks, asked, done, slowed, inputs>>

WalkNext ==
  \/ \E r \in Requests : Request(r)
  \/ \E d \in Steps : playerMove(d)
  \/ playerStopAutoWalk \/ SlowDown \/ SpeedUp \/ onThink \/ updateIdleStatus
  \/ WalkFollow \/ WalkAttack \/ FollowsAnother
  \/ \E lost \in BOOLEAN : FollowedMoves(lost)
  \/ \E t \in timers : EventDue(t)
  \/ RunTask \/ Rested \/ Recovered

WalkSpec == WalkInit /\ [][WalkNext]_walkVars

\* Events come due, the dispatcher works, steps and exhaustion last their time,
\* and what keeps a creature from moving at all wears off.
WalkFairness ==
  /\ \A i \in WalkIds : WF_walkVars(\E t \in timers : t.id = i /\ EventDue(t))
  /\ WF_walkVars(RunTask)
  /\ WF_walkVars(Rested) /\ WF_walkVars(Recovered) /\ WF_walkVars(SpeedUp)

-----------------------------------------------------------------------------
(* Properties.                                                             *)

Requested == Requests \cup {NoRequest}
EventTasks == {Step} \cup [what : {"act"}, request : Requests, delay : BOOLEAN]

WalkTypeOK ==
  /\ creature.kind \in WalkerKinds
  /\ creature.listWalkDir \in Seq(Steps)
  /\ {creature.cancelNextWalk, creature.fast, creature.isIdle,
      creature.resting, creature.exhausted,
      creature.following, creature.hasFollowPath} \subseteq BOOLEAN
  /\ {creature.eventWalk, creature.walkTaskEvent, creature.actionTaskEvent}
       \subseteq WalkIds \cup {0}
  /\ creature.away \in 0..MaxAway
  /\ creature.walkTask \in Requested
  /\ timers \subseteq [id : WalkIds, task : EventTasks]
  /\ \A i \in DOMAIN tasks : tasks[i].what \in {"step", "act", "autowalk", "follow"}
  /\ done \subseteq asked /\ asked \subseteq Requests
  /\ inputs \in 0..MaxInputs

Queued(task) == \E i \in DOMAIN tasks : tasks[i] = task

\* A creature is never paralysed: as long as eventWalk says that a step is to
\* come, one is, in the scheduler or in the dispatcher.  addEventWalk, which adds
\* none while it is set, relies on it.
NotParalysed ==
  creature.eventWalk # 0 => (\E t \in timers : t.task = Step) \/ Queued(Step)

\* Where a request is.
Places(r) ==
  Cardinality({t \in timers : t.task \in {Act(r, TRUE), Act(r, FALSE)}})
    + Cardinality({i \in DOMAIN tasks : tasks[i] \in {Act(r, TRUE), Act(r, FALSE)}})
    + (IF creature.walkTask = r THEN 1 ELSE 0)

\* However a request is put off, stopped and taken up again, it is in one place, so
\* its task is deleted once, and it is carried out once at most.
RequestsHaveOnePlace ==
  \A r \in Requests : Places(r) <= (IF r \in done THEN 0 ELSE 1)

\* A request that waits for a walk has one: the next step is to come or the walk is about
\* to begin.  Not so once setSpeed has stopped the creature: at the end of a walk it drops
\* the event that would have noticed, and adds one again only for directions that are left.
RequestsHaveAWalk ==
  creature.walkTask # NoRequest =>
    slowed \/ creature.eventWalk # 0 \/ \E i \in DOMAIN tasks : tasks[i].what = "autowalk"

\* And it does not wait for ever: the walk ends and it is taken up, or it is given up,
\* unless its player goes on asking (MaxInputs).  Not so for one who follows another: the
\* path there takes the place of the walk whenever he thinks or either of them has moved.
WalksEnd ==
  (creature.walkTask # NoRequest)
    ~> (creature.walkTask = NoRequest \/ slowed \/ creature.following)

\* No walk stands still for ever and no request is lost, deleted or carried out twice.
WalkSound == WalkTypeOK /\ NotParalysed /\ RequestsHaveOnePlace /\ RequestsHaveAWalk
=============================================================================
