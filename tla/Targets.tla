------------------------------- MODULE Targets -------------------------------
(***************************************************************************)
(* Who attacks, follows and remembers whom (source/monster.cpp,            *)
(* creature.cpp, player.cpp, game.cpp).                                    *)
(*                                                                         *)
(* A monster keeps the opponents it has met in a list and sleeps while the *)
(* list is empty, a summon while its master is out of sight.  Nobody looks *)
(* again later: all of it hangs on every appearance, step, conviction and  *)
(* departure being told to those around, in the order they stand in.  Whom *)
(* a creature attacks or follows is a bare pointer.                        *)
(*                                                                         *)
(* Abstractions.  A spot stands for the positions from which the same is   *)
(* seen.  Why somebody may not be a target just now (unseen, in a          *)
(* protection zone, refused by a script) and whether there is a way to     *)
(* somebody followed is chosen freely.  Monsters are hostile, and have no  *)
(* condition that keeps them awake; summons are not teleported.  Friends,  *)
(* which decide nothing here, are left out, and so is what happens to the  *)
(* lists of those who have left.  Players keep their client.               *)
(***************************************************************************)
EXTENDS Integers, Sequences, FiniteSets, SequencesExt

CONSTANTS
  Fighters, Foes, \* players and monsters
  NoFoe,
  Spots, NoSpot,
  Level,          \* the floor of a spot
  InSight,        \* <<a, b>>: a monster at a sees b,
  OnScreen,       \* a player does,
  Around,         \* who is at b is told what happens at a: Map::getSpectators
  TooFar,         \* a summon at b is left behind by a master at a
  Orders,         \* those around may be told in these orders
  MaxTurns        \* BOUND

Fray == Fighters \cup Foes

ASSUME TargetsAssumption ==
  /\ Fighters \cap Foes = {} /\ NoFoe \notin Fray /\ NoSpot \notin Spots
  /\ Level \in [Spots -> Int]
  /\ {InSight, OnScreen, Around, TooFar} \subseteq SUBSET (Spots \X Spots)
  /\ OnScreen \subseteq InSight /\ \A p \in Spots : <<p, p>> \in OnScreen
  /\ \A p \in InSight : <<p[2], p[1]>> \in Around
  /\ Orders # {} /\ \A o \in Orders : ToSet(o) = Fray /\ Len(o) = Cardinality(Fray)
  /\ MaxTurns \in Nat

VARIABLES
  fray,           \* what each is at
  overdue,        \* history: listed though no list was told: see Settle
  turns           \* BOUND

targetVars == <<fray, overdue, turns>>

\* near: isMasterInRange.  chase: chaseMode is CHASEMODE_FOLLOW.
Unmade == [spot |-> NoSpot, gone |-> FALSE, healthy |-> FALSE, master |-> NoFoe, attacked |-> NoFoe,
           follow |-> NoFoe, targets |-> {}, asleep |-> FALSE, near |-> FALSE, chase |-> FALSE]
FrayType == [spot : Spots \cup {NoSpot}, gone : BOOLEAN, healthy : BOOLEAN,
             master : Fray \cup {NoFoe}, attacked : Fray \cup {NoFoe}, follow : Fray \cup {NoFoe},
             targets : SUBSET Fray, asleep : BOOLEAN, near : BOOLEAN, chase : BOOLEAN]

Alive(w, c) == w[c].spot # NoSpot /\ ~ w[c].gone
Sees(w, c, p) == <<w[c].spot, p>> \in (IF c \in Fighters THEN OnScreen ELSE InSight)
SummonsOf(w, c) == {s \in Foes : w[s].master = c /\ ~ w[s].gone}
\* Those told of what happens at the spots ps.
Told(w, ps, o) == SelectSeq(o, LAMBDA c : Alive(w, c) /\ \E p \in ps : <<p, w[c].spot>> \in Around)

isOpponent(w, m, c) ==
  \/ w[m].master \in Fighters /\ c # w[m].master
  \/ c \in Fighters
  \/ w[c].master \in Fighters

-----------------------------------------------------------------------------
(* Asleep or awake; the list.                                              *)

SetIdle(w, m, idle) ==
  IF w[m].gone \/ ~ w[m].healthy THEN w
  ELSE [w EXCEPT ![m].asleep = idle, ![m].targets = IF idle THEN {} ELSE @]

UpdateIdle(w, m) ==
  SetIdle(w, m, IF w[m].master = NoFoe THEN w[m].targets = {}
                ELSE \/ ~ w[m].near
                     \/ w[m].master \in Foes /\ w[w[m].master].asleep)

\* Everybody in sight is found again; to be told of one's idleness in between makes no odds.
UpdateTargetList(w, m) ==
  LET seen == {c \in Fray : Sees(w, m, w[c].spot)}
  IN  UpdateIdle([w EXCEPT ![m].targets =
        {t \in @ \cap seen : w[t].healthy}
        \cup {c \in seen \ {m} : Alive(w, c) /\ isOpponent(w, m, c)}], m)

OnCreatureFound(w, m, c) ==
  UpdateIdle(IF isOpponent(w, m, c) THEN [w EXCEPT ![m].targets = @ \cup {c}] ELSE w, m)

OnCreatureEnter(w, m, c) ==
  OnCreatureFound(IF w[m].master = c THEN [w EXCEPT ![m].near = TRUE] ELSE w, m, c)

StruckOff(w, m, c) ==
  LET v == [w EXCEPT ![m].targets = @ \ {c}]
  IN  IF ~ isOpponent(w, m, c) \/ c \notin w[m].targets THEN w
      ELSE IF v[m].targets = {} THEN UpdateIdle(v, m) ELSE v
OnCreatureLeave(w, m, c) ==
  StruckOff(IF w[m].master = c THEN UpdateIdle([w EXCEPT ![m].near = FALSE], m) ELSE w, m, c)

-----------------------------------------------------------------------------
(* Attacking and following.                                                *)

InReach(w, c, t) == Level[w[t].spot] = Level[w[c].spot] /\ Sees(w, c, w[t].spot)

\* Creature's; a summon that finds no way forgets whom it was to follow.
FollowBy(w, c, t, stuck) ==
  LET v == [w EXCEPT ![c].follow = t]
  IN  IF t = w[c].follow /\ t # NoFoe THEN w
      ELSE IF t # NoFoe /\ ~ InReach(w, c, t) THEN [w EXCEPT ![c].follow = NoFoe]
      ELSE IF stuck /\ w[c].healthy /\ w[c].master # NoFoe THEN [v EXCEPT ![c].targets = @ \ {t}]
      ELSE v

AttackBy(w, c, t) ==
  [w EXCEPT ![c].attacked = IF t # NoFoe /\ ~ InReach(w, c, t) THEN NoFoe ELSE t]

\* Whom the master attacks its summons do, if they see it; one out of reach they are not told of.
Attack(w, c, t) ==
  LET led(v) == FoldLeft(LAMBDA x, s : AttackBy(x, s, t), v, SetToSeq(SummonsOf(w, c)))
      after(v) == IF v[c].attacked # t THEN v
                  ELSE IF c \in Foes THEN led(v)
                  ELSE FollowBy(led(v), c, IF w[c].chase THEN t ELSE NoFoe, FALSE)
  IN  after(AttackBy(w, c, t))

\* Player's: with no way to follow there is nobody to attack either.
Follow(w, c, t) ==
  LET v == FollowBy(w, c, t, FALSE)
  IN  IF c \in Foes \/ v[c].follow = t THEN v ELSE Attack(v, c, NoFoe)

Mutant_InternalDisappear(w, c, t) ==    \* whom it follows stays
  IF w[c].attacked = t THEN Attack(w, c, NoFoe) ELSE w
InternalDisappear(w, c, t) ==
  LET after(v) == IF v[c].follow = t THEN Follow(v, c, NoFoe) ELSE v
  IN  after(IF w[c].attacked = t THEN Attack(w, c, NoFoe) ELSE w)

SelectTarget(w, m, t) ==
  IF t \notin w[m].targets \/ w[t].gone \/ Level[w[t].spot] # Level[w[m].spot] THEN w
  ELSE FollowBy(Attack(w, m, t), m, t, FALSE)

-----------------------------------------------------------------------------
(* Coming and going.                                                       *)

Appears(w, d, c) ==
  IF d \in Fighters THEN w
  ELSE IF d # c THEN OnCreatureEnter(w, d, c)
  ELSE UpdateTargetList(IF w[d].master = NoFoe THEN w
                        ELSE [w EXCEPT ![d].near = Sees(w, d, w[w[d].master].spot)], d)

PlaceCreature(w, c, p, o) ==
  LET v == [w EXCEPT ![c].spot = p, ![c].healthy = TRUE]
  IN  FoldLeft(LAMBDA x, d : Appears(x, d, c), v, Told(v, {p}, o))

Disappears(w, d, c) ==
  LET after(v) == IF d \in Fighters THEN v
                  ELSE IF d = c THEN SetIdle(v, d, TRUE)
                  ELSE OnCreatureLeave(v, d, c)
  IN  after(InternalDisappear(w, d, c))

\* Everybody around is told first; a master that is still there lets its summon go.
LeaveAlone(w, c, o) ==
  LET after(v) ==
        LET m == v[c].master
        IN  [v EXCEPT ![c] =
              [Unmade EXCEPT !.spot = v[c].spot, !.healthy = v[c].healthy, !.gone = TRUE,
                             !.master = IF m # NoFoe /\ ~ v[m].gone THEN NoFoe ELSE m]]
  IN  after(FoldLeft(LAMBDA x, d : Disappears(x, d, c), w, Told(w, {w[c].spot}, o)))
RemoveCreature(w, c, o) ==
  LET after(v) == FoldLeft(LAMBDA x, s : LeaveAlone(x, s, o), v, SetToSeq(SummonsOf(v, c)))
  IN  after(LeaveAlone(w, c, o))

DestroySummons(w, m) ==
  LET kill(v, s) == [SetIdle(AttackBy(v, s, NoFoe), s, FALSE) EXCEPT ![s].healthy = FALSE,
                                                                     ![s].master = NoFoe]
  IN  FoldLeft(kill, w, SetToSeq(SummonsOf(w, m)))

\* A summon is nobody's any more before anyone around hears of its death.
OnDeath(w, c, o) ==
  LET v == [w EXCEPT ![c].master = NoFoe]
      u == DestroySummons(v, c)
  IN  RemoveCreature(IF c \in Fighters THEN v
                     ELSE Attack([u EXCEPT ![c].targets = {}], c, NoFoe), c, o)

-----------------------------------------------------------------------------
(* A step, as those around see it.                                         *)

LeftBehind(w, c, o) ==
  FoldLeft(LAMBDA x, s : RemoveCreature(x, s, o), w,
           SetToSeq({s \in SummonsOf(w, c) : <<w[c].spot, w[s].spot>> \in TooFar}))

\* Whom d follows or attacks is lost to it: by a step of its own or of theirs.
LosesSight(w, d, c, from) ==
  LET lost(x, t) == /\ t # NoFoe /\ c \in {d, t}
                    /\ Level[from] # Level[x[c].spot] \/ ~ Sees(x, d, x[t].spot)
      after(v) == IF lost(v, v[d].attacked) THEN InternalDisappear(v, d, v[d].attacked) ELSE v
  IN  after(IF lost(w, w[d].follow) THEN InternalDisappear(w, d, w[d].follow) ELSE w)

StepSeen(w, d, c, from, shy) ==
  LET sees == Sees(w, d, w[c].spot)
      saw == Sees(w, d, from)
      met(v) == IF sees /\ ~ saw THEN OnCreatureEnter(v, d, c)
                ELSE IF saw /\ ~ sees THEN OnCreatureLeave(v, d, c)
                ELSE v
      near(v) == UpdateIdle(IF v[d].master = c /\ sees THEN [v EXCEPT ![d].near = TRUE] ELSE v, d)
      strikes(v) == IF v[d].follow = NoFoe /\ v[d].master = NoFoe /\ isOpponent(v, d, c) /\ ~ shy
                    THEN SelectTarget(v, d, c) ELSE v
      after(v) == IF w[d].gone \/ d \in Fighters THEN v ELSE strikes(near(met(v)))
  IN  after(LosesSight(w, d, c, from))

OwnStep(w, c, from, o) ==
  LET after(v) ==
        IF c \in Fighters THEN v
        ELSE UpdateTargetList(IF v[c].master = NoFoe THEN v
                              ELSE [v EXCEPT ![c].near = Sees(v, c, v[v[c].master].spot)], c)
  IN  after(LosesSight(LeftBehind(w, c, o), c, c, from))

MoveTold(w, c, to, o, shy) ==
  LET from == w[c].spot
  IN  FoldLeft(LAMBDA x, d : IF d = c THEN OwnStep(x, c, from, o) ELSE StepSeen(x, d, c, from, shy),
               [w EXCEPT ![c].spot = to], Told(w, {from, to}, o))

-----------------------------------------------------------------------------
(* The tasks of the dispatcher.                                            *)

\* Nobody strikes from a list who has ceased to be an opponent, being nobody's any more, or who
\* appeared where it was heard of, but not seen.
Settle(w) ==
  /\ fray' = w
  /\ overdue' = {p \in Fray \X Fray :
       LET c == p[2] IN
       /\ c \in w[p[1]].targets
       /\ \/ p \in overdue
          \/ fray[c].master \in Fighters /\ w[c].master = NoFoe
          \/ fray[c].spot = NoSpot /\ ~ Sees(w, p[1], w[c].spot)}
Turn == turns < MaxTurns /\ turns' = turns + 1

\* A player logs in, a monster is placed by its spawn or a script.
Arrive(c) ==
  /\ Turn /\ fray[c] = Unmade
  /\ \E p \in Spots, o \in Orders : Settle(PlaceCreature(fray, c, p, o))

\* placeSummon, for a player or a monster.
Summoned(w, m, s, o) == PlaceCreature([w EXCEPT ![s].master = m], s, w[m].spot, o)
CallSummon(h, s) ==
  /\ Turn /\ Alive(fray, h) /\ fray[s] = Unmade
  /\ \E o \in Orders : Settle(Summoned(fray, h, s, o))

Depart(c) == Turn /\ Alive(fray, c) /\ \E o \in Orders : Settle(RemoveCreature(fray, c, o))

GoTo(c, to) ==
  /\ Turn /\ Alive(fray, c) /\ fray[c].healthy /\ fray[c].spot # to
  /\ \E o \in Orders, shy \in BOOLEAN : Settle(MoveTold(fray, c, to, o, shy))

\* changeHealth wakes a monster; the death is the next check's.
KillOff(c) ==
  /\ Turn /\ Alive(fray, c) /\ fray[c].healthy
  /\ Settle([IF c \in Foes THEN SetIdle(fray, c, FALSE) ELSE fray EXCEPT ![c].healthy = FALSE])

\* A player may die without leaving, and is healed then.
CheckDead(c) ==
  /\ Turn /\ Alive(fray, c) /\ ~ fray[c].healthy
  /\ \/ \E o \in Orders : Settle(OnDeath(fray, c, o))
     \/ c \in Fighters /\ Settle([fray EXCEPT ![c].healthy = TRUE])

\* Whom it may not see any more (its master apart) is lost to it.
Unseen(w, c) ==
  {w} \cup {InternalDisappear(w, c, t) : t \in {w[c].follow, w[c].attacked} \ {NoFoe, w[c].master}}

SummonThinks(w, m) ==
  LET boss == w[m].master
      aim == w[boss].attacked
  IN  IF w[m].attacked = NoFoe
      THEN IF aim # NoFoe THEN {w, SelectTarget(w, m, aim)}
           ELSE {FollowBy(w, m, boss, stuck) : stuck \in BOOLEAN}
      ELSE IF w[m].attacked = m THEN {FollowBy(w, m, NoFoe, FALSE)}
      ELSE {FollowBy(w, m, w[m].attacked, stuck) : stuck \in BOOLEAN}

\* It despawns, or looks for a target, or calls another.
WildThinks(w, m, o) ==
  {w, RemoveCreature(w, m, o)}
  \cup {SelectTarget(w, m, t) : t \in w[m].targets \ {w[m].follow}}
  \cup {Summoned(w, m, s, o) : s \in {x \in Foes : w[x] = Unmade /\ SummonsOf(w, m) = {}}}

Think(c) ==
  /\ Turn /\ Alive(fray, c) /\ fray[c].healthy
  /\ \E v \in Unseen(fray, c), o \in Orders :
       LET u == UpdateIdle(v, c)
       IN  IF c \in Fighters THEN Settle(v)
           ELSE IF u[c].asleep THEN Settle(u)
           ELSE \E x \in IF u[c].master = NoFoe THEN WildThinks(u, c, o) ELSE SummonThinks(u, c) :
                  Settle(x)

-----------------------------------------------------------------------------
(* What players ask for.                                                   *)

\* Nobody asked for, nobody of that name, or a target refused: nobody.
playerSetAttackedCreature(h, t) ==
  /\ Turn /\ Alive(fray, h) /\ t # h /\ (t # NoFoe => Alive(fray, t))
  /\ Settle(Attack(fray, h, t))

playerFollowCreature(h, t) ==
  /\ Turn /\ Alive(fray, h) /\ (t # NoFoe => Alive(fray, t))
  /\ Settle(Follow(Attack(fray, h, NoFoe), h, t))

setChaseMode(h) ==
  /\ Turn /\ Alive(fray, h)
  /\ LET v == [fray EXCEPT ![h].chase = ~ @]
     IN  Settle(IF v[h].attacked = NoFoe THEN v
                 ELSE IF ~ v[h].chase THEN Follow(v, h, NoFoe)
                 ELSE IF v[h].follow = NoFoe THEN Follow(v, h, v[h].attacked)
                 ELSE v)

\* The black skull.
TurnBlack(h) ==
  /\ Turn /\ Alive(fray, h)
  /\ Settle(DestroySummons(Attack(fray, h, NoFoe), h))

Mutant_OnConvinced(w, m) == UpdateIdle(w, m)
\* Of a monster convinced by a player every other is a friend or an opponent.
OnConvinced(w, m) == UpdateTargetList(w, m)

Convince(h, m) ==
  /\ Turn /\ Alive(fray, h) /\ Alive(fray, m) /\ fray[m].master \notin Fighters
  /\ \E o \in Orders :
       LET free == DestroySummons(
                     Attack(FollowBy([fray EXCEPT ![m].master = NoFoe], m, NoFoe, FALSE), m, NoFoe), m)
           after(v) == FoldLeft(LAMBDA x, d : IF d \in Foes THEN OnConvinced(x, d) ELSE x,
                                [v EXCEPT ![m].near = TRUE], Told(v, {v[m].spot, v[h].spot}, o))
       IN  Settle(after(UpdateTargetList([free EXCEPT ![m].master = h], m)))

TargetsInit ==
  /\ \E h \in Fighters, m \in Foes, p \in Spots, q \in Spots, o \in Orders :
       fray = PlaceCreature(PlaceCreature([c \in Fray |-> Unmade], m, p, o), h, q, o)
  /\ overdue = {p \in Fray \X Fray : /\ p[2] \in fray[p[1]].targets
                                     /\ ~ Sees(fray, p[1], fray[p[2]].spot)}
  /\ turns = 0

TargetsNext ==
  \/ \E c \in Fray : Arrive(c) \/ Depart(c) \/ KillOff(c) \/ CheckDead(c) \/ Think(c)
  \/ \E c \in Fray, to \in Spots : GoTo(c, to)
  \/ \E h \in Fighters :
       \/ \E t \in Fray \cup {NoFoe} : playerSetAttackedCreature(h, t) \/ playerFollowCreature(h, t)
       \/ setChaseMode(h) \/ TurnBlack(h)
       \/ \E m \in Foes : CallSummon(h, m) \/ Convince(h, m)

-----------------------------------------------------------------------------
(* Properties.                                                             *)

TargetsTypeOK ==
  /\ \A c \in Fray : fray[c] \in FrayType
  /\ overdue \in SUBSET (Fray \X Fray) /\ turns \in 0..MaxTurns

\* Whom a creature in the world attacks or follows is in the world, on its floor and in its
\* sight: the pointers never outlive what they point to, whatever order those around hear of
\* steps, deaths and departures in, and whatever the summons of those are told.
PointersHold ==
  \A c \in Fray : Alive(fray, c) =>
    \A t \in {fray[c].attacked, fray[c].follow} \ {NoFoe} :
      Alive(fray, t) /\ InReach(fray, c, t)

\* A monster that belongs to nobody is awake as long as an opponent is in sight, and knows all
\* of them; a player's summon is awake as long as its master is; and who is listed is an
\* opponent in sight, unless it ceased to be one in a way no list is told of.
ListsHold ==
  \A m \in Foes : Alive(fray, m) /\ fray[m].healthy =>
    LET opponents == {c \in Fray \ {m} : /\ Alive(fray, c) /\ isOpponent(fray, m, c)
                                         /\ Sees(fray, m, fray[c].spot)}
    IN  /\ fray[m].master = NoFoe =>
             opponents \subseteq fray[m].targets /\ (opponents # {} => ~ fray[m].asleep)
        /\ fray[m].master \in Fighters /\ Sees(fray, m, fray[fray[m].master].spot) =>
             fray[m].near /\ ~ fray[m].asleep
        /\ \A t \in fray[m].targets : t \in opponents \/ <<m, t>> \in overdue

TargetsHold == TargetsTypeOK /\ PointersHold /\ ListsHold
=============================================================================
