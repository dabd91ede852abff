-------------------------------- MODULE Decay --------------------------------
(***************************************************************************)
(* Items that decay (source/game.cpp, item.cpp, movement.cpp).             *)
(*                                                                         *)
(* An item that begins to decay is referenced from toDecayItems and, from  *)
(* the next cleanup on, from one of the buckets; checkDecay opens one      *)
(* bucket every second, charges the items in it for a whole round at once  *)
(* and puts those that have less left into the bucket of their hour.       *)
(* Meanwhile scripts move, transform and remove the items.                 *)
(*                                                                         *)
(* Abstractions.  Time in halves of EVENT_DECAYINTERVAL.  An item is in    *)
(* the world or not: where it is does not matter.  Transformations and     *)
(* removals succeed; items no decay touches (loaded from the map with an   *)
(* action) are left out, and so is what players see of it.                 *)
(***************************************************************************)
EXTENDS Integers, Sequences, FiniteSets, SequencesExt, FiniteSetsExt

CONSTANTS
  DecayThings,    \* the objects; free again once deleted
  NoItem,
  ItemTypes,          \* item types
  DecayTo,        \* [ItemTypes -> ItemTypes \cup {Gone, Never}]
  DecayTime,      \* [ItemTypes -> Nat], in half intervals, 0 for none
  StopTime,       \* kinds that keep their time
  Class,          \* [ItemTypes -> {"top", ...}]: on top or not, and the type
  EquipTo,        \* [ItemTypes -> ItemTypes \cup {Never}]: transformEquipTo
  DeEquipTo,      \* ... and transformDeEquipTo
  Buckets,        \* EVENT_DECAYBUCKETS
  MaxScripts      \* BOUND: the calls of scripts and players

Gone == "gone"    \* decayTo = 0
Never == "never"  \* decayTo = -1
Interval == 2     \* EVENT_DECAYINTERVAL
Round == Interval * Buckets
NoDuration == -1        \* no duration attribute

ASSUME DecayAssumption ==
  /\ NoItem \notin DecayThings
  /\ StopTime \subseteq ItemTypes /\ DecayTime \in [ItemTypes -> Nat]
  /\ DecayTo \in [ItemTypes -> ItemTypes \cup {Gone, Never}]
  /\ Buckets \in Nat \ {0} /\ MaxScripts \in Nat

VARIABLES
  item,           \* the items; since, due and twice are history
  decayItems,     \* the buckets
  toDecayItems,
  releaseThings,
  lastBucket,
  early,          \* history: an item decayed before its time
  scripts         \* BOUND

decayVars == <<item, decayItems, toDecayItems, releaseThings, lastBucket, early, scripts>>
World == [item |-> item, to |-> toDecayItems, free |-> releaseThings, done |-> {}]

\* since, due: for how long it has been decaying, and had to be; twice: it was
\* transformed, or had its time set, meanwhile.
NewItem(k) ==
  [kind |-> k, placed |-> TRUE, refs |-> 1, decaying |-> FALSE,
   dur |-> IF DecayTime[k] > 0 THEN DecayTime[k] ELSE NoDuration,
   since |-> 0, due |-> 0, twice |-> FALSE]
NoThing == [kind |-> Never, placed |-> FALSE, refs |-> 0, decaying |-> FALSE, dur |-> NoDuration,
            since |-> 0, due |-> 0, twice |-> FALSE]
FreeThing(w) == CHOOSE i \in DecayThings : w.item[i].refs = 0
getDuration(t) == Max({0, t.dur})

canDecay(t) == t.placed /\ DecayTo[t.kind] # Never /\ DecayTime[t.kind] > 0

-----------------------------------------------------------------------------
(* Transformation.                                                         *)

setID(t, k) ==
  LET stays == DecayTime[k] > 0 \/ k \in StopTime \/ DecayTo[k] # Never
      s == IF stays THEN t ELSE [t EXCEPT !.decaying = FALSE, !.dur = NoDuration]
      anew == DecayTime[k] > 0 /\ (t.kind \notin StopTime \/ t.dur = NoDuration)
  IN  [s EXCEPT !.kind = k,
                !.twice = @ \/ t.refs > 1,
                !.decaying = @ /\ ~ anew,
                !.dur = IF anew THEN DecayTime[k] ELSE @]

RemoveThing(w, i) ==
  [w EXCEPT !.item[i].placed = FALSE, !.free = Append(@, i)]

\* An item of another class is another object, and without its time if what
\* differs is whether it lies on top.
transformItem(w, i, k) ==
  LET t == w.item[i]
      v == RemoveThing(w, i)
      j == FreeThing(w)
      new == IF (Class[t.kind] = "top") # (Class[k] = "top")
             THEN [NewItem(k) EXCEPT !.dur = NoDuration] ELSE NewItem(k)
  IN  IF t.kind = k THEN [w |-> w, i |-> i]
      ELSE IF ~ t.placed THEN [w |-> w, i |-> NoItem]
      ELSE IF Class[t.kind] = Class[k] THEN [w |-> [w EXCEPT !.item[i] = setID(t, k)], i |-> i]
      ELSE [w |-> [v EXCEPT !.item[j] = new], i |-> j]

-----------------------------------------------------------------------------
(* startDecay and internalDecayItem.                                       *)

RECURSIVE internalDecayItem(_, _)

Mutant_startDecay(w, i) ==              \* the list holds no reference
  IF i = NoItem \/ ~ canDecay(w.item[i]) \/ w.item[i].decaying THEN w
  ELSE IF getDuration(w.item[i]) > 0
  THEN [w EXCEPT !.item[i] = [@ EXCEPT !.decaying = TRUE, !.since = 0, !.due = w.item[i].dur],
                 !.to = Append(@, i)]
  ELSE internalDecayItem(w, i)
startDecay(w, i) ==
  IF i = NoItem \/ ~ canDecay(w.item[i]) \/ w.item[i].decaying THEN w
  ELSE IF getDuration(w.item[i]) > 0
  THEN [w EXCEPT !.item[i] = [@ EXCEPT !.refs = @ + 1, !.decaying = TRUE,
                                       !.since = 0, !.due = w.item[i].dur],
                 !.to = Append(@, i)]
  ELSE internalDecayItem(w, i)

internalDecayItem(w, i) ==
  LET next == DecayTo[w.item[i].kind]
      r == transformItem(w, i, next)
      d == [w EXCEPT !.done = @ \cup {i}]
  IN  IF next = Gone THEN RemoveThing(d, i)
      ELSE startDecay([r.w EXCEPT !.done = d.done], r.i)

-----------------------------------------------------------------------------
(* The clock.                                                              *)

freeItem(w, i) == [w EXCEPT !.free = Append(@, i)]

unRefThing(things, i) ==
  IF things[i].refs = 1 THEN [things EXCEPT ![i] = NoThing]
  ELSE [things EXCEPT ![i].refs = @ - 1]

\* What was to be released, and then the items that began to decay.
Release(things, free) == FoldLeft(unRefThing, things, free)
Mutant_FileAway(things, buckets, to, last) ==       \* from the bucket that was opened last
  FoldLeft(LAMBDA b, i :
             LET dur == getDuration(things[i])
             IN  [b EXCEPT ![IF dur >= Round THEN last
                             ELSE (last + dur \div Interval) % Buckets] = Append(@, i)],
           buckets, to)
FileAway(things, buckets, to, last) ==
  FoldLeft(LAMBDA b, i :
             LET dur == getDuration(things[i])
             IN  [b EXCEPT ![IF dur >= Round THEN last
                             ELSE (last + 1 + dur \div Interval) % Buckets] = Append(@, i)],
           buckets, to)

Charged(dur) == Max({0, dur - Round})

\* One item of the bucket; a.b are the buckets, the open one with what stays.
CheckOne(a, i, bucket) ==
  LET before == getDuration(a.w.item[i])
      dur == Charged(before)
      w == IF a.w.item[i].dur = NoDuration THEN a.w ELSE [a.w EXCEPT !.item[i].dur = dur]
      new == (bucket + (dur + Interval \div 2) \div Interval) % Buckets
  IN  IF ~ canDecay(w.item[i])
      THEN [a EXCEPT !.w = freeItem([w EXCEPT !.item[i].decaying = FALSE], i)]
      ELSE IF dur >= Round THEN [w |-> w, b |-> [a.b EXCEPT ![bucket] = Append(@, i)]]
      ELSE IF dur <= 0 \/ new = bucket
      THEN [a EXCEPT !.w = freeItem(internalDecayItem(w, i), i)]
      ELSE [w |-> w, b |-> [a.b EXCEPT ![new] = Append(@, i)]]

\* history: time passes for what decays, and ends for what does not
Aged == [i \in DecayThings |->
           IF canDecay(item[i]) /\ item[i].decaying
           THEN [item[i] EXCEPT !.since = @ + Interval] ELSE item[i]]
Clear(things) == [i \in DecayThings |->
                    IF things[i].decaying \/ things[i].refs > 1 THEN things[i]
                    ELSE [things[i] EXCEPT !.since = 0, !.due = 0, !.twice = FALSE]]

\* What is left after the last round rounds up to a round: the bucket is the open one.
Misfiled(due) == due > Round /\ due % Round >= Round - Interval \div 2

checkDecay ==
  LET bucket == (lastBucket + 1) % Buckets
      a == FoldLeft(LAMBDA x, i : CheckOne(x, i, bucket),
                    [w |-> [World EXCEPT !.item = Aged],
                     b |-> [decayItems EXCEPT ![bucket] = <<>>]],
                    decayItems[bucket])
  IN  /\ lastBucket' = bucket
      /\ item' = Clear(Release(a.w.item, a.w.free))
      /\ decayItems' = FileAway(a.w.item, a.b, a.w.to, bucket)
      /\ toDecayItems' = <<>> /\ releaseThings' = <<>>
      /\ early' = (early \/ \E i \in a.w.done : /\ ~ Aged[i].twice /\ ~ Misfiled(Aged[i].due)
                                               /\ Aged[i].since + Interval \div 2 < Aged[i].due)
      /\ UNCHANGED scripts

\* checkCreatureWalk and checkCreatures clean up too.
cleanup ==
  /\ item' = Release(item, releaseThings)
  /\ decayItems' = FileAway(item, decayItems, toDecayItems, lastBucket)
  /\ toDecayItems' = <<>> /\ releaseThings' = <<>>
  /\ UNCHANGED <<lastBucket, early, scripts>>

-----------------------------------------------------------------------------
(* What scripts and players do.                                            *)

Then(w) ==
  /\ item' = Clear(w.item) /\ toDecayItems' = w.to /\ releaseThings' = w.free
  /\ scripts < MaxScripts /\ scripts' = scripts + 1
  /\ UNCHANGED <<decayItems, lastBucket, early>>

doDecayItem(i) == item[i].placed /\ Then(startDecay(World, i))
doTransformItem(i, k) == item[i].placed /\ Then(transformItem(World, i, k).w)
doRemoveItem(i) == item[i].placed /\ Then(RemoveThing(World, i))
doItemSetAttribute(i, dur) ==
  /\ item[i].placed
  /\ Then([World EXCEPT !.item[i] = [@ EXCEPT !.dur = dur, !.twice = item[i].refs > 1]])

EquipItem(i) ==
  /\ item[i].placed /\ EquipTo[item[i].kind] # Never
  /\ LET r == transformItem(World, i, EquipTo[item[i].kind]) IN Then(startDecay(r.w, r.i))
DeEquipItem(i) ==
  /\ item[i].placed /\ DeEquipTo[item[i].kind] # Never
  /\ Then(startDecay(transformItem(World, i, DeEquipTo[item[i].kind]).w, i))

DecayInit ==
  /\ \E k \in ItemTypes :
       item = [i \in DecayThings |->
                 IF i = CHOOSE j \in DecayThings : TRUE THEN NewItem(k) ELSE NoThing]
  /\ decayItems = [b \in 0..(Buckets - 1) |-> <<>>]
  /\ toDecayItems = <<>> /\ releaseThings = <<>>
  /\ lastBucket = 0 /\ early = FALSE /\ scripts = 0

DecayNext ==
  \/ checkDecay
  \/ cleanup
  \/ \E i \in DecayThings :
       \/ doDecayItem(i)
       \/ \E k \in ItemTypes : doTransformItem(i, k)
       \/ doRemoveItem(i)
       \/ \E dur \in 0..(2 * Round) : doItemSetAttribute(i, dur)
       \/ EquipItem(i)
       \/ DeEquipItem(i)

-----------------------------------------------------------------------------
(* Properties.                                                             *)

DecayTypeOK ==
  /\ \A i \in DecayThings :
       /\ item[i].kind \in ItemTypes \cup {Never}
       /\ {item[i].placed, item[i].decaying, item[i].twice} \subseteq BOOLEAN
       /\ {item[i].refs, item[i].since, item[i].due} \subseteq Nat
       /\ item[i].dur \in Nat \cup {NoDuration}
  /\ decayItems \in [0..(Buckets - 1) -> Seq(DecayThings)]
  /\ toDecayItems \in Seq(DecayThings) /\ releaseThings \in Seq(DecayThings)
  /\ lastBucket \in 0..(Buckets - 1)
  /\ early \in BOOLEAN /\ scripts \in 0..MaxScripts

Times(s, i) == Cardinality({n \in DOMAIN s : s[n] = i})
Filed(i) == MapThenSumSet(LAMBDA b : Times(decayItems[b], i), DOMAIN decayItems)
            + Times(toDecayItems, i)

\* Whatever happens to an item while it waits to decay, it is deleted when the
\* world, the buckets and the list of things to release have all let go of it.
DecayRefsExact ==
  \A i \in DecayThings :
    item[i].refs = (IF item[i].placed THEN 1 ELSE 0) + Filed(i) + Times(releaseThings, i)

\* An item that is decaying is waiting for a bucket, and neither later than two
\* intervals after its time nor before it does it decay.
DecayInTime ==
  /\ ~ early
  /\ \A i \in DecayThings :
       canDecay(item[i]) /\ item[i].decaying =>
         /\ Filed(i) > 0
         /\ item[i].twice \/ item[i].since <= item[i].due + 2 * Interval

\* What decays does so in its time, and is deleted once, when nothing holds it.
DecaysOnce == DecayTypeOK /\ DecayRefsExact /\ DecayInTime
=============================================================================
