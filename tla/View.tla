-------------------------------- MODULE View --------------------------------
(***************************************************************************)
(* What the clients show of the tiles (source/tile.cpp, protocolgame.cpp,  *)
(* player.h, game.cpp).                                                    *)
(*                                                                         *)
(* A client holds the first ten things of every tile in sight and is told  *)
(* of each change by the place of the thing in its own stack, which leaves *)
(* out the creatures it cannot see; the place is computed before a thing   *)
(* is taken away and after it is put.  Creatures are described once and    *)
(* named by their id from then on, as long as the list of the known ones,  *)
(* which is bounded, has them.                                             *)
(*                                                                         *)
(* Abstractions.  A few tiles next to each other, on one floor.  The       *)
(* viewers stand elsewhere and see some of the tiles; they are spectators  *)
(* of all.  The look of a thing is one of two.  The client is modelled by  *)
(* what the messages tell it to do.  Those who watch a cast are left out.  *)
(***************************************************************************)
EXTENDS Integers, Sequences, FiniteSets, SequencesExt

CONSTANTS
  Viewers,        \* players with a client
  Seers,          \* those of them who see the invisible
  Tiles,
  Grounds, Borders, Splashes, Fields, Goods,   \* items, by where they lie in the stack
  Wights,         \* creatures
  Shown,          \* how much of a stack a client holds, 10 in the code
  MaxKnown,       \* how many creatures a client knows, 250 in the code
  MaxChanges      \* BOUND: changes of the world

ASSUME ViewAssumption ==
  /\ Seers \subseteq Viewers
  /\ Shown \in Nat \ {0, 1, 2} /\ MaxKnown \in Nat \ {0} /\ MaxChanges \in Nat

VARIABLES
  tile,           \* the stack of each tile, in four parts
  look,           \* of each item
  invisible,      \* creatures
  placed,         \* history: creatures that have been in the game, whose ids are used up
  client,         \* of each viewer: see ClientType
  replaced,       \* history: items put in the place of others
  changes         \* BOUND

viewVars == <<tile, look, invisible, placed, client, replaced, changes>>

Tops == Borders \cup Splashes
Downs == Fields \cup Goods
Pieces == Grounds \cup Tops \cup Downs
Far == 99                 \* -1, as an unsigned number

Stack(T) == T.ground \o T.top \o Reverse(T.creatures) \o T.down
thingCount(T) == Len(Stack(T))
IsOn(x, t) == x \in ToSet(Stack(tile[t]))
Placed(x) == \E t \in Tiles : IsOn(x, t)

canSeeCreature(v, x) == x \notin invisible \/ v \in Seers
Sees(v, y) == y \in Pieces \/ canSeeCreature(v, y)
InView(v, T) == SelectSeq(Stack(T), LAMBDA y : Sees(v, y))

\* The place of x in the stack of v, which x is part of even if v does not see it.
Place(s, x) == IF x \in ToSet(s) THEN (CHOOSE k \in DOMAIN s : s[k] = x) - 1 ELSE Far
Mutant_getClientIndexOfThing(v, T, x) == Place(Stack(T), x)       \* counts the unseen
getClientIndexOfThing(v, T, x) == Place(SelectSeq(Stack(T), LAMBDA y : y = x \/ Sees(v, y)), x)

-----------------------------------------------------------------------------
(* The client: the tiles in sight, the things it shows of them with their  *)
(* looks, the creatures it knows (knows) and those the server believes it  *)
(* knows (known).  A message that names what it does not have leaves it    *)
(* astray.  The other fields are history: it was told the place a creature *)
(* has for another player (misplaced), lost a creature of a stack longer   *)
(* than what is shown (crowded), had more in sight than it may know.       *)

ClientType ==
  [sight : SUBSET Tiles, shows : [Tiles -> Seq((Pieces \cup Wights) \X {0, 1})],
   known : Seq(Wights), knows : SUBSET Wights, astray : BOOLEAN,
   misplaced : BOOLEAN, crowded : BOOLEAN, overfull : BOOLEAN]

Astray(c) == [c EXCEPT !.astray = TRUE]
Least(a, b) == IF a < b THEN a ELSE b

Put(c, t, i, e) ==
  IF i > Len(c.shows[t]) THEN Astray(c)
  ELSE [c EXCEPT !.shows[t] = SubSeq(InsertAt(@, i + 1, e), 1, Least(Len(@) + 1, Shown))]
Take(c, t, i) ==
  IF i >= Len(c.shows[t]) THEN Astray(c) ELSE [c EXCEPT !.shows[t] = RemoveAt(@, i + 1)]
Change(c, t, i, e) ==
  IF i >= Len(c.shows[t]) THEN Astray(c) ELSE [c EXCEPT !.shows[t][i + 1] = e]

\* It puts who walks above the other creatures, by itself.
StepOver(c, t, u, i) ==
  IF i >= Len(c.shows[t]) \/ c.shows[t][i + 1][1] \notin Wights THEN Astray(c)
  ELSE LET n == Cardinality({k \in DOMAIN c.shows[u] : c.shows[u][k][1] \notin Downs})
           d == Take(c, t, i)
       IN  IF n >= Shown THEN d ELSE Put(d, u, n, c.shows[t][i + 1])

-----------------------------------------------------------------------------
(* Messages.  S is the tiles, the looks and the clients while a handler    *)
(* runs.                                                                   *)

World == [tile |-> tile, look |-> look, client |-> client]
Entry(S, x) == <<x, IF x \in Pieces THEN S.look[x] ELSE 0>>

\* One in sight is not forgotten, unless all are.
InSight(c, v, x, S) == \E t \in c.sight : x \in ToSet(S.tile[t].creatures) /\ canSeeCreature(v, x)

Mutant_Forgettable(c, v, known, S) == 1..MaxKnown
Forgettable(c, v, known, S) == {k \in 1..MaxKnown : ~ InSight(c, v, known[k], S)}
checkCreatureAsKnown(c, v, x, S) ==
  LET known == Append(SelectSeq(c.known, LAMBDA y : y # x), x)
      idle  == Forgettable(c, v, known, S)
      k     == CHOOSE n \in idle : \A j \in idle : n <= j
  IN  IF x \in ToSet(c.known)
      THEN IF x \in c.knows THEN [c EXCEPT !.known = known] ELSE Astray(c)
      ELSE IF Len(known) <= MaxKnown
      THEN [c EXCEPT !.known = known, !.knows = @ \cup {x}]
      ELSE IF idle # {}
      THEN [c EXCEPT !.known = SubSeq(known, k + 1, Len(known)) \o SubSeq(known, 1, k - 1),
                     !.knows = (@ \ {known[k]}) \cup {x}]
      ELSE [c EXCEPT !.knows = (@ \ {known[MaxKnown]}) \cup {x}, !.overfull = TRUE]

AddTileItem(c, t, i, e) == IF i >= Shown THEN c ELSE Put(c, t, i, e)
UpdateTileItem(c, t, i, e) == IF i >= Shown THEN c ELSE Change(c, t, i, e)
RemoveTileItem(c, t, i) == IF i >= Shown THEN c ELSE Take(c, t, i)
AddTileCreature(c, v, t, i, x, S) ==
  IF i >= Shown THEN c ELSE Put(checkCreatureAsKnown(c, v, x, S), t, i, Entry(S, x))

\* The first things of the stack that v sees; each creature among them is made known.
GetTileDescription(c, v, t, S) ==
  LET all   == InView(v, S.tile[t])
      d     == SubSeq(all, 1, Least(Len(all), Shown))
      aware == FoldLeft(LAMBDA a, x : checkCreatureAsKnown(a, v, x, S), c,
                        SelectSeq(d, LAMBDA y : y \in Wights))
  IN  [aware EXCEPT !.shows[t] = [k \in DOMAIN d |-> Entry(S, d[k])]]

\* Message is sent to the spectators, and reaches those who see the tile.
Told(S, t, Message(_, _)) ==
  [S EXCEPT !.client = [v \in Viewers |->
     IF t \in S.client[v].sight THEN Message(v, S.client[v]) ELSE S.client[v]]]

onUpdateTile(S, t) == Told(S, t, LAMBDA v, c : GetTileDescription(c, v, t, S))
onAddTileItem(S, t, x) ==
  Told(S, t, LAMBDA v, c : AddTileItem(c, t, getClientIndexOfThing(v, S.tile[t], x), Entry(S, x)))

\* A stack that may have been longer than what is shown is described anew.
Mutant_postRemoveNotification(S, t) == S
postRemoveNotification(S, t) ==
  IF thingCount(S.tile[t]) > Shown - 2 THEN onUpdateTile(S, t) ELSE S

-----------------------------------------------------------------------------
(* Items.                                                                  *)

Without(s, x) == SelectSeq(s, LAMBDA y : y # x)
Cleared(T, x) ==
  [ground |-> Without(T.ground, x), top |-> Without(T.top, x),
   creatures |-> Without(T.creatures, x), down |-> Without(T.down, x)]

\* The clients are told the place it had.
removeThing(S, t, x) ==
  Told([S EXCEPT !.tile[t] = Cleared(@, x)], t,
       LAMBDA v, c : RemoveTileItem(c, t, getClientIndexOfThing(v, S.tile[t], x)))

Order(x) == IF x \in Borders THEN 1 ELSE 2       \* alwaysOnTopOrder
AddTop(T, x) ==
  LET n == Cardinality({k \in DOMAIN T.top : Order(T.top[k]) < Order(x)})
  IN  [T EXCEPT !.top = InsertAt(@, n + 1, x)]

\* An old splash or field gives way to the new one.
MakeRoom(S, t, X) ==
  IF X = {} THEN S
  ELSE LET y == CHOOSE z \in X : TRUE IN postRemoveNotification(removeThing(S, t, y), t)

addThing(S, t, x) ==
  LET T == S.tile[t]
  IN  CASE x \in Grounds ->
             LET S2 == [S EXCEPT !.tile[t].ground = <<x>>]
             IN  IF T.ground = <<>> THEN onAddTileItem(S2, t, x)
                 ELSE postRemoveNotification(onUpdateTile(S2, t), t)
        [] x \in Tops ->
             LET S2 == MakeRoom(S, t, IF x \in Splashes THEN ToSet(T.top) \cap Splashes ELSE {})
             IN  onAddTileItem([S2 EXCEPT !.tile[t] = AddTop(@, x)], t, x)
        [] x \in Downs ->
             LET S2 == MakeRoom(S, t, IF x \in Fields THEN ToSet(T.down) \cap Fields ELSE {})
             IN  onAddTileItem([S2 EXCEPT !.tile[t].down = <<x>> \o @], t, x)

\* The item stays where it is, with another look.
updateThing(S, t, x) ==
  LET S2 == [S EXCEPT !.look[x] = 1 - @]
  IN  Told(S2, t, LAMBDA v, c :
        UpdateTileItem(c, t, getClientIndexOfThing(v, S.tile[t], x), Entry(S2, x)))

Becomes(S) ==
  /\ changes < MaxChanges /\ changes' = changes + 1
  /\ tile' = S.tile /\ look' = S.look /\ client' = S.client

AddItem(x, t) ==
  /\ ~ Placed(x)
  /\ Becomes(addThing(World, t, x))
  /\ UNCHANGED <<invisible, placed, replaced>>
RemoveItem(x, t) ==
  /\ IsOn(x, t)
  /\ Becomes(postRemoveNotification(removeThing(World, t, x), t))
  /\ UNCHANGED <<invisible, placed, replaced>>
transformItem(x, t) ==
  /\ IsOn(x, t)
  /\ Becomes(updateThing(postRemoveNotification(World, t), t, x))
  /\ UNCHANGED <<invisible, placed, replaced>>

\* Into an item of another class, which takes its place: the clients would be told by
\* the place of the old one, which has none by then.
replaceItem(x, t) ==
  /\ IsOn(x, t)
  /\ Becomes(postRemoveNotification([World EXCEPT !.look[x] = 1 - @], t))
  /\ replaced' = replaced \cup {x}
  /\ UNCHANGED <<invisible, placed>>

-----------------------------------------------------------------------------
(* Creatures.                                                              *)

placeCreature(x, t) ==
  /\ x \notin placed
  /\ placed' = placed \cup {x}
  /\ LET S == [World EXCEPT !.tile[t].creatures = <<x>> \o @]
     IN  Becomes(Told(S, t, LAMBDA v, c :
           AddTileCreature(c, v, t, getClientIndexOfThing(v, S.tile[t], x), x, S)))
  /\ UNCHANGED <<invisible, replaced>>

\* The places are those of the spectators who see it, and only they are told.
removeCreature(x, t) ==
  /\ IsOn(x, t)
  /\ LET S == [World EXCEPT !.tile[t] = Cleared(@, x)]
     IN  Becomes(postRemoveNotification(Told(S, t, LAMBDA v, c :
           IF canSeeCreature(v, x)
           THEN RemoveTileItem(c, t, getClientIndexOfThing(v, tile[t], x)) ELSE c), t))
  /\ invisible' = invisible \ {x}
  /\ UNCHANGED <<placed, replaced>>

\* Places are noted of all spectators, and dealt in this order to those who see it.
Dealt(order, x, v) ==
  order[Cardinality({k \in DOMAIN order : canSeeCreature(order[k], x)
                                           /\ k <= CHOOSE n \in DOMAIN order : order[n] = v})]
moveCreature(x, t, u, order, teleport) ==
  /\ IsOn(x, t) /\ u # t
  /\ LET S == [World EXCEPT !.tile[t] = Cleared(@, x), !.tile[u].creatures = <<x>> \o @]
         own(v) == getClientIndexOfThing(v, tile[t], x)
         old(v) == own(Dealt(order, x, v))
         new(v) == getClientIndexOfThing(v, S.tile[u], x)
         Marked(c, v) == [c EXCEPT !.misplaced = @ \/ (t \in c.sight /\ old(v) # own(v))]
         Moved(c, v) ==
           IF {t, u} \subseteq c.sight /\ ~ teleport /\ old(v) < Shown
           THEN StepOver(c, t, u, old(v))
           ELSE LET d == IF t \in c.sight THEN RemoveTileItem(c, t, old(v)) ELSE c
                IN  IF u \in c.sight THEN AddTileCreature(d, v, u, new(v), x, S) ELSE d
     IN  Becomes(postRemoveNotification(
           [S EXCEPT !.client = [v \in Viewers |->
              IF canSeeCreature(v, x) THEN Marked(Moved(client[v], v), v) ELSE client[v]]], t))
  /\ UNCHANGED <<invisible, placed, replaced>>

\* internalCreatureChangeVisible, after the condition has begun or ended.
Disappear(x, t) ==
  /\ IsOn(x, t) /\ x \notin invisible
  /\ invisible' = invisible \cup {x}
  /\ Becomes(Told(World, t, LAMBDA v, c :
       IF v \in Seers THEN c
       ELSE [RemoveTileItem(c, t, getClientIndexOfThing(v, tile[t], x))
             EXCEPT !.crowded = @ \/ Len(InView(v, tile[t])) > Shown]))
  /\ UNCHANGED <<placed, replaced>>
Appear(x, t) ==
  /\ IsOn(x, t) /\ x \in invisible
  /\ invisible' = invisible \ {x}
  /\ Becomes(Told(World, t, LAMBDA v, c :
       IF v \in Seers THEN c
       ELSE AddTileCreature(c, v, t, getClientIndexOfThing(v, tile[t], x), x, World)))
  /\ UNCHANGED <<placed, replaced>>

-----------------------------------------------------------------------------
(* The viewer.                                                             *)

\* It walks: the rows that come into sight are described, those that leave it forgotten.
WalkAbout(v, X) ==
  /\ X # client[v].sight
  /\ LET c0 == [client[v] EXCEPT !.sight = X,
                  !.shows = [t \in Tiles |-> IF t \in X THEN @[t] ELSE <<>>]]
     IN  Becomes([World EXCEPT !.client[v] =
           FoldLeft(LAMBDA c, t : GetTileDescription(c, v, t, World), c0,
                    SetToSeq(X \ client[v].sight))])
  /\ UNCHANGED <<invisible, placed, replaced>>

playerUpdateTile(v, t) ==
  /\ t \in client[v].sight
  /\ Becomes([World EXCEPT !.client[v] = GetTileDescription(@, v, t, World)])
  /\ UNCHANGED <<invisible, placed, replaced>>

-----------------------------------------------------------------------------
\* The map has tiles with a ground and borders, of one kind each, and tiles without.
ViewInit ==
  \E G \in [Tiles -> {{}} \cup {{x} : x \in Grounds}], B \in [Tiles -> {{}} \cup {{x} : x \in Borders}],
     f \in [Viewers -> SUBSET Tiles] :
    /\ \A t, u \in Tiles : t # u => G[t] \cap G[u] = {} /\ B[t] \cap B[u] = {}
    /\ tile = [t \in Tiles |-> [ground |-> SetToSeq(G[t]), top |-> SetToSeq(B[t]),
                               creatures |-> <<>>, down |-> <<>>]]
    /\ client = [v \in Viewers |->
         [sight |-> f[v], shows |-> [t \in Tiles |-> IF t \in f[v]
                                      THEN SetToSeq(G[t] \X {0}) \o SetToSeq(B[t] \X {0}) ELSE <<>>],
          known |-> <<>>, knows |-> {}, astray |-> FALSE,
          misplaced |-> FALSE, crowded |-> FALSE, overfull |-> FALSE]]
    /\ look = [x \in Pieces |-> 0]
    /\ invisible = {} /\ placed = {} /\ replaced = {} /\ changes = 0

ViewNext ==
  \/ \E t \in Tiles :
       \/ \E x \in Pieces : AddItem(x, t) \/ RemoveItem(x, t) \/ transformItem(x, t) \/ replaceItem(x, t)
       \/ \E x \in Wights : \/ placeCreature(x, t) \/ removeCreature(x, t)
                            \/ Disappear(x, t) \/ Appear(x, t)
                            \/ \E u \in Tiles, teleport \in BOOLEAN, order \in SetToSeqs(Viewers) :
                                 moveCreature(x, t, u, order, teleport)
       \/ \E v \in Viewers : playerUpdateTile(v, t)
  \/ \E v \in Viewers, X \in SUBSET Tiles : WalkAbout(v, X)

-----------------------------------------------------------------------------
(* Properties.                                                             *)

ViewTypeOK ==
  /\ \A t \in Tiles : /\ tile[t].ground \in {<<>>} \cup {<<x>> : x \in Grounds}
                      /\ ToSet(tile[t].top) \subseteq Tops /\ ToSet(tile[t].creatures) \subseteq Wights
                      /\ ToSet(tile[t].down) \subseteq Downs
  /\ look \in [Pieces -> {0, 1}]
  /\ invisible \subseteq placed /\ placed \subseteq Wights /\ replaced \subseteq Pieces
  /\ \A v \in Viewers : /\ client[v].sight \subseteq Tiles /\ client[v].knows \subseteq Wights
                         /\ \A t \in Tiles : Len(client[v].shows[t]) <= Shown
                         /\ Len(client[v].known) <= MaxKnown
  /\ changes \in 0..MaxChanges

\* A client shows of each tile in sight what is there for it to see, in its order, after
\* every sequence of changes, whatever hides, walks, replaces or is replaced; it is told
\* nothing of what it does not show, and knows the creatures the server takes it to know,
\* all that it shows among them.  Excepted are a client that was given the place a
\* creature has for another player, one that lost a hidden creature of a stack longer
\* than it shows, one that has more in sight than it may know, and the looks of items
\* that were replaced.
ClientSeesTheWorld ==
  /\ ViewTypeOK
  /\ \A v \in Viewers : LET c == client[v] IN
       c.misplaced \/ c.crowded \/ c.overfull \/
         /\ ~ c.astray
         /\ c.knows = ToSet(c.known)
         /\ \A t \in c.sight :
              LET all == InView(v, tile[t]) s == c.shows[t] IN
              /\ Len(s) = Least(Len(all), Shown)
              /\ \A k \in DOMAIN s :
                   /\ s[k][1] = all[k]
                   /\ s[k][1] \in Pieces \ replaced => s[k][2] = look[all[k]]
                   /\ s[k][1] \in Wights => s[k][1] \in c.knows
=============================================================================
