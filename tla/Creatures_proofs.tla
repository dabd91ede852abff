-------------------------- MODULE Creatures_proofs --------------------------
(* Theorems about Creatures, for any players' and scripts' deeds, any       *)
(* finite number of objects of monsters, and any places they can fill.      *)
EXTENDS Creatures, Lists_proofs

-----------------------------------------------------------------------------
(* What there is.                                                           *)

Being == [refs : Int, placed : BOOLEAN, removed : BOOLEAN, health : BOOLEAN,
          master : Breathing \cup {NoCreature}, isIdle : BOOLEAN, checked : BOOLEAN,
          listed : BOOLEAN, spawn : Lairs \cup {NoLair}]
Beings == [Breathing -> Being]
Herds == [Breathing -> SUBSET Beasts]
Places == [Lairs -> Beasts \cup {NoCreature}]
Counts == [Breathing -> Nat]
SceneType == [b : Beings, summons : Herds, spawned : Places, event : BOOLEAN,
              toAdd : SUBSET Breathing, free : Counts, lost : SUBSET Lairs]

\* What changes only one creature, and what changes only who its summons are.
With(w, c, r) == [w EXCEPT !.b[c] = r]
WithHerd(w, m, S) == [w EXCEPT !.summons[m] = S]

LEMMA BreathingFacts ==
  /\ Hunter \in Breathing /\ Hunter \notin Beasts /\ Beasts \subseteq Breathing
  /\ NoCreature \notin Breathing /\ NoLair \notin Lairs /\ IsFiniteSet(Breathing) /\ IsFiniteSet(Beasts)
<1>1. IsFiniteSet(Breathing)
  BY CreaturesAssumption, FS_AddElement DEF Breathing
<1> QED BY <1>1, CreaturesAssumption DEF Breathing

LEMMA WithIs ==
  ASSUME NEW w \in SceneType, NEW c \in Breathing, NEW r \in Being
  PROVE  LET v == With(w, c, r)
         IN  /\ v \in SceneType /\ v.b = [w.b EXCEPT ![c] = r] /\ v.summons = w.summons
             /\ v.spawned = w.spawned /\ v.event = w.event /\ v.toAdd = w.toAdd
             /\ v.free = w.free /\ v.lost = w.lost
<1> DEFINE N == [w.b EXCEPT ![c] = r]
           A == Beings
           B == Herds
           C == Places
           D == SUBSET Breathing
           E == Counts
           F == SUBSET Lairs
           R == [b : A, summons : B, spawned : C, event : BOOLEAN, toAdd : D, free : E, lost : F]
           e == [w EXCEPT !.b = N]
<1>1. w \in R /\ w.b \in A
  BY DEF SceneType
<1>2. N \in A
  BY <1>1 DEF Beings
<1>3. With(w, c, r) = e
  BY DEF With
<1> HIDE DEF N, A, B, C, D, E, F
<1>4. /\ e \in R /\ e.b = N /\ e.summons = w.summons /\ e.spawned = w.spawned /\ e.event = w.event
      /\ e.toAdd = w.toAdd /\ e.free = w.free /\ e.lost = w.lost
  BY <1>1, <1>2
<1> HIDE DEF e
<1> QED BY <1>3, <1>4 DEF SceneType, N, A, B, C, D, E, F

LEMMA WithHerdIs ==
  ASSUME NEW w \in SceneType, NEW m \in Breathing, NEW S \in SUBSET Beasts
  PROVE  LET v == WithHerd(w, m, S)
         IN  /\ v \in SceneType /\ v.summons = [w.summons EXCEPT ![m] = S] /\ v.b = w.b
             /\ v.spawned = w.spawned /\ v.event = w.event /\ v.toAdd = w.toAdd
             /\ v.free = w.free /\ v.lost = w.lost
<1> DEFINE N == [w.summons EXCEPT ![m] = S]
           A == Beings
           B == Herds
           C == Places
           D == SUBSET Breathing
           E == Counts
           F == SUBSET Lairs
           R == [b : A, summons : B, spawned : C, event : BOOLEAN, toAdd : D, free : E, lost : F]
           e == [w EXCEPT !.summons = N]
<1>1. w \in R /\ w.summons \in B
  BY DEF SceneType
<1>2. N \in B
  BY <1>1 DEF Herds
<1>3. WithHerd(w, m, S) = e
  BY DEF WithHerd
<1> HIDE DEF N, A, B, C, D, E, F
<1>4. /\ e \in R /\ e.summons = N /\ e.b = w.b /\ e.spawned = w.spawned /\ e.event = w.event
      /\ e.toAdd = w.toAdd /\ e.free = w.free /\ e.lost = w.lost
  BY <1>1, <1>2
<1> HIDE DEF e
<1> QED BY <1>3, <1>4 DEF SceneType, N, A, B, C, D, E, F

LEMMA UnbornIs ==
  /\ Unborn \in Being /\ Unborn.refs = 0 /\ ~ Unborn.placed /\ ~ Unborn.removed /\ ~ Unborn.health
  /\ Unborn.master = NoCreature /\ Unborn.isIdle /\ ~ Unborn.checked /\ ~ Unborn.listed
  /\ Unborn.spawn = NoLair
BY DEF Unborn, Being

LEMMA NewBornIs ==
  LET q == createMonster
  IN  /\ q \in Being /\ q.refs = 0 /\ ~ q.placed /\ ~ q.removed /\ q.health
      /\ q.master = NoCreature /\ q.isIdle /\ ~ q.checked /\ ~ q.listed /\ q.spawn = NoLair
<1> DEFINE r == Unborn
           q == [r EXCEPT !.health = TRUE]
           M == Breathing \cup {NoCreature}
           S == Lairs \cup {NoLair}
           B == BOOLEAN
           R == [refs : Int, placed : B, removed : B, health : B, master : M, isIdle : B,
                 checked : B, listed : B, spawn : S]
<1>1. r \in R /\ createMonster = q
  BY UnbornIs DEF Being, createMonster
<1>a. TRUE \in B
  OBVIOUS
<1> HIDE DEF M, S, B, r
<1>2. q \in R
  BY <1>1, <1>a
<1>3. q.refs = r.refs /\ q.placed = r.placed /\ q.removed = r.removed /\ q.health /\ q.master = r.master
  BY <1>1
<1>4. q.isIdle = r.isIdle /\ q.checked = r.checked /\ q.listed = r.listed /\ q.spawn = r.spawn
  BY <1>1
<1> HIDE DEF q
<1>5. q \in Being
  BY <1>2 DEF Being, M, S, B
<1> QED BY <1>1, <1>3, <1>4, <1>5, UnbornIs DEF r

-----------------------------------------------------------------------------
(* What a step makes of one creature.                                      *)

More(r) == [r EXCEPT !.refs = @ + 1]
Less(r) == [r EXCEPT !.refs = @ - 1]
Placed(r) == [r EXCEPT !.placed = TRUE]
Removed(r) == [r EXCEPT !.removed = TRUE]
Healthy(r, i) == [r EXCEPT !.health = @ /\ i]
Owned(r, m) == [r EXCEPT !.master = m]
Idle(r, i) == [r EXCEPT !.isIdle = i]
Checked(r, i) == [r EXCEPT !.checked = i]
Listed(r, i) == [r EXCEPT !.listed = i]
Spawned(r, s) == [r EXCEPT !.spawn = s]

LEMMA MoreIs ==
  ASSUME NEW r \in Being
  PROVE  LET q == More(r)
         IN  /\ q \in Being
             /\ q.refs = r.refs + 1 /\ q.placed = r.placed /\ q.removed = r.removed /\ q.health = r.health /\ q.master = r.master
             /\ q.isIdle = r.isIdle /\ q.checked = r.checked /\ q.listed = r.listed /\ q.spawn = r.spawn
BY DEF Being, More

LEMMA LessIs ==
  ASSUME NEW r \in Being
  PROVE  LET q == Less(r)
         IN  /\ q \in Being
             /\ q.refs = r.refs - 1 /\ q.placed = r.placed /\ q.removed = r.removed /\ q.health = r.health /\ q.master = r.master
             /\ q.isIdle = r.isIdle /\ q.checked = r.checked /\ q.listed = r.listed /\ q.spawn = r.spawn
BY DEF Being, Less

LEMMA PlacedIs ==
  ASSUME NEW r \in Being
  PROVE  LET q == Placed(r)
         IN  /\ q \in Being
             /\ q.refs = r.refs /\ q.placed /\ q.removed = r.removed /\ q.health = r.health /\ q.master = r.master
             /\ q.isIdle = r.isIdle /\ q.checked = r.checked /\ q.listed = r.listed /\ q.spawn = r.spawn
BY DEF Being, Placed

LEMMA RemovedIs ==
  ASSUME NEW r \in Being
  PROVE  LET q == Removed(r)
         IN  /\ q \in Being
             /\ q.refs = r.refs /\ q.placed = r.placed /\ q.removed /\ q.health = r.health /\ q.master = r.master
             /\ q.isIdle = r.isIdle /\ q.checked = r.checked /\ q.listed = r.listed /\ q.spawn = r.spawn
BY DEF Being, Removed

LEMMA HealthyIs ==
  ASSUME NEW r \in Being, NEW i \in BOOLEAN
  PROVE  LET q == Healthy(r, i)
         IN  /\ q \in Being
             /\ q.refs = r.refs /\ q.placed = r.placed /\ q.removed = r.removed /\ q.health = (r.health /\ i) /\ q.master = r.master
             /\ q.isIdle = r.isIdle /\ q.checked = r.checked /\ q.listed = r.listed /\ q.spawn = r.spawn
BY DEF Being, Healthy

LEMMA OwnedIs ==
  ASSUME NEW r \in Being, NEW m \in Breathing \cup {NoCreature}
  PROVE  LET q == Owned(r, m)
         IN  /\ q \in Being
             /\ q.refs = r.refs /\ q.placed = r.placed /\ q.removed = r.removed /\ q.health = r.health /\ q.master = m
             /\ q.isIdle = r.isIdle /\ q.checked = r.checked /\ q.listed = r.listed /\ q.spawn = r.spawn
BY DEF Being, Owned

LEMMA IdleIs ==
  ASSUME NEW r \in Being, NEW i \in BOOLEAN
  PROVE  LET q == Idle(r, i)
         IN  /\ q \in Being
             /\ q.refs = r.refs /\ q.placed = r.placed /\ q.removed = r.removed /\ q.health = r.health /\ q.master = r.master
             /\ q.isIdle = i /\ q.checked = r.checked /\ q.listed = r.listed /\ q.spawn = r.spawn
BY DEF Being, Idle

LEMMA CheckedIs ==
  ASSUME NEW r \in Being, NEW i \in BOOLEAN
  PROVE  LET q == Checked(r, i)
         IN  /\ q \in Being
             /\ q.refs = r.refs /\ q.placed = r.placed /\ q.removed = r.removed /\ q.health = r.health /\ q.master = r.master
             /\ q.isIdle = r.isIdle /\ q.checked = i /\ q.listed = r.listed /\ q.spawn = r.spawn
BY DEF Being, Checked

LEMMA ListedIs ==
  ASSUME NEW r \in Being, NEW i \in BOOLEAN
  PROVE  LET q == Listed(r, i)
         IN  /\ q \in Being
             /\ q.refs = r.refs /\ q.placed = r.placed /\ q.removed = r.removed /\ q.health = r.health /\ q.master = r.master
             /\ q.isIdle = r.isIdle /\ q.checked = r.checked /\ q.listed = i /\ q.spawn = r.spawn
BY DEF Being, Listed

LEMMA SpawnedIs ==
  ASSUME NEW r \in Being, NEW s \in Lairs \cup {NoLair}
  PROVE  LET q == Spawned(r, s)
         IN  /\ q \in Being
             /\ q.refs = r.refs /\ q.placed = r.placed /\ q.removed = r.removed /\ q.health = r.health /\ q.master = r.master
             /\ q.isIdle = r.isIdle /\ q.checked = r.checked /\ q.listed = r.listed /\ q.spawn = s
BY DEF Being, Spawned

-----------------------------------------------------------------------------
(* Letting go.                                                             *)

\* One reference less, which may have been the last.
Drop(w, c) == With(w, c, IF w.b[c].refs > 1 THEN Less(w.b[c]) ELSE Unborn)

LEMMA OrphanIs ==
  ASSUME NEW w \in SceneType, NEW s \in Breathing
  PROVE  /\ orphan(w, s) = With(w, s, IF w.b[s].refs = 1 THEN Unborn
                                      ELSE Owned(Less(w.b[s]), NoCreature))
         /\ orphan(w, s) \in SceneType
<1>1. w.b[s] \in Being
  BY DEF SceneType, Beings
<1>2. PICK r : r = IF w.b[s].refs = 1 THEN Unborn ELSE Owned(Less(w.b[s]), NoCreature)
  OBVIOUS
<1>3. orphan(w, s) = With(w, s, r)
  <2>1. CASE w.b[s].refs = 1
    BY <1>2, <2>1 DEF orphan, With
  <2>2. CASE w.b[s].refs # 1
    <3>1. orphan(w, s) = With(w, s, [w.b[s] EXCEPT !.refs = @ - 1, !.master = NoCreature])
      BY <2>2, Zenon DEF orphan, With
    <3>2. [w.b[s] EXCEPT !.refs = @ - 1, !.master = NoCreature] = Owned(Less(w.b[s]), NoCreature)
      BY <1>1 DEF Being, Less, Owned
    <3> QED BY <1>2, <2>2, <3>1, <3>2
  <2> QED BY <2>1, <2>2
<1>4. r \in Being
  BY <1>1, <1>2, UnbornIs, LessIs, OwnedIs
<1>5. With(w, s, r) \in SceneType
  BY <1>4, WithIs
<1> QED BY <1>2, <1>3, <1>5

\* A step for each of l in turn, as a function of how many.
Orphaned(w, l) == InTurn(orphan, w, l)
LEMMA OrphansInTurn ==
  ASSUME NEW w \in SceneType, NEW l \in Seq(Breathing)
  PROVE  \E f \in [0 .. Len(l) -> SceneType] :
           /\ f[0] = w /\ \A k \in 1 .. Len(l) : f[k] = orphan(f[k - 1], l[k])
           /\ Orphaned(w, l) = f[Len(l)]
<1> DEFINE X == SceneType
           len == Len(l)
           go(v, s) == orphan(v, s)
           step == [k \in 1 .. len |-> [v \in X |-> go(v, l[k])]]
           body(f) == [k \in 0 .. len |-> IF k = 0 THEN w ELSE go(f[k - 1], l[k])]
           along == CHOOSE f : f = body(f)
<1>1. len \in Nat /\ \A k \in 1 .. len : l[k] \in Breathing
  OBVIOUS
<1>2. Orphaned(w, l) = along[len]
  BY DEF InTurn, Orphaned
<1>3. \A v \in X : \A c \in Breathing : go(v, c) \in X
  BY OrphanIs
<1>4. step \in [1 .. len -> [X -> X]]
  BY <1>1, <1>3
<1>5. \A k \in 1 .. len : \A v \in X : step[k][v] = go(v, l[k])
  OBVIOUS
<1> HIDE DEF X, len, go, step
<1>6. PICK f \in [0 .. len -> X] : \A k \in 0 .. len : f[k] = IF k = 0 THEN w ELSE step[k][f[k - 1]]
  <2> HIDE DEF along, body
  <2>1. w \in X
    BY DEF X
  <2>2. \E f : Goes(f, len, X, w, step)
    BY <1>1, <1>4, <2>1, StepsMakeAFunction
  <2> QED BY <2>2 DEF Goes
<1>7. f = body(f)
  <2>1. \A k \in 0 .. len : k # 0 => k \in 1 .. len /\ f[k - 1] \in X
    BY <1>1, <1>6
  <2>2. \A k \in 0 .. len : f[k] = IF k = 0 THEN w ELSE go(f[k - 1], l[k])
    BY <1>5, <1>6, <2>1
  <2> QED BY <1>6, <2>2
<1>8. along = body(along)
  <2> HIDE DEF body
  <2> QED BY <1>7
<1> HIDE DEF along
<1>9. along[0] = w /\ \A k \in 1 .. len : along[k] = go(along[k - 1], l[k])
  <2>1. \A k \in 0 .. len : along[k] = IF k = 0 THEN w ELSE go(along[k - 1], l[k])
    BY <1>8
  <2>2. 0 \in 0 .. len /\ \A k \in 1 .. len : k \in 0 .. len /\ k # 0
    BY <1>1
  <2> QED BY <2>1, <2>2
<1>10. \A k \in 0 .. len : along[k] \in X
  <2> DEFINE P == {k \in 0 .. len : along[k] \in X}
  <2>1. 0 \in P
    BY <1>1, <1>9 DEF X
  <2>2. ASSUME NEW k \in 1 .. len, k - 1 \in P PROVE k \in P
    <3>1. k \in 0 .. len /\ along[k - 1] \in X /\ l[k] \in Breathing /\ along[k] = go(along[k - 1], l[k])
      BY <1>1, <1>9, <2>2
    <3> QED BY <1>3, <3>1
  <2> HIDE DEF P
  <2>3. 0 .. len \subseteq P
    BY <1>1, <2>1, <2>2, UpTo
  <2> QED BY <2>3 DEF P
<1>11. along \in [0 .. len -> X]
  <2>1. along = [k \in 0 .. len |-> along[k]]
    BY <1>8
  <2> QED BY <1>10, <2>1
<1> QED BY <1>2, <1>9, <1>11 DEF X, len, go

-----------------------------------------------------------------------------
(* What every call keeps.                                                  *)

\* Some references are still to be given back (owed); sm says whose the summons are, while
\* w.summons is being gone through; and those of X are being born, deleted or removed.
One(w, c, k, sm, X) ==
  LET r == w.b[c]
  IN  /\ r.refs = (IF Present(w, c) THEN 1 ELSE 0) + w.free[c] + (IF r.listed THEN 1 ELSE 0)
                  + (IF r.master # NoCreature THEN 1 ELSE 0)
                  + (IF r.spawn # NoLair /\ w.spawned[r.spawn] = c THEN 1 ELSE 0) + k
      /\ r.checked => r.listed
      /\ c \notin X /\ r.removed => ~ r.checked
      /\ c \notin X /\ r.refs > 0 => r.placed
      /\ c \notin X /\ r = Unborn => sm[c] = {}
      /\ r.master # NoCreature => sm[c] = {}
      /\ c \in Beasts /\ Present(w, c) /\ (~ r.isIdle \/ ~ r.health) => r.checked
      /\ c \in Beasts /\ Present(w, c) /\ r.master # NoCreature /\ r.master \notin X => ~ w.b[r.master].removed
      /\ r.listed <=> c \in w.toAdd \cup checkVectors
      /\ \A m \in Breathing : c \in sm[m] <=> r.master = m
      /\ \A s \in Lairs : w.spawned[s] = c => r.spawn = s
      /\ Present(w, c) /\ r.spawn # NoLair => w.spawned[r.spawn] = c

\* A place that lost its monster has a timer.
Watched(w) ==
  \A s \in Lairs \ w.lost : w.spawned[s] = NoCreature \/ w.b[w.spawned[s]].removed => w.event

Sane(w, owed, sm, X) ==
  /\ w \in SceneType /\ sm \in Herds /\ owed \in Counts
  /\ \A c \in Breathing : One(w, c, owed[c], sm, X)
  /\ w.toAdd \cap checkVectors = {} /\ Watched(w)

\* Whom the summons of sm are, they are of sn, c perhaps excepted.
Herded(w, sm, sn, c) ==
  \A y \in Breathing : y # c =>
    /\ \A m \in Breathing : y \in sn[m] <=> y \in sm[m]
    /\ sm[y] = {} /\ w.b[y].master # NoCreature => sn[y] = {}
    /\ sm[y] = {} /\ w.b[y] = Unborn => sn[y] = {}

\* Nothing happened to the others.
Apart(w, owed, v, due, c) ==
  /\ \A y \in Breathing : y # c =>
       /\ v.b[y] = w.b[y] /\ v.free[y] = w.free[y] /\ due[y] = owed[y]
       /\ y \in v.toAdd <=> y \in w.toAdd
  /\ \A s \in Lairs : \A y \in Breathing : y # c => (v.spawned[s] = y <=> w.spawned[s] = y)

\* What happened to c alone is nobody else's.
LEMMA OthersStand ==
  ASSUME NEW w, NEW owed, NEW sm, NEW X, Sane(w, owed, sm, X),
         NEW v \in SceneType, NEW due \in Counts, NEW sn \in Herds, NEW c \in Breathing,
         Apart(w, owed, v, due, c), Herded(w, sm, sn, c),
         v.b[c].removed => w.b[c].removed \/ c \in X \/ sm[c] = {},
         One(v, c, due[c], sn, X), v.toAdd \cap checkVectors = {}, Watched(v)
  PROVE  Sane(v, due, sn, X)
<1> SUFFICES ASSUME NEW y \in Breathing, y # c PROVE One(v, y, due[y], sn, X)
  BY DEF Sane
<1>1. One(w, y, owed[y], sm, X)
  BY DEF Sane
<1>2. /\ v.b[y] = w.b[y] /\ v.free[y] = w.free[y] /\ due[y] = owed[y]
      /\ y \in v.toAdd <=> y \in w.toAdd
      /\ \A m \in Breathing : y \in sn[m] <=> y \in sm[m]
      /\ sm[y] = {} /\ w.b[y].master # NoCreature => sn[y] = {}
      /\ sm[y] = {} /\ w.b[y] = Unborn => sn[y] = {}
  BY DEF Herded, Apart
<1>3. y # NoCreature /\ \A s \in Lairs : v.spawned[s] = y <=> w.spawned[s] = y
  BY BreathingFacts DEF Apart
<1>4. Present(v, y) <=> Present(w, y)
  BY <1>2 DEF Present
<1>5. w.b[y].spawn # NoLair => w.b[y].spawn \in Lairs
  BY DEF Sane, SceneType, Beings, Being
<1>6. w.b[y].master # NoCreature /\ w.b[y].master \notin X /\ Present(w, y) /\ y \in Beasts => ~ v.b[w.b[y].master].removed
  <2> SUFFICES ASSUME w.b[y].master # NoCreature, w.b[y].master \notin X, Present(w, y), y \in Beasts
               PROVE  ~ v.b[w.b[y].master].removed
    OBVIOUS
  <2>1. ~ w.b[w.b[y].master].removed /\ w.b[y].master \in Breathing
    BY <1>1 DEF One, Sane, SceneType, Beings, Being
  <2>2. CASE w.b[y].master # c
    BY <2>1, <2>2 DEF Apart
  <2>3. CASE w.b[y].master = c
    <3>1. y \in sm[c]
      BY <1>1, <2>3 DEF One
    <3> QED BY <2>1, <2>3, <3>1
  <2> QED BY <2>2, <2>3
<1> QED BY <1>1, <1>2, <1>3, <1>4, <1>5, <1>6 DEF One

\* In particular a change of its object.
LEMMA AloneGood ==
  ASSUME NEW w, NEW owed, NEW sm, NEW X, Sane(w, owed, sm, X),
         NEW c \in Breathing, NEW r \in Being, NEW k \in Nat, NEW sn \in Herds,
         Herded(w, sm, sn, c), r.removed => w.b[c].removed \/ c \in X \/ sm[c] = {},
         r.removed => w.b[c].removed \/ w.event \/ \A s \in Lairs : w.spawned[s] # c,
         One(With(w, c, r), c, k, sn, X)
  PROVE  Sane(With(w, c, r), [owed EXCEPT ![c] = k], sn, X)
<1>1. PICK v : v = With(w, c, r)
  OBVIOUS
<1>2. PICK due : due = [owed EXCEPT ![c] = k]
  OBVIOUS
<1>3. w \in SceneType /\ owed \in Counts /\ w.toAdd \cap checkVectors = {} /\ Watched(w)
  BY DEF Sane
<1>4. /\ v \in SceneType /\ v.b = [w.b EXCEPT ![c] = r] /\ v.summons = w.summons
      /\ v.spawned = w.spawned /\ v.event = w.event /\ v.toAdd = w.toAdd
      /\ v.free = w.free /\ v.lost = w.lost
  BY <1>1, <1>3, WithIs
<1>5. due \in Counts /\ due[c] = k /\ \A y \in Breathing : y # c => due[y] = owed[y]
  BY <1>2, <1>3 DEF Counts
<1>6. v.b[c] = r /\ \A y \in Breathing : y # c => v.b[y] = w.b[y]
  BY <1>3, <1>4 DEF SceneType, Beings
<1>7. \A s \in Lairs : w.spawned[s] \in Breathing \cup {NoCreature}
  BY <1>3, BreathingFacts DEF SceneType, Places
<1>8. Watched(v)
  BY <1>3, <1>4, <1>6, <1>7 DEF Watched
<1>9. Sane(v, due, sn, X)
  <2>1. Apart(w, owed, v, due, c)
    BY <1>4, <1>5, <1>6 DEF Apart
  <2>3. v.b[c].removed => w.b[c].removed \/ c \in X \/ sm[c] = {}
    BY <1>6
  <2>4. One(v, c, due[c], sn, X) /\ v.toAdd \cap checkVectors = {}
    BY <1>1, <1>3, <1>4, <1>5
  <2> QED BY <1>4, <1>5, <1>8, <2>1, <2>3, <2>4, OthersStand, Zenon
<1> QED BY <1>1, <1>2, <1>9

LEMMA Unherded ==
  ASSUME NEW w, NEW sm, NEW c
  PROVE  Herded(w, sm, sm, c)
BY DEF Herded

\* While somebody is being born, deleted or removed, fewer things are so.
LEMMA Anybody ==
  ASSUME NEW w, NEW owed, NEW sm, NEW X, NEW Y, Sane(w, owed, sm, X), X \subseteq Y
  PROVE  Sane(w, owed, sm, Y)
<1> SUFFICES ASSUME NEW c \in Breathing PROVE One(w, c, owed[c], sm, Y)
  BY DEF Sane
<1>1. One(w, c, owed[c], sm, X)
  BY DEF Sane
<1> QED BY <1>1 DEF One

\* And it is over when they are true of it.
LEMMA ItIsOver ==
  ASSUME NEW w, NEW owed, NEW sm, NEW X, NEW x \in Breathing, Sane(w, owed, sm, X \cup {x}),
         w.b[x].refs > 0 => w.b[x].placed, w.b[x] = Unborn => sm[x] = {},
         w.b[x].removed => ~ w.b[x].checked /\ \A y \in sm[x] : ~ Present(w, y)
  PROVE  Sane(w, owed, sm, X)
<1> SUFFICES ASSUME NEW c \in Breathing PROVE One(w, c, owed[c], sm, X)
  BY DEF Sane
<1>1. One(w, c, owed[c], sm, X \cup {x}) /\ c # NoCreature
  BY BreathingFacts DEF Sane
<1>2. w.b[c].master = x => c \in sm[x]
  BY <1>1 DEF One
<1>3. c \in Beasts /\ Present(w, c) /\ w.b[c].master # NoCreature /\ w.b[c].master \notin X => ~ w.b[w.b[c].master].removed
  BY <1>1, <1>2 DEF One
<1> QED BY <1>1, <1>3 DEF One

-----------------------------------------------------------------------------
(* References.                                                             *)

LEMMA SaneFacts ==
  ASSUME NEW w, NEW owed, NEW sm, NEW X, Sane(w, owed, sm, X), NEW c \in Breathing
  PROVE  /\ One(w, c, owed[c], sm, X)
         /\ w \in SceneType /\ w.b[c] \in Being /\ owed \in Counts /\ owed[c] \in Nat
         /\ sm \in Herds /\ sm[c] \in SUBSET Beasts /\ w.free[c] \in Nat
         /\ w.b[c].master # c /\ c \notin sm[c]
<1>1. /\ One(w, c, owed[c], sm, X) /\ w \in SceneType /\ w.b[c] \in Being /\ owed \in Counts
      /\ owed[c] \in Nat /\ sm \in Herds /\ sm[c] \in SUBSET Beasts /\ w.free[c] \in Nat
  BY DEF Sane, SceneType, Beings, Counts, Herds
<1>2. w.b[c].master # c /\ c \notin sm[c]
  <2>1. w.b[c].master = c => c \in sm[c]
    BY <1>1 DEF One
  <2>2. c \in sm[c] => w.b[c].master # NoCreature
    BY <1>1, BreathingFacts DEF One
  <2>3. w.b[c].master # NoCreature => sm[c] = {}
    BY <1>1 DEF One
  <2> QED BY <2>1, <2>2, <2>3
<1> QED BY <1>1, <1>2

LEMMA DropGood ==
  ASSUME NEW w, NEW owed, NEW sm, NEW X, Sane(w, owed, sm, X), NEW c \in Breathing, owed[c] > 0,
         sm[c] = {} \/ c \in X
  PROVE  LET v == Drop(w, c)
         IN  /\ Sane(v, [owed EXCEPT ![c] = @ - 1], sm, X)
             /\ w.b[c].refs > 0
             /\ Present(w, c) \/ w.b[c].listed \/ w.b[c].master # NoCreature \/ owed[c] > 1 => w.b[c].refs > 1
<1>1. /\ One(w, c, owed[c], sm, X) /\ w \in SceneType /\ w.b[c] \in Being /\ owed[c] \in Nat
      /\ sm \in Herds /\ w.free[c] \in Nat /\ w.b[c].master # c
  BY SaneFacts
<1>2. PICK r : r = IF w.b[c].refs > 1 THEN Less(w.b[c]) ELSE Unborn
  OBVIOUS
<1>3. r \in Being
  BY <1>1, <1>2, LessIs, UnbornIs
<1>4. Drop(w, c) = With(w, c, r)
  BY <1>2 DEF Drop
<1>5. PICK v : v = With(w, c, r)
  OBVIOUS
<1>6. PICK k : k = owed[c] - 1
  OBVIOUS
<1>7. /\ v \in SceneType /\ v.b = [w.b EXCEPT ![c] = r] /\ v.spawned = w.spawned
      /\ v.toAdd = w.toAdd /\ v.free = w.free
  BY <1>1, <1>3, <1>5, WithIs
<1>8. v.b[c] = r /\ \A y \in Breathing : y # c => v.b[y] = w.b[y]
  BY <1>1, <1>7 DEF SceneType, Beings
<1>9. /\ w.b[c].refs > 0 /\ w.b[c].refs \in Int /\ k \in Nat
      /\ Present(w, c) \/ w.b[c].listed \/ w.b[c].master # NoCreature \/ owed[c] > 1 => w.b[c].refs > 1
      /\ ~(w.b[c].refs > 1) => w.free[c] = 0 /\ k = 0
                              /\ ~(w.b[c].spawn # NoLair /\ w.spawned[w.b[c].spawn] = c)
  <2>1. w.b[c].refs = (IF Present(w, c) THEN 1 ELSE 0) + w.free[c] + (IF w.b[c].listed THEN 1 ELSE 0)
                  + (IF w.b[c].master # NoCreature THEN 1 ELSE 0)
                  + (IF w.b[c].spawn # NoLair /\ w.spawned[w.b[c].spawn] = c THEN 1 ELSE 0) + owed[c]
    BY <1>1 DEF One
  <2>2. owed[c] \in Nat /\ w.free[c] \in Nat /\ owed[c] > 0 /\ w.b[c].refs \in Int
    BY <1>1 DEF Being
  <2>3. owed[c] > 1 => w.b[c].refs > 1
    BY <2>1, <2>2
  <2> QED BY <1>6, <2>1, <2>2, <2>3
<1>10. One(v, c, k, sm, X)
  <2>1. CASE w.b[c].refs > 1
    <3>1. /\ r.refs = w.b[c].refs - 1 /\ r.placed = w.b[c].placed /\ r.removed = w.b[c].removed
          /\ r.health = w.b[c].health /\ r.master = w.b[c].master /\ r.isIdle = w.b[c].isIdle
          /\ r.checked = w.b[c].checked /\ r.listed = w.b[c].listed /\ r.spawn = w.b[c].spawn
      BY <1>1, <1>2, <2>1, LessIs
    <3>2. r # Unborn
      BY <1>9, <2>1, <3>1, UnbornIs
    <3>3. Present(v, c) <=> Present(w, c)
      BY <1>8, <3>1 DEF Present
    <3>4. c \in Beasts /\ Present(v, c) /\ r.master # NoCreature /\ r.master \notin X => ~ v.b[r.master].removed
      <4>1. r.master = NoCreature \/ r.master \in Breathing
        BY <1>3 DEF Being
      <4> QED BY <1>1, <1>8, <3>1, <3>3, <4>1 DEF One
    <3>5. v.b[c].refs = (IF Present(v, c) THEN 1 ELSE 0) + v.free[c] + (IF r.listed THEN 1 ELSE 0)
                  + (IF r.master # NoCreature THEN 1 ELSE 0)
                  + (IF r.spawn # NoLair /\ v.spawned[r.spawn] = c THEN 1 ELSE 0) + k
      <4>1. w.b[c].refs = (IF Present(w, c) THEN 1 ELSE 0) + w.free[c] + (IF r.listed THEN 1 ELSE 0)
                  + (IF r.master # NoCreature THEN 1 ELSE 0)
                  + (IF r.spawn # NoLair /\ w.spawned[r.spawn] = c THEN 1 ELSE 0) + owed[c]
        BY <1>1, <3>1 DEF One
      <4> QED BY <1>1, <1>6, <1>7, <1>8, <1>9, <3>1, <3>3, <4>1
    <3> QED BY <1>1, <1>7, <1>8, <1>9, <2>1, <3>1, <3>2, <3>3, <3>4, <3>5 DEF One
  <2>2. CASE ~(w.b[c].refs > 1)
    <3>1. r = Unborn
      BY <1>2, <2>2
    <3>2. ~ Present(v, c) /\ ~ w.b[c].listed /\ w.b[c].master = NoCreature
      BY <1>8, <1>9, <2>2, <3>1, UnbornIs DEF Present
    <3>3. \A s \in Lairs : v.spawned[s] # c
      BY <1>1, <1>7, <1>9, <2>2, BreathingFacts DEF One
    <3> QED BY <1>1, <1>7, <1>8, <1>9, <2>2, <3>1, <3>2, <3>3, UnbornIs DEF One
  <2> QED BY <2>1, <2>2
<1>11. r.removed => w.b[c].removed
  BY <1>1, <1>2, LessIs, UnbornIs
<1>12. Sane(With(w, c, r), [owed EXCEPT ![c] = k], sm, X)
  <2>1. One(With(w, c, r), c, k, sm, X)
    BY <1>5, <1>10
  <2> QED BY <1>1, <1>3, <1>9, <1>11, <2>1, Unherded, AloneGood
<1> QED BY <1>4, <1>6, <1>9, <1>12

LEMMA SummonFacts ==
  ASSUME NEW w, NEW owed, NEW sm, NEW X, Sane(w, owed, sm, X), NEW m \in Breathing, NEW c \in sm[m]
  PROVE  c \in Beasts /\ c \in Breathing /\ c # m /\ w.b[c].master = m /\ sm[c] = {} /\ w.b[c].refs > owed[c]
<1>1. sm \in Herds /\ c \in Beasts /\ c \in Breathing /\ c # m
  BY SaneFacts, BreathingFacts DEF Herds
<1>2. /\ One(w, c, owed[c], sm, X) /\ w.b[c] \in Being /\ owed[c] \in Nat
      /\ w.free[c] \in Nat
  BY <1>1, SaneFacts
<1>3. w.b[c].master = m /\ m # NoCreature
  BY <1>2, BreathingFacts DEF One
<1>4. sm[c] = {} /\ w.b[c].refs > owed[c]
  BY <1>2, <1>3 DEF One, Being
<1> QED BY <1>1, <1>3, <1>4

\* A summon without its master, who has still counted it.
LEMMA LetGoGood ==
  ASSUME NEW w, NEW owed, NEW sm, NEW X, Sane(w, owed, sm, X), NEW m \in Breathing, NEW c \in sm[m]
  PROVE  Sane(With(w, c, Owned(w.b[c], NoCreature)), [owed EXCEPT ![c] = @ + 1],
              [sm EXCEPT ![m] = @ \ {c}], X)
<1>1. sm \in Herds /\ c \in Beasts /\ c \in Breathing /\ c # m
  BY SaneFacts, SummonFacts
<1>2. /\ One(w, c, owed[c], sm, X) /\ w \in SceneType /\ w.b[c] \in Being /\ owed[c] \in Nat
      /\ w.free[c] \in Nat
  BY <1>1, SaneFacts
<1>3. PICK r : r = Owned(w.b[c], NoCreature)
  OBVIOUS
<1>4. /\ r \in Being
      /\ r.refs = w.b[c].refs /\ r.placed = w.b[c].placed /\ r.removed = w.b[c].removed
      /\ r.health = w.b[c].health /\ r.master = NoCreature /\ r.isIdle = w.b[c].isIdle
      /\ r.checked = w.b[c].checked /\ r.listed = w.b[c].listed /\ r.spawn = w.b[c].spawn
  BY <1>2, <1>3, OwnedIs
<1>5. PICK sn : sn = [sm EXCEPT ![m] = @ \ {c}]
  OBVIOUS
<1>6. sn \in Herds /\ sn[m] = sm[m] \ {c} /\ \A y \in Breathing : y # m => sn[y] = sm[y]
  BY <1>1, <1>5 DEF Herds
<1>7. w.b[c].master = m /\ sm[c] = {} /\ w.b[c].refs \in Int /\ m # NoCreature
  BY <1>2, SummonFacts, BreathingFacts DEF Being
<1>8. PICK v : v = With(w, c, r)
  OBVIOUS
<1>9. /\ v.b = [w.b EXCEPT ![c] = r] /\ v.spawned = w.spawned /\ v.toAdd = w.toAdd /\ v.free = w.free
  BY <1>1, <1>2, <1>4, <1>8, WithIs
<1>10. v.b[c] = r
  BY <1>1, <1>2, <1>9 DEF SceneType, Beings
<1>11. One(v, c, owed[c] + 1, sn, X)
  <2>1. Present(v, c) <=> Present(w, c)
    BY <1>4, <1>10 DEF Present
  <2>2. \A y \in Breathing : c \in sn[y] <=> r.master = y
    <3>1. \A y \in Breathing : c \in sm[y] => y = m
      BY <1>2, <1>7 DEF One
    <3>2. \A y \in Breathing : c \notin sn[y]
      BY <1>6, <3>1
    <3> QED BY <1>4, <3>2, BreathingFacts
  <2>3. sn[c] = {}
    BY <1>1, <1>6, <1>7
  <2>4. r.refs = (IF Present(v, c) THEN 1 ELSE 0) + v.free[c] + (IF r.listed THEN 1 ELSE 0)
                  + (IF r.master # NoCreature THEN 1 ELSE 0)
                  + (IF r.spawn # NoLair /\ v.spawned[r.spawn] = c THEN 1 ELSE 0) + (owed[c] + 1)
    <3>1. w.b[c].refs = (IF Present(w, c) THEN 1 ELSE 0) + w.free[c] + (IF r.listed THEN 1 ELSE 0)
                  + 1 + (IF r.spawn # NoLair /\ w.spawned[r.spawn] = c THEN 1 ELSE 0) + owed[c]
      BY <1>2, <1>4, <1>7 DEF One
    <3> QED BY <1>2, <1>4, <1>9, <2>1, <3>1
  <2> QED BY <1>2, <1>4, <1>9, <1>10, <2>1, <2>2, <2>3, <2>4 DEF One
<1>12. Herded(w, sm, sn, c)
  BY <1>6 DEF Herded
<1>13. Sane(With(w, c, r), [owed EXCEPT ![c] = owed[c] + 1], sn, X)
  <2>1. One(With(w, c, r), c, owed[c] + 1, sn, X) /\ owed[c] + 1 \in Nat
    BY <1>2, <1>8, <1>11
  <2> QED BY <1>1, <1>4, <1>6, <1>12, <2>1, AloneGood
<1> QED BY <1>3, <1>5, <1>13

\* And with one, who counts it.
LEMMA TakeGood ==
  ASSUME NEW w, NEW owed, NEW sm, NEW X, Sane(w, owed, sm, X), NEW m \in Breathing, NEW c \in Beasts,
         c # m, w.b[c].master = NoCreature, sm[c] = {}, w.b[c].placed \/ c \in X,
         w.b[m].master = NoCreature, w.b[m] # Unborn, ~ w.b[m].removed
  PROVE  Sane(With(w, c, Owned(More(w.b[c]), m)), owed, [sm EXCEPT ![m] = @ \cup {c}], X)
<1>1. c \in Breathing /\ m # NoCreature
  BY BreathingFacts
<1>2. /\ One(w, c, owed[c], sm, X) /\ w \in SceneType /\ w.b[c] \in Being /\ owed[c] \in Nat
      /\ w.free[c] \in Nat /\ owed \in Counts /\ sm \in Herds
  BY <1>1, SaneFacts
<1>3. PICK r : r = Owned(More(w.b[c]), m)
  OBVIOUS
<1>4. /\ r \in Being
      /\ r.refs = w.b[c].refs + 1 /\ r.placed = w.b[c].placed /\ r.removed = w.b[c].removed
      /\ r.health = w.b[c].health /\ r.master = m /\ r.isIdle = w.b[c].isIdle
      /\ r.checked = w.b[c].checked /\ r.listed = w.b[c].listed /\ r.spawn = w.b[c].spawn
  BY <1>2, <1>3, MoreIs, OwnedIs
<1>5. PICK sn : sn = [sm EXCEPT ![m] = @ \cup {c}]
  OBVIOUS
<1>6. sn \in Herds /\ sn[m] = sm[m] \cup {c} /\ \A y \in Breathing : y # m => sn[y] = sm[y]
  BY <1>2, <1>5 DEF Herds
<1>8. PICK v : v = With(w, c, r)
  OBVIOUS
<1>9. /\ v.b = [w.b EXCEPT ![c] = r] /\ v.spawned = w.spawned /\ v.toAdd = w.toAdd /\ v.free = w.free
  BY <1>1, <1>2, <1>4, <1>8, WithIs
<1>10. v.b[c] = r /\ v.b[m] = w.b[m]
  BY <1>1, <1>2, <1>9 DEF SceneType, Beings
<1>11. One(v, c, owed[c], sn, X)
  <2>1. Present(v, c) <=> Present(w, c)
    BY <1>4, <1>10 DEF Present
  <2>2. \A y \in Breathing : c \in sn[y] <=> r.master = y
    <3>1. \A y \in Breathing : c \notin sm[y]
      BY <1>2, BreathingFacts DEF One
    <3> QED BY <1>4, <1>6, <3>1
  <2>3. sn[c] = {}
    BY <1>1, <1>6
  <2>4. r.refs = (IF Present(v, c) THEN 1 ELSE 0) + v.free[c] + (IF r.listed THEN 1 ELSE 0)
                  + (IF r.master # NoCreature THEN 1 ELSE 0)
                  + (IF r.spawn # NoLair /\ v.spawned[r.spawn] = c THEN 1 ELSE 0) + owed[c]
    <3>1. w.b[c].refs = (IF Present(w, c) THEN 1 ELSE 0) + w.free[c] + (IF r.listed THEN 1 ELSE 0)
                  + 0 + (IF r.spawn # NoLair /\ w.spawned[r.spawn] = c THEN 1 ELSE 0) + owed[c]
      BY <1>2, <1>4 DEF One
    <3> QED BY <1>1, <1>2, <1>4, <1>9, <2>1, <3>1
  <2>5. ~ v.b[r.master].removed
    BY <1>4, <1>10
  <2> QED BY <1>2, <1>4, <1>9, <1>10, <2>1, <2>2, <2>3, <2>4, <2>5 DEF One
<1>12. Herded(w, sm, sn, c)
  BY <1>6 DEF Herded
<1>13. Sane(With(w, c, r), [owed EXCEPT ![c] = owed[c]], sn, X)
  <2>1. One(With(w, c, r), c, owed[c], sn, X)
    BY <1>8, <1>11
  <2>2. r.removed => w.b[c].removed
    BY <1>4
  <2> QED BY <1>1, <1>2, <1>4, <1>6, <1>12, <2>1, <2>2, AloneGood
<1>14. [owed EXCEPT ![c] = owed[c]] = owed
  BY <1>2 DEF Counts
<1> QED BY <1>3, <1>5, <1>13, <1>14

\* Whose summons the lists say they are is sm's to say.
LEMMA HerdGood ==
  ASSUME NEW w, NEW owed, NEW sm, NEW X, Sane(w, owed, sm, X), NEW m \in Breathing, NEW S \in SUBSET Beasts
  PROVE  Sane(WithHerd(w, m, S), owed, sm, X)
<1>1. PICK v : v = WithHerd(w, m, S)
  OBVIOUS
<1>2. w \in SceneType
  BY DEF Sane
<1>3. /\ v \in SceneType /\ v.b = w.b
      /\ v.spawned = w.spawned /\ v.event = w.event /\ v.toAdd = w.toAdd
      /\ v.free = w.free /\ v.lost = w.lost
  BY <1>1, <1>2, WithHerdIs
<1>4. Watched(v) /\ v.toAdd \cap checkVectors = {}
  BY <1>3 DEF Sane, Watched
<1>5. \A c \in Breathing : One(w, c, owed[c], sm, X) => One(v, c, owed[c], sm, X)
  BY <1>3 DEF One, Present
<1>6. Sane(v, owed, sm, X)
  BY <1>3, <1>4, <1>5 DEF Sane
<1> QED BY <1>1, <1>6

LEMMA SameHerd ==
  ASSUME NEW w \in SceneType, NEW c \in Breathing
  PROVE  WithHerd(w, c, w.summons[c]) = w
<1> DEFINE A == Beings
           B == Herds
           C == Places
           D == SUBSET Breathing
           E == Counts
           F == SUBSET Lairs
           R == [b : A, summons : B, spawned : C, event : BOOLEAN, toAdd : D, free : E, lost : F]
<1>1. w \in R
  BY DEF SceneType
<1>2. PICK N : N = [w.summons EXCEPT ![c] = w.summons[c]]
  OBVIOUS
<1>3. N = w.summons
  BY <1>1, <1>2 DEF Herds
<1>4. WithHerd(w, c, w.summons[c]) = [w EXCEPT !.summons = N]
  BY <1>2 DEF WithHerd
<1> HIDE DEF A, B, C, D, E, F
<1>5. [w EXCEPT !.summons = N] = w
  BY <1>1, <1>3
<1> QED BY <1>4, <1>5

LEMMA NothingInASequence == SetToSeq({}) = <<>>
<1>1. SetToSeq({}) \in Seq({})
  BY FS_EmptySet, SetToSeqFacts
<1> QED BY <1>1

\* All of a creature that neither its master nor its references are.
Kin(r, q) ==
  /\ q.placed = r.placed /\ q.removed = r.removed /\ q.health = r.health /\ q.isIdle = r.isIdle
  /\ q.checked = r.checked /\ q.listed = r.listed /\ q.spawn = r.spawn

\* What has not changed but for the creatures and their summons.
Calm(w, v) ==
  /\ v.spawned = w.spawned /\ v.event = w.event /\ v.toAdd = w.toAdd
  /\ v.free = w.free /\ v.lost = w.lost

MayAdopt(w, m, c, X) ==
  /\ c # m /\ w.b[c].master = NoCreature /\ w.summons[c] = {} /\ (w.b[c].placed \/ c \in X)
  /\ w.b[m].master = NoCreature /\ w.b[m] # Unborn /\ ~ w.b[m].removed
Adopted(w, v, m, c) ==
  /\ v.summons = [w.summons EXCEPT ![m] = @ \cup {c}]
  /\ v.b = [w.b EXCEPT ![c] = Owned(More(w.b[c]), m)]

LEMMA AddSummonGood ==
  ASSUME NEW w, NEW owed, NEW X, Sane(w, owed, w.summons, X), NEW m \in Breathing, NEW c \in Beasts,
         MayAdopt(w, m, c, X)
  PROVE  LET v == addSummon(w, m, c)
         IN  Sane(v, owed, v.summons, X) /\ Calm(w, v) /\ Adopted(w, v, m, c)
<1>1. c \in Breathing
  BY BreathingFacts
<1>2. w \in SceneType /\ w.b[c] \in Being /\ w.summons[m] \in SUBSET Beasts
  BY <1>1, SaneFacts
<1>3. PICK r : r = Owned(More(w.b[c]), m)
  OBVIOUS
<1>4. r \in Being
  BY <1>2, <1>3, MoreIs, OwnedIs
<1>5. PICK S : S = w.summons[m] \cup {c}
  OBVIOUS
<1>6. S \in SUBSET Beasts
  BY <1>2, <1>5
<1>7. addSummon(w, m, c) = WithHerd(With(w, c, r), m, S)
  <2>1. [w.b[c] EXCEPT !.refs = @ + 1, !.master = m] = r
    BY <1>2, <1>3 DEF Being, More, Owned
  <2>2. addSummon(w, m, c) = [w EXCEPT !.b[c] = r, !.summons[m] = @ \cup {c}]
    BY <2>1, Zenon DEF addSummon
  <2>3. [w EXCEPT !.b[c] = r, !.summons[m] = @ \cup {c}] = [w EXCEPT !.b[c] = r, !.summons[m] = S]
    BY <1>5
  <2>4. [w EXCEPT !.b[c] = r, !.summons[m] = S] = WithHerd(With(w, c, r), m, S)
    BY Zenon DEF WithHerd, With
  <2> QED BY <2>2, <2>3, <2>4
<1>8. PICK u : u = With(w, c, r)
  OBVIOUS
<1>9. u \in SceneType /\ u.b = [w.b EXCEPT ![c] = r] /\ u.summons = w.summons /\ Calm(w, u)
  BY <1>1, <1>2, <1>4, <1>8, WithIs DEF Calm
<1>10. PICK v : v = WithHerd(u, m, S)
  OBVIOUS
<1>11. v.b = u.b /\ v.summons = [w.summons EXCEPT ![m] = S] /\ Calm(w, v)
  BY <1>6, <1>9, <1>10, WithHerdIs DEF Calm
<1>12. v.summons = [w.summons EXCEPT ![m] = @ \cup {c}]
  BY <1>5, <1>11
<1>13. Sane(u, owed, [w.summons EXCEPT ![m] = @ \cup {c}], X)
  BY <1>1, <1>3, <1>8, TakeGood DEF MayAdopt
<1>14. Sane(v, owed, v.summons, X)
  BY <1>6, <1>10, <1>12, <1>13, HerdGood
<1> QED BY <1>3, <1>7, <1>8, <1>9, <1>10, <1>11, <1>12, <1>14 DEF Adopted

\* Who has no summons leaves none behind.
LEMMA UnRefAlone ==
  ASSUME NEW w \in SceneType, NEW c \in Breathing, w.summons[c] = {}
  PROVE  unRef(w, c) = Drop(w, c)
<1>1. CASE w.b[c].refs > 1
  <2>1. unRef(w, c) = [w EXCEPT !.b[c].refs = @ - 1]
    BY <1>1 DEF unRef
  <2>2. [w EXCEPT !.b[c].refs = @ - 1] = With(w, c, Less(w.b[c]))
    BY Zenon DEF With, Less
  <2> QED BY <1>1, <2>1, <2>2 DEF Drop
<1>2. CASE ~(w.b[c].refs > 1)
  <2>1. PICK u : u = With(w, c, Unborn)
    OBVIOUS
  <2>2. u \in SceneType /\ u.summons = w.summons
    BY <2>1, UnbornIs, WithIs
  <2>3. SetToSeq(w.summons[c]) = <<>>
    BY NothingInASequence
  <2>4. Orphaned(u, <<>>) = u
    <3>1. PICK l : l = <<>>
      OBVIOUS
    <3>2. l \in Seq(Breathing) /\ Len(l) = 0
      BY <3>1
    <3>3. \E f \in [0 .. Len(l) -> SceneType] :
           /\ f[0] = u /\ \A k \in 1 .. Len(l) : f[k] = orphan(f[k - 1], l[k])
           /\ Orphaned(u, l) = f[Len(l)]
      BY <2>2, <3>2, OrphansInTurn, Zenon
    <3> QED BY <3>1, <3>2, <3>3
  <2>5. unRef(w, c) = [Orphaned(u, SetToSeq(w.summons[c])) EXCEPT !.summons[c] = {}]
    BY <1>2, <2>1, Zenon DEF unRef, With, Orphaned
  <2>6. [u EXCEPT !.summons[c] = {}] = WithHerd(u, c, {})
    BY DEF WithHerd
  <2>7. WithHerd(u, c, {}) = u
    BY <2>2, SameHerd
  <2> QED BY <1>2, <2>1, <2>3, <2>4, <2>5, <2>6, <2>7 DEF Drop
<1> QED BY <1>1, <1>2

\* More or less often counted, nothing else.
LEMMA MoreThenLess ==
  ASSUME NEW owed \in Counts, NEW c \in Breathing
  PROVE  LET due == [owed EXCEPT ![c] = @ + 1]
         IN  due \in Counts /\ due[c] > 0 /\ due[c] = owed[c] + 1 /\ [due EXCEPT ![c] = @ - 1] = owed
<1>1. PICK due : due = [owed EXCEPT ![c] = @ + 1]
  OBVIOUS
<1>2. due \in Counts /\ due[c] = owed[c] + 1 /\ owed[c] \in Nat /\ \A y \in Breathing : y # c => due[y] = owed[y]
  BY <1>1 DEF Counts
<1>3. PICK fee : fee = [due EXCEPT ![c] = @ - 1]
  OBVIOUS
<1>4. fee = [y \in Breathing |-> owed[y]]
  <2>1. fee = [y \in Breathing |-> IF y = c THEN due[c] - 1 ELSE due[y]]
    BY <1>2, <1>3 DEF Counts
  <2> QED BY <1>2, <2>1
<1> QED BY <1>1, <1>2, <1>3, <1>4 DEF Counts

\* A creature counted still loses a reference to it, and nothing else; or it is deleted.
LEMMA DropIs ==
  ASSUME NEW w \in SceneType, NEW c \in Breathing
  PROVE  LET v == Drop(w, c)
         IN  /\ v \in SceneType /\ Calm(w, v) /\ v.summons = w.summons
             /\ \A y \in Breathing : y # c => v.b[y] = w.b[y]
             /\ w.b[c].refs > 1 => v.b[c] = Less(w.b[c])
             /\ ~(w.b[c].refs > 1) => v.b[c] = Unborn
<1>1. PICK r : r = IF w.b[c].refs > 1 THEN Less(w.b[c]) ELSE Unborn
  OBVIOUS
<1>2. w.b[c] \in Being
  BY DEF SceneType, Beings
<1>3. r \in Being
  BY <1>1, <1>2, LessIs, UnbornIs
<1>4. PICK v : v = With(w, c, r)
  OBVIOUS
<1>5. /\ v \in SceneType /\ Calm(w, v) /\ v.summons = w.summons /\ v.b = [w.b EXCEPT ![c] = r]
  BY <1>3, <1>4, WithIs DEF Calm
<1>6. v.b[c] = r /\ \A y \in Breathing : y # c => v.b[y] = w.b[y]
  BY <1>5 DEF SceneType, Beings
<1>7. Drop(w, c) = v
  BY <1>1, <1>4 DEF Drop
<1> QED BY <1>1, <1>5, <1>6, <1>7

\* What losing a master leaves: the creature itself unless nothing else refers to it.
Unmastered(w, v, c) ==
  /\ \A y \in Breathing : y # c => v.b[y] = w.b[y]
  /\ v.b[c].master = NoCreature
  /\ Present(w, c) \/ w.b[c].listed => Kin(w.b[c], v.b[c])
  /\ v.b[c].removed => w.b[c].removed
  /\ w.b[c].refs > 1 \/ v.b[c] = Unborn

LEMMA ReleasedGood ==
  ASSUME NEW w, NEW owed, NEW sm, NEW X, Sane(w, owed, sm, X), NEW m \in Breathing, NEW c \in sm[m]
  PROVE  LET v == Drop(With(w, c, Owned(w.b[c], NoCreature)), c)
         IN  /\ Sane(v, owed, [sm EXCEPT ![m] = @ \ {c}], X) /\ Calm(w, v) /\ v.summons = w.summons
             /\ Unmastered(w, v, c) /\ (owed[c] > 0 => Kin(w.b[c], v.b[c]))
<1>1. /\ c \in Beasts /\ c # m /\ w.b[c].master = m /\ sm[c] = {} /\ sm \in Herds
      /\ w \in SceneType /\ owed \in Counts /\ c \in Breathing
  <2>1. c \in Beasts /\ c # m /\ w.b[c].master = m /\ sm[c] = {}
    BY SummonFacts
  <2> QED BY <2>1, SaneFacts, BreathingFacts
<1>2. PICK sn : sn = [sm EXCEPT ![m] = @ \ {c}]
  OBVIOUS
<1>3. PICK due : due = [owed EXCEPT ![c] = @ + 1]
  OBVIOUS
<1>4. PICK r : r = Owned(w.b[c], NoCreature)
  OBVIOUS
<1>5. PICK u : u = With(w, c, r)
  OBVIOUS
<1>6. Sane(u, due, sn, X)
  BY <1>2, <1>3, <1>4, <1>5, LetGoGood
<1>7. sn[c] = {} /\ due[c] > 0 /\ [due EXCEPT ![c] = @ - 1] = owed
  <2>1. sn[c] = sm[c]
    BY <1>1, <1>2 DEF Herds
  <2> QED BY <1>1, <1>3, <2>1, MoreThenLess
<1>8. w.b[c] \in Being
  BY <1>1 DEF SceneType, Beings
<1>9. r \in Being /\ Kin(w.b[c], r) /\ r.master = NoCreature /\ r.refs = w.b[c].refs
  BY <1>4, <1>8, OwnedIs, BreathingFacts DEF Kin
<1>10. /\ u \in SceneType /\ u.summons = w.summons /\ Calm(w, u)
       /\ u.b = [w.b EXCEPT ![c] = r]
  BY <1>1, <1>5, <1>9, WithIs DEF Calm
<1>11. u.b[c] = r /\ \A y \in Breathing : y # c => u.b[y] = w.b[y]
  BY <1>1, <1>10 DEF SceneType, Beings
<1>12. PICK v : v = Drop(u, c)
  OBVIOUS
<1>13. Sane(v, owed, sn, X)
  BY <1>1, <1>6, <1>7, <1>12, DropGood
<1>14. /\ Calm(u, v) /\ v.summons = u.summons
       /\ \A y \in Breathing : y # c => v.b[y] = u.b[y]
       /\ u.b[c].refs > 1 => v.b[c] = Less(u.b[c])
       /\ ~(u.b[c].refs > 1) => v.b[c] = Unborn
  <2>1. u \in SceneType /\ c \in Breathing
    BY <1>1, <1>10
  <2> QED BY <1>12, <2>1, DropIs
<1>15. Present(u, c) \/ u.b[c].listed \/ owed[c] > 0 => u.b[c].refs > 1
  <2>1. Present(u, c) \/ u.b[c].listed \/ due[c] > 1 => u.b[c].refs > 1
    BY <1>1, <1>6, <1>7, DropGood
  <2>2. owed[c] > 0 => due[c] > 1
    BY <1>1, <1>3 DEF Counts
  <2> QED BY <2>1, <2>2
<1>16. Unmastered(w, v, c) /\ (owed[c] > 0 => Kin(w.b[c], v.b[c]))
  <2>1. Present(w, c) \/ w.b[c].listed \/ owed[c] > 0 => r.refs > 1
    BY <1>9, <1>11, <1>15 DEF Kin, Present
  <2>2. CASE r.refs > 1
    BY <1>9, <1>11, <1>14, <2>2, LessIs DEF Kin, Unmastered
  <2>3. CASE ~(r.refs > 1)
    BY <1>9, <1>11, <1>14, <2>1, <2>3, UnbornIs DEF Unmastered
  <2> QED BY <2>2, <2>3
<1>17. Calm(w, v) /\ v.summons = w.summons
  BY <1>10, <1>14 DEF Calm
<1> QED BY <1>2, <1>4, <1>5, <1>12, <1>13, <1>16, <1>17

LEMMA RemoveSummonGood ==
  ASSUME NEW w, NEW owed, NEW X, Sane(w, owed, w.summons, X), NEW m \in Breathing, NEW c \in w.summons[m]
  PROVE  LET v == removeSummon(w, m, c)
         IN  /\ Sane(v, owed, v.summons, X) /\ Calm(w, v) /\ Unmastered(w, v, c)
             /\ owed[c] > 0 => Kin(w.b[c], v.b[c])
             /\ v.summons = [w.summons EXCEPT ![m] = @ \ {c}]
<1>1. /\ c \in Beasts /\ c # m /\ w.summons[c] = {} /\ w.summons \in Herds
      /\ w \in SceneType /\ owed \in Counts /\ c \in Breathing /\ w.b[c] \in Being
  <2>1. c \in Beasts /\ c # m /\ w.summons[c] = {}
    BY SummonFacts
  <2> QED BY <2>1, SaneFacts, BreathingFacts
<1>2. PICK S : S = w.summons[m] \ {c}
  OBVIOUS
<1>3. S \in SUBSET Beasts
  BY <1>1, <1>2 DEF Herds
<1>4. PICK r : r = Owned(w.b[c], NoCreature)
  OBVIOUS
<1>5. r \in Being
  BY <1>1, <1>4, OwnedIs
<1>6. PICK u : u = With(w, c, r)
  OBVIOUS
<1>7. PICK t : t = WithHerd(u, m, S)
  OBVIOUS
<1>8. u \in SceneType /\ u.summons = w.summons /\ Calm(w, u) /\ u.b = [w.b EXCEPT ![c] = r]
  BY <1>1, <1>5, <1>6, WithIs DEF Calm
<1>9. t \in SceneType /\ t.summons = [w.summons EXCEPT ![m] = S] /\ Calm(w, t) /\ t.b = u.b
  BY <1>3, <1>7, <1>8, WithHerdIs DEF Calm
<1>10. removeSummon(w, m, c) = unRef(t, c)
  <2>1. removeSummon(w, m, c) = unRef([w EXCEPT !.b[c].master = NoCreature, !.summons[m] = @ \ {c}], c)
    BY DEF removeSummon
  <2>2. [w EXCEPT !.b[c].master = NoCreature, !.summons[m] = @ \ {c}]
         = [w EXCEPT !.b[c] = r, !.summons[m] = @ \ {c}]
    BY <1>4, Zenon DEF Owned
  <2>3. [w EXCEPT !.b[c] = r, !.summons[m] = @ \ {c}] = [w EXCEPT !.b[c] = r, !.summons[m] = S]
    BY <1>2
  <2>4. [w EXCEPT !.b[c] = r, !.summons[m] = S] = WithHerd(With(w, c, r), m, S)
    BY Zenon DEF WithHerd, With
  <2> QED BY <1>6, <1>7, <2>1, <2>2, <2>3, <2>4
<1>11. t.summons[c] = {}
  BY <1>1, <1>9 DEF Herds
<1>12. unRef(t, c) = Drop(t, c)
  BY <1>1, <1>9, <1>11, UnRefAlone
<1>13. Drop(t, c) = WithHerd(Drop(u, c), m, S)
  <2>1. PICK q : q = IF u.b[c].refs > 1 THEN Less(u.b[c]) ELSE Unborn
    OBVIOUS
  <2>2. Drop(u, c) = With(u, c, q) /\ Drop(t, c) = With(t, c, q)
    BY <1>9, <2>1 DEF Drop
  <2>3. With(WithHerd(u, m, S), c, q) = WithHerd(With(u, c, q), m, S)
    BY <1>8 DEF With, WithHerd, SceneType
  <2> QED BY <1>7, <2>2, <2>3
<1>14. PICK p : p = Drop(u, c)
  OBVIOUS
<1>15. /\ Sane(p, owed, [w.summons EXCEPT ![m] = @ \ {c}], X) /\ Calm(w, p) /\ p.summons = w.summons
       /\ Unmastered(w, p, c) /\ (owed[c] > 0 => Kin(w.b[c], p.b[c]))
  BY <1>4, <1>6, <1>14, ReleasedGood
<1>16. p \in SceneType
  BY <1>15 DEF Sane
<1>17. PICK v : v = WithHerd(p, m, S)
  OBVIOUS
<1>18. v.b = p.b /\ v.summons = [w.summons EXCEPT ![m] = S] /\ Calm(w, v)
  BY <1>3, <1>15, <1>16, <1>17, WithHerdIs DEF Calm
<1>19. v.summons = [w.summons EXCEPT ![m] = @ \ {c}]
  BY <1>2, <1>18
<1>20. Sane(v, owed, v.summons, X)
  BY <1>3, <1>15, <1>17, <1>19, HerdGood
<1>21. Unmastered(w, v, c) /\ (owed[c] > 0 => Kin(w.b[c], v.b[c]))
  BY <1>15, <1>18 DEF Unmastered
<1> QED BY <1>10, <1>12, <1>13, <1>14, <1>17, <1>18, <1>19, <1>20, <1>21

-----------------------------------------------------------------------------
(* The summons of the deleted.                                             *)

\* Who of l is still to come after k.
Rest(l, k) == {l[j] : j \in k + 1 .. Len(l)}

LEMMA RestFacts ==
  ASSUME NEW S, NEW l \in Seq(S), Once(l), ToSet(l) = S
  PROVE  /\ Rest(l, 0) = S /\ Rest(l, Len(l)) = {} /\ Len(l) \in Nat
         /\ \A k \in 1 .. Len(l) : /\ k - 1 \in Nat /\ l[k] \in S /\ l[k] \in Rest(l, k - 1)
                                   /\ Rest(l, k) = Rest(l, k - 1) \ {l[k]} /\ Rest(l, k - 1) \subseteq S
<1>1. Len(l) \in Nat /\ \A j \in 1 .. Len(l) : l[j] \in S
  OBVIOUS
<1>2. S = {l[j] : j \in 1 .. Len(l)}
  BY <1>1 DEF ToSet
<1>3. Rest(l, 0) = S /\ Rest(l, Len(l)) = {}
  BY <1>1, <1>2 DEF Rest
<1>4. ASSUME NEW k \in 1 .. Len(l)
      PROVE  /\ k - 1 \in Nat /\ l[k] \in S /\ l[k] \in Rest(l, k - 1)
             /\ Rest(l, k) = Rest(l, k - 1) \ {l[k]} /\ Rest(l, k - 1) \subseteq S
  <2>1. k - 1 \in Nat /\ l[k] \in S /\ k \in k - 1 + 1 .. Len(l)
    BY <1>1
  <2>2. l[k] \in Rest(l, k - 1)
    BY <2>1 DEF Rest
  <2>3. \A j \in k + 1 .. Len(l) : j \in 1 .. Len(l) /\ j \in k - 1 + 1 .. Len(l) /\ l[j] # l[k]
    BY <1>1 DEF Once
  <2>4. \A j \in k - 1 + 1 .. Len(l) : j \in 1 .. Len(l) /\ (j = k \/ j \in k + 1 .. Len(l))
    BY <1>1
  <2>5. Rest(l, k - 1) \subseteq S
    BY <1>1, <2>4 DEF Rest
  <2>6. Rest(l, k) = Rest(l, k - 1) \ {l[k]}
    BY <2>3, <2>4 DEF Rest
  <2> QED BY <2>1, <2>2, <2>5, <2>6
<1> QED BY <1>1, <1>3, <1>4

LEMMA OrphanReleases ==
  ASSUME NEW w \in SceneType, NEW s \in Breathing, w.b[s].refs > 0
  PROVE  orphan(w, s) = Drop(With(w, s, Owned(w.b[s], NoCreature)), s)
<1>1. w.b[s] \in Being
  BY DEF SceneType, Beings
<1>2. PICK r : r = Owned(w.b[s], NoCreature)
  OBVIOUS
<1>3. r \in Being /\ r.refs = w.b[s].refs /\ r.refs \in Int
  BY <1>1, <1>2, OwnedIs, BreathingFacts DEF Being
<1>4. PICK u : u = With(w, s, r)
  OBVIOUS
<1>5. u.b = [w.b EXCEPT ![s] = r] /\ u.b[s] = r
  BY <1>3, <1>4, WithIs DEF SceneType, Beings
<1>6. PICK q : q = IF r.refs > 1 THEN Less(r) ELSE Unborn
  OBVIOUS
<1>7. Drop(u, s) = With(u, s, q)
  BY <1>5, <1>6 DEF Drop
<1>8. With(With(w, s, r), s, q) = With(w, s, q)
  BY DEF With, SceneType, Beings
<1>9. Less(r) = Owned(Less(w.b[s]), NoCreature)
  BY <1>1, <1>2 DEF Being, Less, Owned
<1>10. orphan(w, s) = With(w, s, q)
  BY <1>3, <1>6, <1>9, OrphanIs
<1> QED BY <1>2, <1>4, <1>7, <1>8, <1>10

LEMMA OrphansGood ==
  ASSUME NEW w, NEW owed, NEW sm, NEW X, Sane(w, owed, sm, X), NEW c \in Breathing
  PROVE  LET v == Orphaned(w, SetToSeq(sm[c]))
         IN  /\ Sane(v, owed, [sm EXCEPT ![c] = {}], X) /\ Calm(w, v) /\ v.summons = w.summons
             /\ v.b[c] = w.b[c] /\ \A y \in Breathing : v.b[y].removed => w.b[y].removed
<1>1. /\ sm \in Herds /\ sm[c] \in SUBSET Beasts /\ w \in SceneType /\ owed \in Counts /\ c \notin sm[c]
      /\ IsFiniteSet(sm[c])
  BY SaneFacts, BreathingFacts, FS_Subset
<1>2. PICK l : l = SetToSeq(sm[c])
  OBVIOUS
<1>3. l \in Seq(sm[c]) /\ Once(l) /\ ToSet(l) = sm[c]
  BY <1>1, <1>2, SetToSeqFacts
<1>4. /\ Rest(l, 0) = sm[c] /\ Rest(l, Len(l)) = {} /\ Len(l) \in Nat
      /\ \A k \in 1 .. Len(l) : /\ k - 1 \in Nat /\ l[k] \in sm[c] /\ l[k] \in Rest(l, k - 1)
                                /\ Rest(l, k) = Rest(l, k - 1) \ {l[k]} /\ Rest(l, k - 1) \subseteq sm[c]
  BY <1>3, RestFacts
<1>5. l \in Seq(Breathing)
  BY <1>1, <1>3, BreathingFacts
<1>6. PICK f \in [0 .. Len(l) -> SceneType] :
           /\ f[0] = w /\ \A k \in 1 .. Len(l) : f[k] = orphan(f[k - 1], l[k])
           /\ Orphaned(w, l) = f[Len(l)]
  BY <1>1, <1>5, OrphansInTurn
<1> DEFINE left(k) == [sm EXCEPT ![c] = Rest(l, k)]
           Going(k) == /\ Sane(f[k], owed, left(k), X) /\ Calm(w, f[k]) /\ f[k].summons = w.summons
                       /\ f[k].b[c] = w.b[c] /\ \A y \in Breathing : f[k].b[y].removed => w.b[y].removed
           P == {k \in 0 .. Len(l) : Going(k)}
<1>7. 0 \in P
  <2>1. left(0) = sm
    BY <1>1, <1>4 DEF Herds
  <2> HIDE DEF left
  <2> QED BY <1>4, <1>6, <2>1 DEF Calm
<1>8. ASSUME NEW k \in 1 .. Len(l), k - 1 \in P PROVE k \in P
  <2>1. PICK u : u = f[k - 1]
    OBVIOUS
  <2>2. PICK s : s = l[k]
    OBVIOUS
  <2>3. PICK sn : sn = left(k - 1)
    OBVIOUS
  <2>4. PICK v : v = f[k]
    OBVIOUS
  <2>5. /\ Sane(u, owed, sn, X) /\ Calm(w, u) /\ u.summons = w.summons /\ u.b[c] = w.b[c]
        /\ \A y \in Breathing : u.b[y].removed => w.b[y].removed
    BY <1>8, <2>1, <2>3
  <2>6. sn[c] = Rest(l, k - 1) /\ s \in sn[c] /\ sn \in Herds
    BY <1>1, <1>4, <2>2, <2>3 DEF Herds
  <2>7. [sn EXCEPT ![c] = @ \ {s}] = left(k)
    <3>1. Rest(l, k) = sn[c] \ {s}
      BY <1>4, <2>2, <2>6
    <3> QED BY <1>1, <2>3, <3>1 DEF Herds
  <2>8. /\ s \in Breathing /\ s # c /\ u \in SceneType /\ u.b[s].refs > 0
    <3>1. s \in Beasts /\ s \in Breathing /\ s # c /\ u.b[s].refs > owed[s]
      BY <2>5, <2>6, SummonFacts
    <3>2. owed[s] \in Nat /\ u.b[s].refs \in Int /\ u \in SceneType
      BY <2>5, <3>1, SaneFacts DEF Being
    <3> QED BY <3>1, <3>2
  <2>9. v = Drop(With(u, s, Owned(u.b[s], NoCreature)), s)
    BY <1>6, <2>1, <2>2, <2>4, <2>8, OrphanReleases
  <2>10. /\ Sane(v, owed, [sn EXCEPT ![c] = @ \ {s}], X) /\ Calm(u, v) /\ v.summons = u.summons
         /\ Unmastered(u, v, s)
    BY <2>5, <2>6, <2>9, ReleasedGood
  <2>11. Sane(v, owed, left(k), X)
    BY <2>7, <2>10
  <2>12. v.b[c] = w.b[c] /\ \A y \in Breathing : v.b[y].removed => w.b[y].removed
    BY <2>5, <2>8, <2>10 DEF Unmastered
  <2>13. Calm(w, v) /\ v.summons = w.summons
    BY <2>5, <2>10 DEF Calm
  <2> HIDE DEF left
  <2> QED BY <1>4, <2>4, <2>11, <2>12, <2>13
<1> HIDE DEF P
<1>9. 0 .. Len(l) \subseteq P
  BY <1>4, <1>7, <1>8, UpTo
<1>10. Going(Len(l))
  <2> HIDE DEF Going
  <2>1. Len(l) \in P
    BY <1>4, <1>9
  <2> QED BY <2>1 DEF P
<1>11. left(Len(l)) = [sm EXCEPT ![c] = {}]
  BY <1>4
<1> HIDE DEF left
<1> QED BY <1>2, <1>6, <1>10, <1>11

\* Letting go of a creature keeps the counts, also when that deletes it.
LEMMA UnRefGood ==
  ASSUME NEW w, NEW owed, Sane(w, owed, w.summons, {}), NEW c \in Breathing, owed[c] > 0
  PROVE  LET v == unRef(w, c)
         IN  /\ Sane(v, [owed EXCEPT ![c] = @ - 1], v.summons, {}) /\ Calm(w, v)
             /\ \A y \in Breathing : v.b[y].removed => w.b[y].removed
<1>1. /\ One(w, c, owed[c], w.summons, {}) /\ w \in SceneType /\ w.b[c] \in Being /\ owed \in Counts
      /\ owed[c] \in Nat /\ w.summons \in Herds
  BY SaneFacts
<1>2. PICK due : due = [owed EXCEPT ![c] = @ - 1]
  OBVIOUS
<1>3. PICK u : u = Drop(w, c)
  OBVIOUS
<1>4. /\ u \in SceneType /\ Calm(w, u) /\ u.summons = w.summons
      /\ \A y \in Breathing : y # c => u.b[y] = w.b[y]
      /\ w.b[c].refs > 1 => u.b[c] = Less(w.b[c])
      /\ ~(w.b[c].refs > 1) => u.b[c] = Unborn
  BY <1>1, <1>3, DropIs
<1>5. Sane(u, due, w.summons, {} \cup {c})
  <2>1. Sane(w, owed, w.summons, {c})
    BY Anybody
  <2>2. {} \cup {c} = {c} /\ c \in {c}
    OBVIOUS
  <2> QED BY <1>2, <1>3, <2>1, <2>2, DropGood
<1>6. CASE w.b[c].refs > 1
  <2>1. unRef(w, c) = u
    <3>1. unRef(w, c) = [w EXCEPT !.b[c].refs = @ - 1]
      BY <1>6 DEF unRef
    <3>2. [w EXCEPT !.b[c].refs = @ - 1] = With(w, c, Less(w.b[c]))
      BY Zenon DEF With, Less
    <3> QED BY <1>3, <1>6, <3>1, <3>2 DEF Drop
  <2>2. /\ u.b[c].refs > 0 /\ u.b[c].placed = w.b[c].placed /\ u.b[c].removed = w.b[c].removed
        /\ u.b[c].checked = w.b[c].checked
    BY <1>1, <1>4, <1>6, LessIs DEF Being
  <2>3. u.b[c].placed /\ u.b[c] # Unborn
    BY <1>1, <1>6, <2>2, UnbornIs DEF One, Being
  <2>4. u.b[c].removed => ~ u.b[c].checked /\ \A y \in w.summons[c] : ~ Present(u, y)
    <3>1. w.b[c].removed => ~ w.b[c].checked
      BY <1>1 DEF One
    <3>2. ASSUME NEW y \in w.summons[c], w.b[c].removed PROVE ~ Present(w, y)
      <4>1. y \in Breathing /\ y \in Beasts /\ w.b[y].master = c
        BY SummonFacts
      <4>2. One(w, y, owed[y], w.summons, {})
        BY <4>1, SaneFacts
      <4> QED BY <3>2, <4>1, <4>2, BreathingFacts DEF One
    <3>3. \A y \in w.summons[c] : Present(u, y) <=> Present(w, y)
      <4>1. \A y \in w.summons[c] : y \in Breathing /\ y # c
        BY SummonFacts
      <4> QED BY <1>4, <4>1 DEF Present
    <3> QED BY <2>2, <3>1, <3>2, <3>3
  <2>5. Sane(u, due, w.summons, {})
    BY <1>5, <2>2, <2>3, <2>4, ItIsOver
  <2> QED BY <1>2, <1>4, <2>1, <2>2, <2>5
<1>7. CASE ~(w.b[c].refs > 1)
  <2>1. u = With(w, c, Unborn)
    BY <1>3, <1>7 DEF Drop
  <2>2. PICK t : t = Orphaned(u, SetToSeq(w.summons[c]))
    OBVIOUS
  <2>3. unRef(w, c) = WithHerd(t, c, {})
    <3>1. unRef(w, c) = [InTurn(orphan, With(w, c, Unborn), SetToSeq(w.summons[c])) EXCEPT !.summons[c] = {}]
      BY <1>7, Zenon DEF unRef, With
    <3>2. t = InTurn(orphan, With(w, c, Unborn), SetToSeq(w.summons[c]))
      BY <2>1, <2>2, Zenon DEF Orphaned
    <3> QED BY <3>1, <3>2, Zenon DEF WithHerd
  <2>4. PICK sn : sn = [w.summons EXCEPT ![c] = {}]
    OBVIOUS
  <2>5. /\ Sane(t, due, sn, {} \cup {c}) /\ Calm(u, t) /\ t.summons = w.summons
        /\ t.b[c] = u.b[c] /\ \A y \in Breathing : t.b[y].removed => u.b[y].removed
    BY <1>4, <1>5, <2>2, <2>4, OrphansGood
  <2>6. PICK v : v = WithHerd(t, c, {})
    OBVIOUS
  <2>7. v.b = t.b /\ v.summons = sn /\ Calm(t, v)
    <3>1. t \in SceneType /\ {} \in SUBSET Beasts
      BY <2>5 DEF Sane
    <3>2. PICK N : N = {}
      OBVIOUS
    <3>3. v = WithHerd(t, c, N) /\ N \in SUBSET Beasts
      BY <2>6, <3>2
    <3>4. v.b = t.b /\ v.summons = [t.summons EXCEPT ![c] = N] /\ Calm(t, v)
      BY <3>1, <3>3, WithHerdIs DEF Calm
    <3> QED BY <2>4, <2>5, <3>2, <3>4
  <2>8. Sane(v, due, sn, {} \cup {c})
    <3>1. {} \in SUBSET Beasts
      OBVIOUS
    <3> QED BY <2>5, <2>6, <3>1, HerdGood
  <2>9. Sane(v, due, sn, {})
    <3>1. v.b[c] = Unborn /\ sn[c] = {}
      BY <1>1, <1>4, <1>7, <2>4, <2>5, <2>7 DEF Herds
    <3>2. ~(v.b[c].refs > 0) /\ ~ v.b[c].removed
      BY <3>1, UnbornIs
    <3> QED BY <2>8, <3>1, <3>2, ItIsOver
  <2>10. Calm(w, v)
    BY <1>4, <2>5, <2>7 DEF Calm
  <2>11. \A y \in Breathing : v.b[y].removed => w.b[y].removed
    BY <1>4, <1>7, <2>5, <2>7, UnbornIs
  <2> QED BY <1>2, <2>3, <2>6, <2>7, <2>9, <2>10, <2>11
<1> QED BY <1>6, <1>7

-----------------------------------------------------------------------------
(* Who is let go of in turn.                                               *)

LEMMA UnRefType ==
  ASSUME NEW w \in SceneType, NEW c \in Breathing
  PROVE  unRef(w, c) \in SceneType
<1>1. CASE w.b[c].refs > 1
  <2>1. unRef(w, c) = [w EXCEPT !.b[c].refs = @ - 1]
    BY <1>1 DEF unRef
  <2>2. [w EXCEPT !.b[c].refs = @ - 1] = With(w, c, Less(w.b[c]))
    BY Zenon DEF With, Less
  <2>3. PICK r : r = Less(w.b[c])
    OBVIOUS
  <2>4. r \in Being
    BY <2>3, LessIs DEF SceneType, Beings
  <2>5. PICK v : v = With(w, c, r)
    OBVIOUS
  <2>6. v \in SceneType
    BY <2>4, <2>5, WithIs
  <2> QED BY <2>1, <2>2, <2>3, <2>5, <2>6
<1>2. CASE ~(w.b[c].refs > 1)
  <2>1. PICK u : u = With(w, c, Unborn)
    OBVIOUS
  <2>2. u \in SceneType
    BY <2>1, UnbornIs, WithIs
  <2>3. PICK l : l = SetToSeq(w.summons[c])
    OBVIOUS
  <2>4. l \in Seq(Breathing)
    <3>1. w.summons[c] \in SUBSET Beasts /\ IsFiniteSet(w.summons[c])
      BY BreathingFacts, FS_Subset DEF SceneType, Herds
    <3>2. l \in Seq(w.summons[c])
      BY <2>3, <3>1, SetToSeqFacts
    <3> QED BY <3>1, <3>2, BreathingFacts
  <2>5. PICK t : t = Orphaned(u, l)
    OBVIOUS
  <2>6. t \in SceneType
    <3>1. \E f \in [0 .. Len(l) -> SceneType] :
           /\ f[0] = u /\ \A k \in 1 .. Len(l) : f[k] = orphan(f[k - 1], l[k])
           /\ Orphaned(u, l) = f[Len(l)]
      BY <2>2, <2>4, OrphansInTurn, Zenon
    <3>2. Len(l) \in 0 .. Len(l)
      BY <2>4
    <3> QED BY <2>5, <3>1, <3>2
  <2>7. unRef(w, c) = WithHerd(t, c, {})
    <3>1. unRef(w, c) = [InTurn(orphan, With(w, c, Unborn), SetToSeq(w.summons[c])) EXCEPT !.summons[c] = {}]
      BY <1>2, Zenon DEF unRef, With
    <3>2. t = InTurn(orphan, With(w, c, Unborn), SetToSeq(w.summons[c]))
      BY <2>1, <2>3, <2>5, Zenon DEF Orphaned
    <3> QED BY <3>1, <3>2, Zenon DEF WithHerd
  <2>8. PICK N : N = {}
    OBVIOUS
  <2>9. PICK v : v = WithHerd(t, c, N)
    OBVIOUS
  <2>10. v \in SceneType
    BY <2>6, <2>8, <2>9, WithHerdIs
  <2> QED BY <2>7, <2>8, <2>9, <2>10
<1> QED BY <1>1, <1>2

Released(w, l) == InTurn(unRef, w, l)
LEMMA ReleasesInTurn ==
  ASSUME NEW w \in SceneType, NEW l \in Seq(Breathing)
  PROVE  \E f \in [0 .. Len(l) -> SceneType] :
           /\ f[0] = w /\ \A k \in 1 .. Len(l) : f[k] = unRef(f[k - 1], l[k])
           /\ Released(w, l) = f[Len(l)]
<1> DEFINE X == SceneType
           len == Len(l)
           go(v, s) == unRef(v, s)
           step == [k \in 1 .. len |-> [v \in X |-> go(v, l[k])]]
           body(f) == [k \in 0 .. len |-> IF k = 0 THEN w ELSE go(f[k - 1], l[k])]
           along == CHOOSE f : f = body(f)
<1>1. len \in Nat /\ \A k \in 1 .. len : l[k] \in Breathing
  OBVIOUS
<1>2. Released(w, l) = along[len]
  BY DEF InTurn, Released
<1>3. \A v \in X : \A c \in Breathing : go(v, c) \in X
  BY UnRefType
<1>4. step \in [1 .. len -> [X -> X]]
  BY <1>1, <1>3
<1>5. \A k \in 1 .. len : \A v \in X : step[k][v] = go(v, l[k])
  OBVIOUS
<1> HIDE DEF X, len, go, step
<1>6. PICK f \in [0 .. len -> X] : \A k \in 0 .. len : f[k] = IF k = 0 THEN w ELSE step[k][f[k - 1]]
  <2> HIDE DEF along, body
  <2>1. w \in X
    BY DEF X
  <2>2. \E f : Goes(f, len, X, w, step)
    BY <1>1, <1>4, <2>1, StepsMakeAFunction
  <2> QED BY <2>2 DEF Goes
<1>7. f = body(f)
  <2>1. \A k \in 0 .. len : k # 0 => k \in 1 .. len /\ f[k - 1] \in X
    BY <1>1, <1>6
  <2>2. \A k \in 0 .. len : f[k] = IF k = 0 THEN w ELSE go(f[k - 1], l[k])
    BY <1>5, <1>6, <2>1
  <2> QED BY <1>6, <2>2
<1>8. along = body(along)
  <2> HIDE DEF body
  <2> QED BY <1>7
<1> HIDE DEF along
<1>9. along[0] = w /\ \A k \in 1 .. len : along[k] = go(along[k - 1], l[k])
  <2>1. \A k \in 0 .. len : along[k] = IF k = 0 THEN w ELSE go(along[k - 1], l[k])
    BY <1>8
  <2>2. 0 \in 0 .. len /\ \A k \in 1 .. len : k \in 0 .. len /\ k # 0
    BY <1>1
  <2> QED BY <2>1, <2>2
<1>10. \A k \in 0 .. len : along[k] \in X
  <2> DEFINE P == {k \in 0 .. len : along[k] \in X}
  <2>1. 0 \in P
    BY <1>1, <1>9 DEF X
  <2>2. ASSUME NEW k \in 1 .. len, k - 1 \in P PROVE k \in P
    <3>1. k \in 0 .. len /\ along[k - 1] \in X /\ l[k] \in Breathing /\ along[k] = go(along[k - 1], l[k])
      BY <1>1, <1>9, <2>2
    <3> QED BY <1>3, <3>1
  <2> HIDE DEF P
  <2>3. 0 .. len \subseteq P
    BY <1>1, <2>1, <2>2, UpTo
  <2> QED BY <2>3 DEF P
<1>11. along \in [0 .. len -> X]
  <2>1. along = [k \in 0 .. len |-> along[k]]
    BY <1>8
  <2> QED BY <1>10, <2>1
<1> QED BY <1>2, <1>9, <1>11 DEF X, len, go

\* What is owed while those of l are let go, one after the other.
OneByOne(l, ds) ==
  /\ ds \in [0 .. Len(l) -> Counts]
  /\ \A k \in 1 .. Len(l) : ds[k - 1][l[k]] > 0 /\ ds[k] = [ds[k - 1] EXCEPT ![l[k]] = @ - 1]
NoneRemoved(w, v) == \A y \in Breathing : v.b[y].removed => w.b[y].removed

LEMMA UnRefsGood ==
  ASSUME NEW w, NEW l \in Seq(Breathing), NEW ds, OneByOne(l, ds), Sane(w, ds[0], w.summons, {})
  PROVE  LET v == Released(w, l)
         IN  /\ Sane(v, ds[Len(l)], v.summons, {}) /\ Calm(w, v)
             /\ NoneRemoved(w, v)
<1>1. Len(l) \in Nat /\ w \in SceneType /\ \A k \in 1 .. Len(l) : l[k] \in Breathing
  BY DEF Sane
<1>2. PICK f \in [0 .. Len(l) -> SceneType] :
           /\ f[0] = w /\ \A k \in 1 .. Len(l) : f[k] = unRef(f[k - 1], l[k])
           /\ Released(w, l) = f[Len(l)]
  BY <1>1, ReleasesInTurn
<1> DEFINE Going(k) == /\ Sane(f[k], ds[k], f[k].summons, {}) /\ Calm(w, f[k])
                       /\ \A y \in Breathing : f[k].b[y].removed => w.b[y].removed
           P == {k \in 0 .. Len(l) : Going(k)}
<1>3. 0 \in P
  BY <1>1, <1>2 DEF Calm
<1>4. ASSUME NEW k \in 1 .. Len(l), k - 1 \in P PROVE k \in P
  <2>1. PICK u : u = f[k - 1]
    OBVIOUS
  <2>2. PICK owed : owed = ds[k - 1]
    OBVIOUS
  <2>3. PICK c : c = l[k]
    OBVIOUS
  <2>4. PICK v : v = f[k]
    OBVIOUS
  <2>5. /\ Sane(u, owed, u.summons, {}) /\ Calm(w, u) /\ c \in Breathing /\ owed[c] > 0 /\ k \in 0 .. Len(l)
        /\ \A y \in Breathing : u.b[y].removed => w.b[y].removed
    <3>1. Going(k - 1)
      BY <1>4
    <3>2. c \in Breathing /\ ds[k - 1][c] > 0 /\ k \in 0 .. Len(l)
      <4>1. ds[k - 1][l[k]] > 0
        BY DEF OneByOne
      <4> QED BY <1>1, <2>3, <4>1
    <3> QED BY <2>1, <2>2, <3>1, <3>2
  <2>6. v = unRef(u, c) /\ ds[k] = [owed EXCEPT ![c] = @ - 1]
    BY <1>2, <2>1, <2>2, <2>3, <2>4 DEF OneByOne
  <2>7. /\ Sane(v, [owed EXCEPT ![c] = @ - 1], v.summons, {}) /\ Calm(u, v)
        /\ \A y \in Breathing : v.b[y].removed => u.b[y].removed
    BY <2>5, <2>6, UnRefGood
  <2>8. Calm(w, v)
    BY <2>5, <2>7 DEF Calm
  <2> QED BY <2>4, <2>5, <2>6, <2>7, <2>8
<1> HIDE DEF P
<1>5. 0 .. Len(l) \subseteq P
  BY <1>1, <1>3, <1>4, UpTo
<1>6. Going(Len(l))
  <2> HIDE DEF Going
  <2>1. Len(l) \in P
    BY <1>1, <1>5
  <2> QED BY <2>1 DEF P
<1> QED BY <1>2, <1>6 DEF NoneRemoved

\* As often as it was to be.
LEMMA OftenGood ==
  ASSUME NEW w, NEW owed, Sane(w, owed, w.summons, {}), NEW c \in Breathing, NEW n \in Nat, n <= owed[c]
  PROVE  LET v == often(w, c, n)
         IN  Sane(v, [owed EXCEPT ![c] = @ - n], v.summons, {})
<1>1. owed \in Counts /\ owed[c] \in Nat
  BY SaneFacts
<1>2. PICK l : l = [k \in 1 .. n |-> c]
  OBVIOUS
<1>3. l \in Seq(Breathing) /\ Len(l) = n /\ \A k \in 1 .. n : l[k] = c
  BY <1>2
<1>4. PICK ds : ds = [k \in 0 .. n |-> [owed EXCEPT ![c] = owed[c] - k]]
  OBVIOUS
<1>5. \A k \in 0 .. n : /\ ds[k] = [owed EXCEPT ![c] = owed[c] - k]
                        /\ ds[k] \in Counts /\ ds[k][c] = owed[c] - k
  BY <1>1, <1>4 DEF Counts
<1>6. ds \in [0 .. Len(l) -> Counts]
  BY <1>3, <1>4, <1>5
<1>7. \A k \in 1 .. Len(l) : ds[k - 1][l[k]] > 0 /\ ds[k] = [ds[k - 1] EXCEPT ![l[k]] = @ - 1]
  <2> SUFFICES ASSUME NEW k \in 1 .. n
               PROVE  ds[k - 1][c] > 0 /\ ds[k] = [ds[k - 1] EXCEPT ![c] = @ - 1]
    BY <1>3
  <2>1. k - 1 \in 0 .. n /\ k \in 0 .. n
    OBVIOUS
  <2>2. ds[k - 1][c] = owed[c] - k + 1 /\ ds[k - 1][c] > 0
    <3>1. ds[k - 1][c] = owed[c] - (k - 1)
      BY <1>5, <2>1
    <3> QED BY <1>1, <3>1
  <2>3. [ds[k - 1] EXCEPT ![c] = @ - 1] = [owed EXCEPT ![c] = owed[c] - k]
    <3>1. [ds[k - 1] EXCEPT ![c] = @ - 1] = [[owed EXCEPT ![c] = owed[c] - (k - 1)] EXCEPT ![c] = owed[c] - k]
      BY <1>1, <1>5, <2>1, <2>2
    <3> QED BY <1>1, <3>1 DEF Counts
  <2> QED BY <1>5, <2>1, <2>2, <2>3
<1>8. ds[0] = owed /\ ds[Len(l)] = [owed EXCEPT ![c] = @ - n]
  <2>1. ds[0] = [owed EXCEPT ![c] = owed[c] - 0] /\ ds[n] = [owed EXCEPT ![c] = owed[c] - n]
    <3>1. 0 \in 0 .. n /\ n \in 0 .. n
      OBVIOUS
    <3> QED BY <1>5, <3>1
  <2>2. owed[c] - 0 = owed[c]
    BY <1>1
  <2>3. [owed EXCEPT ![c] = owed[c]] = owed
    BY <1>1 DEF Counts
  <2> QED BY <1>3, <2>1, <2>2, <2>3
<1>9. PICK v : v = Released(w, l)
  OBVIOUS
<1>10. Sane(v, ds[Len(l)], v.summons, {})
  <2>1. OneByOne(l, ds) /\ Sane(w, ds[0], w.summons, {})
    BY <1>6, <1>7, <1>8 DEF OneByOne
  <2> QED BY <1>3, <1>9, <2>1, UnRefsGood
<1>11. often(w, c, n) = v
  BY <1>2, <1>9, Zenon DEF often, Released
<1> QED BY <1>8, <1>10, <1>11

-----------------------------------------------------------------------------
(* releaseThings, the spawn.                                               *)

WithFree(w, F) == [w EXCEPT !.free = F]
WithPlaces(w, P) == [w EXCEPT !.spawned = P]
WithAdd(w, A) == [w EXCEPT !.toAdd = A]
WithEvent(w, e, L) == [w EXCEPT !.event = e, !.lost = L]

LEMMA WithFreeIs ==
  ASSUME NEW w \in SceneType, NEW F \in Counts
  PROVE  LET v == WithFree(w, F)
         IN  /\ v \in SceneType /\ v.b = w.b /\ v.summons = w.summons /\ v.spawned = w.spawned /\ v.event = w.event
             /\ v.toAdd = w.toAdd /\ v.free = F /\ v.lost = w.lost
<1> DEFINE A == Beings
           B == Herds
           C == Places
           D == SUBSET Breathing
           E == Counts
           G == SUBSET Lairs
           R == [b : A, summons : B, spawned : C, event : BOOLEAN, toAdd : D, free : E, lost : G]
<1>1. w \in R /\ F \in E
  BY DEF SceneType
<1>2. PICK v : v = WithFree(w, F)
  OBVIOUS
<1> HIDE DEF A, B, C, D, E, G
<1>3. /\ v \in R /\ v.b = w.b /\ v.summons = w.summons /\ v.spawned = w.spawned /\ v.event = w.event
             /\ v.toAdd = w.toAdd /\ v.free = F /\ v.lost = w.lost
  BY <1>1, <1>2 DEF WithFree
<1> QED BY <1>2, <1>3 DEF SceneType, A, B, C, D, E, G

LEMMA WithPlacesIs ==
  ASSUME NEW w \in SceneType, NEW P \in Places
  PROVE  LET v == WithPlaces(w, P)
         IN  /\ v \in SceneType /\ v.b = w.b /\ v.summons = w.summons /\ v.spawned = P /\ v.event = w.event
             /\ v.toAdd = w.toAdd /\ v.free = w.free /\ v.lost = w.lost
<1> DEFINE A == Beings
           B == Herds
           C == Places
           D == SUBSET Breathing
           E == Counts
           G == SUBSET Lairs
           R == [b : A, summons : B, spawned : C, event : BOOLEAN, toAdd : D, free : E, lost : G]
<1>1. w \in R /\ P \in C
  BY DEF SceneType
<1>2. PICK v : v = WithPlaces(w, P)
  OBVIOUS
<1> HIDE DEF A, B, C, D, E, G
<1>3. /\ v \in R /\ v.b = w.b /\ v.summons = w.summons /\ v.spawned = P /\ v.event = w.event
             /\ v.toAdd = w.toAdd /\ v.free = w.free /\ v.lost = w.lost
  BY <1>1, <1>2 DEF WithPlaces
<1> QED BY <1>2, <1>3 DEF SceneType, A, B, C, D, E, G

LEMMA WithAddIs ==
  ASSUME NEW w \in SceneType, NEW S \in SUBSET Breathing
  PROVE  LET v == WithAdd(w, S)
         IN  /\ v \in SceneType /\ v.b = w.b /\ v.summons = w.summons /\ v.spawned = w.spawned /\ v.event = w.event
             /\ v.toAdd = S /\ v.free = w.free /\ v.lost = w.lost
<1> DEFINE A == Beings
           B == Herds
           C == Places
           D == SUBSET Breathing
           E == Counts
           G == SUBSET Lairs
           R == [b : A, summons : B, spawned : C, event : BOOLEAN, toAdd : D, free : E, lost : G]
<1>1. w \in R /\ S \in D
  BY DEF SceneType
<1>2. PICK v : v = WithAdd(w, S)
  OBVIOUS
<1> HIDE DEF A, B, C, D, E, G
<1>3. /\ v \in R /\ v.b = w.b /\ v.summons = w.summons /\ v.spawned = w.spawned /\ v.event = w.event
             /\ v.toAdd = S /\ v.free = w.free /\ v.lost = w.lost
  BY <1>1, <1>2 DEF WithAdd
<1> QED BY <1>2, <1>3 DEF SceneType, A, B, C, D, E, G

LEMMA WithEventIs ==
  ASSUME NEW w \in SceneType, NEW e \in BOOLEAN, NEW L \in SUBSET Lairs
  PROVE  LET v == WithEvent(w, e, L)
         IN  /\ v \in SceneType /\ v.b = w.b /\ v.summons = w.summons /\ v.spawned = w.spawned /\ v.event = e
             /\ v.toAdd = w.toAdd /\ v.free = w.free /\ v.lost = L
<1> DEFINE A == Beings
           B == Herds
           C == Places
           D == SUBSET Breathing
           E == Counts
           G == SUBSET Lairs
           R == [b : A, summons : B, spawned : C, event : BOOLEAN, toAdd : D, free : E, lost : G]
<1>1. w \in R /\ L \in G
  BY DEF SceneType
<1>2. PICK v : v = WithEvent(w, e, L)
  OBVIOUS
<1> HIDE DEF A, B, C, D, E, G
<1>3. /\ v \in R /\ v.b = w.b /\ v.summons = w.summons /\ v.spawned = w.spawned /\ v.event = e
             /\ v.toAdd = w.toAdd /\ v.free = w.free /\ v.lost = L
  BY <1>1, <1>2 DEF WithEvent
<1> QED BY <1>2, <1>3 DEF SceneType, A, B, C, D, E, G

LEMMA OftenType ==
  ASSUME NEW w \in SceneType, NEW c \in Breathing, NEW n \in Nat
  PROVE  often(w, c, n) \in SceneType
<1>1. PICK l : l = [k \in 1 .. n |-> c]
  OBVIOUS
<1>2. l \in Seq(Breathing) /\ Len(l) = n
  BY <1>1
<1>3. \E f \in [0 .. Len(l) -> SceneType] :
           /\ f[0] = w /\ \A k \in 1 .. Len(l) : f[k] = unRef(f[k - 1], l[k])
           /\ Released(w, l) = f[Len(l)]
  BY <1>2, ReleasesInTurn, Zenon
<1>4. Len(l) \in 0 .. Len(l)
  BY <1>2
<1>5. Released(w, l) \in SceneType
  BY <1>3, <1>4
<1>6. often(w, c, n) = Released(w, l)
  BY <1>1, Zenon DEF often, Released
<1> QED BY <1>5, <1>6

Cleaning(w, l, F) == LET clean(v, c) == often(v, c, F[c]) IN InTurn(clean, w, l)
LEMMA CleaningInTurn ==
  ASSUME NEW w \in SceneType, NEW l \in Seq(Breathing), NEW F \in Counts
  PROVE  \E f \in [0 .. Len(l) -> SceneType] :
           /\ f[0] = w /\ \A k \in 1 .. Len(l) : f[k] = often(f[k - 1], l[k], F[l[k]])
           /\ Cleaning(w, l, F) = f[Len(l)]
<1> DEFINE X == SceneType
           len == Len(l)
           go(v, s) == often(v, s, F[s])
           step == [k \in 1 .. len |-> [v \in X |-> go(v, l[k])]]
           body(f) == [k \in 0 .. len |-> IF k = 0 THEN w ELSE go(f[k - 1], l[k])]
           along == CHOOSE f : f = body(f)
<1>1. len \in Nat /\ \A k \in 1 .. len : l[k] \in Breathing
  OBVIOUS
<1>2. Cleaning(w, l, F) = along[len]
  BY DEF InTurn, Cleaning
<1>3. \A v \in X : \A c \in Breathing : go(v, c) \in X
  BY OftenType DEF Counts
<1>4. step \in [1 .. len -> [X -> X]]
  BY <1>1, <1>3
<1>5. \A k \in 1 .. len : \A v \in X : step[k][v] = go(v, l[k])
  OBVIOUS
<1> HIDE DEF X, len, go, step
<1>6. PICK f \in [0 .. len -> X] : \A k \in 0 .. len : f[k] = IF k = 0 THEN w ELSE step[k][f[k - 1]]
  <2> HIDE DEF along, body
  <2>1. w \in X
    BY DEF X
  <2>2. \E f : Goes(f, len, X, w, step)
    BY <1>1, <1>4, <2>1, StepsMakeAFunction
  <2> QED BY <2>2 DEF Goes
<1>7. f = body(f)
  <2>1. \A k \in 0 .. len : k # 0 => k \in 1 .. len /\ f[k - 1] \in X
    BY <1>1, <1>6
  <2>2. \A k \in 0 .. len : f[k] = IF k = 0 THEN w ELSE go(f[k - 1], l[k])
    BY <1>5, <1>6, <2>1
  <2> QED BY <1>6, <2>2
<1>8. along = body(along)
  <2> HIDE DEF body
  <2> QED BY <1>7
<1> HIDE DEF along
<1>9. along[0] = w /\ \A k \in 1 .. len : along[k] = go(along[k - 1], l[k])
  <2>1. \A k \in 0 .. len : along[k] = IF k = 0 THEN w ELSE go(along[k - 1], l[k])
    BY <1>8
  <2>2. 0 \in 0 .. len /\ \A k \in 1 .. len : k \in 0 .. len /\ k # 0
    BY <1>1
  <2> QED BY <2>1, <2>2
<1>10. \A k \in 0 .. len : along[k] \in X
  <2> DEFINE P == {k \in 0 .. len : along[k] \in X}
  <2>1. 0 \in P
    BY <1>1, <1>9 DEF X
  <2>2. ASSUME NEW k \in 1 .. len, k - 1 \in P PROVE k \in P
    <3>1. k \in 0 .. len /\ along[k - 1] \in X /\ l[k] \in Breathing /\ along[k] = go(along[k - 1], l[k])
      BY <1>1, <1>9, <2>2
    <3> QED BY <1>3, <3>1
  <2> HIDE DEF P
  <2>3. 0 .. len \subseteq P
    BY <1>1, <2>1, <2>2, UpTo
  <2> QED BY <2>3 DEF P
<1>11. along \in [0 .. len -> X]
  <2>1. along = [k \in 0 .. len |-> along[k]]
    BY <1>8
  <2> QED BY <1>10, <2>1
<1> QED BY <1>2, <1>9, <1>11 DEF X, len, go

\* The rest of releaseThings, once l is about to be gone on with after k.
Due(F, l, k) == [y \in Breathing |-> IF y \in Rest(l, k) THEN F[y] ELSE 0]

LEMMA CleanedGood ==
  ASSUME NEW w, Sane(w, NothingToRelease, w.summons, {})
  PROVE  LET v == Cleaned(w) IN Sane(v, NothingToRelease, v.summons, {})
<1>1. w \in SceneType /\ w.free \in Counts /\ NothingToRelease \in Counts
  BY DEF Sane, SceneType, NothingToRelease, Counts
<1>2. PICK F : F = w.free
  OBVIOUS
<1>3. PICK u : u = WithFree(w, NothingToRelease)
  OBVIOUS
<1>4. /\ u \in SceneType /\ u.b = w.b /\ u.summons = w.summons /\ u.spawned = w.spawned
      /\ u.event = w.event /\ u.toAdd = w.toAdd /\ u.free = NothingToRelease /\ u.lost = w.lost
  BY <1>1, <1>3, WithFreeIs
<1>5. Sane(u, F, u.summons, {})
  <2>1. \A c \in Breathing : NothingToRelease[c] = 0 /\ F[c] \in Nat
    BY <1>1, <1>2 DEF NothingToRelease, Counts
  <2>2. \A c \in Breathing : One(u, c, F[c], u.summons, {})
    <3> SUFFICES ASSUME NEW c \in Breathing PROVE One(u, c, F[c], u.summons, {})
      OBVIOUS
    <3>1. One(w, c, 0, w.summons, {}) /\ w.free[c] = F[c] /\ F[c] \in Nat /\ u.free[c] = 0
      BY <1>2, <1>4, <2>1 DEF Sane
    <3>2. Present(u, c) <=> Present(w, c)
      BY <1>4 DEF Present
    <3> QED BY <1>4, <3>1, <3>2 DEF One, Present
  <2>3. Watched(u) /\ u.toAdd \cap checkVectors = {}
    BY <1>4 DEF Sane, Watched
  <2>4. u.summons \in Herds
    BY <1>4 DEF SceneType
  <2> QED BY <1>1, <1>2, <1>4, <2>2, <2>3, <2>4 DEF Sane
<1>6. PICK S : S = {c \in Breathing : F[c] > 0}
  OBVIOUS
<1>7. PICK l : l = SetToSeq(S)
  OBVIOUS
<1>8. l \in Seq(S) /\ Once(l) /\ ToSet(l) = S /\ l \in Seq(Breathing)
  <2>1. IsFiniteSet(S)
    BY <1>6, BreathingFacts, FS_Subset
  <2>2. l \in Seq(S) /\ Once(l) /\ ToSet(l) = S
    BY <1>7, <2>1, SetToSeqFacts
  <2> QED BY <1>6, <2>2
<1>9. /\ Rest(l, 0) = S /\ Rest(l, Len(l)) = {} /\ Len(l) \in Nat
      /\ \A k \in 1 .. Len(l) : /\ k - 1 \in Nat /\ l[k] \in S /\ l[k] \in Rest(l, k - 1)
                                /\ Rest(l, k) = Rest(l, k - 1) \ {l[k]} /\ Rest(l, k - 1) \subseteq S
  BY <1>8, RestFacts
<1>10. F \in Counts
  BY <1>1, <1>2
<1>11. PICK f \in [0 .. Len(l) -> SceneType] :
           /\ f[0] = u /\ \A k \in 1 .. Len(l) : f[k] = often(f[k - 1], l[k], F[l[k]])
           /\ Cleaning(u, l, F) = f[Len(l)]
  BY <1>4, <1>8, <1>10, CleaningInTurn
<1> DEFINE Going(k) == Sane(f[k], Due(F, l, k), f[k].summons, {})
           P == {k \in 0 .. Len(l) : Going(k)}
<1>12. 0 \in P
  <2>1. Due(F, l, 0) = F
    <3>1. \A c \in Breathing : F[c] \in Nat /\ (c \notin S => F[c] = 0)
      BY <1>6, <1>10 DEF Counts
    <3>2. Due(F, l, 0) = [y \in Breathing |-> F[y]]
      BY <1>9, <3>1 DEF Due
    <3> QED BY <1>10, <3>2 DEF Counts
  <2> QED BY <1>5, <1>9, <1>11, <2>1
<1>13. ASSUME NEW k \in 1 .. Len(l), k - 1 \in P PROVE k \in P
  <2>1. PICK t : t = f[k - 1]
    OBVIOUS
  <2>2. PICK owed : owed = Due(F, l, k - 1)
    OBVIOUS
  <2>3. PICK c : c = l[k]
    OBVIOUS
  <2>4. PICK v : v = f[k]
    OBVIOUS
  <2>5. Sane(t, owed, t.summons, {})
    BY <1>13, <2>1, <2>2
  <2>6. c \in Breathing /\ F[c] \in Nat /\ owed[c] = F[c] /\ k \in 0 .. Len(l)
    BY <1>6, <1>9, <1>10, <2>2, <2>3 DEF Due, Counts
  <2>7. v = often(t, c, F[c])
    BY <1>11, <2>1, <2>3, <2>4
  <2>8. Sane(v, [owed EXCEPT ![c] = @ - F[c]], v.summons, {})
    BY <2>5, <2>6, <2>7, OftenGood
  <2>9. [owed EXCEPT ![c] = @ - F[c]] = Due(F, l, k)
    <3>1. owed[c] - F[c] = 0
      BY <2>6
    <3>2. [owed EXCEPT ![c] = @ - F[c]] = [owed EXCEPT ![c] = 0]
      BY <3>1
    <3>3. \A y \in Breathing : y \in Rest(l, k) <=> y \in Rest(l, k - 1) /\ y # c
      BY <1>9, <2>3
    <3> QED BY <2>2, <3>2, <3>3 DEF Due
  <2> QED BY <2>4, <2>6, <2>8, <2>9
<1> HIDE DEF P
<1>14. 0 .. Len(l) \subseteq P
  BY <1>9, <1>12, <1>13, UpTo
<1>15. Going(Len(l))
  <2> HIDE DEF Going
  <2>1. Len(l) \in P
    BY <1>9, <1>14
  <2> QED BY <2>1 DEF P
<1>16. Due(F, l, Len(l)) = NothingToRelease
  BY <1>9 DEF Due, NothingToRelease
<1>17. Cleaned(w) = Cleaning(u, l, F)
  <2>1. Cleaned(w) = Cleaning(WithFree(w, NothingToRelease), SetToSeq({c \in Breathing : w.free[c] > 0}), w.free)
    BY DEF Cleaned, Cleaning, WithFree
  <2> QED BY <1>2, <1>3, <1>6, <1>7, <2>1
<1> QED BY <1>11, <1>15, <1>16, <1>17

-----------------------------------------------------------------------------
(* The check lists.                                                        *)

Joined(r) == Listed(Checked(More(r), TRUE), TRUE)
Enlist(w, c, r) == WithAdd(With(w, c, r), w.toAdd \cup {c})

LEMMA JoinedIs ==
  ASSUME NEW r \in Being
  PROVE  LET q == Joined(r)
         IN  /\ q \in Being
             /\ q.refs = r.refs + 1 /\ q.placed = r.placed /\ q.removed = r.removed /\ q.health = r.health /\ q.master = r.master
             /\ q.isIdle = r.isIdle /\ q.checked /\ q.listed /\ q.spawn = r.spawn
<1>2. PICK p : p = More(r)
  OBVIOUS
<1>3. PICK t : t = Checked(p, TRUE)
  OBVIOUS
<1>4. PICK q : q = Listed(t, TRUE)
  OBVIOUS
<1>5. /\ p \in Being
      /\ p.refs = r.refs + 1 /\ p.placed = r.placed /\ p.removed = r.removed /\ p.health = r.health /\ p.master = r.master
      /\ p.isIdle = r.isIdle /\ p.spawn = r.spawn
  BY <1>2, MoreIs
<1>6. TRUE \in BOOLEAN
  OBVIOUS
<1>7. /\ t \in Being
      /\ t.refs = p.refs /\ t.placed = p.placed /\ t.removed = p.removed /\ t.health = p.health /\ t.master = p.master
      /\ t.isIdle = p.isIdle /\ t.spawn = p.spawn /\ t.checked
  BY <1>3, <1>5, <1>6, CheckedIs
<1>8. /\ q \in Being
      /\ q.refs = t.refs /\ q.placed = t.placed /\ q.removed = t.removed /\ q.health = t.health /\ q.master = t.master
      /\ q.isIdle = t.isIdle /\ q.spawn = t.spawn /\ q.checked = t.checked /\ q.listed
  BY <1>4, <1>6, <1>7, ListedIs
<1>9. Joined(r) = q
  BY <1>2, <1>3, <1>4 DEF Joined
<1> QED BY <1>5, <1>7, <1>8, <1>9

LEMMA EnlistIs ==
  ASSUME NEW w \in SceneType, NEW c \in Breathing, NEW r \in Being
  PROVE  LET v == Enlist(w, c, r)
         IN  /\ v \in SceneType /\ v.b = [w.b EXCEPT ![c] = r] /\ v.summons = w.summons
             /\ v.spawned = w.spawned /\ v.event = w.event /\ v.toAdd = w.toAdd \cup {c}
             /\ v.free = w.free /\ v.lost = w.lost
<1>1. PICK u : u = With(w, c, r)
  OBVIOUS
<1>2. /\ u \in SceneType /\ u.b = [w.b EXCEPT ![c] = r] /\ u.summons = w.summons
      /\ u.spawned = w.spawned /\ u.event = w.event
      /\ u.free = w.free /\ u.lost = w.lost
  BY <1>1, WithIs
<1>3. PICK S : S = w.toAdd \cup {c}
  OBVIOUS
<1>4. S \in SUBSET Breathing
  BY <1>3 DEF SceneType
<1>5. PICK v : v = WithAdd(u, S)
  OBVIOUS
<1>6. /\ v \in SceneType /\ v.b = u.b /\ v.summons = u.summons /\ v.toAdd = S
      /\ v.spawned = u.spawned /\ v.event = u.event
      /\ v.free = u.free /\ v.lost = u.lost
  BY <1>2, <1>4, <1>5, WithAddIs
<1>7. v = Enlist(w, c, r)
  BY <1>1, <1>3, <1>5 DEF Enlist
<1> QED BY <1>2, <1>3, <1>6, <1>7

\* One change after another to the same creature.
LEMMA WithWith ==
  ASSUME NEW w \in SceneType, NEW c \in Breathing, NEW r, NEW q
  PROVE  With(With(w, c, r), c, q) = With(w, c, q)
BY DEF With, SceneType, Beings

LEMMA AddCheckIs ==
  ASSUME NEW w \in SceneType, NEW c \in Breathing
  PROVE  /\ w.b[c].removed => addCreatureCheck(w, c) = w
         /\ ~ w.b[c].removed /\ w.b[c].listed => addCreatureCheck(w, c) = With(w, c, Checked(w.b[c], TRUE))
         /\ ~ w.b[c].removed /\ ~ w.b[c].listed => addCreatureCheck(w, c) = Enlist(w, c, Joined(w.b[c]))
<1>1. w.b[c].removed => addCreatureCheck(w, c) = w
  BY DEF addCreatureCheck
<1>2. ~ w.b[c].removed /\ w.b[c].listed => addCreatureCheck(w, c) = With(w, c, Checked(w.b[c], TRUE))
  BY Zenon DEF addCreatureCheck, With, Checked
<1>3. ASSUME ~ w.b[c].removed, ~ w.b[c].listed PROVE addCreatureCheck(w, c) = Enlist(w, c, Joined(w.b[c]))
  <2>1. w.b[c] \in Being
    BY DEF SceneType, Beings
  <2>2. PICK q : q = Joined(w.b[c])
    OBVIOUS
  <2>3. [w.b[c] EXCEPT !.refs = @ + 1, !.checked = TRUE, !.listed = TRUE] = q
    <3>1. PICK r : r = w.b[c]
      OBVIOUS
    <3>2. Joined(r) = [r EXCEPT !.refs = @ + 1, !.checked = TRUE, !.listed = TRUE]
      BY <2>1, <3>1 DEF Being, Joined, Listed, Checked, More
    <3> QED BY <2>2, <3>1, <3>2
  <2>4. addCreatureCheck(w, c) = [w EXCEPT !.b[c] = [w.b[c] EXCEPT !.refs = @ + 1, !.checked = TRUE, !.listed = TRUE],
                                           !.toAdd = @ \cup {c}]
    BY <1>3, Zenon DEF addCreatureCheck
  <2>5. addCreatureCheck(w, c) = [w EXCEPT !.b[c] = q, !.toAdd = @ \cup {c}]
    BY <2>3, <2>4
  <2>6. PICK S : S = w.toAdd \cup {c}
    OBVIOUS
  <2>7. [w EXCEPT !.b[c] = q, !.toAdd = @ \cup {c}] = [w EXCEPT !.b[c] = q, !.toAdd = S]
    BY <2>6
  <2>8. [w EXCEPT !.b[c] = q, !.toAdd = S] = WithAdd(With(w, c, q), S)
    BY Zenon DEF WithAdd, With
  <2> QED BY <2>2, <2>5, <2>6, <2>7, <2>8 DEF Enlist
<1> QED BY <1>1, <1>2, <1>3

LEMMA RemoveCheckIs ==
  ASSUME NEW w \in SceneType, NEW c \in Breathing
  PROVE  /\ w.b[c].listed => removeCreatureCheck(w, c) = With(w, c, Checked(w.b[c], FALSE))
         /\ ~ w.b[c].listed => removeCreatureCheck(w, c) = w
BY Zenon DEF removeCreatureCheck, With, Checked

LEMMA SetIdleIs ==
  ASSUME NEW w \in SceneType, NEW c \in Breathing, NEW idle \in BOOLEAN
  PROVE  LET r == w.b[c]
             v == setIdle(w, c, idle)
         IN  /\ r.removed \/ ~ r.health => v = w
             /\ ~ r.removed /\ r.health /\ r.listed /\ idle => v = With(w, c, Checked(Idle(r, TRUE), FALSE))
             /\ ~ r.removed /\ r.health /\ r.listed /\ ~ idle => v = With(w, c, Checked(Idle(r, FALSE), TRUE))
             /\ ~ r.removed /\ r.health /\ ~ r.listed /\ idle => v = With(w, c, Idle(r, TRUE))
             /\ ~ r.removed /\ r.health /\ ~ r.listed /\ ~ idle => v = Enlist(w, c, Joined(Idle(r, FALSE)))
<1>1. w.b[c].removed \/ ~ w.b[c].health => setIdle(w, c, idle) = w
  BY DEF setIdle
<1>2. PICK r : r = w.b[c]
  OBVIOUS
<1>3. PICK q : q = Idle(r, idle)
  OBVIOUS
<1>4. PICK u : u = With(w, c, q)
  OBVIOUS
<1>5. r \in Being /\ q \in Being /\ q.removed = r.removed /\ q.listed = r.listed
  <2>1. r \in Being
    BY <1>2 DEF SceneType, Beings
  <2> QED BY <1>3, <2>1, IdleIs
<1>6. u \in SceneType /\ u.b = [w.b EXCEPT ![c] = q] /\ u.b[c] = q /\ u.toAdd = w.toAdd
  BY <1>4, <1>5, WithIs DEF SceneType, Beings
<1>7. u = [w EXCEPT !.b[c].isIdle = idle]
  BY <1>2, <1>3, <1>4, Zenon DEF With, Idle
<1>8. ASSUME ~ r.removed, r.health
      PROVE  setIdle(w, c, idle) = IF idle THEN removeCreatureCheck(u, c) ELSE addCreatureCheck(u, c)
  BY <1>2, <1>7, <1>8 DEF setIdle
<1>9. ASSUME ~ r.removed, r.health, r.listed
      PROVE  /\ idle => setIdle(w, c, idle) = With(w, c, Checked(q, FALSE))
             /\ ~ idle => setIdle(w, c, idle) = With(w, c, Checked(q, TRUE))
  <2>1. ASSUME idle PROVE setIdle(w, c, idle) = With(w, c, Checked(q, FALSE))
    <3>0. PICK p : p = Checked(q, FALSE)
      OBVIOUS
    <3>1. setIdle(w, c, idle) = With(u, c, Checked(q, FALSE))
      BY <1>5, <1>6, <1>8, <1>9, <2>1, RemoveCheckIs
    <3>2. With(With(w, c, q), c, p) = With(w, c, p)
      BY WithWith
    <3> QED BY <1>4, <3>0, <3>1, <3>2
  <2>2. ASSUME ~ idle PROVE setIdle(w, c, idle) = With(w, c, Checked(q, TRUE))
    <3>0. PICK p : p = Checked(q, TRUE)
      OBVIOUS
    <3>1. setIdle(w, c, idle) = With(u, c, Checked(q, TRUE))
      BY <1>5, <1>6, <1>8, <1>9, <2>2, AddCheckIs
    <3>2. With(With(w, c, q), c, p) = With(w, c, p)
      BY WithWith
    <3> QED BY <1>4, <3>0, <3>1, <3>2
  <2> QED BY <2>1, <2>2
<1>10. ASSUME ~ r.removed, r.health, ~ r.listed, idle PROVE setIdle(w, c, idle) = With(w, c, Idle(r, TRUE))
  BY <1>3, <1>4, <1>5, <1>6, <1>8, <1>10, RemoveCheckIs
<1>11. ASSUME ~ r.removed, r.health, ~ r.listed, ~ idle PROVE setIdle(w, c, idle) = Enlist(w, c, Joined(Idle(r, FALSE)))
  <2>1. setIdle(w, c, idle) = Enlist(u, c, Joined(q))
    BY <1>5, <1>6, <1>8, <1>11, AddCheckIs
  <2>2. Enlist(u, c, Joined(q)) = Enlist(w, c, Joined(q))
    BY <1>4, <1>6, WithWith DEF Enlist
  <2> QED BY <1>3, <1>11, <2>1, <2>2
<1> QED BY <1>1, <1>2, <1>3, <1>9, <1>10, <1>11

LEMMA WithAt ==
  ASSUME NEW w \in SceneType, NEW c \in Breathing, NEW r \in Being
  PROVE  With(w, c, r).b[c] = r /\ With(w, c, r) \in SceneType
<1>1. PICK v : v = With(w, c, r)
  OBVIOUS
<1>2. v \in SceneType /\ v.b = [w.b EXCEPT ![c] = r]
  BY <1>1, WithIs
<1> QED BY <1>1, <1>2 DEF SceneType, Beings

LEMMA EnlistAt ==
  ASSUME NEW w \in SceneType, NEW c \in Breathing, NEW r \in Being
  PROVE  Enlist(w, c, r).b[c] = r /\ Enlist(w, c, r) \in SceneType
<1>1. PICK v : v = Enlist(w, c, r)
  OBVIOUS
<1>2. v \in SceneType /\ v.b = [w.b EXCEPT ![c] = r]
  BY <1>1, EnlistIs
<1> QED BY <1>1, <1>2 DEF SceneType, Beings

\* What can change of c but whom it belongs to, and whether it is there.
Stirred(w, v, c) ==
  /\ v.summons = w.summons /\ v.spawned = w.spawned /\ v.event = w.event
  /\ v.free = w.free /\ v.lost = w.lost
  /\ \A y \in Breathing : y # c => v.b[y] = w.b[y]
  /\ v.b[c].placed = w.b[c].placed /\ v.b[c].removed = w.b[c].removed
  /\ v.b[c].master = w.b[c].master /\ v.b[c].spawn = w.b[c].spawn

\* Asleep, awake, hurt or healthy, a creature counts the same.
LEMMA MarkGood ==
  ASSUME NEW w, NEW owed, NEW sm, NEW X, Sane(w, owed, sm, X), NEW c \in Breathing, NEW r \in Being,
         r.refs = w.b[c].refs, r.placed = w.b[c].placed, r.removed = w.b[c].removed,
         r.master = w.b[c].master, r.listed = w.b[c].listed, r.spawn = w.b[c].spawn,
         r.placed \/ c \in X, r.checked => r.listed, c \notin X /\ r.removed => ~ r.checked,
         c \in Beasts /\ r.placed /\ ~ r.removed /\ (~ r.isIdle \/ ~ r.health) => r.checked
  PROVE  Sane(With(w, c, r), owed, sm, X) /\ Stirred(w, With(w, c, r), c)
<1>1. /\ One(w, c, owed[c], sm, X) /\ w \in SceneType /\ w.b[c] \in Being /\ owed[c] \in Nat
      /\ w.free[c] \in Nat /\ owed \in Counts /\ sm \in Herds /\ w.b[c].master # c
  BY SaneFacts
<1>2. PICK v : v = With(w, c, r)
  OBVIOUS
<1>3. /\ v.b = [w.b EXCEPT ![c] = r] /\ v.spawned = w.spawned /\ v.toAdd = w.toAdd /\ v.free = w.free
      /\ v.summons = w.summons /\ v.event = w.event /\ v.lost = w.lost
  BY <1>1, <1>2, WithIs
<1>4. v.b[c] = r /\ \A y \in Breathing : y # c => v.b[y] = w.b[y]
  BY <1>1, <1>3 DEF SceneType, Beings
<1>5. Present(v, c) <=> Present(w, c)
  BY <1>4 DEF Present
<1>6. r.placed => r # Unborn
  BY UnbornIs
<1>7. One(v, c, owed[c], sm, X)
  <2>1. r.master = NoCreature \/ r.master \in Breathing
    BY DEF Being
  <2>2. r.master # NoCreature => v.b[r.master] = w.b[r.master]
    BY <1>1, <1>4, <2>1
  <2> QED BY <1>1, <1>3, <1>4, <1>5, <1>6, <2>2 DEF One, Present
<1>8. Sane(v, [owed EXCEPT ![c] = owed[c]], sm, X)
  <2>1. One(With(w, c, r), c, owed[c], sm, X)
    BY <1>2, <1>7
  <2> QED BY <1>1, <1>2, <2>1, Unherded, AloneGood
<1>9. [owed EXCEPT ![c] = owed[c]] = owed
  BY <1>1 DEF Counts
<1>10. Stirred(w, v, c)
  BY <1>3, <1>4 DEF Stirred
<1> QED BY <1>2, <1>8, <1>9, <1>10

\* In a check list it counts once more.
LEMMA EnlistGood ==
  ASSUME NEW w, NEW owed, NEW sm, NEW X, Sane(w, owed, sm, X), NEW c \in Breathing, NEW r \in Being,
         r.refs = w.b[c].refs + 1, r.placed = w.b[c].placed, ~ w.b[c].removed, ~ r.removed,
         r.master = w.b[c].master, ~ w.b[c].listed, r.listed, r.checked, r.spawn = w.b[c].spawn,
         r.placed \/ c \in X
  PROVE  Sane(Enlist(w, c, r), owed, sm, X) /\ Stirred(w, Enlist(w, c, r), c)
<1>1. /\ One(w, c, owed[c], sm, X) /\ w \in SceneType /\ w.b[c] \in Being /\ owed[c] \in Nat
      /\ w.free[c] \in Nat /\ owed \in Counts /\ sm \in Herds /\ w.b[c].master # c
  BY SaneFacts
<1>2. PICK v : v = Enlist(w, c, r)
  OBVIOUS
<1>3. /\ v \in SceneType /\ v.b = [w.b EXCEPT ![c] = r] /\ v.spawned = w.spawned
      /\ v.toAdd = w.toAdd \cup {c} /\ v.free = w.free
      /\ v.summons = w.summons /\ v.event = w.event /\ v.lost = w.lost
  BY <1>1, <1>2, EnlistIs
<1>4. v.b[c] = r /\ \A y \in Breathing : y # c => v.b[y] = w.b[y]
  BY <1>1, <1>3 DEF SceneType, Beings
<1>5. Present(v, c) <=> Present(w, c)
  BY <1>4 DEF Present
<1>6. r.placed => r # Unborn
  BY UnbornIs
<1>7. One(v, c, owed[c], sm, X)
  <2>1. r.master = NoCreature \/ r.master \in Breathing
    BY DEF Being
  <2>2. r.master # NoCreature => v.b[r.master] = w.b[r.master]
    BY <1>1, <1>4, <2>1
  <2>3. r.refs = (IF Present(v, c) THEN 1 ELSE 0) + v.free[c] + (IF r.listed THEN 1 ELSE 0)
                  + (IF r.master # NoCreature THEN 1 ELSE 0)
                  + (IF r.spawn # NoLair /\ v.spawned[r.spawn] = c THEN 1 ELSE 0) + owed[c]
    <3>1. w.b[c].refs = (IF Present(w, c) THEN 1 ELSE 0) + w.free[c] + 0
                  + (IF r.master # NoCreature THEN 1 ELSE 0)
                  + (IF r.spawn # NoLair /\ w.spawned[r.spawn] = c THEN 1 ELSE 0) + owed[c]
      BY <1>1 DEF One
    <3> QED BY <1>1, <1>3, <1>5, <3>1
  <2> QED BY <1>1, <1>3, <1>4, <1>5, <1>6, <2>2, <2>3 DEF One
<1>8. v.toAdd \cap checkVectors = {} /\ Watched(v)
  <2>1. c \notin checkVectors
    BY <1>1 DEF One
  <2>2. w.toAdd \cap checkVectors = {} /\ Watched(w)
    BY DEF Sane
  <2>3. \A s \in Lairs : w.spawned[s] \in Breathing \cup {NoCreature}
    BY <1>1, BreathingFacts DEF SceneType, Places
  <2> QED BY <1>3, <1>4, <2>1, <2>2, <2>3 DEF Watched
<1>9. Sane(v, owed, sm, X)
  <2>1. Apart(w, owed, v, owed, c)
    BY <1>3, <1>4 DEF Apart
  <2>2. ~ v.b[c].removed
    BY <1>4
  <2> QED BY <1>1, <1>3, <1>7, <1>8, <2>1, <2>2, Unherded, OthersStand, Zenon
<1>10. Stirred(w, v, c)
  <2>1. v.b[c].removed = w.b[c].removed
    BY <1>1, <1>4 DEF Being
  <2> QED BY <1>3, <1>4, <2>1 DEF Stirred
<1> QED BY <1>2, <1>9, <1>10

LEMMA NotStirred ==
  ASSUME NEW w, NEW c
  PROVE  Stirred(w, w, c) /\ Calm(w, w)
BY DEF Stirred, Calm

LEMMA AddCheckGood ==
  ASSUME NEW w, NEW owed, NEW sm, NEW X, Sane(w, owed, sm, X), NEW c \in Breathing,
         w.b[c].placed \/ c \in X
  PROVE  LET v == addCreatureCheck(w, c)
         IN  Sane(v, owed, sm, X) /\ Stirred(w, v, c)
<1>1. /\ One(w, c, owed[c], sm, X) /\ w \in SceneType /\ w.b[c] \in Being
  BY SaneFacts
<1>2. PICK r : r = w.b[c]
  OBVIOUS
<1>3. CASE r.removed
  BY <1>1, <1>2, <1>3, AddCheckIs, NotStirred
<1>4. CASE ~ r.removed /\ r.listed
  <2>1. PICK q : q = Checked(r, TRUE)
    OBVIOUS
  <2>2. /\ q \in Being
        /\ q.refs = r.refs /\ q.placed = r.placed /\ q.removed = r.removed /\ q.master = r.master
        /\ q.checked /\ q.listed = r.listed /\ q.spawn = r.spawn
    BY <1>1, <1>2, <2>1, CheckedIs
  <2>3. Sane(With(w, c, q), owed, sm, X) /\ Stirred(w, With(w, c, q), c)
    BY <1>2, <1>4, <2>2, MarkGood
  <2> QED BY <1>1, <1>2, <1>4, <2>1, <2>3, AddCheckIs
<1>5. CASE ~ r.removed /\ ~ r.listed
  <2>1. PICK q : q = Joined(r)
    OBVIOUS
  <2>2. /\ q \in Being
        /\ q.refs = r.refs + 1 /\ q.placed = r.placed /\ q.removed = r.removed /\ q.master = r.master
        /\ q.checked /\ q.listed /\ q.spawn = r.spawn
    BY <1>1, <1>2, <2>1, JoinedIs
  <2>3. Sane(Enlist(w, c, q), owed, sm, X) /\ Stirred(w, Enlist(w, c, q), c)
    BY <1>2, <1>5, <2>2, EnlistGood
  <2> QED BY <1>1, <1>2, <1>5, <2>1, <2>3, AddCheckIs
<1> QED BY <1>3, <1>4, <1>5

LEMMA RemoveCheckGood ==
  ASSUME NEW w, NEW owed, NEW sm, NEW X, Sane(w, owed, sm, X), NEW c \in Breathing,
         w.b[c].placed, w.b[c].removed
  PROVE  LET v == removeCreatureCheck(w, c)
         IN  Sane(v, owed, sm, X) /\ Stirred(w, v, c) /\ ~ v.b[c].checked
<1>1. One(w, c, owed[c], sm, X) /\ w \in SceneType /\ w.b[c] \in Being
  BY SaneFacts
<1>2. PICK r : r = w.b[c]
  OBVIOUS
<1>3. CASE r.listed
  <2>1. PICK q : q = Checked(r, FALSE)
    OBVIOUS
  <2>2. /\ q \in Being
        /\ q.refs = r.refs /\ q.placed = r.placed /\ q.removed = r.removed /\ q.master = r.master
        /\ ~ q.checked /\ q.listed = r.listed /\ q.spawn = r.spawn
    BY <1>1, <1>2, <2>1, CheckedIs
  <2>3. PICK v : v = With(w, c, q)
    OBVIOUS
  <2>4. Sane(v, owed, sm, X) /\ Stirred(w, v, c)
    BY <1>2, <2>2, <2>3, MarkGood
  <2>5. v.b[c] = q
    BY <1>1, <2>2, <2>3, WithAt
  <2> QED BY <1>1, <1>2, <1>3, <2>1, <2>2, <2>3, <2>4, <2>5, RemoveCheckIs
<1>4. CASE ~ r.listed
  <2>1. ~ r.checked
    BY <1>1, <1>2, <1>4 DEF One
  <2> QED BY <1>1, <1>2, <1>4, <2>1, RemoveCheckIs, NotStirred
<1> QED BY <1>3, <1>4

LEMMA SetIdleGood ==
  ASSUME NEW w, NEW owed, NEW sm, NEW X, Sane(w, owed, sm, X), NEW c \in Breathing,
         w.b[c].placed \/ c \in X, NEW idle \in BOOLEAN
  PROVE  LET v == setIdle(w, c, idle)
         IN  /\ Sane(v, owed, sm, X) /\ Stirred(w, v, c) /\ v.b[c].health = w.b[c].health
             /\ w.b[c].health /\ ~ w.b[c].removed /\ ~ idle => v.b[c].checked
<1>1. /\ One(w, c, owed[c], sm, X) /\ w \in SceneType /\ w.b[c] \in Being
  BY SaneFacts
<1>2. PICK r : r = w.b[c]
  OBVIOUS
<1>3. CASE r.removed \/ ~ r.health
  <2>1. setIdle(w, c, idle) = w
    BY <1>1, <1>2, <1>3, SetIdleIs
  <2> QED BY <1>2, <1>3, <2>1, NotStirred
<1>4. CASE ~ r.removed /\ r.health /\ r.listed
  <2>1. PICK p : p = Idle(r, idle)
    OBVIOUS
  <2>2. PICK ch \in BOOLEAN : ch = ~ idle
    OBVIOUS
  <2>3. PICK q : q = Checked(p, ch)
    OBVIOUS
  <2>4. /\ p \in Being
        /\ p.refs = r.refs /\ p.placed = r.placed /\ p.removed = r.removed /\ p.master = r.master
        /\ p.listed = r.listed /\ p.spawn = r.spawn /\ p.health = r.health /\ p.isIdle = idle
    BY <1>1, <1>2, <2>1, IdleIs
  <2>5. /\ q \in Being
        /\ q.refs = p.refs /\ q.placed = p.placed /\ q.removed = p.removed /\ q.master = p.master
        /\ q.checked = ch /\ q.listed = p.listed /\ q.spawn = p.spawn
        /\ q.health = p.health /\ q.isIdle = p.isIdle
    BY <2>3, <2>4, CheckedIs
  <2>6. PICK v : v = With(w, c, q)
    OBVIOUS
  <2>7. setIdle(w, c, idle) = v
    <3>1. CASE idle
      BY <1>1, <1>2, <1>4, <2>1, <2>2, <2>3, <2>6, <3>1, SetIdleIs
    <3>2. CASE ~ idle
      BY <1>1, <1>2, <1>4, <2>1, <2>2, <2>3, <2>6, <3>2, SetIdleIs
    <3> QED BY <3>1, <3>2
  <2>8. Sane(v, owed, sm, X) /\ Stirred(w, v, c)
    <3>1. q.refs = r.refs /\ q.placed = r.placed /\ ~ q.removed /\ ~ r.removed /\ q.master = r.master /\ q.listed = r.listed /\ q.listed /\ q.spawn = r.spawn
      BY <1>4, <2>4, <2>5
    <3>2. ~ q.isIdle \/ ~ q.health => q.checked
      BY <1>4, <2>2, <2>4, <2>5
    <3> QED BY <1>1, <1>2, <2>4, <2>5, <2>6, <3>1, <3>2, MarkGood
  <2>9. v.b[c] = q
    BY <1>1, <2>5, <2>6, WithAt
  <2> QED BY <1>2, <2>2, <2>4, <2>5, <2>7, <2>8, <2>9
<1>5. CASE ~ r.removed /\ r.health /\ ~ r.listed /\ idle
  <2>1. PICK q : q = Idle(r, TRUE)
    OBVIOUS
  <2>2. /\ q \in Being
        /\ q.refs = r.refs /\ q.placed = r.placed /\ q.removed = r.removed /\ q.master = r.master
        /\ q.listed = r.listed /\ q.spawn = r.spawn /\ q.health = r.health /\ q.isIdle /\ q.checked = r.checked
    BY <1>1, <1>2, <2>1, IdleIs
  <2>3. PICK v : v = With(w, c, q)
    OBVIOUS
  <2>4. setIdle(w, c, idle) = v
    BY <1>1, <1>2, <1>5, <2>1, <2>3, SetIdleIs
  <2>5. ~ r.checked
    BY <1>1, <1>2, <1>5 DEF One
  <2>6. Sane(v, owed, sm, X) /\ Stirred(w, v, c)
    BY <1>2, <1>5, <2>2, <2>3, <2>5, MarkGood
  <2>7. v.b[c] = q
    BY <1>1, <2>2, <2>3, WithAt
  <2> QED BY <1>2, <1>5, <2>2, <2>4, <2>6, <2>7
<1>6. CASE ~ r.removed /\ r.health /\ ~ r.listed /\ ~ idle
  <2>1. PICK p : p = Idle(r, FALSE)
    OBVIOUS
  <2>2. PICK q : q = Joined(p)
    OBVIOUS
  <2>3. /\ p \in Being
        /\ p.refs = r.refs /\ p.placed = r.placed /\ p.removed = r.removed /\ p.master = r.master
        /\ p.listed = r.listed /\ p.spawn = r.spawn /\ p.health = r.health
    BY <1>1, <1>2, <2>1, IdleIs
  <2>4. /\ q \in Being
        /\ q.refs = p.refs + 1 /\ q.placed = p.placed /\ q.removed = p.removed /\ q.master = p.master
        /\ q.checked /\ q.listed /\ q.spawn = p.spawn /\ q.health = p.health
    BY <2>2, <2>3, JoinedIs
  <2>5. PICK v : v = Enlist(w, c, q)
    OBVIOUS
  <2>6. setIdle(w, c, idle) = v
    BY <1>1, <1>2, <1>6, <2>1, <2>2, <2>5, SetIdleIs
  <2>7. Sane(v, owed, sm, X) /\ Stirred(w, v, c)
    BY <1>2, <1>6, <2>3, <2>4, <2>5, EnlistGood
  <2>8. v.b[c] = q
    BY <1>1, <2>4, <2>5, EnlistAt
  <2> QED BY <1>2, <1>6, <2>3, <2>4, <2>6, <2>7, <2>8
<1> QED BY <1>3, <1>4, <1>5, <1>6

LEMMA ChangeHealthGood ==
  ASSUME NEW w, NEW owed, NEW sm, NEW X, Sane(w, owed, sm, X), NEW c \in Breathing,
         w.b[c].placed \/ c \in X, NEW alive \in BOOLEAN
  PROVE  LET v == changeHealth(w, c, alive)
         IN  Sane(v, owed, sm, X) /\ Stirred(w, v, c)
<1>1. /\ One(w, c, owed[c], sm, X) /\ w \in SceneType /\ w.b[c] \in Being
  BY SaneFacts
<1>2. PICK u : u = setIdle(w, c, FALSE)
  OBVIOUS
<1>3. /\ Sane(u, owed, sm, X) /\ Stirred(w, u, c) /\ u.b[c].health = w.b[c].health
      /\ w.b[c].health /\ ~ w.b[c].removed => u.b[c].checked
  <2>1. PICK idle \in BOOLEAN : idle = FALSE
    OBVIOUS
  <2>2. u = setIdle(w, c, idle)
    BY <1>2, <2>1
  <2> QED BY <2>1, <2>2, SetIdleGood
<1>4. One(u, c, owed[c], sm, X) /\ u \in SceneType /\ u.b[c] \in Being
  BY <1>3, SaneFacts
<1>5. PICK r : r = u.b[c]
  OBVIOUS
<1>6. PICK q : q = Healthy(r, alive)
  OBVIOUS
<1>7. /\ q \in Being
      /\ q.refs = r.refs /\ q.placed = r.placed /\ q.removed = r.removed /\ q.master = r.master
      /\ q.listed = r.listed /\ q.spawn = r.spawn /\ q.checked = r.checked /\ q.isIdle = r.isIdle
  BY <1>4, <1>5, <1>6, HealthyIs
<1>8. /\ r.checked => r.listed
      /\ c \notin X /\ r.removed => ~ r.checked
      /\ c \in Beasts /\ r.placed /\ ~ r.removed => r.checked
  <2>1. c \in Beasts /\ r.placed /\ ~ r.removed /\ ~ r.health => r.checked
    BY <1>4, <1>5 DEF One, Present
  <2>2. r.health /\ ~ r.removed => r.checked
    BY <1>3, <1>5 DEF Stirred
  <2> QED BY <1>4, <1>5, <2>1, <2>2 DEF One
<1>9. PICK v : v = With(u, c, q)
  OBVIOUS
<1>10. Sane(v, owed, sm, X) /\ Stirred(u, v, c)
  <2>1. q.placed \/ c \in X
    BY <1>3, <1>5, <1>7 DEF Stirred
  <2> QED BY <1>3, <1>5, <1>7, <1>8, <1>9, <2>1, MarkGood
<1>11. Stirred(w, v, c)
  BY <1>3, <1>10 DEF Stirred
<1>12. changeHealth(w, c, alive) = v
  BY <1>2, <1>5, <1>6, <1>9, Zenon DEF changeHealth, With, Healthy
<1> QED BY <1>10, <1>11, <1>12

-----------------------------------------------------------------------------
(* The summons of a creature that dies, or changes hands.                  *)

\* Only those of S are not what they were.
Elsewhere(w, v, S) ==
  /\ v.spawned = w.spawned /\ v.event = w.event /\ v.free = w.free /\ v.lost = w.lost
  /\ \A y \in Breathing : y \notin S => v.b[y] = w.b[y]
  /\ \A y \in Breathing : v.b[y].removed => w.b[y].removed

LEMMA ChangeHealthType ==
  ASSUME NEW w \in SceneType, NEW c \in Breathing, NEW idle \in BOOLEAN, NEW alive \in BOOLEAN
  PROVE  setIdle(w, c, idle) \in SceneType /\ changeHealth(w, c, alive) \in SceneType
<1>1. ASSUME NEW i \in BOOLEAN PROVE setIdle(w, c, i) \in SceneType
  <2>1. PICK r : r = w.b[c]
    OBVIOUS
  <2>2. r \in Being
    BY <2>1 DEF SceneType, Beings
  <2>3. PICK p : p = Idle(r, TRUE)
    OBVIOUS
  <2>4. PICK q : q = Idle(r, FALSE)
    OBVIOUS
  <2>5. p \in Being /\ q \in Being
    BY <2>2, <2>3, <2>4, IdleIs
  <2>6. PICK pc : pc = Checked(p, FALSE)
    OBVIOUS
  <2>7. PICK qc : qc = Checked(q, TRUE)
    OBVIOUS
  <2>8. PICK qj : qj = Joined(q)
    OBVIOUS
  <2>9. pc \in Being /\ qc \in Being /\ qj \in Being
    BY <2>5, <2>6, <2>7, <2>8, CheckedIs, JoinedIs
  <2>10. setIdle(w, c, i) \in {w, With(w, c, pc), With(w, c, qc), With(w, c, p), Enlist(w, c, qj)}
    BY <2>1, <2>3, <2>4, <2>6, <2>7, <2>8, SetIdleIs
  <2>11. /\ With(w, c, pc) \in SceneType /\ With(w, c, qc) \in SceneType /\ With(w, c, p) \in SceneType
         /\ Enlist(w, c, qj) \in SceneType
    BY <2>5, <2>9, WithAt, EnlistAt
  <2> QED BY <2>10, <2>11
<1>2. PICK u : u = setIdle(w, c, FALSE)
  OBVIOUS
<1>3. u \in SceneType
  BY <1>1, <1>2
<1>4. PICK q : q = Healthy(u.b[c], alive)
  OBVIOUS
<1>5. q \in Being
  BY <1>3, <1>4, HealthyIs DEF SceneType, Beings
<1>6. changeHealth(w, c, alive) = With(u, c, q)
  BY <1>2, <1>4, Zenon DEF changeHealth, With, Healthy
<1> QED BY <1>1, <1>3, <1>5, <1>6, WithAt

LEMMA KillIs ==
  ASSUME NEW w, NEW s, NEW u, u = changeHealth(w, s, FALSE)
  PROVE  kill(w, s) = unRef(With(u, s, Owned(u.b[s], NoCreature)), s)
<1>1. kill(w, s) = unRef([u EXCEPT !.b[s].master = NoCreature], s)
  BY DEF kill
<1>2. [u EXCEPT !.b[s].master = NoCreature] = With(u, s, Owned(u.b[s], NoCreature))
  BY Zenon DEF With, Owned
<1> QED BY <1>1, <1>2

LEMMA KillType ==
  ASSUME NEW w \in SceneType, NEW s \in Breathing
  PROVE  kill(w, s) \in SceneType
<1>1. PICK u : u = changeHealth(w, s, FALSE)
  OBVIOUS
<1>2. u \in SceneType
  <2>1. PICK alive \in BOOLEAN : alive = FALSE
    OBVIOUS
  <2>2. changeHealth(w, s, alive) \in SceneType
    BY ChangeHealthType
  <2> QED BY <1>1, <2>1, <2>2
<1>3. PICK r : r = Owned(u.b[s], NoCreature)
  OBVIOUS
<1>4. r \in Being
  BY <1>2, <1>3, OwnedIs DEF SceneType, Beings
<1>5. PICK t : t = With(u, s, r)
  OBVIOUS
<1>6. t \in SceneType
  BY <1>2, <1>4, <1>5, WithAt
<1>7. kill(w, s) = unRef(t, s)
  BY <1>1, <1>3, <1>5, KillIs
<1> QED BY <1>6, <1>7, UnRefType

LEMMA KillGood ==
  ASSUME NEW w, NEW owed, NEW sm, NEW X, Sane(w, owed, sm, X), NEW m \in Breathing, NEW s \in sm[m],
         w.summons[s] = {}
  PROVE  LET v == kill(w, s)
         IN  /\ Sane(v, owed, [sm EXCEPT ![m] = @ \ {s}], X) /\ v.summons = w.summons
             /\ Elsewhere(w, v, {s})
<1>1. /\ s \in Breathing /\ s # m /\ w.b[s].refs > owed[s] /\ One(w, s, owed[s], sm, X) /\ owed[s] \in Nat
      /\ w.b[s] \in Being /\ w \in SceneType
  <2>1. s \in Breathing /\ s # m /\ w.b[s].refs > owed[s]
    BY SummonFacts
  <2> QED BY <2>1, SaneFacts
<1>2. w.b[s].placed \/ s \in X
  BY <1>1 DEF One, Being
<1>3. PICK u : u = changeHealth(w, s, FALSE)
  OBVIOUS
<1>4. Sane(u, owed, sm, X) /\ Stirred(w, u, s)
  <2>1. PICK alive \in BOOLEAN : alive = FALSE
    OBVIOUS
  <2>2. u = changeHealth(w, s, alive)
    BY <1>3, <2>1
  <2> QED BY <1>1, <1>2, <2>2, ChangeHealthGood
<1>5. PICK t : t = With(u, s, Owned(u.b[s], NoCreature))
  OBVIOUS
<1>6. t \in SceneType /\ t.summons = w.summons
  <2>1. PICK r : r = Owned(u.b[s], NoCreature)
    OBVIOUS
  <2>2. u \in SceneType /\ u.b[s] \in Being
    BY <1>1, <1>4, SaneFacts
  <2>3. r \in Being
    BY <2>1, <2>2, OwnedIs
  <2>4. t = With(u, s, r)
    BY <1>5, <2>1
  <2>5. t \in SceneType /\ t.summons = u.summons
    BY <1>1, <2>2, <2>3, <2>4, WithIs
  <2> QED BY <1>4, <2>5 DEF Stirred
<1>7. PICK v : v = Drop(t, s)
  OBVIOUS
<1>8. /\ Sane(v, owed, [sm EXCEPT ![m] = @ \ {s}], X) /\ Calm(u, v) /\ v.summons = u.summons
      /\ Unmastered(u, v, s)
  BY <1>4, <1>5, <1>7, ReleasedGood
<1>9. kill(w, s) = v
  <2>1. kill(w, s) = unRef(t, s)
    BY <1>3, <1>5, KillIs
  <2>2. t.summons[s] = {}
    BY <1>6
  <2> QED BY <1>1, <1>6, <1>7, <2>1, <2>2, UnRefAlone
<1>10. v.summons = w.summons
  BY <1>4, <1>8 DEF Stirred
<1>11. Elsewhere(w, v, {s})
  <2>1. \A y \in Breathing : y # s => v.b[y] = w.b[y]
    BY <1>4, <1>8 DEF Stirred, Unmastered
  <2>2. v.b[s].removed => w.b[s].removed
    BY <1>4, <1>8 DEF Stirred, Unmastered
  <2>3. v.spawned = w.spawned /\ v.event = w.event /\ v.free = w.free /\ v.lost = w.lost
    BY <1>4, <1>8 DEF Stirred, Calm
  <2> QED BY <2>1, <2>2, <2>3 DEF Elsewhere
<1> QED BY <1>8, <1>9, <1>10, <1>11

Killed(w, l) == InTurn(kill, w, l)
LEMMA KillsInTurn ==
  ASSUME NEW w \in SceneType, NEW l \in Seq(Breathing)
  PROVE  \E f \in [0 .. Len(l) -> SceneType] :
           /\ f[0] = w /\ \A k \in 1 .. Len(l) : f[k] = kill(f[k - 1], l[k])
           /\ Killed(w, l) = f[Len(l)]
<1> DEFINE X == SceneType
           len == Len(l)
           go(v, s) == kill(v, s)
           step == [k \in 1 .. len |-> [v \in X |-> go(v, l[k])]]
           body(f) == [k \in 0 .. len |-> IF k = 0 THEN w ELSE go(f[k - 1], l[k])]
           along == CHOOSE f : f = body(f)
<1>1. len \in Nat /\ \A k \in 1 .. len : l[k] \in Breathing
  OBVIOUS
<1>2. Killed(w, l) = along[len]
  BY DEF InTurn, Killed
<1>3. \A v \in X : \A c \in Breathing : go(v, c) \in X
  BY KillType
<1>4. step \in [1 .. len -> [X -> X]]
  BY <1>1, <1>3
<1>5. \A k \in 1 .. len : \A v \in X : step[k][v] = go(v, l[k])
  OBVIOUS
<1> HIDE DEF X, len, go, step
<1>6. PICK f \in [0 .. len -> X] : \A k \in 0 .. len : f[k] = IF k = 0 THEN w ELSE step[k][f[k - 1]]
  <2> HIDE DEF along, body
  <2>1. w \in X
    BY DEF X
  <2>2. \E f : Goes(f, len, X, w, step)
    BY <1>1, <1>4, <2>1, StepsMakeAFunction
  <2> QED BY <2>2 DEF Goes
<1>7. f = body(f)
  <2>1. \A k \in 0 .. len : k # 0 => k \in 1 .. len /\ f[k - 1] \in X
    BY <1>1, <1>6
  <2>2. \A k \in 0 .. len : f[k] = IF k = 0 THEN w ELSE go(f[k - 1], l[k])
    BY <1>5, <1>6, <2>1
  <2> QED BY <1>6, <2>2
<1>8. along = body(along)
  <2> HIDE DEF body
  <2> QED BY <1>7
<1> HIDE DEF along
<1>9. along[0] = w /\ \A k \in 1 .. len : along[k] = go(along[k - 1], l[k])
  <2>1. \A k \in 0 .. len : along[k] = IF k = 0 THEN w ELSE go(along[k - 1], l[k])
    BY <1>8
  <2>2. 0 \in 0 .. len /\ \A k \in 1 .. len : k \in 0 .. len /\ k # 0
    BY <1>1
  <2> QED BY <2>1, <2>2
<1>10. \A k \in 0 .. len : along[k] \in X
  <2> DEFINE P == {k \in 0 .. len : along[k] \in X}
  <2>1. 0 \in P
    BY <1>1, <1>9 DEF X
  <2>2. ASSUME NEW k \in 1 .. len, k - 1 \in P PROVE k \in P
    <3>1. k \in 0 .. len /\ along[k - 1] \in X /\ l[k] \in Breathing /\ along[k] = go(along[k - 1], l[k])
      BY <1>1, <1>9, <2>2
    <3> QED BY <1>3, <3>1
  <2> HIDE DEF P
  <2>3. 0 .. len \subseteq P
    BY <1>1, <2>1, <2>2, UpTo
  <2> QED BY <2>3 DEF P
<1>11. along \in [0 .. len -> X]
  <2>1. along = [k \in 0 .. len |-> along[k]]
    BY <1>8
  <2> QED BY <1>10, <2>1
<1> QED BY <1>2, <1>9, <1>11 DEF X, len, go

LEMMA DestroySummonsGood ==
  ASSUME NEW w, NEW owed, NEW X, Sane(w, owed, w.summons, X), NEW m \in Breathing
  PROVE  LET v == destroySummons(w, m)
         IN  /\ Sane(v, owed, v.summons, X) /\ v.summons = [w.summons EXCEPT ![m] = {}]
             /\ Elsewhere(w, v, w.summons[m])
<1>1. /\ w.summons \in Herds /\ w.summons[m] \in SUBSET Beasts /\ w \in SceneType /\ owed \in Counts
      /\ IsFiniteSet(w.summons[m])
  BY SaneFacts, BreathingFacts, FS_Subset
<1>2. PICK S : S = w.summons[m]
  OBVIOUS
<1>3. PICK sm : sm = w.summons
  OBVIOUS
<1>4. PICK l : l = SetToSeq(S)
  OBVIOUS
<1>5. l \in Seq(S) /\ Once(l) /\ ToSet(l) = S
  BY <1>1, <1>2, <1>4, SetToSeqFacts
<1>6. /\ Rest(l, 0) = S /\ Rest(l, Len(l)) = {} /\ Len(l) \in Nat
      /\ \A k \in 1 .. Len(l) : /\ k - 1 \in Nat /\ l[k] \in S /\ l[k] \in Rest(l, k - 1)
                                /\ Rest(l, k) = Rest(l, k - 1) \ {l[k]} /\ Rest(l, k - 1) \subseteq S
  BY <1>5, RestFacts
<1>7. l \in Seq(Breathing)
  BY <1>1, <1>2, <1>5, BreathingFacts
<1>8. PICK f \in [0 .. Len(l) -> SceneType] :
           /\ f[0] = w /\ \A k \in 1 .. Len(l) : f[k] = kill(f[k - 1], l[k])
           /\ Killed(w, l) = f[Len(l)]
  BY <1>1, <1>7, KillsInTurn
<1>9. \A s \in S : s \in Breathing /\ sm[s] = {}
  BY <1>2, <1>3, SummonFacts
<1> DEFINE left(k) == [sm EXCEPT ![m] = Rest(l, k)]
           Going(k) == Sane(f[k], owed, left(k), X) /\ f[k].summons = sm /\ Elsewhere(w, f[k], S)
           P == {k \in 0 .. Len(l) : Going(k)}
<1>10. 0 \in P
  <2>1. left(0) = sm
    BY <1>1, <1>2, <1>3, <1>6 DEF Herds
  <2> HIDE DEF left
  <2> QED BY <1>3, <1>6, <1>8, <2>1 DEF Elsewhere
<1>11. ASSUME NEW k \in 1 .. Len(l), k - 1 \in P PROVE k \in P
  <2>1. PICK u : u = f[k - 1]
    OBVIOUS
  <2>2. PICK s : s = l[k]
    OBVIOUS
  <2>3. PICK sn : sn = left(k - 1)
    OBVIOUS
  <2>4. PICK v : v = f[k]
    OBVIOUS
  <2>5. Sane(u, owed, sn, X) /\ u.summons = sm /\ Elsewhere(w, u, S)
    BY <1>11, <2>1, <2>3
  <2>6. sn[m] = Rest(l, k - 1) /\ s \in sn[m] /\ sn \in Herds /\ s \in S /\ k \in 0 .. Len(l)
    BY <1>1, <1>2, <1>3, <1>6, <2>2, <2>3 DEF Herds
  <2>7. [sn EXCEPT ![m] = @ \ {s}] = left(k)
    <3>1. Rest(l, k) = sn[m] \ {s}
      BY <1>6, <2>2, <2>6
    <3> QED BY <1>1, <1>3, <2>3, <3>1 DEF Herds
  <2>8. v = kill(u, s) /\ u.summons[s] = {}
    BY <1>8, <1>9, <2>1, <2>2, <2>4, <2>5, <2>6
  <2>9. /\ Sane(v, owed, [sn EXCEPT ![m] = @ \ {s}], X) /\ v.summons = u.summons
        /\ Elsewhere(u, v, {s})
    BY <2>5, <2>6, <2>8, KillGood
  <2>10. Elsewhere(w, v, S)
    BY <2>5, <2>6, <2>9 DEF Elsewhere
  <2> HIDE DEF left
  <2> QED BY <2>4, <2>5, <2>6, <2>7, <2>9, <2>10
<1> HIDE DEF P
<1>12. 0 .. Len(l) \subseteq P
  BY <1>6, <1>10, <1>11, UpTo
<1>13. Going(Len(l))
  <2> HIDE DEF Going
  <2>1. Len(l) \in P
    BY <1>6, <1>12
  <2> QED BY <2>1 DEF P
<1>14. PICK t : t = Killed(w, l)
  OBVIOUS
<1>15. PICK N : N = {}
  OBVIOUS
<1>16. Sane(t, owed, [sm EXCEPT ![m] = N], X) /\ t.summons = sm /\ Elsewhere(w, t, S) /\ t \in SceneType
  <2>1. left(Len(l)) = [sm EXCEPT ![m] = N]
    BY <1>6, <1>15
  <2>2. t = f[Len(l)]
    BY <1>8, <1>14
  <2> HIDE DEF left
  <2>3. Sane(t, owed, [sm EXCEPT ![m] = N], X) /\ t.summons = sm /\ Elsewhere(w, t, S)
    BY <1>13, <2>1, <2>2
  <2> QED BY <2>3 DEF Sane
<1>17. PICK v : v = WithHerd(t, m, N)
  OBVIOUS
<1>18. v.summons = [sm EXCEPT ![m] = N] /\ v.b = t.b /\ Calm(t, v) /\ Sane(v, owed, [sm EXCEPT ![m] = N], X)
  <2>1. N \in SUBSET Beasts
    BY <1>15
  <2>2. v.summons = [t.summons EXCEPT ![m] = N] /\ v.b = t.b /\ Calm(t, v)
    BY <1>16, <1>17, <2>1, WithHerdIs DEF Calm
  <2>3. Sane(v, owed, [sm EXCEPT ![m] = N], X)
    BY <1>16, <1>17, <2>1, HerdGood
  <2> QED BY <1>16, <2>2, <2>3
<1>19. Elsewhere(w, v, S)
  BY <1>16, <1>18 DEF Elsewhere, Calm
<1>20. destroySummons(w, m) = v
  <2>1. destroySummons(w, m) = [Killed(w, SetToSeq(w.summons[m])) EXCEPT !.summons[m] = {}]
    BY DEF destroySummons, Killed
  <2> QED BY <1>2, <1>4, <1>14, <1>15, <1>17, <2>1 DEF WithHerd
<1> QED BY <1>2, <1>3, <1>15, <1>18, <1>19, <1>20

-----------------------------------------------------------------------------
(* Out of the world.                                                       *)

LEMMA StartEventGood ==
  ASSUME NEW w, NEW owed, NEW sm, NEW X, Sane(w, owed, sm, X)
  PROVE  LET v == startEvent(w)
         IN  /\ Sane(v, owed, sm, X) /\ v.b = w.b /\ v.summons = w.summons /\ v.spawned = w.spawned
             /\ v.free = w.free /\ v.event
<1>1. w \in SceneType /\ Watched(w) /\ w.toAdd \cap checkVectors = {}
  BY DEF Sane
<1>2. PICK e \in BOOLEAN : e = TRUE
  OBVIOUS
<1>3. PICK L \in SUBSET Lairs : L = {}
  OBVIOUS
<1>4. PICK v : v = WithEvent(w, e, L)
  OBVIOUS
<1>5. /\ v \in SceneType /\ v.b = w.b /\ v.summons = w.summons /\ v.spawned = w.spawned
      /\ v.event = e /\ v.toAdd = w.toAdd /\ v.free = w.free /\ v.lost = L
  BY <1>1, <1>4, WithEventIs
<1>6. startEvent(w) = v
  BY <1>2, <1>3, <1>4 DEF startEvent, WithEvent
<1>7. Watched(v) /\ v.toAdd \cap checkVectors = {}
  BY <1>1, <1>2, <1>5 DEF Watched
<1>8. \A c \in Breathing : One(w, c, owed[c], sm, X) => One(v, c, owed[c], sm, X)
  BY <1>5 DEF One, Present
<1>9. Sane(v, owed, sm, X)
  BY <1>5, <1>7, <1>8 DEF Sane
<1> QED BY <1>2, <1>5, <1>6, <1>9

LEMMA FreeThingIs ==
  ASSUME NEW w \in SceneType, NEW c \in Breathing
  PROVE  LET v == freeThing(w, c)
         IN  /\ v \in SceneType /\ v.b = w.b /\ v.summons = w.summons /\ v.spawned = w.spawned
             /\ v.event = w.event /\ v.toAdd = w.toAdd /\ v.lost = w.lost
             /\ v.free = [w.free EXCEPT ![c] = @ + 1]
<1>1. PICK F : F = [w.free EXCEPT ![c] = @ + 1]
  OBVIOUS
<1>2. F \in Counts
  BY <1>1 DEF SceneType, Counts
<1>3. PICK v : v = WithFree(w, F)
  OBVIOUS
<1>4. /\ v \in SceneType /\ v.b = w.b /\ v.summons = w.summons /\ v.spawned = w.spawned
      /\ v.event = w.event /\ v.toAdd = w.toAdd /\ v.lost = w.lost /\ v.free = F
  BY <1>2, <1>3, WithFreeIs
<1>5. freeThing(w, c) = v
  BY <1>1, <1>3 DEF freeThing, WithFree
<1> QED BY <1>1, <1>4, <1>5

LEMMA FreeThingGood ==
  ASSUME NEW w, NEW owed, NEW sm, NEW X, Sane(w, owed, sm, X), NEW c \in Breathing, owed[c] > 0
  PROVE  Sane(freeThing(w, c), [owed EXCEPT ![c] = @ - 1], sm, X)
<1>1. /\ One(w, c, owed[c], sm, X) /\ w \in SceneType /\ w.b[c] \in Being /\ owed[c] \in Nat
      /\ w.free[c] \in Nat /\ owed \in Counts /\ sm \in Herds
  BY SaneFacts
<1>2. PICK v : v = freeThing(w, c)
  OBVIOUS
<1>3. /\ v \in SceneType /\ v.b = w.b /\ v.summons = w.summons /\ v.spawned = w.spawned
      /\ v.event = w.event /\ v.toAdd = w.toAdd /\ v.lost = w.lost
      /\ v.free = [w.free EXCEPT ![c] = @ + 1]
  BY <1>1, <1>2, FreeThingIs
<1>4. PICK due : due = [owed EXCEPT ![c] = @ - 1]
  OBVIOUS
<1>5. due \in Counts /\ due[c] = owed[c] - 1 /\ \A y \in Breathing : y # c => due[y] = owed[y]
  BY <1>1, <1>4 DEF Counts
<1>6. v.free[c] = w.free[c] + 1 /\ \A y \in Breathing : y # c => v.free[y] = w.free[y]
  BY <1>1, <1>3 DEF SceneType, Counts
<1>7. One(v, c, due[c], sm, X)
  BY <1>1, <1>3, <1>5, <1>6 DEF One, Present
<1>8. v.toAdd \cap checkVectors = {} /\ Watched(v)
  BY <1>3 DEF Sane, Watched
<1>9. Apart(w, owed, v, due, c)
  BY <1>3, <1>5, <1>6 DEF Apart
<1>10. Sane(v, due, sm, X)
  <2>1. v.b[c].removed => w.b[c].removed
    BY <1>3
  <2> QED BY <1>1, <1>3, <1>5, <1>7, <1>8, <1>9, <2>1, Unherded, OthersStand, Zenon
<1> QED BY <1>2, <1>4, <1>10

\* The reference of the map is still to be given back then.
LEMMA RemovedGood ==
  ASSUME NEW w, NEW owed, NEW sm, NEW X, Sane(w, owed, sm, X), NEW c \in Breathing, c \in X,
         Present(w, c), w.b[c].spawn # NoLair => w.event
  PROVE  LET v == With(w, c, Removed(w.b[c]))
         IN  Sane(v, [owed EXCEPT ![c] = @ + 1], sm, X) /\ v.b[c] = Removed(w.b[c])
<1>1. /\ One(w, c, owed[c], sm, X) /\ w \in SceneType /\ w.b[c] \in Being /\ owed[c] \in Nat
      /\ w.free[c] \in Nat /\ owed \in Counts /\ sm \in Herds /\ w.b[c].master # c
  BY SaneFacts
<1>2. PICK r : r = Removed(w.b[c])
  OBVIOUS
<1>3. /\ r \in Being
      /\ r.refs = w.b[c].refs /\ r.placed = w.b[c].placed /\ r.removed /\ r.health = w.b[c].health /\ r.master = w.b[c].master
      /\ r.isIdle = w.b[c].isIdle /\ r.checked = w.b[c].checked /\ r.listed = w.b[c].listed /\ r.spawn = w.b[c].spawn
  BY <1>1, <1>2, RemovedIs
<1>4. PICK v : v = With(w, c, r)
  OBVIOUS
<1>5. /\ v.b = [w.b EXCEPT ![c] = r] /\ v.spawned = w.spawned /\ v.toAdd = w.toAdd /\ v.free = w.free
      /\ v.b[c] = r
  BY <1>1, <1>3, <1>4, WithIs, WithAt
<1>6. ~ Present(v, c)
  BY <1>3, <1>5 DEF Present
<1>7. One(v, c, owed[c] + 1, sm, X)
  <2>1. r.refs = 0 + v.free[c] + (IF r.listed THEN 1 ELSE 0)
                  + (IF r.master # NoCreature THEN 1 ELSE 0)
                  + (IF r.spawn # NoLair /\ v.spawned[r.spawn] = c THEN 1 ELSE 0) + (owed[c] + 1)
    <3>1. w.b[c].refs = 1 + w.free[c] + (IF r.listed THEN 1 ELSE 0)
                  + (IF r.master # NoCreature THEN 1 ELSE 0)
                  + (IF r.spawn # NoLair /\ w.spawned[r.spawn] = c THEN 1 ELSE 0) + owed[c]
      BY <1>1, <1>3 DEF One
    <3> QED BY <1>1, <1>3, <1>5, <3>1
  <2> QED BY <1>1, <1>3, <1>5, <1>6, <2>1 DEF One
<1>8. w.event \/ \A s \in Lairs : w.spawned[s] # c
  BY <1>1, BreathingFacts DEF One
<1>9. Sane(With(w, c, r), [owed EXCEPT ![c] = owed[c] + 1], sm, X)
  <2>1. One(With(w, c, r), c, owed[c] + 1, sm, X) /\ owed[c] + 1 \in Nat
    BY <1>1, <1>4, <1>7
  <2> QED BY <1>1, <1>3, <1>8, <2>1, Unherded, AloneGood
<1> QED BY <1>2, <1>4, <1>5, <1>9

RemoveOneSeen(w, c) == IF w.b[c].spawn # NoLair THEN startEvent(w) ELSE w
RemoveOneAsleep(w, c) == IF c = Hunter THEN RemoveOneSeen(w, c) ELSE setIdle(RemoveOneSeen(w, c), c, TRUE)
RemoveOneGone(w, c) == With(RemoveOneAsleep(w, c), c, Removed(RemoveOneAsleep(w, c).b[c]))
RemoveOneAlone(w, c) ==
  IF w.b[c].master # NoCreature /\ ~ RemoveOneGone(w, c).b[w.b[c].master].removed
  THEN removeSummon(RemoveOneGone(w, c), w.b[c].master, c) ELSE RemoveOneGone(w, c)

LEMMA RemoveOneIs ==
  ASSUME NEW w, NEW c
  PROVE  /\ w.b[c].removed => removeOne(w, c) = w
         /\ ~ w.b[c].removed => removeOne(w, c) = removeCreatureCheck(freeThing(RemoveOneAlone(w, c), c), c)
<1>1. w.b[c].removed => removeOne(w, c) = w
  BY DEF removeOne
<1>2. PICK seen : seen = RemoveOneSeen(w, c)
  OBVIOUS
<1>3. PICK asleep : asleep = IF c = Hunter THEN seen ELSE setIdle(seen, c, TRUE)
  OBVIOUS
<1>4. PICK gone : gone = [asleep EXCEPT !.b[c].removed = TRUE]
  OBVIOUS
<1>5. RemoveOneGone(w, c) = gone
  <2>1. RemoveOneAsleep(w, c) = asleep
    BY <1>2, <1>3 DEF RemoveOneAsleep
  <2>2. RemoveOneGone(w, c) = With(asleep, c, Removed(asleep.b[c]))
    BY <2>1 DEF RemoveOneGone
  <2>3. With(asleep, c, Removed(asleep.b[c])) = gone
    BY <1>4, Zenon DEF With, Removed
  <2> QED BY <2>2, <2>3
<1>6. ~ w.b[c].removed => removeOne(w, c) = removeCreatureCheck(freeThing(
          IF w.b[c].master # NoCreature /\ ~ gone.b[w.b[c].master].removed
          THEN removeSummon(gone, w.b[c].master, c) ELSE gone, c), c)
  BY <1>2, <1>3, <1>4 DEF removeOne, RemoveOneSeen
<1> QED BY <1>1, <1>5, <1>6 DEF RemoveOneAlone

\* Out of the world, and to be released; its own summons are not let go of yet.
LEMMA RemoveOneGood ==
  ASSUME NEW w, NEW owed, NEW X, Sane(w, owed, w.summons, X), NEW c \in Breathing, c \in X, Present(w, c)
  PROVE  LET v == removeOne(w, c)
         IN  /\ Sane(v, owed, v.summons, X)
             /\ v.b[c].placed /\ v.b[c].removed /\ ~ v.b[c].checked
             /\ v.summons[c] = w.summons[c] /\ \A y \in Breathing : y # c => v.b[y] = w.b[y]
             /\ w.b[c].master # NoCreature /\ w.b[w.b[c].master].removed => v.summons = w.summons
<1>1. /\ One(w, c, owed[c], w.summons, X) /\ w \in SceneType /\ w.b[c] \in Being /\ owed[c] \in Nat
      /\ owed \in Counts /\ w.summons \in Herds /\ w.b[c].master # c /\ w.b[c].placed /\ ~ w.b[c].removed
  BY SaneFacts DEF Present
<1>2. PICK m : m = w.b[c].master
  OBVIOUS
<1>3. m = NoCreature \/ (m \in Breathing /\ m # c /\ c \in w.summons[m])
  BY <1>1, <1>2 DEF One, Being
<1>4. PICK seen : seen = RemoveOneSeen(w, c)
  OBVIOUS
<1>5. /\ Sane(seen, owed, w.summons, X) /\ seen.summons = w.summons /\ seen.b = w.b
      /\ w.b[c].spawn # NoLair => seen.event
  BY <1>4, StartEventGood DEF RemoveOneSeen
<1>6. PICK asleep : asleep = RemoveOneAsleep(w, c)
  OBVIOUS
<1>7. Sane(asleep, owed, w.summons, X) /\ Stirred(seen, asleep, c)
  <2>1. CASE c = Hunter
    BY <1>4, <1>5, <1>6, <2>1, NotStirred DEF RemoveOneAsleep
  <2>2. CASE c # Hunter
    <3>1. PICK idle \in BOOLEAN : idle = TRUE
      OBVIOUS
    <3>2. asleep = setIdle(seen, c, idle)
      BY <1>4, <1>6, <2>2, <3>1 DEF RemoveOneAsleep
    <3>3. seen.b[c].placed
      BY <1>1, <1>5
    <3> QED BY <1>5, <3>2, <3>3, SetIdleGood
  <2> QED BY <2>1, <2>2
<1>8. /\ asleep.summons = w.summons /\ Present(asleep, c) /\ asleep.b[c].master = m
      /\ asleep.b[c].spawn # NoLair => asleep.event
      /\ \A y \in Breathing : y # c => asleep.b[y] = w.b[y]
  BY <1>1, <1>2, <1>5, <1>7 DEF Stirred, Present
<1>9. PICK gone : gone = With(asleep, c, Removed(asleep.b[c]))
  OBVIOUS
<1>10. PICK due : due = [owed EXCEPT ![c] = @ + 1]
  OBVIOUS
<1>11. /\ Sane(gone, due, w.summons, X) /\ gone.b[c] = Removed(asleep.b[c])
       /\ due \in Counts /\ due[c] > 0 /\ [due EXCEPT ![c] = @ - 1] = owed
  <2>1. Sane(gone, due, w.summons, X) /\ gone.b[c] = Removed(asleep.b[c])
    BY <1>7, <1>8, <1>9, <1>10, RemovedGood
  <2> QED BY <1>1, <1>10, <2>1, MoreThenLess
<1>12. /\ gone.summons = w.summons /\ \A y \in Breathing : y # c => gone.b[y] = w.b[y]
       /\ gone.b[c].placed /\ gone.b[c].removed
  <2>1. asleep \in SceneType /\ asleep.b[c] \in Being
    BY <1>7, SaneFacts
  <2>2. PICK r : r = Removed(asleep.b[c])
    OBVIOUS
  <2>3. r \in Being /\ r.placed = asleep.b[c].placed /\ r.removed
    BY <2>1, <2>2, RemovedIs
  <2>4. gone = With(asleep, c, r)
    BY <1>9, <2>2
  <2>5. gone.summons = asleep.summons /\ gone.b = [asleep.b EXCEPT ![c] = r]
    BY <2>1, <2>3, <2>4, WithIs
  <2>6. \A y \in Breathing : y # c => gone.b[y] = asleep.b[y]
    BY <2>1, <2>5 DEF SceneType, Beings
  <2> QED BY <1>8, <1>11, <2>2, <2>3, <2>5, <2>6 DEF Present
<1>13. PICK alone : alone = RemoveOneAlone(w, c)
  OBVIOUS
<1>14. RemoveOneGone(w, c) = gone
  BY <1>6, <1>9 DEF RemoveOneGone
<1>15. /\ Sane(alone, due, alone.summons, X) /\ alone.summons[c] = w.summons[c]
       /\ \A y \in Breathing : y # c => alone.b[y] = w.b[y]
       /\ alone.b[c].placed /\ alone.b[c].removed
       /\ m # NoCreature /\ w.b[m].removed => alone.summons = w.summons
  <2>1. CASE m = NoCreature \/ gone.b[m].removed
    <3>1. alone = gone
      BY <1>2, <1>13, <1>14, <2>1 DEF RemoveOneAlone
    <3> QED BY <1>11, <1>12, <3>1
  <2>2. CASE m # NoCreature /\ ~ gone.b[m].removed
    <3>1. alone = removeSummon(gone, m, c)
      BY <1>2, <1>13, <1>14, <2>2 DEF RemoveOneAlone
    <3>2. c \in gone.summons[m] /\ m \in Breathing /\ m # c /\ Sane(gone, due, gone.summons, X)
      BY <1>3, <1>11, <1>12, <2>2
    <3>3. /\ Sane(alone, due, alone.summons, X) /\ Unmastered(gone, alone, c)
          /\ Kin(gone.b[c], alone.b[c])
          /\ alone.summons = [gone.summons EXCEPT ![m] = @ \ {c}]
      <4>1. /\ Sane(alone, due, alone.summons, X) /\ Unmastered(gone, alone, c)
            /\ due[c] > 0 => Kin(gone.b[c], alone.b[c])
            /\ alone.summons = [gone.summons EXCEPT ![m] = @ \ {c}]
        BY <3>1, <3>2, RemoveSummonGood
      <4> QED BY <1>11, <4>1
    <3>4. alone.summons[c] = w.summons[c]
      BY <1>1, <1>12, <3>2, <3>3 DEF Herds
    <3>5. \A y \in Breathing : y # c => alone.b[y] = w.b[y]
      BY <1>12, <3>3 DEF Unmastered
    <3>6. ~ w.b[m].removed
      BY <1>12, <2>2, <3>2
    <3>7. alone.b[c].placed /\ alone.b[c].removed
      BY <1>12, <3>3 DEF Kin
    <3> QED BY <3>3, <3>4, <3>5, <3>6, <3>7
  <2> QED BY <2>1, <2>2
<1>16. PICK freed : freed = freeThing(alone, c)
  OBVIOUS
<1>17. Sane(freed, owed, alone.summons, X) /\ freed.b = alone.b /\ freed.summons = alone.summons
  <2>1. alone \in SceneType
    BY <1>15 DEF Sane
  <2>2. freed.b = alone.b /\ freed.summons = alone.summons
    BY <1>16, <2>1, FreeThingIs
  <2> QED BY <1>11, <1>15, <1>16, <2>2, FreeThingGood
<1>18. PICK v : v = removeCreatureCheck(freed, c)
  OBVIOUS
<1>19. Sane(v, owed, alone.summons, X) /\ Stirred(freed, v, c) /\ ~ v.b[c].checked
  <2>1. freed.b[c].placed /\ freed.b[c].removed
    BY <1>15, <1>17
  <2> QED BY <1>17, <1>18, <2>1, RemoveCheckGood
<1>20. removeOne(w, c) = v
  BY <1>1, <1>13, <1>16, <1>18, RemoveOneIs
<1>21. v.summons = alone.summons /\ v.b[c].placed /\ v.b[c].removed /\ \A y \in Breathing : y # c => v.b[y] = w.b[y]
  BY <1>15, <1>17, <1>19 DEF Stirred
<1> QED BY <1>2, <1>15, <1>19, <1>20, <1>21

LEMMA RemoveSummonType ==
  ASSUME NEW w \in SceneType, NEW m \in Breathing, NEW c \in Breathing
  PROVE  removeSummon(w, m, c) \in SceneType
<1>1. CASE c \notin w.summons[m]
  BY <1>1 DEF removeSummon
<1>2. CASE c \in w.summons[m]
  <2>1. PICK r : r = Owned(w.b[c], NoCreature)
    OBVIOUS
  <2>2. r \in Being
    BY <2>1, OwnedIs DEF SceneType, Beings
  <2>3. PICK S : S = w.summons[m] \ {c}
    OBVIOUS
  <2>4. S \in SUBSET Beasts
    BY <2>3 DEF SceneType, Herds
  <2>5. PICK u : u = With(w, c, r)
    OBVIOUS
  <2>6. PICK t : t = WithHerd(u, m, S)
    OBVIOUS
  <2>7. t \in SceneType
    BY <2>2, <2>4, <2>5, <2>6, WithAt, WithHerdIs
  <2>8. removeSummon(w, m, c) = unRef(t, c)
    <3>1. removeSummon(w, m, c) = unRef([w EXCEPT !.b[c].master = NoCreature, !.summons[m] = @ \ {c}], c)
      BY <1>2 DEF removeSummon
    <3>2. [w EXCEPT !.b[c].master = NoCreature, !.summons[m] = @ \ {c}]
           = [w EXCEPT !.b[c] = r, !.summons[m] = @ \ {c}]
      BY <2>1, Zenon DEF Owned
    <3>3. [w EXCEPT !.b[c] = r, !.summons[m] = @ \ {c}] = [w EXCEPT !.b[c] = r, !.summons[m] = S]
      BY <2>3
    <3>4. [w EXCEPT !.b[c] = r, !.summons[m] = S] = WithHerd(With(w, c, r), m, S)
      BY Zenon DEF WithHerd, With
    <3> QED BY <2>5, <2>6, <3>1, <3>2, <3>3, <3>4
  <2> QED BY <2>7, <2>8, UnRefType
<1> QED BY <1>1, <1>2

LEMMA RemoveCheckType ==
  ASSUME NEW w \in SceneType, NEW c \in Breathing
  PROVE  removeCreatureCheck(w, c) \in SceneType
<1>1. PICK q : q = Checked(w.b[c], FALSE)
  OBVIOUS
<1>2. q \in Being
  BY <1>1, CheckedIs DEF SceneType, Beings
<1>3. removeCreatureCheck(w, c) \in {w, With(w, c, q)}
  BY <1>1, RemoveCheckIs
<1> QED BY <1>2, <1>3, WithAt

LEMMA RemoveOneType ==
  ASSUME NEW w \in SceneType, NEW c \in Breathing
  PROVE  removeOne(w, c) \in SceneType
<1>1. PICK seen : seen = RemoveOneSeen(w, c)
  OBVIOUS
<1>2. seen \in SceneType
  <2>1. PICK e \in BOOLEAN : e = TRUE
    OBVIOUS
  <2>2. PICK L \in SUBSET Lairs : L = {}
    OBVIOUS
  <2>3. startEvent(w) = WithEvent(w, e, L)
    BY <2>1, <2>2 DEF startEvent, WithEvent
  <2> QED BY <1>1, <2>3, WithEventIs DEF RemoveOneSeen
<1>3. PICK asleep : asleep = RemoveOneAsleep(w, c)
  OBVIOUS
<1>4. asleep \in SceneType
  <2>1. PICK idle \in BOOLEAN : idle = TRUE
    OBVIOUS
  <2>2. setIdle(seen, c, idle) \in SceneType
    BY <1>2, ChangeHealthType
  <2> QED BY <1>1, <1>2, <1>3, <2>1, <2>2 DEF RemoveOneAsleep
<1>5. PICK r : r = Removed(asleep.b[c])
  OBVIOUS
<1>6. r \in Being
  BY <1>4, <1>5, RemovedIs DEF SceneType, Beings
<1>7. PICK gone : gone = With(asleep, c, r)
  OBVIOUS
<1>8. gone \in SceneType /\ RemoveOneGone(w, c) = gone
  BY <1>3, <1>4, <1>5, <1>6, <1>7, WithAt DEF RemoveOneGone
<1>9. PICK m : m = w.b[c].master
  OBVIOUS
<1>10. PICK alone : alone = RemoveOneAlone(w, c)
  OBVIOUS
<1>11. alone \in SceneType
  <2>1. m # NoCreature => m \in Breathing
    BY <1>9 DEF SceneType, Beings, Being
  <2>2. m # NoCreature => removeSummon(gone, m, c) \in SceneType
    BY <1>8, <2>1, RemoveSummonType
  <2> QED BY <1>8, <1>9, <1>10, <2>2 DEF RemoveOneAlone
<1>12. PICK freed : freed = freeThing(alone, c)
  OBVIOUS
<1>13. freed \in SceneType
  BY <1>11, <1>12, FreeThingIs
<1>14. removeCreatureCheck(freed, c) \in SceneType
  BY <1>13, RemoveCheckType
<1> QED BY <1>10, <1>12, <1>14, RemoveOneIs

RemovedAll(w, l) == InTurn(removeOne, w, l)
LEMMA RemovalsInTurn ==
  ASSUME NEW w \in SceneType, NEW l \in Seq(Breathing)
  PROVE  \E f \in [0 .. Len(l) -> SceneType] :
           /\ f[0] = w /\ \A k \in 1 .. Len(l) : f[k] = removeOne(f[k - 1], l[k])
           /\ RemovedAll(w, l) = f[Len(l)]
<1> DEFINE X == SceneType
           len == Len(l)
           go(v, s) == removeOne(v, s)
           step == [k \in 1 .. len |-> [v \in X |-> go(v, l[k])]]
           body(f) == [k \in 0 .. len |-> IF k = 0 THEN w ELSE go(f[k - 1], l[k])]
           along == CHOOSE f : f = body(f)
<1>1. len \in Nat /\ \A k \in 1 .. len : l[k] \in Breathing
  OBVIOUS
<1>2. RemovedAll(w, l) = along[len]
  BY DEF InTurn, RemovedAll
<1>3. \A v \in X : \A c \in Breathing : go(v, c) \in X
  BY RemoveOneType
<1>4. step \in [1 .. len -> [X -> X]]
  BY <1>1, <1>3
<1>5. \A k \in 1 .. len : \A v \in X : step[k][v] = go(v, l[k])
  OBVIOUS
<1> HIDE DEF X, len, go, step
<1>6. PICK f \in [0 .. len -> X] : \A k \in 0 .. len : f[k] = IF k = 0 THEN w ELSE step[k][f[k - 1]]
  <2> HIDE DEF along, body
  <2>1. w \in X
    BY DEF X
  <2>2. \E f : Goes(f, len, X, w, step)
    BY <1>1, <1>4, <2>1, StepsMakeAFunction
  <2> QED BY <2>2 DEF Goes
<1>7. f = body(f)
  <2>1. \A k \in 0 .. len : k # 0 => k \in 1 .. len /\ f[k - 1] \in X
    BY <1>1, <1>6
  <2>2. \A k \in 0 .. len : f[k] = IF k = 0 THEN w ELSE go(f[k - 1], l[k])
    BY <1>5, <1>6, <2>1
  <2> QED BY <1>6, <2>2
<1>8. along = body(along)
  <2> HIDE DEF body
  <2> QED BY <1>7
<1> HIDE DEF along
<1>9. along[0] = w /\ \A k \in 1 .. len : along[k] = go(along[k - 1], l[k])
  <2>1. \A k \in 0 .. len : along[k] = IF k = 0 THEN w ELSE go(along[k - 1], l[k])
    BY <1>8
  <2>2. 0 \in 0 .. len /\ \A k \in 1 .. len : k \in 0 .. len /\ k # 0
    BY <1>1
  <2> QED BY <2>1, <2>2
<1>10. \A k \in 0 .. len : along[k] \in X
  <2> DEFINE P == {k \in 0 .. len : along[k] \in X}
  <2>1. 0 \in P
    BY <1>1, <1>9 DEF X
  <2>2. ASSUME NEW k \in 1 .. len, k - 1 \in P PROVE k \in P
    <3>1. k \in 0 .. len /\ along[k - 1] \in X /\ l[k] \in Breathing /\ along[k] = go(along[k - 1], l[k])
      BY <1>1, <1>9, <2>2
    <3> QED BY <1>3, <3>1
  <2> HIDE DEF P
  <2>3. 0 .. len \subseteq P
    BY <1>1, <2>1, <2>2, UpTo
  <2> QED BY <2>3 DEF P
<1>11. along \in [0 .. len -> X]
  <2>1. along = [k \in 0 .. len |-> along[k]]
    BY <1>8
  <2> QED BY <1>10, <2>1
<1> QED BY <1>2, <1>9, <1>11 DEF X, len, go

\* A summon of someone already removed.
LEMMA FollowerGood ==
  ASSUME NEW w, NEW owed, NEW c \in Breathing, Sane(w, owed, w.summons, {c}), w.b[c].removed,
         NEW s \in w.summons[c]
  PROVE  LET v == removeOne(w, s)
         IN  /\ Sane(v, owed, v.summons, {c}) /\ v.summons = w.summons /\ v.b[s].removed /\ s # c
             /\ \A y \in Breathing : y # s => v.b[y] = w.b[y]
<1>1. s \in Breathing /\ s # c /\ w.b[s].master = c /\ w.summons[s] = {} /\ w.b[s].refs > owed[s]
  BY SummonFacts
<1>2. One(w, s, owed[s], w.summons, {c}) /\ owed[s] \in Nat /\ w.b[s] \in Being
  BY <1>1, SaneFacts
<1>3. w.b[s].placed
  BY <1>1, <1>2 DEF One, Being
<1>4. CASE w.b[s].removed
  <2>1. removeOne(w, s) = w
    BY <1>4, RemoveOneIs
  <2> QED BY <1>1, <1>4, <2>1
<1>5. CASE ~ w.b[s].removed
  <2>1. PICK X : X = {c} \cup {s}
    OBVIOUS
  <2>2. Sane(w, owed, w.summons, X) /\ s \in X /\ Present(w, s)
    BY <1>3, <1>5, <2>1, Anybody DEF Present
  <2>3. PICK v : v = removeOne(w, s)
    OBVIOUS
  <2>4. /\ Sane(v, owed, v.summons, X)
        /\ v.b[s].placed /\ v.b[s].removed /\ ~ v.b[s].checked
        /\ \A y \in Breathing : y # s => v.b[y] = w.b[y]
        /\ w.b[s].master # NoCreature /\ w.b[w.b[s].master].removed => v.summons = w.summons
    BY <1>1, <2>2, <2>3, RemoveOneGood
  <2>5. v.summons = w.summons
    BY <1>1, <2>4, BreathingFacts
  <2>6. Sane(v, owed, v.summons, {c})
    <3>1. v.summons[s] = {} /\ Sane(v, owed, v.summons, {c} \cup {s})
      BY <1>1, <2>1, <2>4, <2>5
    <3> QED BY <1>1, <2>4, <3>1, ItIsOver
  <2> QED BY <1>1, <2>3, <2>4, <2>5, <2>6
<1> QED BY <1>4, <1>5

\* The summons of the removed are removed, and everything is in order again.
LEMMA RemoveCreatureGood ==
  ASSUME NEW w, NEW owed, Sane(w, owed, w.summons, {}), NEW c \in Breathing, w.b[c].placed
  PROVE  LET v == removeCreature(w, c) IN Sane(v, owed, v.summons, {}) /\ v.b[c].placed
<1>1. CASE w.b[c].removed
  BY <1>1 DEF removeCreature
<1>2. CASE ~ w.b[c].removed
  <2>1. PICK u : u = removeOne(w, c)
    OBVIOUS
  <2>2. /\ Sane(u, owed, u.summons, {c}) /\ u.b[c].placed /\ u.b[c].removed /\ ~ u.b[c].checked
    <3>1. Present(w, c) /\ c \in {c}
      BY <1>2 DEF Present
    <3>2. Sane(w, owed, w.summons, {c})
      BY Anybody
    <3> QED BY <2>1, <3>1, <3>2, RemoveOneGood
  <2>3. /\ u.summons \in Herds /\ u.summons[c] \in SUBSET Beasts /\ u \in SceneType
        /\ IsFiniteSet(u.summons[c]) /\ u.b[c] \in Being
    <3>1. u.summons \in Herds /\ u.summons[c] \in SUBSET Beasts /\ u \in SceneType /\ u.b[c] \in Being
      BY <2>2, SaneFacts
    <3> QED BY <3>1, BreathingFacts, FS_Subset
  <2>4. PICK S : S = u.summons[c]
    OBVIOUS
  <2>5. PICK l : l = SetToSeq(S)
    OBVIOUS
  <2>6. l \in Seq(S) /\ Once(l) /\ ToSet(l) = S
    BY <2>3, <2>4, <2>5, SetToSeqFacts
  <2>7. /\ Rest(l, 0) = S /\ Rest(l, Len(l)) = {} /\ Len(l) \in Nat
        /\ \A k \in 1 .. Len(l) : /\ k - 1 \in Nat /\ l[k] \in S /\ l[k] \in Rest(l, k - 1)
                                  /\ Rest(l, k) = Rest(l, k - 1) \ {l[k]} /\ Rest(l, k - 1) \subseteq S
    BY <2>6, RestFacts
  <2>8. l \in Seq(Breathing)
    BY <2>3, <2>4, <2>6, BreathingFacts
  <2>9. PICK f \in [0 .. Len(l) -> SceneType] :
             /\ f[0] = u /\ \A k \in 1 .. Len(l) : f[k] = removeOne(f[k - 1], l[k])
             /\ RemovedAll(u, l) = f[Len(l)]
    BY <2>3, <2>8, RemovalsInTurn
  <2> DEFINE Going(k) == /\ Sane(f[k], owed, f[k].summons, {c}) /\ f[k].summons[c] = S
                         /\ f[k].b[c] = u.b[c] /\ \A y \in S : y \notin Rest(l, k) => f[k].b[y].removed
             P == {k \in 0 .. Len(l) : Going(k)}
  <2>10. 0 \in P
    BY <2>2, <2>4, <2>7, <2>9
  <2>11. ASSUME NEW k \in 1 .. Len(l), k - 1 \in P PROVE k \in P
    <3>1. PICK t : t = f[k - 1]
      OBVIOUS
    <3>2. PICK s : s = l[k]
      OBVIOUS
    <3>3. PICK v : v = f[k]
      OBVIOUS
    <3>4. /\ Sane(t, owed, t.summons, {c}) /\ t.summons[c] = S /\ t.b[c] = u.b[c]
          /\ \A y \in S : y \notin Rest(l, k - 1) => t.b[y].removed
      BY <2>11, <3>1
    <3>5. v = removeOne(t, s) /\ s \in S /\ k \in 0 .. Len(l) /\ \A y : y \in Rest(l, k - 1) => y = s \/ y \in Rest(l, k)
      BY <2>7, <2>9, <3>1, <3>2, <3>3
    <3>6. /\ Sane(v, owed, v.summons, {c}) /\ v.summons = t.summons /\ v.b[s].removed /\ s # c
          /\ \A y \in Breathing : y # s => v.b[y] = t.b[y]
      <4>1. t.b[c].removed
        BY <2>2, <3>4
      <4>2. s \in t.summons[c]
        BY <3>4, <3>5
      <4>3. Sane(t, owed, t.summons, {c})
        BY <3>4
      <4>4. v = removeOne(t, s)
        BY <3>5
      <4>5. LET q == removeOne(t, s)
            IN  /\ Sane(q, owed, q.summons, {c}) /\ q.summons = t.summons /\ q.b[s].removed /\ s # c
                /\ \A y \in Breathing : y # s => q.b[y] = t.b[y]
        BY <4>1, <4>2, <4>3, FollowerGood, Zenon
      <4> QED BY <4>4, <4>5
    <3>7. \A y \in S : y \notin Rest(l, k) => v.b[y].removed
      <4>1. S \subseteq Breathing
        BY <2>3, <2>4, BreathingFacts
      <4> QED BY <3>4, <3>5, <3>6, <4>1
    <3> QED BY <3>3, <3>4, <3>5, <3>6, <3>7
  <2> HIDE DEF P
  <2>12. 0 .. Len(l) \subseteq P
    BY <2>7, <2>10, <2>11, UpTo
  <2>13. Going(Len(l))
    <3> HIDE DEF Going
    <3>1. Len(l) \in P
      BY <2>7, <2>12
    <3> QED BY <3>1 DEF P
  <2>14. PICK v : v = RemovedAll(u, l)
    OBVIOUS
  <2>15. Sane(v, owed, v.summons, {} \cup {c}) /\ v.summons[c] = S /\ v.b[c] = u.b[c] /\ \A y \in S : v.b[y].removed
    <3>1. {} \cup {c} = {c}
      OBVIOUS
    <3> QED BY <2>7, <2>9, <2>13, <2>14, <3>1
  <2>16. Sane(v, owed, v.summons, {})
    <3>1. v.b[c].placed /\ v.b[c] # Unborn
      BY <2>2, <2>15, UnbornIs
    <3>2. ~ v.b[c].checked /\ \A y \in v.summons[c] : ~ Present(v, y)
      BY <2>2, <2>15 DEF Present
    <3> QED BY <2>15, <3>1, <3>2, ItIsOver
  <2>17. removeCreature(w, c) = v
    <3>1. removeCreature(w, c) = InTurn(removeOne, removeOne(w, c), SetToSeq(removeOne(w, c).summons[c]))
      BY <1>2 DEF removeCreature
    <3>2. InTurn(removeOne, removeOne(w, c), SetToSeq(removeOne(w, c).summons[c]))
            = RemovedAll(removeOne(w, c), SetToSeq(removeOne(w, c).summons[c]))
      BY Zenon DEF RemovedAll
    <3> QED BY <2>1, <2>4, <2>5, <2>14, <3>1, <3>2
  <2> QED BY <2>2, <2>15, <2>16, <2>17
<1> QED BY <1>1, <1>2

\* Whoever dies leaves its master, loses its summons and is removed.
LEMMA OnDeathGood ==
  ASSUME NEW w, NEW owed, Sane(w, owed, w.summons, {}), NEW c \in Breathing, w.b[c].placed, w.b[c].listed
  PROVE  LET v == onDeath(w, c) IN Sane(v, owed, v.summons, {})
<1>1. /\ One(w, c, owed[c], w.summons, {}) /\ w.b[c] \in Being /\ w.b[c].master # c
  BY SaneFacts
<1>2. PICK m : m = w.b[c].master
  OBVIOUS
<1>3. PICK u : u = IF m # NoCreature THEN removeSummon(w, m, c) ELSE w
  OBVIOUS
<1>4. Sane(u, owed, u.summons, {}) /\ u.b[c].placed
  <2>1. CASE m = NoCreature
    BY <1>3, <2>1
  <2>2. CASE m # NoCreature
    <3>1. m \in Breathing /\ c \in w.summons[m]
      BY <1>1, <1>2, <2>2 DEF One, Being
    <3>2. Sane(u, owed, u.summons, {}) /\ Unmastered(w, u, c)
      BY <1>3, <2>2, <3>1, RemoveSummonGood
    <3> QED BY <3>2 DEF Unmastered, Kin
  <2> QED BY <2>1, <2>2
<1>5. PICK t : t = destroySummons(u, c)
  OBVIOUS
<1>6. Sane(t, owed, t.summons, {}) /\ t.b[c].placed
  <2>1. Sane(t, owed, t.summons, {}) /\ Elsewhere(u, t, u.summons[c])
    BY <1>4, <1>5, DestroySummonsGood
  <2>2. c \notin u.summons[c]
    BY <1>4, SaneFacts
  <2> QED BY <1>4, <2>1, <2>2 DEF Elsewhere
<1>7. onDeath(w, c) = removeCreature(t, c)
  BY <1>2, <1>3, <1>5 DEF onDeath
<1> QED BY <1>6, <1>7, RemoveCreatureGood

-----------------------------------------------------------------------------
(* Into the world.                                                         *)

\* An object taken for a new monster.
LEMMA BornGood ==
  ASSUME NEW w, NEW owed, NEW sm, NEW X, Sane(w, owed, sm, X), NEW c \in Breathing, c \in X,
         w.b[c] = Unborn
  PROVE  LET v == With(w, c, createMonster)
         IN  /\ Sane(v, owed, sm, X) /\ v.b[c] = createMonster /\ Calm(w, v) /\ v.summons = w.summons
             /\ \A y \in Breathing : y # c => v.b[y] = w.b[y]
<1>1. w \in SceneType /\ One(w, c, owed[c], sm, X)
  BY SaneFacts
<1>2. PICK r : r = createMonster
  OBVIOUS
<1>3. /\ r \in Being /\ r.refs = 0 /\ ~ r.placed /\ ~ r.removed
      /\ r.master = NoCreature /\ r.isIdle /\ ~ r.checked /\ ~ r.listed /\ r.spawn = NoLair
  BY <1>2, NewBornIs
<1>4. PICK v : v = With(w, c, r)
  OBVIOUS
<1>5. Sane(v, owed, sm, X) /\ Stirred(w, v, c)
  <2>1. w.b[c] \in Being
    BY SaneFacts
  <2>2. /\ r.refs = w.b[c].refs /\ r.placed = w.b[c].placed /\ r.removed = w.b[c].removed
        /\ r.master = w.b[c].master /\ r.listed = w.b[c].listed /\ r.spawn = w.b[c].spawn
    BY <1>3, <2>1, UnbornIs DEF Being
  <2> QED BY <1>3, <1>4, <2>2, MarkGood
<1>6. v.b[c] = r /\ v.toAdd = w.toAdd
  BY <1>1, <1>3, <1>4, WithAt, WithIs
<1> QED BY <1>2, <1>4, <1>5, <1>6 DEF Stirred, Calm

LEMMA PlacedGood ==
  ASSUME NEW w, NEW owed, NEW sm, NEW X, Sane(w, owed, sm, X), NEW c \in Breathing, c \in X,
         ~ w.b[c].placed, ~ w.b[c].removed, w.b[c].health, w.b[c].isIdle, w.b[c].spawn = NoLair,
         w.b[c].master # NoCreature => ~ w.b[w.b[c].master].removed
  PROVE  LET v == With(w, c, Placed(More(w.b[c])))
         IN  Sane(v, owed, sm, X) /\ v.b[c] = Placed(More(w.b[c]))
<1>1. /\ One(w, c, owed[c], sm, X) /\ w \in SceneType /\ w.b[c] \in Being /\ owed[c] \in Nat
      /\ w.free[c] \in Nat /\ owed \in Counts /\ sm \in Herds /\ w.b[c].master # c
  BY SaneFacts
<1>2. PICK p : p = More(w.b[c])
  OBVIOUS
<1>3. PICK r : r = Placed(p)
  OBVIOUS
<1>4. /\ p \in Being
      /\ p.refs = w.b[c].refs + 1 /\ p.removed = w.b[c].removed /\ p.health = w.b[c].health /\ p.master = w.b[c].master
      /\ p.isIdle = w.b[c].isIdle /\ p.checked = w.b[c].checked /\ p.listed = w.b[c].listed /\ p.spawn = w.b[c].spawn
  BY <1>1, <1>2, MoreIs
<1>5. /\ r \in Being
      /\ r.refs = w.b[c].refs + 1 /\ r.placed /\ ~ r.removed /\ r.health /\ r.master = w.b[c].master
      /\ r.isIdle /\ r.checked = w.b[c].checked /\ r.listed = w.b[c].listed /\ r.spawn = NoLair
  BY <1>3, <1>4, PlacedIs
<1>6. PICK v : v = With(w, c, r)
  OBVIOUS
<1>7. /\ v.b = [w.b EXCEPT ![c] = r] /\ v.spawned = w.spawned /\ v.toAdd = w.toAdd /\ v.free = w.free
      /\ v.b[c] = r
  BY <1>1, <1>5, <1>6, WithIs, WithAt
<1>8. Present(v, c)
  BY <1>5, <1>7 DEF Present
<1>9. One(v, c, owed[c], sm, X)
  <2>1. r.refs = 1 + v.free[c] + (IF r.listed THEN 1 ELSE 0)
                  + (IF r.master # NoCreature THEN 1 ELSE 0)
                  + (IF r.spawn # NoLair /\ v.spawned[r.spawn] = c THEN 1 ELSE 0) + owed[c]
    <3>1. w.b[c].refs = 0 + w.free[c] + (IF r.listed THEN 1 ELSE 0)
                  + (IF r.master # NoCreature THEN 1 ELSE 0) + 0 + owed[c]
      BY <1>1, <1>5 DEF One, Present
    <3> QED BY <1>1, <1>5, <1>7, <3>1
  <2>2. r.master = NoCreature \/ r.master \in Breathing
    BY <1>5 DEF Being
  <2>3. r.master # NoCreature => ~ v.b[r.master].removed
    BY <1>1, <1>5, <1>7, <2>2 DEF SceneType, Beings
  <2> QED BY <1>1, <1>5, <1>7, <1>8, <2>1, <2>3 DEF One
<1>10. Sane(With(w, c, r), [owed EXCEPT ![c] = owed[c]], sm, X)
  <2>1. One(With(w, c, r), c, owed[c], sm, X)
    BY <1>6, <1>9
  <2> QED BY <1>1, <1>5, <2>1, Unherded, AloneGood
<1>11. [owed EXCEPT ![c] = owed[c]] = owed
  BY <1>1 DEF Counts
<1> QED BY <1>2, <1>3, <1>6, <1>7, <1>10, <1>11

Fresh(w, c) ==
  /\ ~ w.b[c].placed /\ ~ w.b[c].removed /\ w.b[c].health /\ w.b[c].isIdle /\ w.b[c].spawn = NoLair
  /\ w.b[c].master # NoCreature => ~ w.b[w.b[c].master].removed

\* Placed and in the world, looking around, in a check list.
LEMMA PlaceCreatureGood ==
  ASSUME NEW w, NEW owed, NEW sm, NEW c \in Breathing, NEW X, X = {c}, Sane(w, owed, sm, X),
         NEW idle \in BOOLEAN, Fresh(w, c)
  PROVE  LET v == placeCreature(w, c, idle)
         IN  /\ Sane(v, owed, sm, {}) /\ v.summons = w.summons /\ v.spawned = w.spawned /\ v.event = w.event
             /\ v.lost = w.lost /\ Present(v, c) /\ v.b[c].spawn = NoLair
             /\ \A y \in Breathing : y # c => v.b[y] = w.b[y]
<1>1. w \in SceneType /\ w.b[c] \in Being
  BY SaneFacts
<1>a. /\ ~ w.b[c].placed /\ ~ w.b[c].removed /\ w.b[c].health /\ w.b[c].isIdle /\ w.b[c].spawn = NoLair
      /\ w.b[c].master # NoCreature => ~ w.b[w.b[c].master].removed
  BY DEF Fresh
<1>2. PICK p : p = Placed(More(w.b[c]))
  OBVIOUS
<1>3. p \in Being /\ p.placed /\ ~ p.removed /\ p.spawn = NoLair
  <2>1. PICK q : q = More(w.b[c])
    OBVIOUS
  <2>2. q \in Being /\ q.removed = w.b[c].removed /\ q.spawn = w.b[c].spawn
    BY <1>1, <2>1, MoreIs
  <2> QED BY <1>2, <1>a, <2>1, <2>2, PlacedIs
<1>4. PICK u : u = With(w, c, p)
  OBVIOUS
<1>5. Sane(u, owed, sm, {c}) /\ u.b[c] = p
  <2>1. c \in X
    OBVIOUS
  <2>2. Sane(u, owed, sm, X) /\ u.b[c] = p
    BY <1>2, <1>4, <1>a, <2>1, PlacedGood
  <2> QED BY <2>2
<1>6. /\ u.summons = w.summons /\ u.spawned = w.spawned /\ u.event = w.event /\ u.lost = w.lost
      /\ \A y \in Breathing : y # c => u.b[y] = w.b[y]
  <2>1. u.b = [w.b EXCEPT ![c] = p] /\ u.summons = w.summons /\ u.spawned = w.spawned /\ u.event = w.event /\ u.lost = w.lost
    BY <1>1, <1>3, <1>4, WithIs
  <2> QED BY <1>1, <2>1 DEF SceneType, Beings
<1>7. PICK t : t = setIdle(u, c, idle)
  OBVIOUS
<1>8. Sane(t, owed, sm, {c}) /\ Stirred(u, t, c)
  BY <1>3, <1>5, <1>7, SetIdleGood
<1>9. PICK v : v = addCreatureCheck(t, c)
  OBVIOUS
<1>10. Sane(v, owed, sm, {c}) /\ Stirred(t, v, c)
  <2>1. t.b[c].placed
    BY <1>3, <1>5, <1>8 DEF Stirred
  <2> QED BY <1>8, <1>9, <2>1, AddCheckGood
<1>11. v.b[c].placed /\ ~ v.b[c].removed /\ v.b[c].spawn = NoLair
  BY <1>3, <1>5, <1>8, <1>10 DEF Stirred
<1>12. Sane(v, owed, sm, {})
  <2>1. Sane(v, owed, sm, {} \cup {c})
    <3>1. {} \cup {c} = {c}
      OBVIOUS
    <3> QED BY <1>10, <3>1
  <2>2. v.b[c] # Unborn
    BY <1>11, UnbornIs
  <2> QED BY <1>11, <2>1, <2>2, ItIsOver
<1>13. /\ v.summons = w.summons /\ v.spawned = w.spawned /\ v.event = w.event /\ v.lost = w.lost
       /\ \A y \in Breathing : y # c => v.b[y] = w.b[y]
  BY <1>6, <1>8, <1>10 DEF Stirred
<1>14. placeCreature(w, c, idle) = v
  <2>1. [w.b[c] EXCEPT !.refs = @ + 1, !.placed = TRUE] = p
    BY <1>1, <1>2 DEF Being, More, Placed
  <2>2. [w EXCEPT !.b[c] = [w.b[c] EXCEPT !.refs = @ + 1, !.placed = TRUE]] = u
    BY <1>4, <2>1 DEF With
  <2>3. placeCreature(w, c, idle)
          = addCreatureCheck(setIdle([w EXCEPT !.b[c] = [w.b[c] EXCEPT !.refs = @ + 1, !.placed = TRUE]], c, idle), c)
    BY Zenon DEF placeCreature
  <2> QED BY <1>7, <1>9, <2>2, <2>3
<1> QED BY <1>11, <1>12, <1>13, <1>14 DEF Present

LEMMA PlaceSummonGood ==
  ASSUME NEW w, NEW owed, Sane(w, owed, w.summons, {}), NEW m \in Breathing, NEW c \in Beasts, c # m,
         w.b[c] = Unborn, owed[c] = 0, NEW room \in BOOLEAN, NEW idle \in BOOLEAN,
         w.b[m].master = NoCreature, w.b[m] # Unborn, ~ w.b[m].removed
  PROVE  LET v == placeSummon(w, m, c, room, idle) IN Sane(v, owed, v.summons, {})
<1>1. c \in Breathing /\ m # NoCreature
  BY BreathingFacts
<1>2. PICK u : u = With(w, c, createMonster)
  OBVIOUS
<1>3. /\ Sane(u, owed, w.summons, {c}) /\ u.b[c] = createMonster /\ u.summons = w.summons
      /\ \A y \in Breathing : y # c => u.b[y] = w.b[y]
  <2>1. Sane(w, owed, w.summons, {c}) /\ c \in {c}
    BY Anybody
  <2> QED BY <1>1, <1>2, <2>1, BornGood
<1>4. w.summons[c] = {} /\ w \in SceneType
  <2>1. One(w, c, owed[c], w.summons, {}) /\ w \in SceneType
    BY <1>1, SaneFacts
  <2> QED BY <2>1 DEF One
<1>5. PICK t : t = addSummon(u, m, c)
  OBVIOUS
<1>6. PICK r : r = createMonster
  OBVIOUS
<1>7. /\ r \in Being /\ r.refs = 0 /\ ~ r.placed /\ ~ r.removed /\ r.health
      /\ r.master = NoCreature /\ r.isIdle /\ r.spawn = NoLair
  BY <1>6, NewBornIs
<1>8. /\ Sane(t, owed, t.summons, {c})
      /\ t.summons = [u.summons EXCEPT ![m] = @ \cup {c}]
      /\ t.b = [u.b EXCEPT ![c] = Owned(More(u.b[c]), m)]
  <2>1. Sane(u, owed, u.summons, {c}) /\ u.b[c].master = NoCreature /\ u.summons[c] = {} /\ c \in {c}
    BY <1>3, <1>4, <1>6, <1>7
  <2>2. u.b[m].master = NoCreature /\ u.b[m] # Unborn /\ ~ u.b[m].removed
    BY <1>3
  <2>3. PICK X : X = {c}
    OBVIOUS
  <2>4. Sane(u, owed, u.summons, X) /\ c \in X
    BY <2>1, <2>3
  <2>5. /\ Sane(t, owed, t.summons, X)
        /\ t.summons = [u.summons EXCEPT ![m] = @ \cup {c}]
        /\ t.b = [u.b EXCEPT ![c] = Owned(More(u.b[c]), m)]
    <3>1. MayAdopt(u, m, c, X)
      BY <2>1, <2>2, <2>4 DEF MayAdopt
    <3>2. Sane(t, owed, t.summons, X) /\ Adopted(u, t, m, c)
      BY <1>5, <2>4, <3>1, AddSummonGood
    <3> QED BY <3>2 DEF Adopted
  <2> QED BY <2>3, <2>5
<1>9. PICK q : q = Owned(More(r), m)
  OBVIOUS
<1>10. q.refs = 1 /\ ~ q.placed /\ ~ q.removed /\ q.health /\ q.master = m /\ q.isIdle /\ q.spawn = NoLair
  <2>1. PICK p : p = More(r)
    OBVIOUS
  <2>2. /\ p \in Being /\ p.refs = 1 /\ ~ p.placed /\ ~ p.removed /\ p.health /\ p.isIdle /\ p.spawn = NoLair
    BY <1>7, <2>1, MoreIs
  <2> QED BY <1>9, <2>1, <2>2, OwnedIs
<1>11. t.b[c] = q /\ \A y \in Breathing : y # c => t.b[y] = w.b[y]
  <2>1. u \in SceneType
    BY <1>3 DEF Sane
  <2> QED BY <1>1, <1>3, <1>6, <1>8, <1>9, <2>1 DEF SceneType, Beings
<1>12. placeSummon(w, m, c, room, idle) = IF room THEN placeCreature(t, c, idle) ELSE removeSummon(t, m, c)
  <2>1. [w EXCEPT !.b[c] = createMonster] = u
    BY <1>2 DEF With
  <2> QED BY <1>5, <2>1 DEF placeSummon
<1>13. CASE room
  <2>1. PICK v : v = placeCreature(t, c, idle)
    OBVIOUS
  <2>2. ~ t.b[t.b[c].master].removed
    BY <1>10, <1>11
  <2>3. PICK sm : sm = t.summons
    OBVIOUS
  <2>4. PICK X : X = {c} /\ Sane(t, owed, sm, X)
    BY <1>8, <2>3
  <2>5. Fresh(t, c)
    BY <1>10, <1>11, <2>2 DEF Fresh
  <2>6. Sane(placeCreature(t, c, idle), owed, sm, {}) /\ placeCreature(t, c, idle).summons = t.summons
    BY <1>1, <2>4, <2>5, PlaceCreatureGood
  <2> QED BY <1>12, <1>13, <2>3, <2>6
<1>14. CASE ~ room
  <2>1. PICK v : v = removeSummon(t, m, c)
    OBVIOUS
  <2>2. c \in t.summons[m] /\ t.summons[c] = {} /\ t.summons \in Herds
    BY <1>3, <1>4, <1>8 DEF SceneType, Herds
  <2>3. /\ Sane(v, owed, v.summons, {c}) /\ Unmastered(t, v, c)
        /\ v.summons = [t.summons EXCEPT ![m] = @ \ {c}]
    <3>1. PICK X : X = {c}
      OBVIOUS
    <3>2. Sane(t, owed, t.summons, X)
      BY <1>8, <3>1
    <3>3. /\ Sane(v, owed, v.summons, X) /\ Unmastered(t, v, c)
          /\ v.summons = [t.summons EXCEPT ![m] = @ \ {c}]
      BY <2>1, <2>2, <3>2, RemoveSummonGood
    <3> QED BY <3>1, <3>3
  <2>4. v.b[c] = Unborn /\ v.summons[c] = {}
    BY <1>1, <1>10, <1>11, <2>2, <2>3 DEF Unmastered, Herds
  <2>5. Sane(v, owed, v.summons, {})
    <3>1. Sane(v, owed, v.summons, {} \cup {c})
      <4>1. {} \cup {c} = {c}
        OBVIOUS
      <4> QED BY <2>3, <4>1
    <3>2. ~ (v.b[c].refs > 0) /\ ~ v.b[c].removed
      BY <2>4, UnbornIs
    <3> QED BY <1>1, <2>4, <3>1, <3>2, ItIsOver
  <2> QED BY <1>12, <1>14, <2>1, <2>5
<1> QED BY <1>13, <1>14

\* A place is filled with one who is in the world and of no place.
LEMMA HousedGood ==
  ASSUME NEW w, NEW owed, NEW sm, Sane(w, owed, sm, {}), NEW c \in Beasts, NEW s \in Lairs,
         Present(w, c), w.b[c].spawn = NoLair, w.spawned[s] = NoCreature
  PROVE  Sane(WithPlaces(With(w, c, Spawned(More(w.b[c]), s)), [w.spawned EXCEPT ![s] = c]), owed, sm, {})
<1>1. /\ c \in Breathing /\ w \in SceneType /\ w.b[c] \in Being /\ sm \in Herds /\ owed \in Counts /\ owed[c] \in Nat
      /\ w.free[c] \in Nat /\ One(w, c, owed[c], sm, {}) /\ s # NoLair /\ c # NoCreature /\ NoCreature \notin Breathing
      /\ NoLair \notin Lairs
  BY SaneFacts, BreathingFacts
<1>2. PICK p : p = More(w.b[c])
  OBVIOUS
<1>3. /\ p \in Being /\ p.refs = w.b[c].refs + 1 /\ p.placed = w.b[c].placed /\ p.removed = w.b[c].removed
      /\ p.health = w.b[c].health /\ p.master = w.b[c].master /\ p.isIdle = w.b[c].isIdle
      /\ p.checked = w.b[c].checked /\ p.listed = w.b[c].listed
  BY <1>1, <1>2, MoreIs
<1>4. PICK r : r = Spawned(p, s)
  OBVIOUS
<1>5. /\ r \in Being /\ r.refs = w.b[c].refs + 1 /\ r.placed = w.b[c].placed /\ r.removed = w.b[c].removed
      /\ r.health = w.b[c].health /\ r.master = w.b[c].master /\ r.isIdle = w.b[c].isIdle
      /\ r.checked = w.b[c].checked /\ r.listed = w.b[c].listed /\ r.spawn = s
  BY <1>1, <1>3, <1>4, SpawnedIs
<1>6. PICK u : u = With(w, c, r)
  OBVIOUS
<1>7. /\ u \in SceneType /\ u.b = [w.b EXCEPT ![c] = r] /\ u.summons = w.summons
      /\ u.spawned = w.spawned /\ u.event = w.event /\ u.toAdd = w.toAdd
      /\ u.free = w.free /\ u.lost = w.lost
  BY <1>1, <1>5, <1>6, WithIs
<1>8. PICK P : P = [w.spawned EXCEPT ![s] = c]
  OBVIOUS
<1>9. P \in Places /\ w.spawned \in Places /\ P[s] = c /\ \A t \in Lairs : t # s => P[t] = w.spawned[t]
  BY <1>1, <1>8 DEF SceneType, Places
<1>10. PICK v : v = WithPlaces(u, P)
  OBVIOUS
<1>11. /\ v \in SceneType /\ v.b = [w.b EXCEPT ![c] = r] /\ v.summons = w.summons /\ v.spawned = P
       /\ v.event = w.event /\ v.toAdd = w.toAdd /\ v.free = w.free /\ v.lost = w.lost
  BY <1>7, <1>9, <1>10, WithPlacesIs
<1>12. v.b[c] = r /\ \A y \in Breathing : y # c => v.b[y] = w.b[y]
  BY <1>1, <1>11 DEF SceneType, Beings
<1>13. Apart(w, owed, v, owed, c)
  BY <1>1, <1>9, <1>11, <1>12 DEF Apart
<1>14. One(v, c, owed[c], sm, {})
  <2>1. /\ w.b[c].refs = 1 + w.free[c] + (IF w.b[c].listed THEN 1 ELSE 0)
                         + (IF w.b[c].master # NoCreature THEN 1 ELSE 0) + 0 + owed[c]
        /\ Present(w, c) /\ \A t \in Lairs : w.spawned[t] # c
    BY <1>1 DEF One
  <2>2. v.b[c].refs = (IF Present(v, c) THEN 1 ELSE 0) + v.free[c] + (IF r.listed THEN 1 ELSE 0)
                      + (IF r.master # NoCreature THEN 1 ELSE 0)
                      + (IF r.spawn # NoLair /\ v.spawned[r.spawn] = c THEN 1 ELSE 0) + owed[c]
    <3>1. Present(v, c) /\ r.spawn # NoLair /\ v.spawned[r.spawn] = c
      BY <1>1, <1>5, <1>9, <1>11, <1>12, <2>1 DEF Present
    <3>2. w.b[c].refs \in Int /\ v.free[c] = w.free[c]
      BY <1>1, <1>11 DEF Being
    <3> QED BY <1>1, <1>5, <1>12, <2>1, <3>1, <3>2
  <2>3. v.b[c] # Unborn
    BY <1>5, <1>12, UnbornIs DEF Present
  <2>4. r.master # NoCreature => r.master # c /\ v.b[r.master] = w.b[r.master]
    <3>1. r.master # NoCreature => r.master \in Breathing
      BY <1>5 DEF Being
    <3>2. w.b[c].master # c
      BY <1>1, SaneFacts
    <3> QED BY <1>5, <1>12, <3>1, <3>2
  <2>5. Present(v, c) <=> Present(w, c)
    BY <1>5, <1>12 DEF Present
  <2> QED BY <1>1, <1>5, <1>9, <1>11, <1>12, <2>1, <2>2, <2>3, <2>4, <2>5 DEF One
<1>15. Watched(v) /\ v.toAdd \cap checkVectors = {}
  <2>1. Watched(w) /\ w.toAdd \cap checkVectors = {}
    BY DEF Sane
  <2>2. \A t \in Lairs : w.spawned[t] # NoCreature => w.spawned[t] \in Breathing
    BY <1>9, BreathingFacts DEF Places
  <2>3. ~ r.removed
    BY <1>5 DEF Present
  <2> QED BY <1>1, <1>5, <1>9, <1>11, <1>12, <2>1, <2>2, <2>3 DEF Watched
<1>16. Sane(v, owed, sm, {})
  <2>1. PICK N : N = {}
    OBVIOUS
  <2>2. Sane(w, owed, sm, N) /\ Herded(w, sm, sm, c) /\ One(v, c, owed[c], sm, N)
    BY <1>14, <2>1, Unherded
  <2>3. v.b[c].removed => w.b[c].removed \/ c \in N \/ sm[c] = {}
    BY <1>5, <1>12
  <2>4. Sane(v, owed, sm, N)
    BY <1>1, <1>11, <1>13, <1>15, <2>2, <2>3, OthersStand
  <2> QED BY <2>1, <2>4
<1> QED BY <1>2, <1>4, <1>6, <1>8, <1>10, <1>16

\* The timer of the spawn may be stopped when no place is empty, and be started at any time.
LEMMA EventGood ==
  ASSUME NEW w, NEW owed, NEW sm, Sane(w, owed, sm, {}), NEW e \in BOOLEAN,
         \A s \in Lairs \ w.lost : w.spawned[s] = NoCreature \/ w.b[w.spawned[s]].removed => e
  PROVE  LET v == [w EXCEPT !.event = e] IN Sane(v, owed, sm, {}) /\ v.summons = w.summons
<1>1. PICK v : v = WithEvent(w, e, w.lost)
  OBVIOUS
<1>2. w \in SceneType /\ w.lost \in SUBSET Lairs
  BY DEF Sane, SceneType
<1>3. /\ v \in SceneType /\ v.b = w.b /\ v.summons = w.summons /\ v.spawned = w.spawned /\ v.event = e
      /\ v.toAdd = w.toAdd /\ v.free = w.free /\ v.lost = w.lost
  BY <1>1, <1>2, WithEventIs
<1>4. Watched(v)
  BY <1>3 DEF Watched
<1>5. ASSUME NEW c \in Breathing PROVE One(v, c, owed[c], sm, {})
  <2>1. One(w, c, owed[c], sm, {})
    BY DEF Sane
  <2> QED BY <1>3, <2>1 DEF One, Present
<1>6. Sane(v, owed, sm, {})
  BY <1>3, <1>4, <1>5 DEF Sane
<1>7. [w EXCEPT !.event = e] = v
  <2>1. [w EXCEPT !.event = e] = [w EXCEPT !.event = e, !.lost = w.lost]
    BY <1>2 DEF SceneType
  <2> QED BY <1>1, <2>1 DEF WithEvent
<1> QED BY <1>3, <1>6, <1>7

LEMMA PutGood ==
  ASSUME NEW w, NEW owed, Sane(w, owed, w.summons, {}), NEW s \in Lairs, NEW c \in Beasts, NEW idle \in BOOLEAN,
         w.spawned[s] = NoCreature, w.b[c] = Unborn, owed[c] = 0
  PROVE  LET v == put(w, s, c, idle)
         IN  /\ Sane(v, owed, v.summons, {}) /\ v.summons = w.summons /\ v.event = w.event /\ v.lost = w.lost
             /\ v.spawned = [w.spawned EXCEPT ![s] = c] /\ ~ v.b[c].removed
             /\ \A y \in Breathing : y # c => v.b[y] = w.b[y]
<1>1. c \in Breathing
  BY BreathingFacts
<1>2. PICK u : u = With(w, c, createMonster)
  OBVIOUS
<1>3. PICK X : X = {c}
  OBVIOUS
<1>4. PICK sm : sm = w.summons
  OBVIOUS
<1>5. /\ Sane(u, owed, sm, X) /\ u.b[c] = createMonster /\ Calm(w, u) /\ u.summons = w.summons
      /\ \A y \in Breathing : y # c => u.b[y] = w.b[y]
  <2>1. c \in X
    BY <1>3
  <2>2. Sane(w, owed, sm, X)
    <3>1. Sane(w, owed, sm, {}) /\ {} \subseteq X
      BY <1>4
    <3> QED BY <3>1, Anybody
  <2> QED BY <1>1, <1>2, <2>1, <2>2, BornGood
<1>6. Fresh(u, c)
  BY <1>5, NewBornIs DEF Fresh
<1>7. PICK v : v = placeCreature(u, c, idle)
  OBVIOUS
<1>8. /\ Sane(v, owed, sm, {}) /\ v.summons = u.summons /\ v.spawned = u.spawned /\ v.event = u.event
      /\ v.lost = u.lost /\ Present(v, c) /\ v.b[c].spawn = NoLair
      /\ \A y \in Breathing : y # c => v.b[y] = u.b[y]
  <2>1. Sane(u, owed, sm, X)
    BY <1>5
  <2>2. LET z == placeCreature(u, c, idle)
        IN  /\ Sane(z, owed, sm, {}) /\ z.summons = u.summons /\ z.spawned = u.spawned /\ z.event = u.event
            /\ z.lost = u.lost /\ Present(z, c) /\ z.b[c].spawn = NoLair
            /\ \A y \in Breathing : y # c => z.b[y] = u.b[y]
    BY <1>1, <1>3, <1>6, <2>1, PlaceCreatureGood
  <2> QED BY <1>7, <2>2, Zenon
<1>9. PICK r : r = Spawned(More(v.b[c]), s)
  OBVIOUS
<1>10. PICK P : P = [v.spawned EXCEPT ![s] = c]
  OBVIOUS
<1>11. PICK z : z = WithPlaces(With(v, c, r), P)
  OBVIOUS
<1>12. v.spawned = w.spawned /\ v.spawned[s] = NoCreature
  BY <1>5, <1>8 DEF Calm
<1>13. Sane(z, owed, sm, {})
  BY <1>8, <1>9, <1>10, <1>11, <1>12, HousedGood
<1>14. v \in SceneType /\ v.b[c] \in Being /\ s \in Lairs \cup {NoLair} /\ P \in Places
  <2>1. v \in SceneType /\ v.b[c] \in Being
    BY <1>1, <1>8, SaneFacts
  <2>2. v.spawned \in Places
    BY <2>1 DEF SceneType
  <2> QED BY <1>10, <2>1, <2>2 DEF Places
<1>15. r \in Being /\ ~ r.removed
  <2>1. PICK p : p = More(v.b[c])
    OBVIOUS
  <2>2. p \in Being /\ p.removed = v.b[c].removed
    BY <1>14, <2>1, MoreIs
  <2>3. r = Spawned(p, s)
    BY <1>9, <2>1
  <2> QED BY <1>8, <1>14, <2>2, <2>3, SpawnedIs DEF Present
<1>16. PICK t : t = With(v, c, r)
  OBVIOUS
<1>17. /\ t \in SceneType /\ t.b = [v.b EXCEPT ![c] = r] /\ t.summons = v.summons /\ t.event = v.event /\ t.lost = v.lost
       /\ t.spawned = v.spawned
  BY <1>1, <1>14, <1>15, <1>16, WithIs
<1>18. /\ z.b = [v.b EXCEPT ![c] = r] /\ z.summons = v.summons /\ z.event = v.event /\ z.lost = v.lost
       /\ z.spawned = P
  BY <1>11, <1>14, <1>16, <1>17, WithPlacesIs
<1>19. z.b[c] = r /\ \A y \in Breathing : y # c => z.b[y] = w.b[y]
  BY <1>1, <1>5, <1>8, <1>14, <1>18 DEF SceneType, Beings
<1>20. put(w, s, c, idle) = z
  <2>1. [w EXCEPT !.b[c] = createMonster] = u
    BY <1>2 DEF With
  <2>2. [v.b[c] EXCEPT !.refs = @ + 1, !.spawn = s] = r
    BY <1>9 DEF More, Spawned
  <2>3. put(w, s, c, idle) = [v EXCEPT !.b[c] = [v.b[c] EXCEPT !.refs = @ + 1, !.spawn = s], !.spawned[s] = c]
    BY <1>7, <2>1 DEF put
  <2>4. [v EXCEPT !.b[c] = r, !.spawned[s] = c] = WithPlaces(t, [t.spawned EXCEPT ![s] = c])
    BY <1>16 DEF With, WithPlaces
  <2>5. put(w, s, c, idle) = [v EXCEPT !.b[c] = r, !.spawned[s] = c]
    BY <2>2, <2>3
  <2>6. [t.spawned EXCEPT ![s] = c] = P
    BY <1>10, <1>17
  <2> QED BY <1>11, <1>16, <2>4, <2>5, <2>6
<1> QED BY <1>4, <1>5, <1>8, <1>10, <1>12, <1>13, <1>15, <1>18, <1>19, <1>20 DEF Calm

-----------------------------------------------------------------------------
(* The spawn.                                                              *)

\* Places of G are emptied; whose place is of S has still to be let go.
Vacated(w, G) == [s \in Lairs |-> IF s \in G THEN NoCreature ELSE w.spawned[s]]
Housed(w, S) == [y \in Breathing |-> IF \E s \in S : w.spawned[s] = y THEN 1 ELSE 0]

LEMMA VacatedGood ==
  ASSUME NEW w, Sane(w, NothingToRelease, w.summons, {}), w.event, NEW G \in SUBSET Lairs,
         \A s \in G : w.spawned[s] \in Breathing /\ w.b[w.spawned[s]].removed
  PROVE  LET u == WithPlaces(w, Vacated(w, G)) IN Sane(u, Housed(w, G), u.summons, {})
<1>1. w \in SceneType /\ w.spawned \in Places /\ w.summons \in Herds
  BY DEF Sane, SceneType
<1>2. PICK P : P = Vacated(w, G)
  OBVIOUS
<1>3. P \in Places /\ \A s \in Lairs : P[s] = IF s \in G THEN NoCreature ELSE w.spawned[s]
  BY <1>1, <1>2 DEF Vacated, Places
<1>4. PICK u : u = WithPlaces(w, P)
  OBVIOUS
<1>5. /\ u \in SceneType /\ u.b = w.b /\ u.summons = w.summons /\ u.spawned = P /\ u.event = w.event
      /\ u.toAdd = w.toAdd /\ u.free = w.free /\ u.lost = w.lost
  BY <1>1, <1>3, <1>4, WithPlacesIs
<1>6. PICK owed : owed = Housed(w, G)
  OBVIOUS
<1>7. owed \in Counts /\ \A y \in Breathing : owed[y] = IF \E s \in G : w.spawned[s] = y THEN 1 ELSE 0
  BY <1>6 DEF Housed, Counts
<1>8. ASSUME NEW c \in Breathing PROVE One(u, c, owed[c], u.summons, {})
  <2>1. One(w, c, 0, w.summons, {})
    BY DEF Sane, NothingToRelease
  <2>2. c # NoCreature /\ NoLair \notin Lairs /\ w.free[c] \in Nat /\ w.b[c] \in Being
    BY <1>1, BreathingFacts DEF SceneType, Counts, Beings
  <2>3. Present(u, c) <=> Present(w, c)
    BY <1>5 DEF Present
  <2>4. PICK t : t = w.b[c].spawn
    OBVIOUS
  <2>5. t \in Lairs \cup {NoLair} /\ \A s \in Lairs : w.spawned[s] = c => t = s
    BY <2>1, <2>2, <2>4 DEF One, Being
  <2>6. (\E s \in G : w.spawned[s] = c) <=> t \in G /\ w.spawned[t] = c
    BY <2>5
  <2>7. t # NoLair /\ P[t] = c <=> t # NoLair /\ w.spawned[t] = c /\ t \notin G
    BY <1>3, <2>2, <2>5
  <2>8. \A s \in Lairs : P[s] = c => t = s
    BY <1>3, <2>2, <2>5
  <2>9. Present(w, c) /\ t # NoLair => P[t] = c
    <3> SUFFICES ASSUME Present(w, c), t # NoLair PROVE P[t] = c
      OBVIOUS
    <3>1. w.spawned[t] = c
      BY <2>1, <2>4 DEF One
    <3>2. t \notin G
      BY <3>1 DEF Present
    <3> QED BY <1>3, <2>5, <3>1, <3>2
  <2>10. (IF t # NoLair /\ w.spawned[t] = c THEN 1 ELSE 0)
            = (IF t # NoLair /\ P[t] = c THEN 1 ELSE 0) + owed[c]
    <3>1. t \in G => t # NoLair
      BY <2>2
    <3> QED BY <1>7, <2>6, <2>7, <3>1
  <2>11. PICK r : r = w.b[c]
    OBVIOUS
  <2>12. r.refs = (IF Present(u, c) THEN 1 ELSE 0) + u.free[c] + (IF r.listed THEN 1 ELSE 0)
                  + (IF r.master # NoCreature THEN 1 ELSE 0)
                  + (IF r.spawn # NoLair /\ u.spawned[r.spawn] = c THEN 1 ELSE 0) + owed[c]
    <3>1. r.refs = (IF Present(w, c) THEN 1 ELSE 0) + w.free[c] + (IF r.listed THEN 1 ELSE 0)
                  + (IF r.master # NoCreature THEN 1 ELSE 0)
                  + (IF r.spawn # NoLair /\ w.spawned[r.spawn] = c THEN 1 ELSE 0) + 0
      BY <2>1, <2>11 DEF One
    <3> QED BY <1>5, <1>7, <2>2, <2>3, <2>4, <2>10, <2>11, <3>1
  <2> QED BY <1>5, <2>1, <2>3, <2>4, <2>8, <2>9, <2>11, <2>12 DEF One
<1>9. Watched(u) /\ u.toAdd \cap checkVectors = {}
  BY <1>5 DEF Sane, Watched
<1>10. Sane(u, owed, u.summons, {})
  BY <1>1, <1>5, <1>7, <1>8, <1>9 DEF Sane
<1> QED BY <1>2, <1>4, <1>6, <1>10

LEMMA EmptyGood ==
  ASSUME NEW w, Sane(w, NothingToRelease, w.summons, {}), w.event, NEW G \in SUBSET Lairs,
         \A s \in G : w.spawned[s] \in Breathing /\ w.b[w.spawned[s]].removed,
         NEW l, l = SetToSeq(G), NEW ls, ls = [k \in DOMAIN l |-> w.spawned[l[k]]]
  PROVE  LET v == Released(WithPlaces(w, Vacated(w, G)), ls)
         IN  /\ Sane(v, NothingToRelease, v.summons, {}) /\ v.event /\ v.spawned = Vacated(w, G)
             /\ \A y \in Breathing : v.b[y].removed => w.b[y].removed
<1>1. PICK u : u = WithPlaces(w, Vacated(w, G))
  OBVIOUS
<1>2. w \in SceneType /\ w.spawned \in Places /\ Vacated(w, G) \in Places
  BY DEF Sane, SceneType, Places, Vacated
<1>3. u.b = w.b /\ u.summons = w.summons /\ u.spawned = Vacated(w, G) /\ u.event = w.event
  BY <1>1, <1>2, WithPlacesIs
<1>4. Sane(u, Housed(w, G), u.summons, {})
  BY <1>1, VacatedGood
<1>5. l \in Seq(G) /\ Once(l) /\ ToSet(l) = G
  BY CreaturesAssumption, FS_Subset, SetToSeqFacts
<1>6. /\ Rest(l, 0) = G /\ Rest(l, Len(l)) = {} /\ Len(l) \in Nat
      /\ \A k \in 1 .. Len(l) : /\ k - 1 \in Nat /\ l[k] \in G /\ l[k] \in Rest(l, k - 1)
                                /\ Rest(l, k) = Rest(l, k - 1) \ {l[k]} /\ Rest(l, k - 1) \subseteq G
  BY <1>5, RestFacts
<1>7. DOMAIN l = 1 .. Len(l)
  BY <1>5
<1>8. ls \in Seq(Breathing) /\ Len(ls) = Len(l) /\ \A k \in 1 .. Len(l) : ls[k] = w.spawned[l[k]]
  <2>1. ls \in [1 .. Len(l) -> Breathing]
    BY <1>6, <1>7
  <2> QED BY <1>6, <1>7, <2>1
<1>9. PICK ds : ds = [k \in 0 .. Len(l) |-> Housed(w, Rest(l, k))]
  OBVIOUS
<1>10. ds \in [0 .. Len(ls) -> Counts]
  BY <1>8, <1>9 DEF Housed, Counts
<1>11. ds[0] = Housed(w, G) /\ ds[Len(ls)] = NothingToRelease
  <2>1. Housed(w, {}) = NothingToRelease
    BY DEF Housed, NothingToRelease
  <2>2. 0 \in 0 .. Len(l) /\ Len(l) \in 0 .. Len(l)
    BY <1>6
  <2>3. ds[0] = Housed(w, Rest(l, 0)) /\ ds[Len(l)] = Housed(w, Rest(l, Len(l)))
    BY <1>9, <2>2
  <2> QED BY <1>6, <1>8, <2>1, <2>3
<1>12. \A s, t \in G : w.spawned[s] = w.spawned[t] => s = t
  <2> SUFFICES ASSUME NEW s \in G, NEW t \in G, w.spawned[s] = w.spawned[t] PROVE s = t
    OBVIOUS
  <2>1. PICK c \in Breathing : c = w.spawned[s]
    OBVIOUS
  <2>2. \A x \in Lairs : w.spawned[x] = c => w.b[c].spawn = x
    BY DEF Sane, One
  <2> QED BY <2>1, <2>2
<1>13. ASSUME NEW k \in 1 .. Len(ls)
       PROVE  ds[k - 1][ls[k]] > 0 /\ ds[k] = [ds[k - 1] EXCEPT ![ls[k]] = @ - 1]
  <2>1. k \in 1 .. Len(l) /\ k \in 0 .. Len(l) /\ k - 1 \in 0 .. Len(l)
    BY <1>6, <1>8
  <2>2. PICK A : A = Rest(l, k - 1)
    OBVIOUS
  <2>3. PICK x : x = l[k]
    OBVIOUS
  <2>4. x \in A /\ A \subseteq G /\ Rest(l, k) = A \ {x} /\ w.spawned[x] \in Breathing /\ ls[k] = w.spawned[x]
    BY <1>6, <1>8, <2>1, <2>2, <2>3
  <2>5. PICK c : c = w.spawned[x]
    OBVIOUS
  <2>6. ds[k - 1] = Housed(w, A) /\ ds[k] = Housed(w, A \ {x})
    BY <1>9, <2>1, <2>2, <2>4
  <2>7. PICK H : H = Housed(w, A)
    OBVIOUS
  <2>8. H[c] = 1
    BY <2>4, <2>5, <2>7 DEF Housed
  <2>9. [H EXCEPT ![c] = @ - 1] = Housed(w, A \ {x})
    <3>1. [H EXCEPT ![c] = @ - 1] = [H EXCEPT ![c] = 0]
      BY <2>8
    <3>2. \A y \in Breathing : (\E s \in A \ {x} : w.spawned[s] = y) <=> (\E s \in A : w.spawned[s] = y) /\ y # c
      BY <1>12, <2>4, <2>5
    <3> QED BY <2>7, <3>1, <3>2 DEF Housed
  <2>10. ds[k - 1] = H /\ ls[k] = c /\ ds[k] = [H EXCEPT ![c] = @ - 1]
    BY <2>4, <2>5, <2>6, <2>7, <2>9
  <2>11. [ds[k - 1] EXCEPT ![ls[k]] = @ - 1] = [H EXCEPT ![c] = @ - 1]
    BY <2>10
  <2>12. ds[k - 1][ls[k]] = 1
    BY <2>8, <2>10
  <2> QED BY <2>10, <2>11, <2>12
<1>14. PICK v : v = Released(u, ls)
  OBVIOUS
<1>15. /\ Sane(v, ds[Len(ls)], v.summons, {}) /\ Calm(u, v)
       /\ \A y \in Breathing : v.b[y].removed => u.b[y].removed
  <2>1. Sane(u, ds[0], u.summons, {})
    BY <1>4, <1>11
  <2>2. \A k \in 1 .. Len(ls) : ds[k - 1][ls[k]] > 0 /\ ds[k] = [ds[k - 1] EXCEPT ![ls[k]] = @ - 1]
    BY <1>13
  <2>3. LET z == Released(u, ls)
        IN  /\ Sane(z, ds[Len(ls)], z.summons, {}) /\ Calm(u, z)
            /\ NoneRemoved(u, z)
    <3>1. ls \in Seq(Breathing)
      BY <1>8
    <3>2. OneByOne(ls, ds)
      BY <1>10, <2>2 DEF OneByOne
    <3> QED BY <2>1, <3>1, <3>2, UnRefsGood, Zenon
  <2> QED BY <1>14, <2>3 DEF NoneRemoved
<1> QED BY <1>1, <1>3, <1>11, <1>14, <1>15 DEF Calm

-----------------------------------------------------------------------------
(* Convictions.                                                            *)

\* A place lets go of the one who is there.
Evicted(w, c, s, L) ==
  WithEvent(WithPlaces(With(w, c, Spawned(w.b[c], NoLair)), [w.spawned EXCEPT ![s] = NoCreature]), w.event, L)

LEMMA EvictedGood ==
  ASSUME NEW w, NEW owed, NEW sm, Sane(w, owed, sm, {}), NEW c \in Breathing, NEW s \in Lairs,
         Present(w, c), w.b[c].spawn = s, NEW L, L = IF w.event THEN w.lost ELSE w.lost \cup {s}
  PROVE  LET v == Evicted(w, c, s, L)
         IN  /\ Sane(v, [owed EXCEPT ![c] = @ + 1], sm, {}) /\ v.summons = w.summons
             /\ v.b = [w.b EXCEPT ![c] = Spawned(w.b[c], NoLair)]
<1>1. /\ w \in SceneType /\ w.b[c] \in Being /\ sm \in Herds /\ owed \in Counts /\ owed[c] \in Nat
      /\ w.free[c] \in Nat /\ One(w, c, owed[c], sm, {}) /\ s # NoLair /\ c # NoCreature /\ NoCreature \notin Breathing
      /\ w.lost \in SUBSET Lairs /\ w.event \in BOOLEAN
  BY SaneFacts, BreathingFacts DEF SceneType
<1>2. PICK r : r = Spawned(w.b[c], NoLair)
  OBVIOUS
<1>3. /\ r \in Being /\ r.refs = w.b[c].refs /\ r.placed = w.b[c].placed /\ r.removed = w.b[c].removed
      /\ r.health = w.b[c].health /\ r.master = w.b[c].master /\ r.isIdle = w.b[c].isIdle
      /\ r.checked = w.b[c].checked /\ r.listed = w.b[c].listed /\ r.spawn = NoLair
  BY <1>1, <1>2, SpawnedIs
<1>4. PICK u : u = With(w, c, r)
  OBVIOUS
<1>5. /\ u \in SceneType /\ u.b = [w.b EXCEPT ![c] = r] /\ u.summons = w.summons
      /\ u.spawned = w.spawned /\ u.event = w.event /\ u.toAdd = w.toAdd
      /\ u.free = w.free /\ u.lost = w.lost
  BY <1>1, <1>3, <1>4, WithIs
<1>6. PICK P : P = [w.spawned EXCEPT ![s] = NoCreature]
  OBVIOUS
<1>7. P \in Places /\ w.spawned \in Places /\ P[s] = NoCreature /\ \A t \in Lairs : t # s => P[t] = w.spawned[t]
  BY <1>1, <1>6 DEF SceneType, Places
<1>8. PICK t : t = WithPlaces(u, P)
  OBVIOUS
<1>9. /\ t \in SceneType /\ t.b = [w.b EXCEPT ![c] = r] /\ t.summons = w.summons /\ t.spawned = P
      /\ t.event = w.event /\ t.toAdd = w.toAdd /\ t.free = w.free /\ t.lost = w.lost
  BY <1>5, <1>7, <1>8, WithPlacesIs
<1>10. PICK v : v = WithEvent(t, w.event, L)
  OBVIOUS
<1>11. /\ v \in SceneType /\ v.b = [w.b EXCEPT ![c] = r] /\ v.summons = w.summons /\ v.spawned = P
       /\ v.event = w.event /\ v.toAdd = w.toAdd /\ v.free = w.free /\ v.lost = L
  <2>1. L \in SUBSET Lairs
    BY <1>1
  <2> QED BY <1>1, <1>9, <1>10, <2>1, WithEventIs
<1>12. v.b[c] = r /\ \A y \in Breathing : y # c => v.b[y] = w.b[y]
  BY <1>1, <1>11 DEF SceneType, Beings
<1>13. PICK due : due = [owed EXCEPT ![c] = @ + 1]
  OBVIOUS
<1>14. due \in Counts /\ due[c] = owed[c] + 1 /\ \A y \in Breathing : y # c => due[y] = owed[y]
  BY <1>1, <1>13 DEF Counts
<1>15. w.spawned[s] = c /\ \A x \in Lairs : P[x] # c
  <2>1. w.spawned[s] = c /\ \A x \in Lairs : w.spawned[x] = c => x = s
    BY <1>1 DEF One
  <2> QED BY <1>1, <1>7, <2>1
<1>16. Apart(w, owed, v, due, c)
  BY <1>1, <1>7, <1>11, <1>12, <1>14, <1>15 DEF Apart
<1>17. One(v, c, due[c], sm, {})
  <2>1. w.b[c].refs = 1 + w.free[c] + (IF w.b[c].listed THEN 1 ELSE 0)
                      + (IF w.b[c].master # NoCreature THEN 1 ELSE 0) + 1 + owed[c]
    BY <1>1, <1>15 DEF One
  <2>2. v.b[c].refs = (IF Present(v, c) THEN 1 ELSE 0) + v.free[c] + (IF r.listed THEN 1 ELSE 0)
                      + (IF r.master # NoCreature THEN 1 ELSE 0)
                      + (IF r.spawn # NoLair /\ v.spawned[r.spawn] = c THEN 1 ELSE 0) + due[c]
    <3>1. Present(v, c)
      BY <1>3, <1>12 DEF Present
    <3>2. w.b[c].refs \in Int /\ v.free[c] = w.free[c]
      BY <1>1, <1>11 DEF Being
    <3> QED BY <1>1, <1>3, <1>12, <1>14, <2>1, <3>1, <3>2
  <2>3. v.b[c] # Unborn
    BY <1>3, <1>12, UnbornIs DEF Present
  <2>4. r.master # NoCreature => v.b[r.master] = w.b[r.master]
    <3>1. r.master # NoCreature => r.master \in Breathing
      BY <1>3 DEF Being
    <3>2. w.b[c].master # c
      BY <1>1, SaneFacts
    <3> QED BY <1>3, <1>12, <3>1, <3>2
  <2>5. Present(v, c) <=> Present(w, c)
    BY <1>3, <1>12 DEF Present
  <2> QED BY <1>1, <1>3, <1>11, <1>12, <1>15, <2>2, <2>3, <2>4, <2>5 DEF One
<1>18. Watched(v) /\ v.toAdd \cap checkVectors = {}
  <2>1. Watched(w) /\ w.toAdd \cap checkVectors = {}
    BY DEF Sane
  <2>2. \A x \in Lairs : w.spawned[x] # NoCreature => w.spawned[x] \in Breathing
    BY <1>7, BreathingFacts DEF Places
  <2> QED BY <1>1, <1>3, <1>7, <1>11, <1>12, <1>15, <2>1, <2>2 DEF Watched
<1>19. Sane(v, due, sm, {})
  <2>1. PICK N : N = {}
    OBVIOUS
  <2>2. Sane(w, owed, sm, N) /\ Herded(w, sm, sm, c) /\ One(v, c, due[c], sm, N)
    BY <1>17, <2>1, Unherded
  <2>3. v.b[c].removed => w.b[c].removed \/ c \in N \/ sm[c] = {}
    BY <1>3, <1>12
  <2>4. Sane(v, due, sm, N)
    BY <1>1, <1>11, <1>14, <1>16, <1>18, <2>2, <2>3, OthersStand
  <2> QED BY <2>1, <2>4
<1> QED BY <1>2, <1>4, <1>6, <1>8, <1>10, <1>11, <1>13, <1>19 DEF Evicted

LEMMA LeftGood ==
  ASSUME NEW w, NEW owed, Sane(w, owed, w.summons, {}), NEW c \in Breathing, NEW s \in Lairs,
         Present(w, c), w.b[c].spawn = s, NEW L, L = IF w.event THEN w.lost ELSE w.lost \cup {s},
         w.b[c].master # NoCreature, w.summons[c] = {}
  PROVE  LET v == unRef(Evicted(w, c, s, L), c) IN Sane(v, owed, v.summons, {}) /\ v.b[c].placed
<1>1. PICK u : u = Evicted(w, c, s, L)
  OBVIOUS
<1>2. PICK due : due = [owed EXCEPT ![c] = @ + 1]
  OBVIOUS
<1>3. PICK sm : sm = w.summons
  OBVIOUS
<1>4. PICK r : r = Spawned(w.b[c], NoLair)
  OBVIOUS
<1>5. w \in SceneType /\ w.b[c] \in Being /\ owed \in Counts /\ owed[c] \in Nat
  BY SaneFacts
<1>6. Sane(u, due, sm, {}) /\ u.summons = w.summons /\ u.b = [w.b EXCEPT ![c] = r]
  <2>1. Sane(w, owed, sm, {})
    BY <1>3
  <2>2. /\ Sane(Evicted(w, c, s, L), [owed EXCEPT ![c] = @ + 1], sm, {}) /\ Evicted(w, c, s, L).summons = w.summons
        /\ Evicted(w, c, s, L).b = [w.b EXCEPT ![c] = Spawned(w.b[c], NoLair)]
    BY <2>1, EvictedGood
  <2> QED BY <1>1, <1>2, <1>4, <2>2
<1>7. u \in SceneType /\ u.b[c] = r /\ u.summons[c] = {}
  BY <1>5, <1>6 DEF Sane, SceneType, Beings
<1>8. r \in Being /\ r.placed /\ ~ r.removed /\ r.master # NoCreature
  <2>1. NoLair \in Lairs \cup {NoLair}
    OBVIOUS
  <2> QED BY <1>4, <1>5, <2>1, SpawnedIs DEF Present
<1>9. due \in Counts /\ due[c] > 0 /\ [due EXCEPT ![c] = @ - 1] = owed
  BY <1>2, <1>5, MoreThenLess
<1>10. PICK v : v = Drop(u, c)
  OBVIOUS
<1>11. unRef(u, c) = v
  BY <1>7, <1>10, UnRefAlone
<1>12. Sane(v, owed, sm, {}) /\ u.b[c].refs > 1
  <2>1. u.b[c].master # NoCreature
    BY <1>7, <1>8
  <2>2. PICK N : N = {}
    OBVIOUS
  <2>3. Sane(u, due, sm, N) /\ sm[c] = {}
    BY <1>3, <1>6, <1>7, <2>2
  <2>4. Sane(v, [due EXCEPT ![c] = @ - 1], sm, N) /\ u.b[c].refs > 1
    BY <1>9, <1>10, <2>1, <2>3, DropGood
  <2> QED BY <1>9, <2>2, <2>4
<1>13. v.summons = sm /\ v.b[c] = Less(r)
  BY <1>3, <1>6, <1>7, <1>10, <1>12, DropIs
<1>14. v.b[c].placed
  BY <1>8, <1>13, LessIs
<1> QED BY <1>1, <1>11, <1>12, <1>13, <1>14

\* The monster leaves its master, its summons and its spawn.
Convinced(w, c, idle) ==
  LET old == w.b[c].master
      v == destroySummons(IF old = NoCreature THEN w ELSE removeSummon(w, old, c), c)
      mine == addSummon(v, Hunter, c)
      s == w.b[c].spawn
      left == unRef([mine EXCEPT !.spawned[s] = NoCreature, !.b[c].spawn = NoLair,
                                 !.lost = IF v.event THEN @ ELSE @ \cup {s}], c)
  IN  setIdle(IF s = NoLair THEN mine ELSE left, c, idle)

\* Nobody is the master of a player.
LEMMA Masterless ==
  ASSUME NEW w, NEW owed, NEW sm, Sane(w, owed, sm, {})
  PROVE  w.b[Hunter].master = NoCreature
<1>1. PICK m : m = w.b[Hunter].master
  OBVIOUS
<1>2. One(w, Hunter, owed[Hunter], sm, {}) /\ sm \in Herds /\ w.b[Hunter] \in Being /\ Hunter \notin Beasts
  BY SaneFacts, BreathingFacts
<1>3. m \in Breathing \cup {NoCreature}
  BY <1>1, <1>2 DEF Being
<1>4. m \in Breathing => Hunter \in sm[m] /\ sm[m] \subseteq Beasts
  BY <1>1, <1>2 DEF One, Herds
<1> QED BY <1>1, <1>2, <1>3, <1>4

LEMMA FreedGood ==
  ASSUME NEW w, NEW owed, Sane(w, owed, w.summons, {}), NEW c \in Beasts, Present(w, c)
  PROVE  LET u == IF w.b[c].master = NoCreature THEN w ELSE removeSummon(w, w.b[c].master, c)
         IN  /\ Sane(u, owed, u.summons, {}) /\ Kin(w.b[c], u.b[c]) /\ u.b[c].master = NoCreature
             /\ u.b[Hunter] = w.b[Hunter] /\ u.event = w.event
<1>1. c \in Breathing /\ Hunter \in Breathing /\ Hunter # c
  BY BreathingFacts
<1>2. PICK m : m = w.b[c].master
  OBVIOUS
<1>3. CASE m = NoCreature
  BY <1>2, <1>3 DEF Kin
<1>4. CASE m # NoCreature
  <2>1. m \in Breathing /\ c \in w.summons[m]
    <3>1. One(w, c, owed[c], w.summons, {}) /\ w.b[c] \in Being
      BY <1>1, SaneFacts
    <3>2. m \in Breathing
      BY <1>2, <1>4, <3>1 DEF Being
    <3> QED BY <1>2, <3>1, <3>2 DEF One
  <2>2. PICK u : u = removeSummon(w, m, c)
    OBVIOUS
  <2>3. /\ Sane(u, owed, u.summons, {}) /\ Calm(w, u) /\ Unmastered(w, u, c)
    <3>1. PICK N : N = {}
      OBVIOUS
    <3>2. Sane(w, owed, w.summons, N)
      BY <3>1
    <3>3. Sane(u, owed, u.summons, N) /\ Calm(w, u) /\ Unmastered(w, u, c)
      BY <2>1, <2>2, <3>2, RemoveSummonGood
    <3> QED BY <3>1, <3>3
  <2> QED BY <1>1, <1>2, <1>4, <2>2, <2>3 DEF Unmastered, Calm
<1> QED BY <1>3, <1>4

LEMMA ConvincedGood ==
  ASSUME NEW w, NEW owed, Sane(w, owed, w.summons, {}), NEW c \in Beasts, Present(w, c), Present(w, Hunter),
         NEW idle \in BOOLEAN
  PROVE  LET v == Convinced(w, c, idle) IN Sane(v, owed, v.summons, {})
<1>1. c \in Breathing /\ Hunter \in Breathing /\ Hunter # c /\ Hunter \notin Beasts
  BY BreathingFacts
<1>2. PICK u : u = IF w.b[c].master = NoCreature THEN w ELSE removeSummon(w, w.b[c].master, c)
  OBVIOUS
<1>3. /\ Sane(u, owed, u.summons, {}) /\ Kin(w.b[c], u.b[c]) /\ u.b[c].master = NoCreature
      /\ u.b[Hunter] = w.b[Hunter] /\ u.event = w.event
  BY <1>2, FreedGood, Zenon
<1>4. PICK v : v = destroySummons(u, c)
  OBVIOUS
<1>5. /\ Sane(v, owed, v.summons, {}) /\ v.summons = [u.summons EXCEPT ![c] = {}]
      /\ Elsewhere(u, v, u.summons[c])
  <2>1. PICK N : N = {}
    OBVIOUS
  <2>2. Sane(u, owed, u.summons, N)
    BY <1>3, <2>1
  <2>3. /\ Sane(v, owed, v.summons, N) /\ v.summons = [u.summons EXCEPT ![c] = {}]
        /\ Elsewhere(u, v, u.summons[c])
    BY <1>1, <1>4, <2>2, DestroySummonsGood
  <2> QED BY <2>1, <2>3
<1>6. u.summons \in Herds /\ c \notin u.summons[c] /\ Hunter \notin u.summons[c]
  <2>1. u.summons \in Herds /\ c \notin u.summons[c]
    BY <1>1, <1>3, SaneFacts
  <2> QED BY <1>1, <2>1 DEF Herds
<1>7. v.b[c] = u.b[c] /\ v.b[Hunter] = w.b[Hunter] /\ v.summons[c] = {} /\ v.event = w.event
  BY <1>1, <1>3, <1>5, <1>6 DEF Elsewhere, Herds
<1>8. PICK mine : mine = addSummon(v, Hunter, c)
  OBVIOUS
<1>9. /\ v.b[c].master = NoCreature /\ v.b[c].placed /\ ~ v.b[c].removed /\ v.b[c].spawn = w.b[c].spawn
  BY <1>3, <1>7 DEF Kin, Present
<1>10. v.b[Hunter].master = NoCreature /\ v.b[Hunter] # Unborn /\ ~ v.b[Hunter].removed
  <2>1. w.b[Hunter].master = NoCreature
    BY Masterless
  <2>2. w.b[Hunter].placed /\ ~ w.b[Hunter].removed
    BY DEF Present
  <2> QED BY <1>7, <2>1, <2>2, UnbornIs
<1>11. /\ Sane(mine, owed, mine.summons, {}) /\ Calm(v, mine)
       /\ mine.summons = [v.summons EXCEPT ![Hunter] = @ \cup {c}]
       /\ mine.b = [v.b EXCEPT ![c] = Owned(More(v.b[c]), Hunter)]
  <2>1. PICK N : N = {}
    OBVIOUS
  <2>2. Sane(v, owed, v.summons, N)
    BY <1>5, <2>1
  <2>3. MayAdopt(v, Hunter, c, N)
    BY <1>1, <1>7, <1>9, <1>10 DEF MayAdopt
  <2>4. Sane(mine, owed, mine.summons, N) /\ Calm(v, mine) /\ Adopted(v, mine, Hunter, c)
    BY <1>1, <1>8, <2>2, <2>3, AddSummonGood
  <2> QED BY <2>1, <2>4 DEF Adopted
<1>12. v \in SceneType /\ v.b[c] \in Being
  BY <1>1, <1>5, SaneFacts
<1>13. PICK q : q = Owned(More(v.b[c]), Hunter)
  OBVIOUS
<1>14. q \in Being /\ q.placed /\ ~ q.removed /\ q.master = Hunter /\ q.spawn = w.b[c].spawn
  <2>1. PICK p : p = More(v.b[c])
    OBVIOUS
  <2>2. p \in Being /\ p.placed /\ ~ p.removed /\ p.spawn = w.b[c].spawn
    BY <1>9, <1>12, <2>1, MoreIs
  <2>3. q = Owned(p, Hunter)
    BY <1>13, <2>1
  <2> QED BY <1>1, <2>2, <2>3, OwnedIs
<1>15. mine.b[c] = q /\ mine.summons[c] = {}
  <2>1. mine.b[c] = q
    BY <1>1, <1>11, <1>12, <1>13 DEF SceneType, Beings
  <2> QED BY <1>1, <1>7, <1>11, <1>12, <2>1 DEF SceneType, Herds
<1>16. PICK s : s = w.b[c].spawn
  OBVIOUS
<1>17. PICK L : L = IF mine.event THEN mine.lost ELSE mine.lost \cup {s}
  OBVIOUS
<1>18. PICK x : x = IF s = NoLair THEN mine ELSE unRef(Evicted(mine, c, s, L), c)
  OBVIOUS
<1>19. Sane(x, owed, x.summons, {}) /\ x.b[c].placed
  <2>1. CASE s = NoLair
    BY <1>11, <1>14, <1>15, <1>18, <2>1
  <2>2. CASE s # NoLair
    <3>1. s \in Lairs
      BY <1>14, <1>16, <2>2 DEF Being
    <3>2. Present(mine, c) /\ mine.b[c].spawn = s /\ mine.b[c].master # NoCreature
      BY <1>1, <1>14, <1>15, <1>16, BreathingFacts DEF Present
    <3>3. LET z == unRef(Evicted(mine, c, s, L), c) IN Sane(z, owed, z.summons, {}) /\ z.b[c].placed
      <4>1. Sane(mine, owed, mine.summons, {}) /\ mine.summons[c] = {}
        BY <1>11, <1>15
      <4> QED BY <1>1, <1>17, <3>1, <3>2, <4>1, LeftGood
    <3> QED BY <1>18, <2>2, <3>3
  <2> QED BY <2>1, <2>2
<1>20. PICK z : z = setIdle(x, c, idle)
  OBVIOUS
<1>21. Sane(z, owed, z.summons, {})
  <2>1. PICK N : N = {}
    OBVIOUS
  <2>2. PICK sm : sm = x.summons
    OBVIOUS
  <2>3. Sane(x, owed, sm, N)
    BY <1>19, <2>1, <2>2
  <2>4. Sane(z, owed, sm, N) /\ Stirred(x, z, c)
    BY <1>1, <1>19, <1>20, <2>3, SetIdleGood
  <2> QED BY <2>1, <2>2, <2>4 DEF Stirred
<1>22. Convinced(w, c, idle) = z
  <2>1. Evicted(mine, c, s, L)
          = [mine EXCEPT !.spawned[s] = NoCreature, !.b[c].spawn = NoLair,
                         !.lost = IF v.event THEN @ ELSE @ \cup {s}]
    <3>1. mine \in SceneType /\ mine.event = v.event
      BY <1>11 DEF Sane, Calm
    <3>2. [mine EXCEPT !.spawned[s] = NoCreature, !.b[c].spawn = NoLair,
                       !.lost = IF v.event THEN @ ELSE @ \cup {s}]
            = [mine EXCEPT !.spawned = [mine.spawned EXCEPT ![s] = NoCreature],
                           !.b = [mine.b EXCEPT ![c] = Spawned(mine.b[c], NoLair)],
                           !.lost = IF v.event THEN mine.lost ELSE mine.lost \cup {s}]
      BY <3>1 DEF SceneType, Spawned
    <3>3. Evicted(mine, c, s, L)
            = [mine EXCEPT !.spawned = [mine.spawned EXCEPT ![s] = NoCreature],
                           !.b = [mine.b EXCEPT ![c] = Spawned(mine.b[c], NoLair)],
                           !.event = mine.event, !.lost = L]
      BY <3>1 DEF Evicted, With, WithPlaces, WithEvent, SceneType
    <3>4. [mine EXCEPT !.spawned = [mine.spawned EXCEPT ![s] = NoCreature],
                       !.b = [mine.b EXCEPT ![c] = Spawned(mine.b[c], NoLair)],
                       !.event = mine.event, !.lost = L]
           = [mine EXCEPT !.spawned = [mine.spawned EXCEPT ![s] = NoCreature],
                          !.b = [mine.b EXCEPT ![c] = Spawned(mine.b[c], NoLair)],
                          !.lost = L]
      BY <3>1 DEF SceneType
    <3> QED BY <1>17, <3>1, <3>2, <3>3, <3>4
  <2> QED BY <1>2, <1>4, <1>8, <1>16, <1>18, <1>20, <2>1 DEF Convinced
<1> QED BY <1>21, <1>22

-----------------------------------------------------------------------------
(* The tasks of the dispatcher.                                            *)

Counted == Sane(Scene, NothingToRelease, summons, {})

\* What is known when a task starts, and what it needs to show.
LEMMA Begins ==
  ASSUME NEW w, w = Scene, Counted
  PROVE  /\ Sane(w, NothingToRelease, w.summons, {}) /\ w.b = being /\ w.summons = summons /\ w.spawned = spawnedMap
         /\ w.event = checkSpawnEvent /\ w.toAdd = toAddCheck /\ w.free = releaseList /\ w.lost = unwatched
<1>1. /\ w.b = being /\ w.summons = summons /\ w.spawned = spawnedMap /\ w.event = checkSpawnEvent
      /\ w.toAdd = toAddCheck /\ w.free = releaseList /\ w.lost = unwatched
  BY DEF Scene
<1>2. Sane(w, NothingToRelease, w.summons, {})
  BY <1>1 DEF Counted
<1> QED BY <1>1, <1>2

LEMMA Becomes ==
  ASSUME NEW v, v \in SceneType, Become(v)
  PROVE  Scene' = v /\ summons' = v.summons
<1> DEFINE A == Beings
           B == Herds
           C == Places
           D == SUBSET Breathing
           E == Counts
           F == SUBSET Lairs
           R == [b : A, summons : B, spawned : C, event : BOOLEAN, toAdd : D, free : E, lost : F]
<1>1. v \in R
  BY DEF SceneType
<1> HIDE DEF A, B, C, D, E, F
<1>2. v = [b |-> v.b, summons |-> v.summons, spawned |-> v.spawned, event |-> v.event,
           toAdd |-> v.toAdd, free |-> v.free, lost |-> v.lost]
  BY <1>1
<1>3. /\ being' = v.b /\ summons' = v.summons /\ spawnedMap' = v.spawned
      /\ checkSpawnEvent' = v.event /\ toAddCheck' = v.toAdd /\ releaseList' = v.free /\ unwatched' = v.lost
  BY DEF Become
<1>4. Scene' = [b |-> being', summons |-> summons', spawned |-> spawnedMap', event |-> checkSpawnEvent',
                toAdd |-> toAddCheck', free |-> releaseList', lost |-> unwatched']
  BY DEF Scene
<1> QED BY <1>2, <1>3, <1>4, Zenon

LEMMA StaysCounted ==
  ASSUME NEW v, Sane(v, NothingToRelease, v.summons, {}), Become(v), checkVectors' = checkVectors
  PROVE  Counted'
<1>1. v \in SceneType
  BY DEF Sane
<1>2. Scene' = v /\ summons' = v.summons
  BY <1>1, Becomes
<1>3. ASSUME NEW c \in Breathing PROVE One(v, c, NothingToRelease[c], v.summons, {})'
  <2>1. One(v, c, NothingToRelease[c], v.summons, {})
    BY DEF Sane
  <2> QED BY <2>1 DEF One, Present, NothingToRelease
<1>4. Sane(v, NothingToRelease, v.summons, {})'
  BY <1>3 DEF Sane, Watched, NothingToRelease
<1> QED BY <1>2, <1>4 DEF Counted

LEMMA CleaningCounts ==
  ASSUME Counted, Become(Cleaned(Scene)), UNCHANGED checkVectors
  PROVE  Counted'
<1>1. PICK w : w = Scene
  OBVIOUS
<1>2. PICK v : v = Cleaned(w)
  OBVIOUS
<1>3. Sane(v, NothingToRelease, v.summons, {})
  BY <1>1, <1>2, Begins, CleanedGood
<1>4. Become(v)
  BY <1>1, <1>2
<1> QED BY <1>3, <1>4, StaysCounted

LEMMA IdlingCounts ==
  ASSUME Counted, NEW c \in Breathing, being[c].placed, NEW idle \in BOOLEAN,
         Become(setIdle(Scene, c, idle)), UNCHANGED checkVectors
  PROVE  Counted'
<1>1. PICK w : w = Scene
  OBVIOUS
<1>2. PICK sm : sm = w.summons
  OBVIOUS
<1>3. PICK N : N = {}
  OBVIOUS
<1>4. Sane(w, NothingToRelease, sm, N) /\ w.b[c].placed
  BY <1>1, <1>2, <1>3, Begins
<1>5. PICK v : v = setIdle(w, c, idle)
  OBVIOUS
<1>6. Sane(v, NothingToRelease, sm, N) /\ Stirred(w, v, c)
  BY <1>4, <1>5, SetIdleGood
<1>7. Sane(v, NothingToRelease, v.summons, {})
  BY <1>2, <1>3, <1>6 DEF Stirred
<1>8. Become(v)
  BY <1>1, <1>5
<1> QED BY <1>7, <1>8, StaysCounted

LEMMA HurtCounts ==
  ASSUME Counted, NEW c \in Breathing, being[c].placed, NEW alive \in BOOLEAN,
         Become(changeHealth(Scene, c, alive)), UNCHANGED checkVectors
  PROVE  Counted'
<1>1. PICK w : w = Scene
  OBVIOUS
<1>2. PICK sm : sm = w.summons
  OBVIOUS
<1>3. PICK N : N = {}
  OBVIOUS
<1>4. Sane(w, NothingToRelease, sm, N) /\ w.b[c].placed
  BY <1>1, <1>2, <1>3, Begins
<1>5. PICK v : v = changeHealth(w, c, alive)
  OBVIOUS
<1>6. Sane(v, NothingToRelease, sm, N) /\ Stirred(w, v, c)
  BY <1>4, <1>5, ChangeHealthGood
<1>7. Sane(v, NothingToRelease, v.summons, {})
  BY <1>2, <1>3, <1>6 DEF Stirred
<1>8. Become(v)
  BY <1>1, <1>5
<1> QED BY <1>7, <1>8, StaysCounted

LEMMA RemovalCounts ==
  ASSUME Counted, NEW c \in Breathing, being[c].placed, Become(removeCreature(Scene, c)), UNCHANGED checkVectors
  PROVE  Counted'
<1>1. PICK w : w = Scene
  OBVIOUS
<1>2. PICK v : v = removeCreature(w, c)
  OBVIOUS
<1>3. Sane(w, NothingToRelease, w.summons, {}) /\ w.b[c].placed
  BY <1>1, Begins
<1>4. Sane(v, NothingToRelease, v.summons, {})
  BY <1>2, <1>3, RemoveCreatureGood
<1>5. Become(v)
  BY <1>1, <1>2
<1> QED BY <1>4, <1>5, StaysCounted

LEMMA DespawnCounts ==
  ASSUME Counted, NEW c \in Breathing, being[c].placed, Become(setIdle(removeCreature(Scene, c), c, TRUE)),
         UNCHANGED checkVectors
  PROVE  Counted'
<1>1. PICK w : w = Scene
  OBVIOUS
<1>2. PICK u : u = removeCreature(w, c)
  OBVIOUS
<1>3. Sane(w, NothingToRelease, w.summons, {}) /\ w.b[c].placed
  BY <1>1, Begins
<1>4. Sane(u, NothingToRelease, u.summons, {}) /\ u.b[c].placed
  BY <1>2, <1>3, RemoveCreatureGood
<1>5. PICK idle \in BOOLEAN : idle = TRUE
  OBVIOUS
<1>6. PICK sm : sm = u.summons
  OBVIOUS
<1>7. PICK N : N = {}
  OBVIOUS
<1>8. PICK v : v = setIdle(u, c, idle)
  OBVIOUS
<1>9. Sane(v, NothingToRelease, sm, N) /\ Stirred(u, v, c)
  <2>1. Sane(u, NothingToRelease, sm, N)
    BY <1>4, <1>6, <1>7
  <2> QED BY <1>4, <1>8, <2>1, SetIdleGood
<1>10. Sane(v, NothingToRelease, v.summons, {})
  BY <1>6, <1>7, <1>9 DEF Stirred
<1>11. Become(v)
  BY <1>1, <1>2, <1>5, <1>8
<1> QED BY <1>10, <1>11, StaysCounted

LEMMA DeathCounts ==
  ASSUME Counted, NEW c \in Breathing, being[c].placed, being[c].listed, Become(onDeath(Scene, c)),
         UNCHANGED checkVectors
  PROVE  Counted'
<1>1. PICK w : w = Scene
  OBVIOUS
<1>2. PICK v : v = onDeath(w, c)
  OBVIOUS
<1>3. Sane(w, NothingToRelease, w.summons, {}) /\ w.b[c].placed /\ w.b[c].listed
  BY <1>1, Begins
<1>4. Sane(v, NothingToRelease, v.summons, {})
  BY <1>2, <1>3, OnDeathGood
<1>5. Become(v)
  BY <1>1, <1>2
<1> QED BY <1>4, <1>5, StaysCounted

LEMMA FreeFacts ==
  ASSUME NEW w, NEW c \in Free(w)
  PROVE  c \in Beasts /\ w.b[c] = Unborn
BY DEF Free

LEMMA SummonCounts ==
  ASSUME Counted, NEW m \in Breathing, NEW c \in Free(Scene), being[m].placed, ~ being[m].removed,
         being[m].master = NoCreature, NEW room \in BOOLEAN, Become(placeSummon(Scene, m, c, room, FALSE)),
         UNCHANGED checkVectors
  PROVE  Counted'
<1>1. PICK w : w = Scene
  OBVIOUS
<1>2. PICK idle \in BOOLEAN : idle = FALSE
  OBVIOUS
<1>3. PICK v : v = placeSummon(w, m, c, room, idle)
  OBVIOUS
<1>4. Sane(w, NothingToRelease, w.summons, {}) /\ w.b = being
  BY <1>1, Begins
<1>5. c \in Beasts /\ w.b[c] = Unborn /\ w.b[m] # Unborn /\ c # m /\ NothingToRelease[c] = 0
  <2>1. c \in Beasts /\ w.b[c] = Unborn
    BY <1>1, FreeFacts
  <2>2. w.b[m] # Unborn
    BY <1>4, UnbornIs
  <2> QED BY <2>1, <2>2, BreathingFacts DEF NothingToRelease
<1>6. Sane(v, NothingToRelease, v.summons, {})
  BY <1>3, <1>4, <1>5, PlaceSummonGood
<1>7. Become(v)
  BY <1>1, <1>2, <1>3
<1> QED BY <1>6, <1>7, StaysCounted

LEMMA ConvictionCounts ==
  ASSUME Counted, NEW c \in Beasts, convinceCreature(c)
  PROVE  Counted' /\ UNCHANGED <<checkVectors, turn, checking>>
<1>1. PICK idle \in BOOLEAN : Become(Convinced(Scene, c, idle))
  BY DEF convinceCreature, Convinced, Scene
<1>2. PICK w : w = Scene
  OBVIOUS
<1>3. PICK v : v = Convinced(w, c, idle)
  OBVIOUS
<1>4. Present(w, c) /\ Present(w, Hunter) /\ UNCHANGED <<checkVectors, turn, checking>>
  BY <1>2 DEF convinceCreature, Deed, NotChecking
<1>5. Sane(w, NothingToRelease, w.summons, {})
  BY <1>2, Begins
<1>6. Sane(v, NothingToRelease, v.summons, {})
  BY <1>3, <1>4, <1>5, ConvincedGood
<1>7. Become(v)
  BY <1>1, <1>2, <1>3
<1> QED BY <1>4, <1>6, <1>7, StaysCounted

LEMMA EmptiedIs ==
  ASSUME NEW w, w = Scene
  PROVE  /\ Deserted = {s \in Lairs : w.spawned[s] # NoCreature /\ w.b[w.spawned[s]].removed}
         /\ Emptied = Released(WithPlaces(w, Vacated(w, Deserted)),
                               [k \in DOMAIN SetToSeq(Deserted) |-> w.spawned[SetToSeq(Deserted)[k]]])
<1>1. w.b = being /\ w.spawned = spawnedMap
  BY DEF Scene
<1>2. Deserted = {s \in Lairs : w.spawned[s] # NoCreature /\ w.b[w.spawned[s]].removed}
  BY <1>1 DEF Deserted
<1>3. PICK G : G = Deserted
  OBVIOUS
<1>4. [Scene EXCEPT !.spawned = [s \in Lairs |-> IF s \in Deserted THEN NoCreature ELSE @[s]]] = WithPlaces(w, Vacated(w, G))
  BY <1>1, <1>3 DEF WithPlaces, Vacated, Scene
<1>5. Emptied = InTurn(unRef, WithPlaces(w, Vacated(w, G)), [k \in DOMAIN SetToSeq(G) |-> w.spawned[SetToSeq(G)[k]]])
  BY <1>1, <1>3, <1>4, Zenon DEF Emptied
<1> QED BY <1>2, <1>3, <1>5, Zenon DEF Released

\* Whoever keeps a place after the rounds is alive.
LEMMA EmptiedGood ==
  ASSUME Counted, checkSpawnEvent
  PROVE  /\ Sane(Emptied, NothingToRelease, Emptied.summons, {}) /\ Emptied.event
         /\ \A s \in Lairs : Emptied.spawned[s] # NoCreature =>
              Emptied.spawned[s] \in Breathing /\ ~ Emptied.b[Emptied.spawned[s]].removed
<1>1. PICK w : w = Scene
  OBVIOUS
<1>2. Sane(w, NothingToRelease, w.summons, {}) /\ w.event
  BY <1>1, Begins
<1>3. PICK G : G = Deserted
  OBVIOUS
<1>4. G = {s \in Lairs : w.spawned[s] # NoCreature /\ w.b[w.spawned[s]].removed}
  BY <1>1, <1>3, EmptiedIs
<1>5. \A s \in Lairs : w.spawned[s] # NoCreature => w.spawned[s] \in Breathing
  BY <1>2, BreathingFacts DEF Sane, SceneType, Places
<1>6. G \in SUBSET Lairs /\ \A s \in G : w.spawned[s] \in Breathing /\ w.b[w.spawned[s]].removed
  BY <1>4, <1>5
<1>7. PICK l : l = SetToSeq(G)
  OBVIOUS
<1>8. PICK ls : ls = [k \in DOMAIN l |-> w.spawned[l[k]]]
  OBVIOUS
<1>9. PICK v : v = Released(WithPlaces(w, Vacated(w, G)), ls)
  OBVIOUS
<1>10. /\ Sane(v, NothingToRelease, v.summons, {}) /\ v.event /\ v.spawned = Vacated(w, G)
       /\ \A y \in Breathing : v.b[y].removed => w.b[y].removed
  BY <1>2, <1>6, <1>7, <1>8, <1>9, EmptyGood
<1>11. \A s \in Lairs : v.spawned[s] # NoCreature => v.spawned[s] \in Breathing /\ ~ v.b[v.spawned[s]].removed
  <2> SUFFICES ASSUME NEW s \in Lairs, v.spawned[s] # NoCreature
               PROVE  v.spawned[s] \in Breathing /\ ~ v.b[v.spawned[s]].removed
    OBVIOUS
  <2>1. s \notin G /\ v.spawned[s] = w.spawned[s]
    BY <1>10 DEF Vacated
  <2> QED BY <1>4, <1>5, <1>10, <2>1
<1>12. Emptied = v
  BY <1>1, <1>3, <1>7, <1>8, <1>9, EmptiedIs
<1> QED BY <1>10, <1>11, <1>12

LEMMA SpawnCounts ==
  ASSUME Counted, checkSpawn
  PROVE  Counted'
<1>1. PICK w : w = Emptied
  OBVIOUS
<1>2. /\ Sane(w, NothingToRelease, w.summons, {}) /\ w.event
      /\ \A s \in Lairs : w.spawned[s] # NoCreature => w.spawned[s] \in Breathing /\ ~ w.b[w.spawned[s]].removed
  BY <1>1, EmptiedGood DEF checkSpawn
<1>3. PICK empty : empty = {s \in Lairs : w.spawned[s] = NoCreature}
  OBVIOUS
<1>4. UNCHANGED checkVectors
  BY DEF checkSpawn, NotChecking
<1>5. \/ Become([w EXCEPT !.event = empty # {}])
      \/ \E s \in empty, c \in Free(w), idle \in BOOLEAN : Become([put(w, s, c, idle) EXCEPT !.event = empty # {s}])
  BY <1>1, <1>3 DEF checkSpawn
<1>6. ASSUME Become([w EXCEPT !.event = empty # {}]) PROVE Counted'
  <2>1. PICK e \in BOOLEAN : e = (empty # {})
    OBVIOUS
  <2>2. \A s \in Lairs \ w.lost : w.spawned[s] = NoCreature \/ w.b[w.spawned[s]].removed => e
    BY <1>2, <1>3, <2>1
  <2>3. PICK v : v = [w EXCEPT !.event = e]
    OBVIOUS
  <2>4. Sane(v, NothingToRelease, v.summons, {})
    BY <1>2, <2>2, <2>3, EventGood
  <2>5. Become(v)
    BY <1>6, <2>1, <2>3
  <2> QED BY <1>4, <2>4, <2>5, StaysCounted
<1>7. ASSUME NEW s \in empty, NEW c \in Free(w), NEW idle \in BOOLEAN,
             Become([put(w, s, c, idle) EXCEPT !.event = empty # {s}])
      PROVE  Counted'
  <2>1. s \in Lairs /\ w.spawned[s] = NoCreature /\ c \in Beasts /\ w.b[c] = Unborn /\ NothingToRelease[c] = 0 /\ c \in Breathing
    BY <1>3, FreeFacts, BreathingFacts DEF NothingToRelease
  <2>2. PICK u : u = put(w, s, c, idle)
    OBVIOUS
  <2>3. /\ Sane(u, NothingToRelease, u.summons, {}) /\ u.summons = w.summons /\ u.event = w.event /\ u.lost = w.lost
        /\ u.spawned = [w.spawned EXCEPT ![s] = c] /\ ~ u.b[c].removed
        /\ \A y \in Breathing : y # c => u.b[y] = w.b[y]
    <3>1. Sane(w, NothingToRelease, w.summons, {})
      BY <1>2
    <3>2. LET z == put(w, s, c, idle)
          IN  /\ Sane(z, NothingToRelease, z.summons, {}) /\ z.summons = w.summons /\ z.event = w.event
              /\ z.lost = w.lost /\ z.spawned = [w.spawned EXCEPT ![s] = c] /\ ~ z.b[c].removed
              /\ \A y \in Breathing : y # c => z.b[y] = w.b[y]
      BY <2>1, <3>1, PutGood
    <3> QED BY <2>2, <3>2, Zenon
  <2>4. PICK e \in BOOLEAN : e = (empty # {s})
    OBVIOUS
  <2>5. w.spawned \in Places
    BY <1>2 DEF Sane, SceneType
  <2>6. \A t \in Lairs \ u.lost : u.spawned[t] = NoCreature \/ u.b[u.spawned[t]].removed => e
    <3> SUFFICES ASSUME NEW t \in Lairs, u.spawned[t] = NoCreature \/ u.b[u.spawned[t]].removed PROVE e
      OBVIOUS
    <3>1. t # s
      BY <2>1, <2>3, <2>5, BreathingFacts DEF Places
    <3>2. u.spawned[t] = w.spawned[t]
      BY <2>3, <2>5, <3>1 DEF Places
    <3>3. w.spawned[t] = NoCreature
      BY <1>2, <2>3, <3>2
    <3> QED BY <1>3, <2>4, <3>1, <3>3
  <2>7. PICK v : v = [u EXCEPT !.event = e]
    OBVIOUS
  <2>8. Sane(v, NothingToRelease, v.summons, {})
    BY <2>3, <2>6, <2>7, EventGood
  <2>9. Become(v)
    BY <1>7, <2>2, <2>4, <2>7
  <2> QED BY <1>4, <2>8, <2>9, StaysCounted
<1> QED BY <1>5, <1>6, <1>7

\* Those just enlisted are now among those to be visited.
LEMMA StartCounts ==
  ASSUME Counted, StartCheckCreatures
  PROVE  Counted'
<1>1. PICK w : w = Scene
  OBVIOUS
<1>2. Sane(w, NothingToRelease, w.summons, {}) /\ w.toAdd = toAddCheck
  BY <1>1, Begins
<1>3. PICK v : v = WithAdd(w, {})
  OBVIOUS
<1>4. w \in SceneType /\ {} \in SUBSET Breathing
  BY <1>2 DEF Sane
<1>5. /\ v \in SceneType /\ v.b = w.b /\ v.summons = w.summons /\ v.spawned = w.spawned /\ v.event = w.event
      /\ v.toAdd = {} /\ v.free = w.free /\ v.lost = w.lost
  BY <1>3, <1>4, WithAddIs
<1>6. Become(v) /\ checkVectors' = checkVectors \cup w.toAdd
  BY <1>1, <1>2, <1>3 DEF StartCheckCreatures, WithAdd
<1>7. Scene' = v /\ summons' = v.summons
  BY <1>5, <1>6, Becomes
<1>8. ASSUME NEW c \in Breathing PROVE One(v, c, NothingToRelease[c], v.summons, {})'
  <2>1. One(w, c, NothingToRelease[c], w.summons, {})
    BY <1>2 DEF Sane
  <2> QED BY <1>5, <1>6, <2>1 DEF One, Present, NothingToRelease
<1>9. Sane(v, NothingToRelease, v.summons, {})'
  BY <1>2, <1>5, <1>8 DEF Sane, Watched, NothingToRelease
<1> QED BY <1>7, <1>9 DEF Counted

\* Who sleeps is taken out of the list; the list lets go of it later.
LEMMA UnlistedCounts ==
  ASSUME Counted, NEW c \in checkVectors, c \in Breathing, ~ being[c].checked,
         Become(freeThing([Scene EXCEPT !.b[c].listed = FALSE], c)), checkVectors' = checkVectors \ {c}
  PROVE  Counted'
<1>1. PICK w : w = Scene
  OBVIOUS
<1>2. Sane(w, NothingToRelease, w.summons, {}) /\ w.b = being
  BY <1>1, Begins
<1>3. /\ w \in SceneType /\ w.b[c] \in Being /\ One(w, c, NothingToRelease[c], w.summons, {}) /\ w.free[c] \in Nat
      /\ NothingToRelease[c] = 0
  BY <1>2, SaneFacts DEF NothingToRelease
<1>4. PICK r : r = Listed(w.b[c], FALSE)
  OBVIOUS
<1>5. PICK no \in BOOLEAN : no = FALSE
  OBVIOUS
<1>6. /\ r \in Being /\ r.refs = w.b[c].refs /\ r.placed = w.b[c].placed /\ r.removed = w.b[c].removed
      /\ r.health = w.b[c].health /\ r.master = w.b[c].master /\ r.isIdle = w.b[c].isIdle
      /\ r.checked = w.b[c].checked /\ ~ r.listed /\ r.spawn = w.b[c].spawn
  <2>1. PICK x : x = w.b[c]
    OBVIOUS
  <2>2. x \in Being /\ r = Listed(x, no)
    BY <1>3, <1>4, <1>5, <2>1
  <2>3. /\ r \in Being /\ r.refs = x.refs /\ r.placed = x.placed /\ r.removed = x.removed
        /\ r.health = x.health /\ r.master = x.master /\ r.isIdle = x.isIdle
        /\ r.checked = x.checked /\ r.listed = no /\ r.spawn = x.spawn
    BY <2>2, ListedIs
  <2> QED BY <1>5, <2>1, <2>3
<1>7. PICK u : u = With(w, c, r)
  OBVIOUS
<1>8. /\ u \in SceneType /\ u.b = [w.b EXCEPT ![c] = r] /\ u.summons = w.summons
      /\ u.spawned = w.spawned /\ u.event = w.event /\ u.toAdd = w.toAdd
      /\ u.free = w.free /\ u.lost = w.lost
  BY <1>3, <1>6, <1>7, WithIs
<1>9. PICK v : v = freeThing(u, c)
  OBVIOUS
<1>10. /\ v \in SceneType /\ v.b = [w.b EXCEPT ![c] = r] /\ v.summons = w.summons
       /\ v.spawned = w.spawned /\ v.event = w.event /\ v.toAdd = w.toAdd
       /\ v.free = [w.free EXCEPT ![c] = @ + 1] /\ v.lost = w.lost
  BY <1>8, <1>9, FreeThingIs
<1>11. v.b[c] = r /\ \A y \in Breathing : y # c => v.b[y] = w.b[y]
  BY <1>3, <1>10 DEF SceneType, Beings
<1>12. v.free[c] = w.free[c] + 1 /\ \A y \in Breathing : y # c => v.free[y] = w.free[y]
  BY <1>3, <1>10 DEF SceneType, Counts
<1>13. Become(v)
  <2>1. [Scene EXCEPT !.b[c].listed = FALSE] = u
    <3>1. [w.b[c] EXCEPT !.listed = FALSE] = r
      BY <1>4 DEF Listed
    <3> QED BY <1>1, <1>7, <3>1 DEF With
  <2> QED BY <1>9, <2>1
<1>14. Scene' = v /\ summons' = v.summons
  BY <1>10, <1>13, Becomes
<1>15. \A y \in Breathing : v.b[y].removed <=> w.b[y].removed
  BY <1>6, <1>11
<1>16. w.toAdd \cap checkVectors = {} /\ w.b[c].listed /\ c \notin w.toAdd
  BY <1>2, <1>3 DEF Sane, One
<1>17. ASSUME NEW y \in Breathing PROVE One(v, y, NothingToRelease[y], v.summons, {})'
  <2>1. One(w, y, NothingToRelease[y], w.summons, {})
    BY <1>2 DEF Sane
  <2>2. w.b[y].master # NoCreature => w.b[y].master \in Breathing
    BY <1>3 DEF SceneType, Beings, Being
  <2>3. CASE y = c
    <3>1. Present(v, c) <=> Present(w, c)
      BY <1>6, <1>11 DEF Present
    <3>2. v.b[c] # Unborn \/ w.summons[c] = {}
      <4>1. w.b[c].refs > 0
        BY <1>3, <1>16 DEF One
      <4> QED BY <1>6, <1>11, <4>1, UnbornIs
    <3>3. r.refs = (IF Present(v, c) THEN 1 ELSE 0) + v.free[c] + (IF r.listed THEN 1 ELSE 0)
                   + (IF r.master # NoCreature THEN 1 ELSE 0)
                   + (IF r.spawn # NoLair /\ v.spawned[r.spawn] = c THEN 1 ELSE 0) + 0
      <4>1. w.b[c].refs = (IF Present(w, c) THEN 1 ELSE 0) + w.free[c] + 1
                   + (IF w.b[c].master # NoCreature THEN 1 ELSE 0)
                   + (IF w.b[c].spawn # NoLair /\ w.spawned[w.b[c].spawn] = c THEN 1 ELSE 0) + 0
        BY <1>3, <1>16 DEF One
      <4> QED BY <1>3, <1>6, <1>10, <1>12, <3>1, <4>1
    <3>4. c \notin v.toAdd \cup checkVectors'
      BY <1>10, <1>16
    <3>5. r.master # NoCreature => (v.b[r.master].removed <=> w.b[r.master].removed)
      BY <1>6, <1>15, <2>2, <2>3
    <3> QED BY <1>2, <1>3, <1>6, <1>10, <1>11, <2>1, <2>3, <3>1, <3>2, <3>3, <3>4, <3>5 DEF One, NothingToRelease
  <2>4. CASE y # c
    <3>1. v.b[y] = w.b[y] /\ v.free[y] = w.free[y] /\ (Present(v, y) <=> Present(w, y))
      BY <1>11, <1>12, <2>4 DEF Present
    <3>2. y \in v.toAdd \cup checkVectors' <=> y \in w.toAdd \cup checkVectors
      BY <1>10, <2>4
    <3>3. w.b[y].master # NoCreature => (v.b[w.b[y].master].removed <=> w.b[w.b[y].master].removed)
      BY <1>15, <2>2
    <3> QED BY <1>10, <2>1, <3>1, <3>2, <3>3 DEF One, NothingToRelease
  <2> QED BY <2>3, <2>4
<1>18. Watched(v)'
  <2>1. Watched(w)
    BY <1>2 DEF Sane
  <2>2. \A s \in Lairs : w.spawned[s] # NoCreature => w.spawned[s] \in Breathing
    BY <1>3, BreathingFacts DEF SceneType, Places
  <2> QED BY <1>10, <1>15, <2>1, <2>2 DEF Watched
<1>19. Sane(v, NothingToRelease, v.summons, {})'
  <2>1. v.toAdd \cap checkVectors' = {}
    BY <1>10, <1>16
  <2>2. v.summons \in Herds /\ NothingToRelease \in Counts
    BY <1>2, <1>10 DEF Sane
  <2> QED BY <1>10, <1>17, <1>18, <2>1, <2>2 DEF Sane, NothingToRelease
<1> QED BY <1>14, <1>19 DEF Counted

LEMMA VisitCounts ==
  ASSUME Counted, turn \in SUBSET checkVectors, checkVectors \in SUBSET Breathing, VisitOne
  PROVE  Counted' /\ checkVectors' \in SUBSET Breathing /\ turn' \in SUBSET checkVectors'
<1>1. PICK c \in turn :
        /\ turn' = turn \ {c}
        /\ IF being[c].checked
           THEN /\ \/ ~ being[c].health /\ Become(onDeath(Scene, c))
                   \/ \E w \in Thought(Scene, c) : Become(w)
                /\ UNCHANGED checkVectors
           ELSE /\ Become(freeThing([Scene EXCEPT !.b[c].listed = FALSE], c))
                /\ checkVectors' = checkVectors \ {c}
  BY Zenon DEF VisitOne
<1>2. c \in checkVectors /\ c \in Breathing
  OBVIOUS
<1>3. PICK w : w = Scene
  OBVIOUS
<1>4. Sane(w, NothingToRelease, w.summons, {}) /\ w.b = being /\ w.summons = summons
  BY <1>3, Begins
<1>5. CASE ~ being[c].checked
  <2>1. Become(freeThing([Scene EXCEPT !.b[c].listed = FALSE], c)) /\ checkVectors' = checkVectors \ {c}
    BY <1>1, <1>5
  <2>2. Counted'
    BY <1>2, <1>5, <2>1, UnlistedCounts
  <2> QED BY <1>1, <2>1, <2>2
<1>6. CASE being[c].checked
  <2>1. UNCHANGED checkVectors /\ turn' \in SUBSET checkVectors /\ checkVectors' \in SUBSET Breathing
    BY <1>1, <1>6
  <2>2. being[c].listed /\ being[c].placed /\ ~ being[c].removed
    <3>1. One(w, c, 0, w.summons, {}) /\ w.free[c] \in Nat
      BY <1>2, <1>4, SaneFacts DEF NothingToRelease
    <3>2. w.b[c].listed /\ ~ w.b[c].removed
      BY <1>4, <1>6, <3>1 DEF One
    <3>3. w.b[c].refs > 0
      BY <3>1, <3>2 DEF One
    <3> QED BY <1>4, <3>1, <3>2, <3>3 DEF One
  <2>3. ASSUME Become(onDeath(Scene, c)) PROVE Counted'
    BY <1>2, <2>1, <2>2, <2>3, DeathCounts
  <2>4. ASSUME NEW v \in Thought(Scene, c), Become(v) PROVE Counted'
    <3>1. \/ v = w
          \/ c # Hunter /\ v = setIdle(removeCreature(w, c), c, TRUE)
          \/ \E idle \in BOOLEAN : v = setIdle(w, c, idle)
          \/ w.b[c].master = NoCreature /\ \E s \in Free(w), room \in BOOLEAN : v = placeSummon(w, c, s, room, FALSE)
      BY <1>3, <2>4 DEF Thought
    <3>2. ASSUME v = w PROVE Counted'
      BY <1>4, <2>1, <2>4, <3>2, StaysCounted
    <3>3. ASSUME v = setIdle(removeCreature(w, c), c, TRUE) PROVE Counted'
      <4>1. Become(setIdle(removeCreature(Scene, c), c, TRUE))
        BY <1>3, <2>4, <3>3
      <4> QED BY <1>2, <2>1, <2>2, <4>1, DespawnCounts
    <3>4. ASSUME NEW idle \in BOOLEAN, v = setIdle(w, c, idle) PROVE Counted'
      <4>1. Become(setIdle(Scene, c, idle))
        BY <1>3, <2>4, <3>4
      <4> QED BY <1>2, <2>1, <2>2, <4>1, IdlingCounts
    <3>5. ASSUME w.b[c].master = NoCreature, NEW s \in Free(w), NEW room \in BOOLEAN,
                 v = placeSummon(w, c, s, room, FALSE)
          PROVE  Counted'
      <4>1. Become(placeSummon(Scene, c, s, room, FALSE)) /\ s \in Free(Scene) /\ being[c].master = NoCreature
        BY <1>3, <1>4, <2>4, <3>5
      <4> QED BY <1>2, <2>1, <2>2, <4>1, SummonCounts
    <3> QED BY <3>1, <3>2, <3>3, <3>4, <3>5
  <2>5. Counted'
    BY <1>1, <1>6, <2>3, <2>4
  <2> QED BY <2>1, <2>5
<1> QED BY <1>5, <1>6

\* The creatures are counted, and those to be visited are of the list.
CreaturesSane ==
  /\ Counted
  /\ checkVectors \in SUBSET Breathing /\ turn \in SUBSET checkVectors
  /\ checking \in BOOLEAN /\ deeds \in 0 .. MaxDeeds

LEMMA DeedIs ==
  ASSUME Deed, deeds \in 0 .. MaxDeeds
  PROVE  UNCHANGED <<checkVectors, turn, checking>> /\ deeds' \in 0 .. MaxDeeds
BY CreaturesAssumption DEF Deed, NotChecking

LEMMA CreaturesStep ==
  ASSUME CreaturesSane, [CreaturesNext]_creatureVars
  PROVE  CreaturesSane'
<1> USE DEF CreaturesSane
<1>1. CASE StartCheckCreatures
  <2>1. toAddCheck \in SUBSET Breathing
    <3>1. PICK w : w = Scene
      OBVIOUS
    <3>2. w \in SceneType /\ w.toAdd = toAddCheck
      BY <3>1, Begins DEF Sane
    <3> QED BY <3>2 DEF SceneType
  <2>2. checkVectors' \in SUBSET Breathing /\ turn' \in SUBSET checkVectors' /\ checking' \in BOOLEAN /\ deeds' = deeds
    BY <1>1, <2>1 DEF StartCheckCreatures
  <2> QED BY <1>1, <2>2, StartCounts
<1>2. CASE VisitOne
  <2>1. checking' \in BOOLEAN /\ deeds' = deeds
    BY <1>2 DEF VisitOne
  <2> QED BY <1>2, <2>1, VisitCounts
<1>3. CASE EndCheckCreatures
  <2>1. checkVectors' = checkVectors /\ turn' = turn /\ checking' \in BOOLEAN /\ deeds' = deeds /\ Become(Cleaned(Scene))
    BY <1>3 DEF EndCheckCreatures
  <2> QED BY <2>1, CleaningCounts
<1>4. CASE checkSpawn
  <2>1. checkVectors' = checkVectors /\ turn' = turn /\ checking' = checking /\ deeds' = deeds
    BY <1>4 DEF checkSpawn, NotChecking
  <2> QED BY <1>4, <2>1, SpawnCounts
<1>5. CASE cleanupThings
  <2>1. checkVectors' = checkVectors /\ turn' = turn /\ checking' = checking /\ deeds' = deeds /\ Become(Cleaned(Scene))
    BY <1>5 DEF cleanupThings, NotChecking
  <2> QED BY <2>1, CleaningCounts
<1>6. ASSUME NEW c \in Beasts, LookAround(c) PROVE CreaturesSane'
  <2>1. UNCHANGED <<checkVectors, turn, checking>> /\ deeds' \in 0 .. MaxDeeds
    BY <1>6, DeedIs DEF LookAround
  <2>2. c \in Breathing /\ being[c].placed
    BY <1>6, BreathingFacts DEF LookAround, Present, Scene
  <2>3. PICK idle \in BOOLEAN : Become(setIdle(Scene, c, idle))
    BY <1>6 DEF LookAround
  <2> QED BY <2>1, <2>2, <2>3, IdlingCounts
<1>7. ASSUME NEW c \in Beasts, Hurt(c) PROVE CreaturesSane'
  <2>1. UNCHANGED <<checkVectors, turn, checking>> /\ deeds' \in 0 .. MaxDeeds
    BY <1>7, DeedIs DEF Hurt
  <2>2. c \in Breathing /\ being[c].placed
    BY <1>7, BreathingFacts DEF Hurt, Present, Scene
  <2>3. PICK alive \in BOOLEAN : Become(changeHealth(Scene, c, alive))
    BY <1>7 DEF Hurt
  <2> QED BY <2>1, <2>2, <2>3, HurtCounts
<1>8. ASSUME NEW c \in Beasts, HunterSummons(c) PROVE CreaturesSane'
  <2>1. UNCHANGED <<checkVectors, turn, checking>> /\ deeds' \in 0 .. MaxDeeds
    BY <1>8, DeedIs DEF HunterSummons
  <2>2. Hunter \in Breathing /\ being[Hunter].placed /\ ~ being[Hunter].removed /\ c \in Free(Scene)
    BY <1>8, BreathingFacts DEF HunterSummons, Present, Scene
  <2>3. being[Hunter].master = NoCreature
    <3>1. PICK w : w = Scene
      OBVIOUS
    <3> QED BY <3>1, Begins, Masterless
  <2>4. PICK room \in BOOLEAN : Become(placeSummon(Scene, Hunter, c, room, FALSE))
    BY <1>8 DEF HunterSummons
  <2> QED BY <2>1, <2>2, <2>3, <2>4, SummonCounts
<1>9. ASSUME NEW c \in Beasts, convinceCreature(c) PROVE CreaturesSane'
  <2>1. UNCHANGED <<checkVectors, turn, checking>> /\ deeds' \in 0 .. MaxDeeds
    BY <1>9, DeedIs DEF convinceCreature
  <2> QED BY <1>9, <2>1, ConvictionCounts
<1>10. ASSUME NEW c \in Breathing, doRemoveCreature(c) PROVE CreaturesSane'
  <2>1. UNCHANGED <<checkVectors, turn, checking>> /\ deeds' \in 0 .. MaxDeeds
    BY <1>10, DeedIs DEF doRemoveCreature
  <2>2. being[c].placed /\ Become(removeCreature(Scene, c))
    BY <1>10 DEF doRemoveCreature, Present, Scene
  <2> QED BY <2>1, <2>2, RemovalCounts
<1>11. CASE UNCHANGED creatureVars
  BY <1>11 DEF creatureVars, Counted, Sane, One, Watched, Scene, Present, NothingToRelease
<1> QED BY <1>1, <1>2, <1>3, <1>4, <1>5, <1>6, <1>7, <1>8, <1>9, <1>10, <1>11 DEF CreaturesNext

LEMMA CreaturesStart ==
  ASSUME CreaturesInit
  PROVE  CreaturesSane
<1>1. PICK home : home = CHOOSE f \in [Lairs -> Beasts] : IsInjective(f)
  OBVIOUS
<1>2. home \in [Lairs -> Beasts] /\ \A s, t \in Lairs : home[s] = home[t] => s = t
  <2>1. home \in [Lairs -> Beasts] /\ IsInjective(home)
    BY <1>1, CreaturesAssumption
  <2> QED BY <2>1 DEF IsInjective
<1>3. PICK p : p = [createMonster EXCEPT !.refs = 2, !.placed = TRUE, !.isIdle = FALSE, !.checked = TRUE, !.listed = TRUE]
  OBVIOUS
<1>4. /\ p \in Being /\ p.refs = 2 /\ p.placed /\ ~ p.removed /\ p.health /\ p.master = NoCreature /\ ~ p.isIdle
      /\ p.checked /\ p.listed /\ p.spawn = NoLair
  <2>1. p = [refs |-> 2, placed |-> TRUE, removed |-> FALSE, health |-> TRUE, master |-> NoCreature,
             isIdle |-> FALSE, checked |-> TRUE, listed |-> TRUE, spawn |-> NoLair]
    BY <1>3 DEF createMonster, Unborn
  <2> QED BY <2>1 DEF Being
<1>5. /\ spawnedMap = home
      /\ being = [c \in Breathing |->
           IF c = Hunter THEN p
           ELSE IF \E s \in Lairs : home[s] = c
           THEN [createMonster EXCEPT !.refs = 2, !.placed = TRUE, !.spawn = CHOOSE s \in Lairs : home[s] = c]
           ELSE Unborn]
      /\ summons = [c \in Breathing |-> {}] /\ checkSpawnEvent = FALSE /\ unwatched = {}
      /\ toAddCheck = {Hunter} /\ checkVectors = {} /\ turn = {} /\ checking = FALSE
      /\ releaseList = NothingToRelease /\ deeds = 0
  BY <1>1, <1>3, Zenon DEF CreaturesInit
<1>6. being[Hunter] = p
  BY <1>5, BreathingFacts
<1>7. ASSUME NEW s \in Lairs
      PROVE  LET r == being[home[s]]
             IN  /\ r \in Being /\ r.refs = 2 /\ r.placed /\ ~ r.removed /\ r.health /\ r.master = NoCreature
                 /\ r.isIdle /\ ~ r.checked /\ ~ r.listed /\ r.spawn = s
  <2>1. PICK c : c = home[s]
    OBVIOUS
  <2>2. c \in Breathing /\ c # Hunter
    BY <1>2, <2>1, BreathingFacts
  <2>3. (CHOOSE x \in Lairs : home[x] = c) = s
    BY <1>2, <2>1
  <2>4. being[c] = [createMonster EXCEPT !.refs = 2, !.placed = TRUE, !.spawn = CHOOSE x \in Lairs : home[x] = c]
    BY <1>5, <2>1, <2>2
  <2>5. being[c] = [createMonster EXCEPT !.refs = 2, !.placed = TRUE, !.spawn = s]
    BY <2>3, <2>4
  <2>6. PICK r : r = being[c]
    OBVIOUS
  <2>7. /\ r \in Being /\ r.refs = 2 /\ r.placed /\ ~ r.removed /\ r.health /\ r.master = NoCreature
        /\ r.isIdle /\ ~ r.checked /\ ~ r.listed /\ r.spawn = s
    <3>1. r = [refs |-> 2, placed |-> TRUE, removed |-> FALSE, health |-> TRUE, master |-> NoCreature,
               isIdle |-> TRUE, checked |-> FALSE, listed |-> FALSE, spawn |-> s]
      BY <2>5, <2>6 DEF createMonster, Unborn
    <3> QED BY <3>1 DEF Being
  <2> QED BY <2>1, <2>6, <2>7
<1>8. \A c \in Breathing : c # Hunter /\ (\A s \in Lairs : home[s] # c) => being[c] = Unborn
  BY <1>5
<1>9. PICK w : w = Scene
  OBVIOUS
<1>10. /\ w.b = being /\ w.summons = summons /\ w.spawned = home /\ w.event = FALSE
       /\ w.toAdd = {Hunter} /\ w.free = NothingToRelease /\ w.lost = {}
  BY <1>5, <1>9 DEF Scene
<1>11. being \in Beings
  <2>1. ASSUME NEW c \in Breathing PROVE being[c] \in Being
    <3>1. CASE c = Hunter
      BY <1>4, <1>6, <3>1
    <3>2. CASE \E s \in Lairs : home[s] = c
      BY <1>7, <3>2
    <3>3. CASE c # Hunter /\ \A s \in Lairs : home[s] # c
      BY <1>8, <3>3, UnbornIs
    <3> QED BY <3>1, <3>2, <3>3
  <2>2. being = [c \in Breathing |-> being[c]]
    BY <1>5
  <2> QED BY <2>1, <2>2 DEF Beings
<1>12. NothingToRelease \in Counts /\ summons \in Herds /\ home \in Places /\ {Hunter} \in SUBSET Breathing
  BY <1>2, <1>5, BreathingFacts DEF NothingToRelease, Counts, Herds, Places
<1>13. w \in SceneType
  <2> DEFINE A == Beings
             B == Herds
             C == Places
             D == SUBSET Breathing
             E == Counts
             F == SUBSET Lairs
             R == [b : A, summons : B, spawned : C, event : BOOLEAN, toAdd : D, free : E, lost : F]
  <2>1. being \in A /\ summons \in B /\ spawnedMap \in C /\ checkSpawnEvent \in BOOLEAN /\ toAddCheck \in D
        /\ releaseList \in E /\ unwatched \in F
    BY <1>5, <1>11, <1>12
  <2> HIDE DEF A, B, C, D, E, F
  <2>2. w \in R
    BY <1>9, <2>1 DEF Scene
  <2> QED BY <2>2 DEF SceneType, A, B, C, D, E, F
<1>14. ASSUME NEW c \in Breathing PROVE One(w, c, 0, w.summons, {})
  <2>1. PICK r : r = w.b[c]
    OBVIOUS
  <2>2. /\ c # NoCreature /\ NoLair \notin Lairs /\ Hunter \notin Beasts /\ NoCreature \notin Breathing
        /\ w.free[c] = 0 /\ \A m \in Breathing : w.summons[m] = {}
    BY <1>5, <1>10, BreathingFacts DEF NothingToRelease
  <2>3. CASE c = Hunter
    <3>1. r = p /\ Present(w, c) /\ \A s \in Lairs : home[s] # c
      BY <1>2, <1>4, <1>6, <1>10, <2>1, <2>2, <2>3 DEF Present
    <3>2. /\ w.b[c] = p /\ w.free[c] = 0 /\ c \in w.toAdd /\ p # Unborn
          /\ \A m \in Breathing : w.summons[m] = {} /\ p.master # m
      BY <1>4, <1>10, <2>1, <2>2, <2>3, <3>1, UnbornIs
    <3>3. p.refs = (IF Present(w, c) THEN 1 ELSE 0) + w.free[c] + (IF p.listed THEN 1 ELSE 0)
                   + (IF p.master # NoCreature THEN 1 ELSE 0)
                   + (IF p.spawn # NoLair /\ w.spawned[p.spawn] = c THEN 1 ELSE 0) + 0
      BY <1>4, <3>1, <3>2
    <3> QED BY <1>4, <1>5, <1>10, <2>2, <2>3, <3>1, <3>2, <3>3 DEF One
  <2>4. ASSUME NEW s \in Lairs, home[s] = c PROVE One(w, c, 0, w.summons, {})
    <3>1. /\ r \in Being /\ r.refs = 2 /\ r.placed /\ ~ r.removed /\ r.health /\ r.master = NoCreature
          /\ r.isIdle /\ ~ r.checked /\ ~ r.listed /\ r.spawn = s
      BY <1>7, <1>10, <2>1, <2>4
    <3>2. Present(w, c) /\ c # Hunter /\ \A t \in Lairs : home[t] = c => t = s
      BY <1>2, <2>1, <2>2, <2>4, <3>1 DEF Present
    <3>3. /\ w.b[c] = r /\ w.free[c] = 0 /\ c \notin w.toAdd /\ r # Unborn /\ s # NoLair
          /\ \A m \in Breathing : w.summons[m] = {} /\ r.master # m
      BY <1>10, <2>1, <2>2, <3>1, <3>2, UnbornIs
    <3>4. r.refs = (IF Present(w, c) THEN 1 ELSE 0) + w.free[c] + (IF r.listed THEN 1 ELSE 0)
                   + (IF r.master # NoCreature THEN 1 ELSE 0)
                   + (IF r.spawn # NoLair /\ w.spawned[r.spawn] = c THEN 1 ELSE 0) + 0
      BY <1>10, <2>4, <3>1, <3>2, <3>3
    <3>5. checkVectors = {} /\ w.spawned = home
      BY <1>5, <1>10
    <3> QED BY <2>2, <2>4, <3>1, <3>2, <3>3, <3>4, <3>5 DEF One
  <2>5. CASE c # Hunter /\ \A s \in Lairs : home[s] # c
    <3>1. r = Unborn /\ ~ Present(w, c)
      BY <1>8, <1>10, <2>1, <2>5, UnbornIs DEF Present
    <3>2. /\ w.b[c] = r /\ w.free[c] = 0 /\ c \notin w.toAdd
          /\ \A m \in Breathing : w.summons[m] = {} /\ r.master # m
      BY <1>10, <2>1, <2>2, <2>5, <3>1, UnbornIs
    <3>3. r.refs = (IF Present(w, c) THEN 1 ELSE 0) + w.free[c] + (IF r.listed THEN 1 ELSE 0)
                   + (IF r.master # NoCreature THEN 1 ELSE 0)
                   + (IF r.spawn # NoLair /\ w.spawned[r.spawn] = c THEN 1 ELSE 0) + 0
      BY <3>1, <3>2, UnbornIs
    <3>4. checkVectors = {} /\ w.spawned = home
      BY <1>5, <1>10
    <3>5. ~ r.checked /\ ~ r.listed /\ ~ r.removed /\ r.refs = 0 /\ r.master = NoCreature /\ r.spawn = NoLair
      BY <3>1, UnbornIs
    <3> QED BY <2>2, <2>5, <3>1, <3>2, <3>3, <3>4, <3>5 DEF One
  <2> QED BY <2>3, <2>4, <2>5
<1>15. Watched(w)
  BY <1>2, <1>7, <1>10, BreathingFacts DEF Watched
<1>16. Sane(w, NothingToRelease, w.summons, {})
  <2>1. \A c \in Breathing : One(w, c, NothingToRelease[c], w.summons, {})
    BY <1>14 DEF NothingToRelease
  <2> QED BY <1>5, <1>10, <1>12, <1>13, <1>15, <2>1 DEF Sane
<1>17. Counted
  BY <1>9, <1>10, <1>16 DEF Counted
<1>18. checkVectors \in SUBSET Breathing /\ turn \in SUBSET checkVectors /\ checking \in BOOLEAN
  BY <1>5
<1>19. deeds \in 0 .. MaxDeeds
  <2>1. deeds = 0
    BY <1>5
  <2>2. MaxDeeds \in Nat
    BY CreaturesAssumption
  <2> QED BY <2>1, <2>2
<1> QED BY <1>17, <1>18, <1>19 DEF CreaturesSane

\* What is counted is as many as there are.
LEMMA OfOne ==
  ASSUME NEW S, NEW x, S \subseteq {x}
  PROVE  Cardinality(S) = IF x \in S THEN 1 ELSE 0
<1>1. CASE x \in S
  <2>1. S = {x}
    BY <1>1
  <2> QED BY <1>1, <2>1, FS_Singleton
<1>2. CASE x \notin S
  <2>1. S = {}
    BY <1>2
  <2> QED BY <1>2, <2>1, FS_EmptySet
<1> QED BY <1>1, <1>2

LEMMA CountedIsKept ==
  ASSUME CreaturesSane
  PROVE  CreaturesKept
<1>1. PICK w : w = Scene
  OBVIOUS
<1>2. /\ Sane(w, NothingToRelease, w.summons, {}) /\ w.b = being /\ w.summons = summons /\ w.spawned = spawnedMap
      /\ w.event = checkSpawnEvent /\ w.toAdd = toAddCheck /\ w.free = releaseList /\ w.lost = unwatched
  BY <1>1, Begins DEF CreaturesSane
<1>3. /\ being \in Beings /\ summons \in Herds /\ spawnedMap \in Places /\ checkSpawnEvent \in BOOLEAN
      /\ toAddCheck \in SUBSET Breathing /\ releaseList \in Counts /\ unwatched \in SUBSET Lairs
  BY <1>2 DEF Sane, SceneType
<1>4. \A c \in Breathing : One(w, c, 0, summons, {}) /\ c # NoCreature /\ being[c] \in Being
  BY <1>2, <1>3, BreathingFacts DEF Sane, NothingToRelease, Beings
<1>5. ASSUME NEW c \in Breathing
      PROVE  /\ Cardinality({m \in Breathing : c \in summons[m]}) = IF being[c].master # NoCreature THEN 1 ELSE 0
             /\ Cardinality({s \in Lairs : spawnedMap[s] = c})
                  = IF being[c].spawn # NoLair /\ spawnedMap[being[c].spawn] = c THEN 1 ELSE 0
  <2>1. /\ \A m \in Breathing : c \in summons[m] <=> being[c].master = m
        /\ \A s \in Lairs : spawnedMap[s] = c => being[c].spawn = s
    BY <1>2, <1>4 DEF One
  <2>2. /\ being[c].master \in Breathing <=> being[c].master # NoCreature
        /\ being[c].spawn \in Lairs <=> being[c].spawn # NoLair
    BY <1>4, BreathingFacts DEF Being
  <2>3. PICK M : M = {m \in Breathing : c \in summons[m]}
    OBVIOUS
  <2>4. PICK S : S = {s \in Lairs : spawnedMap[s] = c}
    OBVIOUS
  <2>5. M \subseteq {being[c].master} /\ (being[c].master \in M <=> being[c].master # NoCreature)
    BY <2>1, <2>2, <2>3
  <2>6. S \subseteq {being[c].spawn} /\ (being[c].spawn \in S <=> being[c].spawn # NoLair /\ spawnedMap[being[c].spawn] = c)
    BY <2>1, <2>2, <2>4
  <2>7. Cardinality(M) = IF being[c].master \in M THEN 1 ELSE 0
    BY <2>5, OfOne
  <2>8. Cardinality(S) = IF being[c].spawn \in S THEN 1 ELSE 0
    BY <2>6, OfOne
  <2> QED BY <2>3, <2>4, <2>5, <2>6, <2>7, <2>8
<1>6. CreaturesCounted
  <2> SUFFICES ASSUME NEW c \in Breathing
      PROVE  /\ being[c].refs = (IF Present(Scene, c) THEN 1 ELSE 0) + releaseList[c]
                                + (IF being[c].listed THEN 1 ELSE 0)
                                + Cardinality({m \in Breathing : c \in summons[m]})
                                + Cardinality({s \in Lairs : spawnedMap[s] = c})
             /\ \A m \in Breathing : c \in summons[m] <=> being[c].master = m
             /\ being[c].listed <=> c \in toAddCheck \cup checkVectors
    BY DEF CreaturesCounted
  <2>1. One(w, c, 0, summons, {})
    BY <1>4
  <2>2. being[c].refs = (IF Present(w, c) THEN 1 ELSE 0) + releaseList[c]
                        + (IF being[c].listed THEN 1 ELSE 0)
                        + (IF being[c].master # NoCreature THEN 1 ELSE 0)
                        + (IF being[c].spawn # NoLair /\ spawnedMap[being[c].spawn] = c THEN 1 ELSE 0) + 0
    BY <1>2, <2>1 DEF One
  <2>3. releaseList[c] \in Nat
    BY <1>3 DEF Counts
  <2> QED BY <1>1, <1>2, <1>5, <2>1, <2>2, <2>3 DEF One
<1>7. CreaturesTypeOK
  <2>1. ASSUME NEW c \in Breathing PROVE being[c].refs \in Nat
    <3>1. One(w, c, 0, summons, {}) /\ releaseList[c] \in Nat
      BY <1>3, <1>4 DEF Counts
    <3> QED BY <1>2, <3>1 DEF One
  <2>2. ASSUME NEW c \in Breathing
        PROVE  /\ {being[c].placed, being[c].removed, being[c].health, being[c].isIdle, being[c].checked,
                   being[c].listed} \subseteq BOOLEAN
               /\ being[c].master \in Breathing \cup {NoCreature} /\ being[c].spawn \in Lairs \cup {NoLair}
    BY <1>4 DEF Being
  <2>3. turn \in SUBSET Breathing /\ checkVectors \in SUBSET Breathing /\ checking \in BOOLEAN /\ deeds \in 0 .. MaxDeeds
    BY DEF CreaturesSane
  <2> QED BY <1>3, <2>1, <2>2, <2>3 DEF CreaturesTypeOK, Herds, Places, Counts
<1>8. NobodyForgotten
  <2>1. ASSUME NEW c \in Beasts, Present(Scene, c)
        PROVE  /\ ~ being[c].isIdle \/ ~ being[c].health => being[c].checked /\ being[c].listed
               /\ being[c].master # NoCreature => ~ being[being[c].master].removed
    <3>1. c \in Breathing /\ Present(w, c)
      BY <1>1, <2>1, BreathingFacts
    <3>2. One(w, c, 0, summons, {})
      BY <1>4, <3>1
    <3> QED BY <1>2, <3>1, <3>2 DEF One
  <2>2. Watched(w)
    BY <1>2 DEF Sane
  <2> QED BY <1>2, <2>1, <2>2 DEF NobodyForgotten, Watched
<1> QED BY <1>6, <1>7, <1>8 DEF CreaturesKept

\* However creatures are called, convinced, hurt, killed and removed, while the check lists are
\* walked or between, none is deleted while it is referred to or kept when it is not, who is
\* awake or dying is visited, summons go with their masters, and an empty place has its timer
\* (game.cpp, checkCreatures; creature.cpp, unRef and the summons; spawn.cpp, checkSpawn).
THEOREM CreaturesStayKept == CreaturesSpec => []CreaturesKept
<1>1. CreaturesInit => CreaturesSane
  BY CreaturesStart
<1>2. CreaturesSane /\ [CreaturesNext]_creatureVars => CreaturesSane'
  BY CreaturesStep
<1>3. CreaturesSane => CreaturesKept
  BY CountedIsKept
<1> QED BY <1>1, <1>2, <1>3, PTL DEF CreaturesSpec

=============================================================================
