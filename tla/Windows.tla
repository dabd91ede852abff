------------------------------ MODULE Windows -------------------------------
(***************************************************************************)
(* The containers players have open (source/player.cpp, game.cpp,          *)
(* actions.cpp, container.cpp, depot.cpp).                                 *)
(*                                                                         *)
(* A player keeps bare pointers to the containers open in the windows of   *)
(* the client.  Whatever takes a container out of reach, the walk of the   *)
(* player, the hands of others, decay, a depot that is not his, has to     *)
(* close its window and those of all it holds, before it is deleted.       *)
(*                                                                         *)
(* Abstractions.  Places lie on a line and all players are spectators of   *)
(* all of them.  Anything may move or remove a container.  What else is in *)
(* them, and the windows of those who watch a cast, are left out.          *)
(***************************************************************************)
EXTENDS Integers, FiniteSets, Lists

CONSTANTS
  People,
  Spots,          \* places, one step apart
  Lockers,        \* those with a locker
  Boxes,          \* containers
  Chest,          \* the depot of each player, one of them
  Chests,         \* the depots
  Cids,           \* the windows of a client
  Nowhere,        \* no parent
  MaxMoves        \* BOUND: what happens

ASSUME WindowsAssumption ==
  /\ Spots \subseteq Int /\ Lockers \subseteq Spots /\ MaxMoves \in Nat
  /\ Chests \subseteq Boxes /\ Chest \in [People -> Chests]
  /\ \A p, q \in People : Chest[p] = Chest[q] => p = q
  /\ Boxes \cap (Spots \cup People \cup {Nowhere}) = {} /\ People \cap Spots = {}
  /\ Nowhere \notin Spots \cup People

VARIABLES
  parent,         \* of each container
  at,             \* where each player is
  containerVec,   \* of each player: the windows with the containers in them
  windows,        \* of each player: what the client shows in its windows
  doubled,        \* history: players who had one container in two windows
  moves           \* BOUND

windowVars == <<parent, at, containerVec, windows, doubled, moves>>

\* The containers c is in, itself included: the fewest that hold with each box the box
\* it is in.  And the outermost one.
Around(par, c) ==
  {b \in Boxes : \A S \in SUBSET Boxes :
     c \in S /\ {par[d] : d \in S} \cap Boxes \subseteq S => b \in S}
Outermost(par, c) == CHOOSE d \in Around(par, c) : par[d] \notin Boxes
Holder(par, c) == par[Outermost(par, c)]
Removed(par, c) == Holder(par, c) = Nowhere

Near(s, t) == s - t \in -1..1
InReach(par, p, c) ==
  LET h == Holder(par, c) IN h # Nowhere /\ Near(IF h \in People THEN at[h] ELSE h, at[p])

OpenIn(vec, c) == {vec[k][1] : k \in {n \in DOMAIN vec : vec[n][2] = c}}
getContainer(vec, cid) == {vec[k][2] : k \in {n \in DOMAIN vec : vec[n][1] = cid}}

\* addContainer: the window it was in, or a new one at the end.
addContainer(vec, cid, c) ==
  IF getContainer(vec, cid) # {}
  THEN [k \in DOMAIN vec |-> IF vec[k][1] = cid THEN <<cid, c>> ELSE vec[k]]
  ELSE Append(vec, <<cid, c>>)
closeContainer(vec, cid) == Picked(vec, {k \in DOMAIN vec : vec[k][1] # cid})

-----------------------------------------------------------------------------
(* Notifications.  W is what a player has open, on both sides.             *)

Open(p) == [vec |-> containerVec[p], shows |-> windows[p]]

onSendContainer(W, c) ==
  [W EXCEPT !.shows = [i \in Cids |-> IF i \in OpenIn(W.vec, c) THEN c ELSE @[i]]]

\* The windows of the containers of C, and of all that is in them or nowhere.
Shut(W, gone) ==
  [vec |-> Picked(W.vec, {k \in DOMAIN W.vec : W.vec[k][1] \notin gone}),
   shows |-> [i \in Cids |-> IF i \in gone THEN Nowhere ELSE W.shows[i]]]
Mutant_autoCloseContainers(par, W, C) == Shut(W, UNION {OpenIn(W.vec, c) : c \in C})
autoCloseContainers(par, W, C) ==
  Shut(W, {i \in Cids : \E d \in getContainer(W.vec, i), c \in C : c \in Around(par, d) \/ Removed(par, d)})

\* A container was taken from somewhere p is told of; par is where things are now.
PostRemove(par, p, W, c) ==
  LET o == Outermost(par, c)
      h == par[o]
  IN  IF ~ InReach(par, p, c) THEN autoCloseContainers(par, W, {c})
      ELSE IF h = p \/ (h \notin People /\ (o \in Chests => o = Chest[p]))
      THEN onSendContainer(W, c)
      ELSE autoCloseContainers(par, W, {c})

\* The owner is told of what is on him, the spectators of what is on a tile.
ToldOf(par, place) ==
  LET h == IF place \in Boxes THEN Holder(par, place) ELSE place
  IN  IF h \in People THEN {h} ELSE IF h = Nowhere THEN {} ELSE People

Moved(par, c) ==
  LET W2 == [p \in People |->
        LET W == IF p \in ToldOf(par, parent[c]) THEN PostRemove(par, p, Open(p), c) ELSE Open(p)
        IN  IF par[c] # Nowhere /\ p \in ToldOf(par, par[c]) THEN onSendContainer(W, c) ELSE W]
  IN  /\ parent' = par
      /\ containerVec' = [p \in People |-> W2[p].vec]
      /\ windows' = [p \in People |-> W2[p].shows]

-----------------------------------------------------------------------------
(* Actions.                                                                *)

Happens == moves < MaxMoves /\ moves' = moves + 1

Shows(p, W) == containerVec' = [containerVec EXCEPT ![p] = W.vec]
               /\ windows' = [windows EXCEPT ![p] = W.shows]
Doubles(p, vec) ==
  doubled' = IF \E c \in Boxes : Cardinality(OpenIn(vec, c)) > 1 THEN doubled \cup {p} ELSE doubled

\* The player uses a container: it is opened, or closed in the first window that has it.
Toggle(p, c, cid) ==
  LET vec == containerVec[p]
      first == vec[CHOOSE k \in DOMAIN vec : vec[k][2] = c /\ \A j \in 1..(k - 1) : vec[j][2] # c][1]
  IN  IF OpenIn(vec, c) # {}
      THEN /\ Shows(p, [vec |-> closeContainer(vec, first),
                        shows |-> [i \in Cids |-> IF i \in OpenIn(vec, c) THEN Nowhere
                                                  ELSE windows[p][i]]])
           /\ UNCHANGED doubled
      ELSE LET added == addContainer(vec, cid, c)
           IN  /\ Shows(p, onSendContainer([vec |-> added, shows |-> windows[p]], c))
               /\ Doubles(p, added)

Usable(p, c) ==
  \/ parent[c] = p
  \/ parent[c] \in Spots /\ Near(parent[c], at[p]) /\ c \notin Chests
  \/ parent[c] \in Boxes /\ OpenIn(containerVec[p], parent[c]) # {}

UseContainer(p, c, cid) ==
  /\ Happens /\ Usable(p, c)
  /\ Toggle(p, c, cid)
  /\ UNCHANGED <<parent, at>>

\* His depot is wherever he has used a locker last.
UseLocker(p, s, cid) ==
  /\ Happens /\ Near(s, at[p])
  /\ parent' = [parent EXCEPT ![Chest[p]] = s]
  /\ Toggle(p, Chest[p], cid)
  /\ UNCHANGED at

playerCloseContainer(p, cid) ==
  /\ Happens /\ windows[p][cid] # Nowhere
  /\ Shows(p, [vec |-> closeContainer(containerVec[p], cid), shows |-> [windows[p] EXCEPT ![cid] = Nowhere]])
  /\ UNCHANGED <<parent, at, doubled>>

playerMoveUpContainer(p, cid) ==
  /\ Happens
  /\ \E c \in getContainer(containerVec[p], cid) :
       /\ parent[c] \in Boxes
       /\ LET vec == addContainer(containerVec[p], cid, parent[c])
          IN  /\ Shows(p, [vec |-> vec, shows |-> [windows[p] EXCEPT ![cid] = parent[c]]])
              /\ Doubles(p, vec)
  /\ UNCHANGED <<parent, at>>

\* By a player, a script or the game.
MoveContainer(c, to) ==
  /\ Happens
  /\ c \notin Chests /\ parent[c] # Nowhere /\ to # parent[c]
  /\ to \in Boxes => c \notin Around(parent, to)
  /\ Moved([parent EXCEPT ![c] = to], c)
  /\ UNCHANGED <<at, doubled>>

\* Or made into something that is not a container; what it holds goes with it.
RemoveContainer(c) ==
  /\ Happens
  /\ c \notin Chests /\ parent[c] # Nowhere
  /\ Moved([parent EXCEPT ![c] = Nowhere], c)
  /\ UNCHANGED <<at, doubled>>

\* The player comes to another place, on foot or not: what is out of reach is closed.
PlayerMoved(p, s) ==
  /\ Happens /\ s # at[p]
  /\ at' = [at EXCEPT ![p] = s]
  /\ LET here(c) == LET h == Holder(parent, c) IN h = p \/ Near(s, IF h \in People THEN at[h] ELSE h)
         far == {c \in Boxes : OpenIn(containerVec[p], c) # {} /\ ~ here(c)}
     IN  Shows(p, autoCloseContainers(parent, Open(p), far))
  /\ UNCHANGED <<parent, doubled>>

-----------------------------------------------------------------------------
WindowsInit ==
  /\ parent \in [Boxes -> Spots \cup People \cup {Nowhere}]
  /\ \A c \in Boxes : parent[c] = Nowhere <=> c \in Chests
  /\ at \in [People -> Spots]
  /\ containerVec = [p \in People |-> <<>>]
  /\ windows = [p \in People |-> [i \in Cids |-> Nowhere]]
  /\ doubled = {} /\ moves = 0

WindowsNext ==
  \/ \E p \in People :
       \/ \E i \in Cids :
            \/ \E c \in Boxes : UseContainer(p, c, i)
            \/ \E s \in Lockers : UseLocker(p, s, i)
            \/ playerCloseContainer(p, i) \/ playerMoveUpContainer(p, i)
       \/ \E s \in Spots : PlayerMoved(p, s)
  \/ \E c \in Boxes : RemoveContainer(c) \/ \E to \in Spots \cup People \cup Boxes : MoveContainer(c, to)

WindowsSpec == WindowsInit /\ [][WindowsNext]_windowVars

-----------------------------------------------------------------------------
(* Properties.                                                             *)

WindowsTypeOK ==
  /\ parent \in [Boxes -> Spots \cup People \cup Boxes \cup {Nowhere}]
  /\ at \in [People -> Spots]
  /\ containerVec \in [People -> Seq(Cids \X Boxes)]
  /\ windows \in [People -> [Cids -> Boxes \cup {Nowhere}]]
  /\ doubled \subseteq People /\ moves \in 0..MaxMoves

\* What a player has open is there, within his reach, and neither on another player nor in
\* the depot of one, whoever moved it or what it is in, or moved him; each window is
\* listed once, and the client shows just these, unless one container was in two windows,
\* since closing it closes both and forgets one.
WindowsInReach ==
  /\ WindowsTypeOK
  /\ \A p \in People :
       LET vec == containerVec[p] IN
       /\ \A k \in DOMAIN vec :
            LET c == vec[k][2] o == Outermost(parent, c) IN
            /\ InReach(parent, p, c)
            /\ parent[o] \in People => parent[o] = p
            /\ o \in Chests => o = Chest[p]
       /\ p \in doubled \/
            \A i \in Cids : getContainer(vec, i) = {windows[p][i]} \ {Nowhere}
       /\ \A j, k \in DOMAIN vec : j # k => vec[j][1] # vec[k][1]
=============================================================================
