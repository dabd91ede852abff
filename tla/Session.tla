------------------------------ MODULE Session ------------------------------
(***************************************************************************)
(* Who plays which character: the protocol objects of the game connections *)
(* (source/protocolgame.cpp), the Player objects ("bodies") they log in,   *)
(* take over and leave, and the viewers of a cast (source/player.h).       *)
(* A body outlives its connection and a protocol its body, so both count   *)
(* references and drop them late.                                          *)
(*                                                                         *)
(* Everything but Arrive, SendLogout and Drop, which are the network       *)
(* thread's, runs on the dispatcher.  Its queue is kept for the tasks      *)
(* whose order matters here; all other game logic can come at any moment.  *)
(*                                                                         *)
(* Abstractions.  Account Manager characters, clones (ALLOW_CLONES, off in *)
(* config.lua) and GAMESTATE_SHUTDOWN (see Dispatcher) are left out;       *)
(* REPLACE_KICK_ON_LOGIN is on, as in config.lua.  References of messages  *)
(* on their way are not counted: see Connection.                           *)
(***************************************************************************)
EXTENDS WaitingList

CONSTANTS
  Account,     \* the account of each character
  Protocols,   \* ProtocolGame objects; an object is free again once deleted
  Watchers,    \* those of connections that ask for a cast
  Bodies,      \* Player objects, likewise
  MaxViewers,  \* 50 in the code
  MaxTasks,    \* BOUND of the model: the network adds to no longer queue
  Nil

ASSUME SessionAssumption ==
  /\ Nil \notin Protocols \cup Bodies \cup Names
  /\ IsFiniteSet(Protocols) /\ IsFiniteSet(Bodies)
  /\ Watchers \subseteq Protocols
  /\ MaxViewers \in Nat /\ MaxTasks \in Nat

VARIABLES
  gameState,      \* Game::gameState
  body,           \* the Player objects
  releaseThings,  \* how often each body is in Game::releaseThings
  castAutoList,   \* bodies that cast
  cSpectators,    \* the protocols of viewers, in the order of their ids
  conn,           \* the connection of each protocol, "none" when there is no protocol
  player,         \* ProtocolGame::player
  m_refCount,     \* Protocol::m_refCount
  character,      \* the name the first packet asked for
  m_taskList,     \* tasks of protocols in the queue of the dispatcher
  m_eventConnect, \* scheduled connects: whose, and after whose release
  down            \* "no", "crashed" or "hung": the end of the dispatcher thread

game == <<gameState, body, releaseThings, castAutoList, cSpectators, waitList>>
protocols == <<conn, player, m_refCount, character, m_taskList, m_eventConnect>>
vars == <<game, protocols, down>>

NoBody == [who |-> Nil, at |-> "none", refs |-> 0, client |-> Nil, isConnecting |-> FALSE,
           checked |-> FALSE, listed |-> FALSE]

Init ==
  /\ gameState = "normal"
  /\ body = [b \in Bodies |-> NoBody]
  /\ releaseThings = [b \in Bodies |-> 0]
  /\ castAutoList = {}
  /\ cSpectators = <<>>
  /\ waitList = <<>>
  /\ conn = [p \in Protocols |-> "none"]
  /\ player = [p \in Protocols |-> Nil]
  /\ m_refCount = [p \in Protocols |-> 0]
  /\ character = [p \in Protocols |-> Nil]
  /\ m_taskList = <<>>
  /\ m_eventConnect = {}
  /\ down = "no"

-----------------------------------------------------------------------------
(* The lists of the game.                                                  *)

Online == {b \in Bodies : body[b].at = "placed"}            \* Player::autoList
getPlayersByName(n) == {b \in Online : body[b].who = n}
getPlayersByAccount(n) == {b \in Online : Account[body[b].who] = Account[n]}
Viewers(b) == {i \in DOMAIN cSpectators : player[cSpectators[i]] = b}
Without(v) == Picked(cSpectators, {i \in DOMAIN cSpectators : cSpectators[i] # v})

Mutant_Freed(gone) == releaseThings    \* the reference of the map is never given back
\* freeThing() of a set of bodies.
Freed(gone) == [b \in Bodies |-> releaseThings[b] + IF b \in gone THEN 1 ELSE 0]

\* Game::cleanup() of what is in `things`: each entry is one reference less.
Cleaned(bodies, things) ==
  [b \in Bodies |-> IF things[b] > 0 /\ bodies[b].refs = things[b] THEN NoBody
                    ELSE [bodies[b] EXCEPT !.refs = @ - things[b]]]
cleanup(bodies, things) ==
  /\ body' = Cleaned(bodies, things)
  /\ releaseThings' = [b \in Bodies |-> 0]

\* removeList() takes a body off castAutoList too.
StillCasting(gone) == castAutoList \ gone

\* removeCreature(): off the map and the lists.  The reference of the map goes
\* through freeThing, that of the check vector later.  checkCreatures() ends with
\* a cleanup() of its own.
Removed(gone, inCheck) ==
  LET bodies == [b \in Bodies |->
                   IF b \in gone THEN [body[b] EXCEPT !.at = "removed", !.checked = FALSE]
                   ELSE body[b]]
  IN  /\ IF inCheck THEN cleanup(bodies, Freed(gone))
         ELSE body' = bodies /\ releaseThings' = Freed(gone)
      /\ castAutoList' = StillCasting(gone)

Task(kind, p) == [do |-> kind, by |-> p]

\* Connection::close() of a sequence of protocols, with `tl` the queue so far:
\* each open one has its closeConnection queued.
Closing(ps, tl) ==
  /\ conn' = [p \in Protocols |-> IF p \in ToSet(ps) /\ conn[p] = "open"
                                  THEN "closing" ELSE conn[p]]
  /\ LET open == Picked(ps, {i \in DOMAIN ps : ps[i] # Nil /\ conn[ps[i]] = "open"})
     IN  m_taskList' = tl \o [i \in DOMAIN open |-> Task("close", open[i])]

\* A retry of releaseProtocol of p would change something.
Releasable(p) == conn[p] = "closed" /\ (m_refCount[p] = 0 \/ \E b \in Bodies : body[b].client = p)

Serving(kind, p) ==
  /\ down = "no"
  /\ m_taskList # <<>>
  /\ Head(m_taskList) = Task(kind, p)
Rest == Tail(m_taskList)

-----------------------------------------------------------------------------
(* kickCastViewers() walks cSpectators while it erases from it: after an   *)
(* entry of its own it starts again at the second entry, after another's   *)
(* it steps twice.  Stepping beyond the end is undefined: the walk stops,  *)
(* or, in a build with libstdc++, never does.                              *)

\* The next entry of b the walk meets from `at` on; 0 if there is none.
Met(l, b, at) ==
  LET own == {i \in at .. Len(l) : (i - at) % 2 = 0 /\ player[l[i]] = b}
  IN  IF own = {} THEN 0 ELSE Min(own)

\* The walk after it has erased k entries: what is left and where it stands.
Walk(l0, b) ==
  LET walk[k \in 0 .. Len(l0)] ==
        IF k = 0 THEN [l |-> l0, at |-> 1]
        ELSE LET w == walk[k - 1]
                 i == Met(w.l, b, w.at)
             IN  IF i = 0 THEN w ELSE [l |-> RemoveAt(w.l, i), at |-> 2]
  IN  walk[Len(l0)]

\* From w.at the end, Len + 1, is reached in steps of two, or stepped over.
Overruns(w) == w.at > Len(w.l) + 1 \/ (Len(w.l) + 1 - w.at) % 2 = 1

\* kickCastViewers() of one body after another.
KickedFrom(bs) ==
  LET kicked[k \in 0 .. Len(bs)] ==
        IF k = 0 THEN [l |-> cSpectators, overrun |-> FALSE]
        ELSE LET r == kicked[k - 1]
                 w == Walk(r.l, bs[k])
             IN  [l |-> w.l, overrun |-> r.overrun \/ Overruns(w)]
  IN  kicked[Len(bs)]

\* The viewers of the bodies bs are kicked, then the protocols ps disconnected;
\* the viewers that are met are disconnected and lose their reference.
KickAndClose(bs, ps, tl) ==
  LET r == KickedFrom(bs)
      kicked == Picked(cSpectators, {i \in DOMAIN cSpectators : ~Contains(r.l, cSpectators[i])})
  IN  /\ cSpectators' = r.l
      /\ m_refCount' = [p \in Protocols |->
                          m_refCount[p] - IF Contains(kicked, p) THEN 1 ELSE 0]
      /\ Closing(kicked \o ps, tl)
MayHang(bs) == KickedFrom(bs).overrun

Hang(bs) ==
  /\ MayHang(bs)
  /\ down' = "hung"
  /\ UNCHANGED <<game, protocols>>

-----------------------------------------------------------------------------
(* The network thread.                                                     *)

\* A connection is accepted and its first packet parsed.  Account and password
\* are right; a cast is looked up here.  BOUND of the model: cleanup() keeps up
\* with the bodies.
Arrive(p, n) ==
  /\ down = "no"
  /\ Len(m_taskList) < MaxTasks
  /\ \A b \in Bodies : releaseThings[b] = 0
  /\ conn[p] = "none"
  /\ p \in Watchers => \E b \in castAutoList : body[b].who = n
  /\ conn' = [conn EXCEPT ![p] = "open"]
  /\ character' = [character EXCEPT ![p] = n]
  /\ m_taskList' = Append(m_taskList, Task("login", p))
  /\ UNCHANGED <<game, player, m_refCount, m_eventConnect, down>>

\* parsePacket with 0x14.  BOUND of the model: once at a time.
SendLogout(p) ==
  /\ down = "no"
  /\ Len(m_taskList) < MaxTasks
  /\ conn[p] = "open"
  /\ player[p] # Nil
  /\ ~Contains(m_taskList, Task("logout", p))
  /\ m_taskList' = Append(m_taskList, Task("logout", p))
  /\ UNCHANGED <<game, conn, player, m_refCount, character, m_eventConnect, down>>

\* The other side goes away.
Drop(p) ==
  /\ down = "no"
  /\ Len(m_taskList) < MaxTasks
  /\ Closing(<<p>>, m_taskList)
  /\ conn[p] = "open"
  /\ UNCHANGED <<game, player, m_refCount, character, m_eventConnect, down>>

-----------------------------------------------------------------------------
(* ProtocolGame::login.                                                    *)

Mutant_AccountInUse(n) == FALSE        \* trusts the search by name
AccountInUse(n) == getPlayersByAccount(n) # {}

Mutant_WorldOpenFor(n) == gameState # "closing" \/ n \in Exempt    \* forgets CLOSED
WorldOpenFor(n) == gameState = "normal" \/ n \in Exempt

\* No body of the name is in the game: a new one is made, which the protocol
\* refers to whether or not it comes to be placed.  `banned` stands for what the
\* database may object to, `misplaced` for a body that cannot be loaded or placed.
LoginNew(p, banned, misplaced) ==
  LET n == character[p]
      b == CHOOSE c \in Bodies : body[c].at = "none"
      online == Cardinality(Online)
      passed == ~banned /\ WorldOpenFor(n) /\ ~AccountInUse(n)
      placed == passed /\ LetsIn(n, online) /\ ~misplaced
  IN
  /\ Serving("login", p)
  /\ p \notin Watchers
  /\ getPlayersByName(n) = {}
  /\ \E c \in Bodies : body[c].at = "none"
  /\ body' = [body EXCEPT ![b] =
                [who |-> n, at |-> IF placed THEN "placed" ELSE "made",
                 refs |-> IF placed THEN 3 ELSE 1,      \* p, the map, the check vector
                 client |-> p, isConnecting |-> FALSE, checked |-> placed, listed |-> placed]]
  /\ player' = [player EXCEPT ![p] = b]
  /\ waitList' = IF passed THEN AfterLogin(n, online) ELSE waitList
  /\ Closing(IF placed THEN <<>> ELSE <<p>>, Rest)
  /\ UNCHANGED <<gameState, releaseThings, castAutoList, cSpectators, m_refCount, character,
                 m_eventConnect, down>>

Mutant_Attached(p, b) ==               \* isConnecting is not reset
  [body EXCEPT ![b].client = p, ![b].refs = @ + 1]
\* p becomes the client of b.
Attached(p, b) ==
  [body EXCEPT ![b].client = p, ![b].refs = @ + 1, ![b].isConnecting = FALSE]

\* The body is in the game and has a client: that one is disconnected, with the
\* viewers, and p takes its place a second later.  The test of m_eventConnect is
\* of p's own, which cannot be set yet.  A retry that is due to release the client
\* comes within 50 ms, so before.
LoginTakesOver(p, b) ==
  /\ Serving("login", p)
  /\ p \notin Watchers
  /\ b \in getPlayersByName(character[p])
  /\ body[b].client # Nil
  /\ Closing(<<body[b].client>> \o Picked(cSpectators, Viewers(b)), Rest)
  /\ body' = [body EXCEPT ![b].isConnecting = TRUE]
  /\ m_refCount' = [m_refCount EXCEPT ![p] = @ + 1]
  /\ m_eventConnect' = m_eventConnect \cup
       {[by |-> p, after |-> IF Releasable(body[b].client) THEN body[b].client ELSE Nil]}
  /\ UNCHANGED <<gameState, releaseThings, castAutoList, cSpectators, waitList, player, character,
                 down>>

\* The body was left behind: p becomes its client at once.
LoginBack(p, b) ==
  /\ Serving("login", p)
  /\ p \notin Watchers
  /\ b \in getPlayersByName(character[p])
  /\ body[b].client = Nil
  /\ body' = Attached(p, b)
  /\ player' = [player EXCEPT ![p] = b]
  /\ m_taskList' = Rest
  /\ UNCHANGED <<gameState, releaseThings, castAutoList, cSpectators, waitList, conn, m_refCount,
                 character, m_eventConnect, down>>

\* A viewer.  Its addRef is undone only by a kick.
LoginCast(p, b) ==
  /\ Serving("login", p)
  /\ p \in Watchers
  /\ b \in getPlayersByName(character[p])
  /\ m_refCount' = [m_refCount EXCEPT ![p] = @ + 1]
  /\ IF Cardinality(Viewers(b)) >= MaxViewers
     THEN /\ Closing(<<p>>, Rest)
          /\ UNCHANGED <<body, cSpectators, player>>
     ELSE /\ player' = [player EXCEPT ![p] = b]
          /\ body' = [body EXCEPT ![b].refs = @ + 1]
          /\ cSpectators' = Append(cSpectators, p)
          /\ m_taskList' = Rest
          /\ UNCHANGED conn
  /\ UNCHANGED <<gameState, releaseThings, castAutoList, waitList, character, m_eventConnect, down>>

\* `_player->client` of a player who is no longer there.
LoginCastCrashes(p) ==
  /\ Serving("login", p)
  /\ p \in Watchers
  /\ getPlayersByName(character[p]) = {}
  /\ down' = "crashed"
  /\ UNCHANGED <<game, protocols>>

\* The second has passed.
ConnectIsDue(p) ==
  /\ down = "no"
  /\ [by |-> p, after |-> Nil] \in m_eventConnect
  /\ ~Contains(m_taskList, Task("connect", p))
  /\ m_taskList' = Append(m_taskList, Task("connect", p))
  /\ UNCHANGED <<game, conn, player, m_refCount, character, m_eventConnect, down>>

\* ProtocolGame::connect.  The character may have left or be taken meanwhile,
\* and p may have been disconnected.
Connect(p) ==
  LET free == {b \in getPlayersByName(character[p]) : body[b].client = Nil} IN
  /\ Serving("connect", p)
  /\ m_eventConnect' = {e \in m_eventConnect : e.by # p}
  /\ m_refCount' = [m_refCount EXCEPT ![p] = @ - 1]
  /\ IF free = {}
     THEN /\ Closing(<<p>>, Rest)
          /\ UNCHANGED <<body, player>>
     ELSE \E b \in free :
          /\ body' = Attached(p, b)
          /\ player' = [player EXCEPT ![p] = b]
          /\ m_taskList' = Rest
          /\ UNCHANGED conn
  /\ UNCHANGED <<gameState, releaseThings, castAutoList, cSpectators, waitList, character, down>>

-----------------------------------------------------------------------------
(* Leaving.                                                                *)

\* ProtocolGame::logout of a player.  A fight, the tile or a script may refuse
\* one that is not forced; a body already removed only loses its connection.
Logout(p) ==
  LET b == player[p] IN
  /\ Serving("logout", p)
  /\ p \notin Watchers
  /\ \/ Hang(<<b>>)
     \/ /\ b \in Online
        /\ m_taskList' = Rest
        /\ UNCHANGED <<game, conn, player, m_refCount, character, m_eventConnect, down>>
     \/ /\ KickAndClose(<<b>>, <<p>>, Rest)
        /\ Removed({b} \cap Online, FALSE)
        /\ UNCHANGED <<gameState, waitList, player, character, m_eventConnect, down>>

\* ... of a viewer: its connection is closed and its entry erased.
LogoutCast(p) ==
  /\ Serving("logout", p)
  /\ p \in Watchers
  /\ IF Contains(cSpectators, p) /\ conn[p] # "closed"
     THEN /\ cSpectators' = Without(p)
          /\ Closing(<<p>>, Rest)
     ELSE /\ m_taskList' = Rest
          /\ UNCHANGED <<conn, cSpectators>>
  /\ UNCHANGED <<gameState, body, releaseThings, castAutoList, waitList, player, m_refCount,
                 character, m_eventConnect, down>>

\* Player::kick, forced, of all of them: by their clients' logout, or without;
\* in gameState s from then on.
Kick(gone, s, inCheck) ==
  LET bs == SetToSeq({b \in gone : body[b].client # Nil})
  IN
  \/ Hang(bs)
  \/ /\ gameState' = s
     /\ KickAndClose(bs, [i \in DOMAIN bs |-> body[bs[i]].client], m_taskList)
     /\ Removed(gone, inCheck)
     /\ UNCHANGED <<waitList, player, character, m_eventConnect, down>>

kickPlayer(b) ==
  /\ down = "no"
  /\ b \in Online
  /\ Kick({b}, gameState, FALSE)

\* Whom setGameState(GAMESTATE_CLOSED) kicks.
Unwelcome == {b \in Online : body[b].who \notin Exempt}

setGameState(s) ==
  /\ down = "no"
  /\ s # gameState
  /\ Kick(IF s = "closed" THEN Unwelcome ELSE {}, s, FALSE)

\* Connection::closeConnection and the retries of Protocol::releaseProtocol: no
\* longer the client, and deleted once nothing refers to it.
Mutant_LetGo(p) == UNCHANGED body
LetGo(p) ==
  body' = [b \in Bodies |-> IF b = player[p] /\ body[b].client = p
                            THEN [body[b] EXCEPT !.client = Nil] ELSE body[b]]

releaseProtocol(p) ==
  /\ LetGo(p)
  /\ IF m_refCount[p] > 0
     THEN /\ conn' = [conn EXCEPT ![p] = "closed"]
          /\ UNCHANGED <<releaseThings, player, character>>
     ELSE /\ conn' = [conn EXCEPT ![p] = "none"]
          /\ releaseThings' = [b \in Bodies |->
                                 releaseThings[b] + IF b = player[p] THEN 1 ELSE 0]
          /\ player' = [player EXCEPT ![p] = Nil]
          /\ character' = [character EXCEPT ![p] = Nil]
  /\ m_eventConnect' = {[e EXCEPT !.after = IF @ = p THEN Nil ELSE @] : e \in m_eventConnect}
  /\ UNCHANGED <<gameState, castAutoList, cSpectators, waitList, m_refCount, down>>

closeConnection(p) ==
  /\ Serving("close", p)
  /\ releaseProtocol(p)
  /\ m_taskList' = Rest

\* Every 50 ms; the ones that change nothing are left out.
RetryRelease(p) ==
  /\ down = "no"
  /\ Releasable(p)
  /\ releaseProtocol(p)
  /\ UNCHANGED m_taskList

-----------------------------------------------------------------------------
(* The life of a body.                                                     *)

\* checkCreatures().  BOUND of the model: at most one body in the vector whose
\* turn it is.  A turn with none, or with one that goes on, ends with cleanup().
CheckNobody ==
  /\ down = "no"
  /\ \E b \in Bodies : releaseThings[b] > 0
  /\ cleanup(body, releaseThings)
  /\ UNCHANGED <<gameState, castAutoList, cSpectators, waitList, protocols, down>>

\* One that has left the game is taken out of the vector.
CheckRemoved(b) ==
  /\ down = "no"
  /\ body[b].listed /\ ~body[b].checked
  /\ cleanup([body EXCEPT ![b].listed = FALSE], Freed({b}))
  /\ UNCHANGED <<gameState, castAutoList, cSpectators, waitList, protocols, down>>

IsCheckedOn(b) == body[b].checked /\ ~body[b].isConnecting

\* onThink: no answer for a minute, and nothing that keeps it from leaving.
Timeout(b) ==
  /\ down = "no"
  /\ IsCheckedOn(b)
  /\ Kick({b}, gameState, TRUE)

\* onDeath, which leaves the body its client.
Die(b) ==
  /\ down = "no"
  /\ body[b].checked
  /\ \/ Hang(<<b>>)
     \/ /\ KickAndClose(<<b>>, <<>>, m_taskList)
        /\ Removed({b}, TRUE)
        /\ UNCHANGED <<gameState, waitList, player, character, m_eventConnect, down>>

-----------------------------------------------------------------------------
(* The caster.                                                             *)

StartCast(b) ==
  /\ down = "no"
  /\ b \in Online \ castAutoList
  /\ castAutoList' = castAutoList \cup {b}
  /\ UNCHANGED <<gameState, body, releaseThings, cSpectators, waitList, protocols, down>>

StopCast(b) ==
  /\ down = "no"
  /\ b \in Online \cap castAutoList
  /\ \/ Hang(<<b>>)
     \/ /\ KickAndClose(<<b>>, <<>>, m_taskList)
        /\ castAutoList' = castAutoList \ {b}
        /\ UNCHANGED <<gameState, body, releaseThings, waitList, player, character,
                       m_eventConnect, down>>

\* kickCastViewerByName, of one whose address is known.
kickCastViewer(v) ==
  /\ down = "no"
  /\ Contains(cSpectators, v)
  /\ conn[v] # "closed"
  /\ player[v] \in Online
  /\ cSpectators' = Without(v)
  /\ m_refCount' = [m_refCount EXCEPT ![v] = @ - 1]
  /\ Closing(<<v>>, m_taskList)
  /\ UNCHANGED <<gameState, body, releaseThings, castAutoList, waitList, player, character,
                 m_eventConnect, down>>

WaitPasses ==
  /\ down = "no"
  /\ TimeOutEntry
  /\ UNCHANGED <<gameState, body, releaseThings, castAutoList, cSpectators, protocols, down>>

-----------------------------------------------------------------------------
Network ==
  \/ \E p \in Protocols, n \in Names : Arrive(p, n)
  \/ \E p \in Protocols : SendLogout(p) \/ Drop(p)

\* The head of the queue is served.
Serve ==
  \/ \E p \in Protocols, b \in Bodies :
       LoginTakesOver(p, b) \/ LoginBack(p, b) \/ LoginCast(p, b)
  \/ \E p \in Protocols :
       \/ \E banned, misplaced \in BOOLEAN : LoginNew(p, banned, misplaced)
       \/ LoginCastCrashes(p) \/ Connect(p)
       \/ Logout(p) \/ LogoutCast(p) \/ closeConnection(p)

\* Events of the scheduler.
Timers == \E p \in Protocols : ConnectIsDue(p) \/ RetryRelease(p)

World ==
  \/ CheckNobody \/ WaitPasses
  \/ \E b \in Bodies :
       CheckRemoved(b) \/ Die(b) \/ kickPlayer(b) \/ StartCast(b) \/ StopCast(b)
  \/ \E v \in Protocols : kickCastViewer(v)
  \/ \E s \in {"normal", "closing", "closed"} : setGameState(s)

Next == Network \/ Serve \/ Timers \/ World \/ \E b \in Bodies : Timeout(b)

Spec == Init /\ [][Next]_vars

\* The dispatcher serves its queue, the scheduler's events and checkCreatures come,
\* and what may keep an abandoned body in the game (a fight, the tile, a script
\* that refuses the logout) does not for ever.
Fairness ==
  /\ WF_vars(Serve)
  /\ WF_vars(CheckNobody \/ \E b \in Bodies : CheckRemoved(b))
  /\ \A p \in Protocols \ Watchers : WF_vars(ConnectIsDue(p) \/ RetryRelease(p))
  /\ \A b \in Bodies : WF_vars(body[b].client = Nil /\ Timeout(b))

LiveSpec == Spec /\ Fairness

-----------------------------------------------------------------------------
TypeOK ==
  /\ gameState \in {"normal", "closing", "closed"}
  /\ body \in [Bodies ->
        [who : Names \cup {Nil},
         at : {"none",     \* no object
               "made",     \* not placed: the login was refused
               "placed", "removed"},
         refs : Nat, client : Protocols \cup {Nil},
         isConnecting : BOOLEAN, checked : BOOLEAN, listed : BOOLEAN]]
  /\ releaseThings \in [Bodies -> Nat]
  /\ castAutoList \subseteq Online
  /\ cSpectators \in Seq(Protocols)
  /\ WaitingListType
  /\ conn \in [Protocols -> {"none", "open",
                              "closing",   \* closeConnection is queued
                              "closed"}]   \* releaseProtocol has been called
  /\ player \in [Protocols -> Bodies \cup {Nil}]
  /\ m_refCount \in [Protocols -> Nat]
  /\ character \in [Protocols -> Names \cup {Nil}]
  /\ m_taskList \in Seq([do : {"login", "close", "connect", "logout"}, by : Protocols])
  /\ m_eventConnect \subseteq [by : Protocols, after : Protocols \cup {Nil}]
  /\ down \in {"no", "crashed", "hung"}

(* An account has one character in the game, and that one body: neither a  *)
(* second login, nor a takeover, nor the second it waits brings another    *)
(* (ONE_PLAYER_ON_ACCOUNT, ALLOW_CLONES).                                  *)
OneCharacterPerAccount ==
  \A b, c \in Online : Account[body[b].who] = Account[body[c].who] => b = c

(* A body and its client know each other: the client still exists, and is  *)
(* nobody else's.  The body never calls through a deleted protocol.        *)
ClientsMatch ==
  /\ TypeOK
  /\ \A b \in Bodies : LET p == body[b].client IN
          p # Nil => conn[p] # "none" /\ player[p] = b /\ p \notin Watchers

(* A body has as many references as there are holders: the map, the check  *)
(* vector, the protocols that play or watch it, and entries of             *)
(* releaseThings.  None is deleted while it is used, none is kept for      *)
(* nothing.                                                                *)
Holders(b) ==
  Cardinality({p \in Protocols : player[p] = b}) + releaseThings[b]
    + (IF body[b].at = "placed" THEN 1 ELSE 0) + (IF body[b].listed THEN 1 ELSE 0)
RefsExact ==
  \A b \in Bodies : body[b].refs = Holders(b) /\ (body[b].at = "none" <=> Holders(b) = 0)

(* Who enters while others wait leaves a seat for everyone who is ahead of *)
(* him on the list.                                                        *)
SeatsKept ==
  [][\A n \in Names \ Exempt :
       (\A b \in Online : body[b].who # n) /\ (\E b \in Online' : body'[b].who = n)
         => Cardinality(Online') + Cardinality(AheadOf(n)) <= MaxPlayers]_vars

(* While the world is closed only those who always may are in it,          *)
(* whatever logins and takeovers were under way when it was closed.        *)
ClosedIsEmpty == gameState = "closed" => Unwelcome = {}

(* A body without a client does not stay in the game for ever: somebody    *)
(* comes back to it or it leaves.  A takeover that comes to nothing must   *)
(* not leave it waiting.                                                   *)
AbandonedLeaves ==
  \A b \in Bodies : (b \in Online /\ body[b].client = Nil)
                      ~> (b \notin Online \/ body[b].client # Nil \/ down # "no")

(* Every viewer watches a character that casts ("Cast not found." is the   *)
(* answer to others; setCasting(false) and a logout kick the viewers).     *)
ViewersWatchACast ==
  \A i \in DOMAIN cSpectators : player[cSpectators[i]] \in castAutoList

\* Clients and bodies agree, also on who may be in a world that is closed.
WorldOfClients == ClientsMatch /\ ClosedIsEmpty
=============================================================================
