-------------------------------- MODULE Shops --------------------------------
(***************************************************************************)
(* What NPCs keep of the players they talk to and sell to (source/npc.cpp, *)
(* player.cpp, player.h, game.cpp).                                        *)
(*                                                                         *)
(* A shop window is written twice: the player points to the NPC and holds  *)
(* references to two functions of its script, the NPC lists the player.    *)
(* All of it must go when either leaves, loses sight of the other, or the  *)
(* scripts are reloaded.  A conversation is a state in a list the NPC      *)
(* walks when it thinks; who comes while it is busy may be queued, his     *)
(* words put off until it is his turn.                                     *)
(*                                                                         *)
(* Abstractions.  The two functions are one reference.  What is said is    *)
(* something or nothing; whether it is answered, and how, is up to the     *)
(* NPC.  A script opens no window, and queues nobody, while it hears that  *)
(* a player leaves or that a window is closed (the functions of that one   *)
(* would be given back twice).  Goods and money are left out.              *)
(***************************************************************************)
EXTENDS Lists

CONSTANTS
  Buyers, NoBuyer,
  Npcs, NoNpc,
  Callbacks, NoCallback, \* references of the registry of Lua; one given back is given anew
  MaxTalks        \* BOUND: what happens

ASSUME ShopsAssumption ==
  /\ NoBuyer \notin Buyers /\ NoNpc \notin Npcs /\ NoCallback \notin Callbacks
  /\ IsFiniteSet(Buyers) /\ IsFiniteSet(Npcs)
  \* The registry is never full: one for each player, one lost, one more.
  /\ IsFiniteSet(Callbacks) => Cardinality(Callbacks) > Cardinality(Buyers) + 1
  /\ MaxTalks \in Nat

VARIABLES
  shops,          \* what the calls below find and leave; see ShopsType
  visitors,       \* the players in the game
  inView,         \* <<n, p>>: p is where n sees it
  strayed,        \* history: shops opened for, or kept by, those out of sight
  misused,        \* history: a function was called that had been given back
  talks           \* BOUND

shopVars == <<shops, visitors, inView, strayed, misused, talks>>

TalkType == [respondToCreature : Buyers \cup {NoBuyer}, isQueued : BOOLEAN, isIdle : BOOLEAN,
             respondToText : BOOLEAN, prevRespondToText : BOOLEAN]
ShopsType ==
  [owner : [Buyers -> Npcs \cup {NoNpc}], callback : [Buyers -> Callbacks \cup {NoCallback}],
   window : [Buyers -> BOOLEAN],                     \* the client shows one
   held : SUBSET Callbacks, lost : SUBSET Callbacks, \* the registry
   shopPlayerList : [Npcs -> Seq(Buyers)], stateList : [Npcs -> Seq(TalkType)],
   queueList : [Npcs -> Seq(Buyers)]]

-----------------------------------------------------------------------------
(* Conversations.                                                          *)

NewState == [respondToCreature |-> NoBuyer, isQueued |-> FALSE, isIdle |-> TRUE,
             respondToText |-> FALSE, prevRespondToText |-> FALSE]
Known(w, n, p) == \E i \in DOMAIN w.stateList[n] : w.stateList[n][i].respondToCreature = p
\* A new one is nobody's until it is told whose.
getState(w, n, p) == IF Known(w, n, p) THEN w ELSE [w EXCEPT !.stateList[n] = Append(@, NewState)]
StateOf(w, n, p) ==
  IF Known(w, n, p)
  THEN CHOOSE i \in DOMAIN w.stateList[n] :
         /\ w.stateList[n][i].respondToCreature = p
         /\ \A j \in 1..(i - 1) : w.stateList[n][j].respondToCreature # p
  ELSE Len(w.stateList[n])
Noticed(w, n, p) ==
  LET mine(v) == [v EXCEPT !.stateList[n][StateOf(v, n, p)].respondToCreature = p]
  IN  mine(getState(w, n, p))

\* A player is queued once; asked to queue again he waits no more.
Queued(w, n, p, i) ==
  IF p \in ToSet(w.queueList[n]) THEN w
  ELSE [w EXCEPT !.queueList[n] = Append(@, p), !.stateList[n][i].isQueued = TRUE]

-----------------------------------------------------------------------------
(* Shop windows.                                                           *)

GiveBack(w, c) == [w EXCEPT !.held = @ \ {c}]
Mutant_onPlayerEndTrade(w, n, p) == getState(GiveBack(w, w.callback[p]), n, p)
\* The state made for a player who has none stays nobody's.
onPlayerEndTrade(w, n, p) ==
  getState([GiveBack(w, w.callback[p]) EXCEPT
              !.shopPlayerList[n] = RemoveFirst(@, p)], n, p)

closeShopWindow(w, p) ==
  [IF w.owner[p] = NoNpc THEN w ELSE onPlayerEndTrade(w, w.owner[p], p)
     EXCEPT !.owner[p] = NoNpc, !.callback[p] = NoCallback, !.window[p] = FALSE]

popCallback(w) == CHOOSE c \in Callbacks : c \notin w.held

luaOpenShopWindow(w, n, p) ==
  LET opened(v, c) == [v EXCEPT !.shopPlayerList[n] = IF p \in ToSet(@) THEN @ ELSE Append(@, p),
                                !.owner[p] = n, !.callback[p] = c, !.window[p] = TRUE]
      takes(c) == opened(closeShopWindow([w EXCEPT !.held = @ \cup {c}], p), c)
  IN  takes(popCallback(w))

luaCloseShopWindow(w, n, p) == IF w.owner[p] = n THEN closeShopWindow(w, p) ELSE w

closeAllShopWindows(w, n) == InTurn(closeShopWindow, w, w.shopPlayerList[n])

-----------------------------------------------------------------------------
(* Answers.  Talking to a player who has left, scripts find no player.     *)

Answers == {"none", "idle", "listen", "queue", "open", "close"}

executeResponse(w, n, p, i, answer) ==
  LET said(v) == [v EXCEPT !.stateList[n][i].isIdle = answer = "idle"]
      acts(v) == CASE answer = "queue" -> Queued(v, n, p, i)
                   [] answer = "open" /\ p \in visitors -> luaOpenShopWindow(v, n, p)
                   [] answer = "close" /\ p \in visitors -> luaCloseShopWindow(v, n, p)
                   [] OTHER -> v
  IN  IF answer = "none" THEN w ELSE acts(said(w))

Respond(w, n, p, answer) == executeResponse(w, n, p, StateOf(w, n, p), answer)

onPlayerEnter(w, n, p, answer) == Respond(Noticed(w, n, p), n, p, answer)
Farewell(answer) == IF answer \in {"open", "queue"} THEN "idle" ELSE answer
Mutant_onPlayerLeave(w, n, p, answer) == Respond(Noticed(w, n, p), n, p, answer)
onPlayerLeave(w, n, p, answer) ==
  Respond(closeShopWindow(Noticed(w, n, p), p), n, p, Farewell(answer))

\* Who is told of a step, and sees neither end of it, makes a state that is nobody's.
onCreatureMove(w, n, p, sees, saw, answer) ==
  CASE sees /\ ~ saw -> onPlayerEnter(w, n, p, answer)
    [] saw /\ ~ sees -> onPlayerLeave(w, n, p, answer)
    [] sees /\ saw -> Respond(Noticed(w, n, p), n, p, answer)
    [] OTHER -> getState(w, n, p)

\* All of l hear of p: one who appears was not seen, one who disappears is not.
AllHear(w, l, p, seeing, saw, answer) ==
  InTurn(LAMBDA v, n : onCreatureMove(v, n, p, n \in seeing, n \in saw, answer), w, l)

\* The next in the queue who is there and is known is answered what he said before; he stays
\* the first of it.
NextInQueue(w, n) ==
  LET waits(p) == p \in visitors /\ Known(w, n, p)
      left(q) == Picked(q, {i \in DOMAIN q : \E j \in 1..i : waits(q[j])})
      answered(s) == [s EXCEPT !.isQueued = FALSE, !.respondToText = s.prevRespondToText]
      turn(v) == IF v.queueList[n] = <<>> THEN v
                 ELSE [v EXCEPT !.stateList[n][StateOf(v, n, Head(v.queueList[n]))] = answered(@)]
  IN  turn([w EXCEPT !.queueList[n] = left(@)])

Forgotten(w, n, i) == [w EXCEPT !.stateList[n] = RemoveAt(@, i)]

\* a.i is the state the walk has come to.  It ends one that is silent while others wait, one
\* that was silent for long, and that of a player who has gone.
ThinkOfOne(a, n, answer, timeout) ==
  LET ends(s) == ~ s.isQueued /\ (timeout \/ (a.w.queueList[n] # <<>> /\ s.isIdle /\ ~ s.respondToText))
      next(p) == IF a.w.queueList[n] # <<>> THEN NextInQueue(a.w, n)
                 ELSE IF p \in visitors THEN onPlayerLeave(a.w, n, p, answer)
                 ELSE a.w
      heard(s) == [s EXCEPT !.prevRespondToText = @ \/ s.respondToText, !.respondToText = FALSE]
      replied(p) == executeResponse([a.w EXCEPT !.stateList[n][a.i] = heard(@)], n, p, a.i, answer)
      visit(s) ==
        IF s.respondToCreature \notin visitors \/ ends(s)
        THEN [a EXCEPT !.w = Forgotten(next(s.respondToCreature), n, a.i)]
        ELSE [w |-> replied(s.respondToCreature), i |-> a.i + 1]
  IN  IF a.i > Len(a.w.stateList[n]) THEN a ELSE visit(a.w.stateList[n][a.i])

\* It comes to the end of the list, for every visit ends a state or goes on to the next.
Thought(w, n, answer, timeout) ==
  LET walk[k \in 0..(Len(w.stateList[n]) + 1)] ==
        IF k = 0 THEN [w |-> w, i |-> 1] ELSE ThinkOfOne(walk[k - 1], n, answer, timeout)
  IN  walk[Len(w.stateList[n]) + 1].w

-----------------------------------------------------------------------------
(* The tasks.                                                              *)

Talk == talks < MaxTalks /\ talks' = talks + 1
Kept == UNCHANGED <<visitors, inView>>

\* Shops out of sight though nobody has walked away from them: opened so, or the owner has.
Straying(w, view) ==
  {x \in Npcs \X Buyers :
     /\ w.owner[x[2]] = x[1]
     /\ x \in strayed \/ (x \notin view /\ shops.owner[x[2]] # x[1])}
\* What is given back twice is gone for who was given it since.
Becomes(w, view) ==
  /\ shops' = w
  /\ strayed' = Straying(w, view)
  /\ UNCHANGED misused

Enter(p) ==
  /\ Talk /\ p \notin visitors /\ visitors' = visitors \cup {p}
  /\ \E S \in SUBSET Npcs, answer \in {"none", "listen"} :
       /\ inView' = inView \cup (S \X {p})
       /\ Becomes(AllHear(shops, SetToSeq(S), p, S, {}, answer), inView')

\* Those around hear of it, and he closes his window himself.
Leave(p) ==
  /\ Talk /\ p \in visitors /\ visitors' = visitors \ {p}
  /\ inView' = {x \in inView : x[2] # p}
  /\ \E answer \in {"none", "idle"} :
       LET saw == {n \in Npcs : <<n, p>> \in inView}
       IN  Becomes(closeShopWindow(AllHear(shops, SetToSeq(saw), p, {}, saw, answer), p), inView')

Step(p) ==
  /\ Talk /\ p \in visitors /\ UNCHANGED visitors
  /\ \E S \in SUBSET Npcs, answer \in Answers :
       /\ inView' = {x \in inView : x[2] # p} \cup (S \X {p})
       /\ Becomes(AllHear(shops, SetToSeq(Npcs), p, S, {n \in Npcs : <<n, p>> \in inView}, answer), inView')

\* A step of the NPC tells it nothing of those it leaves behind.
NpcStep(n) ==
  /\ Talk
  /\ \E S \in SUBSET visitors :
       /\ inView' = {x \in inView : x[1] # n} \cup ({n} \X S)
       /\ strayed' = strayed \cup {x \in inView \ inView' : shops.owner[x[2]] = n}
  /\ UNCHANGED <<shops, visitors, misused>>

onCreatureSay(n, p) ==
  /\ Talk /\ <<n, p>> \in inView
  /\ LET said(w) == [w EXCEPT !.stateList[n][StateOf(w, n, p)].respondToText = TRUE]
     IN  Becomes(said(Noticed(shops, n, p)), inView)
  /\ Kept

onThink(n) ==
  /\ Talk /\ shops.stateList[n] # <<>>
  /\ \E answer \in Answers, timeout \in BOOLEAN : Becomes(Thought(shops, n, answer, timeout), inView)
  /\ Kept

\* The function is called after the NPC has answered: if that has closed the window, it is one
\* that was given back.
onPlayerTrade(p, n) ==
  /\ Kept
  /\ \E answer \in Answers :
       LET w == Respond(getState(shops, n, p), n, p, answer)
       IN  /\ shops' = w
           /\ strayed' = Straying(w, inView)
           /\ misused' = (misused \/ (answer \notin {"open", "close"} /\ shops.callback[p] \notin w.held))
playerPurchaseItem(p) ==
  Talk /\ p \in visitors /\ shops.owner[p] # NoNpc /\ onPlayerTrade(p, shops.owner[p])

playerCloseShop(p) ==
  Talk /\ p \in visitors /\ Becomes(closeShopWindow(shops, p), inView) /\ Kept

\* A script that opens a window with no list of goods: what it has taken for the functions stays
\* taken.  BOUND: once.
OpenFails ==
  /\ Talk /\ shops.lost = {}
  /\ LET c == popCallback(shops)
     IN  Becomes([shops EXCEPT !.held = @ \cup {c}, !.lost = {c}], inView)
  /\ Kept

Reset(w, gone) ==
  LET cleared(l) == [n \in Npcs |-> IF n \in gone THEN <<>> ELSE l[n]]
  IN  [w EXCEPT !.shopPlayerList = cleared(@), !.stateList = cleared(@), !.queueList = cleared(@)]

\* It is taken off the map; another like it may come.
NpcLeaves(n) ==
  /\ Talk /\ inView' = {x \in inView : x[1] # n} /\ UNCHANGED visitors
  /\ Becomes(Reset(closeAllShopWindows(shops, n), {n}), inView')

\* Every window is closed first; then nothing is left of the scripts, nor of what they hold.
reload ==
  /\ Talk
  /\ LET closed == InTurn(closeAllShopWindows, shops, SetToSeq(Npcs))
     IN  Becomes([Reset(closed, Npcs) EXCEPT !.held = {}, !.lost = {}], inView)
  /\ Kept

ShopsInit ==
  /\ shops = [owner |-> [p \in Buyers |-> NoNpc], callback |-> [p \in Buyers |-> NoCallback],
              window |-> [p \in Buyers |-> FALSE], held |-> {}, lost |-> {},
              shopPlayerList |-> [n \in Npcs |-> <<>>], stateList |-> [n \in Npcs |-> <<>>],
              queueList |-> [n \in Npcs |-> <<>>]]
  /\ visitors = {} /\ inView = {} /\ strayed = {} /\ misused = FALSE /\ talks = 0

ShopsNext ==
  \/ \E p \in Buyers : Enter(p) \/ Leave(p) \/ Step(p) \/ playerPurchaseItem(p) \/ playerCloseShop(p)
  \/ \E n \in Npcs : NpcStep(n) \/ onThink(n) \/ NpcLeaves(n)
  \/ \E n \in Npcs, p \in Buyers : onCreatureSay(n, p)
  \/ OpenFails \/ reload

ShopsSpec == ShopsInit /\ [][ShopsNext]_shopVars

-----------------------------------------------------------------------------
(* Properties.                                                             *)

ShopsTypeOK ==
  /\ shops \in ShopsType
  /\ visitors \subseteq Buyers /\ inView \subseteq Npcs \X visitors
  /\ strayed \subseteq Npcs \X Buyers /\ misused \in BOOLEAN /\ talks \in 0..MaxTalks

Shoppers == {p \in Buyers : shops.owner[p] # NoNpc}

\* A window is known on both sides: the NPC lists exactly those whose owner it is, each once, and
\* the client shows one exactly then.  It belongs to somebody who is in the game.
WindowsMatch ==
  /\ \A n \in Npcs : /\ IsInjective(shops.shopPlayerList[n])
                     /\ ToSet(shops.shopPlayerList[n]) = {p \in Buyers : shops.owner[p] = n}
  /\ \A p \in Buyers : shops.window[p] <=> p \in Shoppers
  /\ Shoppers \subseteq visitors

\* The functions of an open window are held, each for one window, and no other is but those lost
\* to a script's mistake.
CallbacksHeld ==
  /\ ~ misused
  /\ \A p \in Buyers : shops.callback[p] = NoCallback <=> p \notin Shoppers
  /\ \A p, q \in Shoppers : shops.callback[p] = shops.callback[q] => p = q
  /\ shops.held = {shops.callback[p] : p \in Shoppers} \cup shops.lost

\* A player who walks out of sight of his shop leaves it.
ShopsInSight ==
  \A p \in Shoppers : <<shops.owner[p], p>> \in inView \/ <<shops.owner[p], p>> \in strayed

\* A player has one conversation with an NPC, and one that is put off is in the queue, once.
ConversationsQueue ==
  \A n \in Npcs :
    /\ IsInjective(shops.queueList[n])
    /\ \A i, j \in DOMAIN shops.stateList[n] :
         LET s == shops.stateList[n][i]
         IN  /\ s.respondToCreature = shops.stateList[n][j].respondToCreature /\ s.respondToCreature # NoBuyer
                => i = j
             /\ s.isQueued /\ s.respondToCreature \in visitors => s.respondToCreature \in ToSet(shops.queueList[n])

ShopsAgree == ShopsTypeOK /\ WindowsMatch /\ CallbacksHeld /\ ShopsInSight /\ ConversationsQueue
=============================================================================
