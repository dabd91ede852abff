-------------------------------- MODULE Trade --------------------------------
(***************************************************************************)
(* Trading between players (source/game.cpp, player.cpp) and the sale of   *)
(* a house, which is a trade of a transfer document made for the occasion  *)
(* (source/house.cpp, talkaction.cpp).                                     *)
(*                                                                         *)
(* A trade is kept in three places: each trader's tradeState, tradePartner *)
(* and tradeItem, the registry Game::tradeItems with a reference to every  *)
(* item in it, and, for a document, the seller's transferContainer.  All   *)
(* of it runs on the dispatcher thread: a handler is one step.             *)
(*                                                                         *)
(* Abstractions.  Place: around is the set of the players within reach of  *)
(* each other and of one tile, the Ground.  freeThing releases a reference *)
(* at the end of the task (Game::cleanup), here at once.  Weights, slots   *)
(* and scripts decide by a choice whether an exchange is possible.  Guild  *)
(* halls are left out.                                                     *)
(***************************************************************************)
EXTENDS Integers, FiniteSets

CONSTANTS
  Players, Bags, Swords,  \* items: containers and other things
  Deeds,                  \* the TransferItem objects; free again once deleted
  Houses,
  NoPlayer, NoItem, NoHouse,
  Ground, Nowhere         \* holders: the tile, and no parent

Wares == Bags \cup Swords
Items == Wares \cup Deeds

ASSUME TradeAssumption ==
  /\ NoPlayer \notin Players
  /\ NoItem \notin Items
  /\ NoHouse \notin Houses
  /\ Bags \cap Deeds = {} /\ Swords \cap Deeds = {} /\ Bags \cap Swords = {}
  /\ Ground # Nowhere
  /\ {Ground, Nowhere} \cap (Players \cup Items) = {}
  /\ Players \cap Items = {}

VARIABLES
  tradeState,     \* per player
  tradePartner,   \* per player
  tradeItem,      \* per player
  tradeItems,     \* the registry: player of each item in a trade, or NoPlayer
  refs,           \* per item: references counted
  holder,         \* per item: the player, bag or tile it is in
  around,         \* players in the game and within reach
  attached,       \* players whose transferContainer has its parent set
  owner,          \* per house
  deedOf          \* per deed: the house it is for

trade == <<tradeState, tradePartner, tradeItem, tradeItems, refs>>
vars == <<trade, holder, around, attached, owner, deedOf>>

Init ==
  /\ tradeState = [p \in Players |-> "NONE"]
  /\ tradePartner = [p \in Players |-> NoPlayer]
  /\ tradeItem = [p \in Players |-> NoItem]
  /\ tradeItems = [i \in Items |-> NoPlayer]
  /\ refs = [i \in Items |-> IF i \in Wares THEN 1 ELSE 0]
  /\ holder \in {h \in [Items -> Players \cup {Ground, Nowhere}] :
                   \A i \in Items : h[i] = Nowhere <=> i \in Deeds}
  /\ around = Players
  /\ attached = {}
  /\ owner \in {o \in [Houses -> Players \cup {NoPlayer}] :
                  \A g, h \in Houses : o[g] = o[h] => g = h \/ o[g] = NoPlayer}
  /\ deedOf = [d \in Deeds |-> NoHouse]

-----------------------------------------------------------------------------
(* Containers.                                                             *)

\* The bags an item is in, directly or not, under holders h: the fewest that hold with
\* each bag the bag that is around it.
BagsAround(h, i) ==
  {b \in Bags : \A S \in SUBSET Bags :
     ({h[c] : c \in S \cup {i}} \cap Bags \subseteq S) => b \in S}

\* What it is in: these, and the player or the tile they end with.
Around(h, i) == {h[b] : b \in BagsAround(h, i) \cup {i}}

isHoldingItem(b, i) == b \in Around(holder, i)

\* The player, or the tile, at the end of the chain of parents.
IsTopParent(i, c) == c \in Around(holder, i) \ Bags

-----------------------------------------------------------------------------
(* Closing a trade.                                                        *)

Traded(C) == {tradeItem[p] : p \in C} \ {NoItem}
WithPartners(C) == C \cup {tradePartner[p] : p \in C \ {q \in C : tradePartner[q] = NoPlayer}}

\* References left when the items of X go out of the registry; a document is
\* released once more, by its onTradeEvent.
Mutant_Released(X) == [i \in Items |-> IF i \in X THEN refs[i] - 1 ELSE refs[i]]
Released(X) ==
  [i \in Items |-> IF i \notin X THEN refs[i]
                   ELSE IF i \in Deeds THEN refs[i] - 2 ELSE refs[i] - 1]

Mutant_Unregistered(X) == tradeItems
Unregistered(X) == [i \in Items |-> IF i \in X THEN NoPlayer ELSE tradeItems[i]]

ResetTraders(C) ==
  /\ tradeState' = [p \in Players |-> IF p \in C THEN "NONE" ELSE tradeState[p]]
  /\ tradePartner' = [p \in Players |-> IF p \in C THEN NoPlayer ELSE tradePartner[p]]
  /\ tradeItem' = [p \in Players |-> IF p \in C THEN NoItem ELSE tradeItem[p]]

\* TransferItem::onTradeEvent(ON_TRADE_CANCEL) for the documents in X.
DocumentsCancelled(C, h) ==
  /\ holder' = [i \in Items |-> IF i \in Deeds \cap Traded(C) THEN Nowhere ELSE h[i]]
  /\ attached' = attached \ {p \in C : tradeItem[p] \in Deeds}

\* internalCloseTrade for the players of C, with the items held as in h.
Mutant_CloseTrades(C, h) ==             \* the partner keeps his side
  /\ ResetTraders(C)
  /\ tradeItems' = Unregistered(Traded(C))
  /\ refs' = Released(Traded(C))
  /\ DocumentsCancelled(C, h)

CloseTrades(C, h) ==
  LET both == WithPartners(C)
  IN  /\ ResetTraders(both)
      /\ tradeItems' = Unregistered(Traded(both))
      /\ refs' = Released(Traded(both))
      /\ DocumentsCancelled(both, h)

-----------------------------------------------------------------------------
(* A trader is told when things move around him.                           *)

\* r is told that i is taken from where it is: by his own slot, or as one who
\* stands near the bag or the tile.
Told(r, i) == r = holder[i] \/ (holder[i] \notin Players /\ r \in around)

\* The thing itself goes, or something inside it, or a bag it is in; and, for the
\* containers, anything out of a bag that holds it further down.
Mutant_RemovalDisturbs(r, i) == tradeItem[r] = i \/ isHoldingItem(tradeItem[r], i)
RemovalDisturbs(r, i) ==
  \/ tradeItem[r] = i
  \/ isHoldingItem(tradeItem[r], i)
  \/ isHoldingItem(i, tradeItem[r])
  \/ /\ holder[i] \in Bags
     /\ holder[tradeItem[r]] # holder[i]
     /\ isHoldingItem(holder[i], tradeItem[r])

Mutant_AdditionDisturbs(r, i, h) == h[i] = tradeItem[r] /\ holder[i] = tradeItem[r]
AdditionDisturbs(r, i, h) == h[i] \in Bags /\ tradeItem[r] \in Around(h, i)

\* The players whose trade ends when i is moved and the holders become h.
Disturbed(i, h) ==
  {r \in Players : /\ tradeItem[r] # NoItem
                   /\ \/ Told(r, i) /\ RemovalDisturbs(r, i)
                      \/ r \in around /\ AdditionDisturbs(r, i, h)}

-----------------------------------------------------------------------------
(* Offering an item.                                                       *)

Mutant_NotTraded(i) == tradeItems[i] = NoPlayer       \* nothing about containers
NotTraded(i) ==
  \A j \in {k \in Items : tradeItems[k] # NoPlayer} :
     i # j /\ ~isHoldingItem(i, j) /\ ~isHoldingItem(j, i)

\* A player may offer when he trades with nobody, or answers an offer.
Mutant_MayOffer(p, q) == tradeState[p] \in {"NONE", "ACKNOWLEDGE"}
MayOffer(p, q) ==
  \/ tradeState[p] = "NONE"
  \/ tradeState[p] = "ACKNOWLEDGE" /\ tradePartner[p] = q

Mutant_MayBeAsked(p, q) == TRUE
MayBeAsked(p, q) == tradeState[q] = "NONE" \/ tradePartner[q] = p

\* internalStartTrade, when it succeeds.
Started(p, q, i) ==
  /\ MayOffer(p, q)
  /\ MayBeAsked(p, q)
  /\ tradeItem' = [tradeItem EXCEPT ![p] = i]
  /\ tradeItems' = [tradeItems EXCEPT ![i] = p]
  /\ IF tradeState[q] = "NONE"
     THEN /\ tradeState' = [tradeState EXCEPT ![p] = "INITIATED", ![q] = "ACKNOWLEDGE"]
          /\ tradePartner' = [tradePartner EXCEPT ![p] = q, ![q] = p]
     ELSE /\ tradeState' = [tradeState EXCEPT ![p] = "INITIATED"]
          /\ tradePartner' = [tradePartner EXCEPT ![p] = q]

RequestTrade(p, q, i) ==
  /\ {p, q} \subseteq around /\ p # q
  /\ IsTopParent(i, p) \/ IsTopParent(i, Ground)
  /\ NotTraded(i)
  /\ Started(p, q, i)
  /\ refs' = [refs EXCEPT ![i] = @ + 1]
  /\ UNCHANGED <<holder, around, attached, owner, deedOf>>

\* TalkAction::houseSell: a new document, one reference of its own, is put in
\* the seller's transferContainer; when no trade starts it is cancelled at once.
HouseSell(p, q, h, d) ==
  /\ {p, q} \subseteq around /\ p # q
  /\ owner[h] = p
  /\ \A g \in Houses : owner[g] # q
  /\ refs[d] = 0
  /\ IF MayOffer(p, q) /\ MayBeAsked(p, q)
     THEN /\ Started(p, q, d)
          /\ refs' = [refs EXCEPT ![d] = 2]
          /\ holder' = [holder EXCEPT ![d] = p]
          /\ attached' = attached \cup {p}
          /\ deedOf' = [deedOf EXCEPT ![d] = h]
     ELSE /\ attached' = attached \ {p}
          /\ UNCHANGED <<trade, holder, deedOf>>
  /\ UNCHANGED <<around, owner>>

-----------------------------------------------------------------------------
(* Accepting.                                                              *)

\* Where Player::__queryDestination may put a thing for q: a slot, or a bag that
\* is not offered by q nor inside what he offers.
Mutant_Destinations(q) == {q} \cup {b \in Bags : IsTopParent(b, q)}
Destinations(q) ==
  {q} \cup {b \in Bags : /\ IsTopParent(b, q)
                         /\ b # tradeItem[q]
                         /\ tradeItem[q] \notin Bags \/ ~isHoldingItem(tradeItem[q], b)}

\* Owners after item i has reached p.
Mutant_HouseTo(o, i, p) == o
HouseTo(o, i, p) == IF i \in Deeds THEN [o EXCEPT ![deedOf[i]] = p] ELSE o

\* The two moves, which may disturb the trades of others, then what
\* onTradeEvent(ON_TRADE_TRANSFER) does of documents: the house gets its owner
\* and the document goes the way of a cancelled one.
Exchange(p, q, toP, toQ) ==
  LET one == tradeItem[p]
      two == tradeItem[q]
      moved == [holder EXCEPT ![one] = toQ, ![two] = toP]
      others == (Disturbed(one, moved) \cup Disturbed(two, moved)) \ {p, q}
  IN  /\ CloseTrades({p} \cup others, moved)
      /\ owner' = HouseTo(HouseTo(owner, one, q), two, p)
      /\ UNCHANGED <<around, deedOf>>

\* playerAcceptTrade of the first to accept.
Accept(p) ==
  /\ p \in around
  /\ tradeState[p] \in {"ACKNOWLEDGE", "INITIATED"}
  /\ tradeState[tradePartner[p]] # "ACCEPT"
  /\ tradeState' = [tradeState EXCEPT ![p] = "ACCEPT"]
  /\ UNCHANGED <<tradePartner, tradeItem, tradeItems, refs,
                 holder, around, attached, owner, deedOf>>

\* ... and of the second: a script forbids it and both stay as they are,
AcceptDenied(p) ==
  /\ p \in around
  /\ tradeState[p] \in {"ACKNOWLEDGE", "INITIATED"}
  /\ tradeState[tradePartner[p]] = "ACCEPT"
  /\ tradeState' = [tradeState EXCEPT ![p] = "ACCEPT"]
  /\ UNCHANGED <<tradePartner, tradeItem, tradeItems, refs,
                 holder, around, attached, owner, deedOf>>

\* the things do not fit, or there is only one, and the trade is over,
AcceptFails(p) ==
  /\ p \in around
  /\ tradeState[p] \in {"ACKNOWLEDGE", "INITIATED"}
  /\ tradeState[tradePartner[p]] = "ACCEPT"
  /\ CloseTrades({p}, holder)
  /\ UNCHANGED <<around, owner, deedOf>>

\* or the items change hands.
AcceptDone(p, toP, toQ) ==
  LET q == tradePartner[p]
  IN  /\ p \in around
      /\ tradeState[p] \in {"ACKNOWLEDGE", "INITIATED"}
      /\ tradeState[q] = "ACCEPT"
      /\ NoItem \notin {tradeItem[p], tradeItem[q]}
      /\ toP \in Destinations(p)
      /\ toQ \in Destinations(q)
      /\ Exchange(p, q, toP, toQ)

PlayerClose(p) ==
  /\ p \in around
  /\ CloseTrades({p}, holder)
  /\ UNCHANGED <<around, owner, deedOf>>

-----------------------------------------------------------------------------
(* What the players do meanwhile.                                          *)

\* internalMoveItem of a thing within reach.
MoveItem(p, i, to) ==
  LET moved == [holder EXCEPT ![i] = to]
  IN  /\ p \in around
      /\ IsTopParent(i, p) \/ IsTopParent(i, Ground)
      /\ to # holder[i]
      /\ to \in Bags => /\ to # i /\ ~isHoldingItem(i, to)
                        /\ IsTopParent(to, p) \/ IsTopParent(to, Ground)
      /\ CloseTrades(Disturbed(i, moved), moved)
      /\ UNCHANGED <<around, owner, deedOf>>

\* Player::onCreatureMove of p's own step: out of reach of his partner, or of the
\* thing, if he goes away; a document in a detached container is nowhere.
Mutant_TooFar(p, away) == away /\ tradeItem[p] # NoItem /\ IsTopParent(tradeItem[p], Ground)
TooFar(p, away) ==
  \/ tradePartner[p] # NoPlayer /\ away
  \/ tradeItem[p] \in Deeds /\ p \notin attached

Walk(p, away) ==
  /\ p \in around
  /\ around' = IF away THEN around \ {p} ELSE around
  /\ CloseTrades(IF TooFar(p, away) THEN {p} ELSE {}, holder)
  /\ UNCHANGED <<owner, deedOf>>

\* Player::onCreatureDisappear: logout, death, kick.
Mutant_Disappear(p) ==
  /\ p \in around
  /\ around' = around \ {p}
  /\ CloseTrades(IF tradeItem[p] # NoItem THEN {p} ELSE {}, holder)
  /\ UNCHANGED <<owner, deedOf>>

Disappear(p) ==
  /\ p \in around
  /\ around' = around \ {p}
  /\ CloseTrades(IF tradePartner[p] # NoPlayer THEN {p} ELSE {}, holder)
  /\ UNCHANGED <<owner, deedOf>>

Come(p) ==
  /\ p \notin around
  /\ around' = around \cup {p}
  /\ UNCHANGED <<trade, holder, attached, owner, deedOf>>

\* TalkAction::houseBuy.
HouseBuy(p, h) ==
  /\ p \in around
  /\ \A g \in Houses : owner[g] # p
  /\ owner[h] = NoPlayer
  /\ owner' = [owner EXCEPT ![h] = p]
  /\ UNCHANGED <<trade, holder, around, attached, deedOf>>

\* setOwnerEx(0): by the !leavehouse talkaction, or by payHouse when the rent is
\* not paid.
HouseLeft(h) ==
  /\ owner[h] # NoPlayer
  /\ owner' = [owner EXCEPT ![h] = NoPlayer]
  /\ UNCHANGED <<trade, holder, around, attached, deedOf>>

Next ==
  \/ \E p \in Players :
       \/ \E q \in Players :
            \/ \E i \in Wares : RequestTrade(p, q, i)
            \/ \E h \in Houses, d \in Deeds : HouseSell(p, q, h, d)
       \/ Accept(p)
       \/ AcceptDenied(p)
       \/ AcceptFails(p)
       \/ \E toP, toQ \in Players \cup Bags : AcceptDone(p, toP, toQ)
       \/ PlayerClose(p)
       \/ \E i \in Wares, to \in {p, Ground} \cup Bags : MoveItem(p, i, to)
       \/ \E away \in BOOLEAN : Walk(p, away)
       \/ Disappear(p)
       \/ Come(p)
       \/ \E h \in Houses : HouseBuy(p, h)
  \/ \E h \in Houses : HouseLeft(h)

Spec == Init /\ [][Next]_vars

-----------------------------------------------------------------------------
TypeOK ==
  /\ tradeState \in [Players -> {"NONE", "INITIATED", "ACCEPT", "ACKNOWLEDGE"}]
  /\ tradePartner \in [Players -> Players \cup {NoPlayer}]
  /\ tradeItem \in [Players -> Items \cup {NoItem}]
  /\ tradeItems \in [Items -> Players \cup {NoPlayer}]
  /\ refs \in [Items -> 0..2]
  /\ holder \in [Items -> Players \cup Bags \cup {Ground, Nowhere}]
  /\ around \subseteq Players
  /\ attached \subseteq Players
  /\ owner \in [Houses -> Players \cup {NoPlayer}]
  /\ deedOf \in [Deeds -> Houses \cup {NoHouse}]

\* Trading is mutual, and with one player at a time: whoever has a partner is his
\* partner's partner, both are in the game, and one of them at least has offered
\* something (game.cpp compares and dereferences these raw pointers).
PartnersAgree ==
  \A p \in Players :
    IF tradeState[p] = "NONE"
    THEN tradePartner[p] = NoPlayer /\ tradeItem[p] = NoItem
    ELSE /\ tradePartner[p] \in around \ {p} /\ p \in around
         /\ tradePartner[tradePartner[p]] = p
         /\ tradeItem[p] # NoItem \/ tradeItem[tradePartner[p]] # NoItem
         /\ tradeState[p] = "INITIATED" => tradeItem[p] # NoItem
         /\ tradeState[p] = "ACKNOWLEDGE" => tradeItem[p] = NoItem

\* The registry lists exactly what the traders offer, and every item has one
\* reference for being somewhere and one for being listed: none is freed while a
\* trade points at it, none is kept for ever by a trade that is over.
RegistryExact ==
  /\ \A i \in Items, p \in Players : tradeItems[i] = p <=> tradeItem[p] = i
  /\ \A i \in Items : refs[i] = (IF holder[i] = Nowhere THEN 0 ELSE 1)
                              + (IF tradeItems[i] = NoPlayer THEN 0 ELSE 1)
  /\ \A d \in Deeds : holder[d] # Nowhere <=> tradeItems[d] # NoPlayer

\* No offered item is inside another (what playerRequestTrade refuses can only
\* come about by moving things later), so an exchange cannot move one twice.
NotNested ==
  \A i, j \in Items :
    tradeItems[i] # NoPlayer /\ tradeItems[j] # NoPlayer => ~isHoldingItem(i, j)

\* Partners, offers, the registry and the references of the items tell one story in
\* every order of requests, answers, moves and logouts.
TradesAgree == TypeOK /\ PartnersAgree /\ RegistryExact /\ NotNested

\* What a player offers stays with him or on the tile: no other player can have
\* come to hold it while the trade is open.
OfferStaysAtHand ==
  \A p \in Players :
    tradeItem[p] # NoItem =>
      IsTopParent(tradeItem[p], p) \/ IsTopParent(tradeItem[p], Ground)

\* A thing goes from one player's possession to another's in one step only by an
\* exchange: it is what the one offers, or inside it, one of them has accepted, and
\* the same step gives him what the other offers, a house if that is a document.
OnlyByExchange ==
  [][\A p, q \in Players, i \in Items :
       p # q /\ IsTopParent(i, p) /\ q \in Around(holder', i) =>
         /\ tradePartner[p] = q
         /\ tradeItem[p] = i \/ isHoldingItem(tradeItem[p], i)
         /\ "ACCEPT" \in {tradeState[p], tradeState[q]}
         /\ tradeItem[q] \in Wares => p \in Around(holder', tradeItem[q])
         /\ tradeItem[q] \in Deeds => owner'[deedOf[tradeItem[q]]] = p]_vars

\* A house passes by a trade from the player who owns it: houseSell answers "You
\* do not rent any flat." to the others (talkaction.cpp:650).
SellerOwns ==
  [][\A d \in Deeds, p \in Players :
       LET h == deedOf[d]
       IN  tradeItem[p] = d /\ tradeState'[p] = "NONE"
             /\ owner[h] # tradePartner[p] /\ owner'[h] = tradePartner[p] => owner[h] = p]_vars
=============================================================================
