------------------------------- MODULE Storage -------------------------------
(***************************************************************************)
(* What the database keeps of the players, of one house and of what lies   *)
(* in it (source/iologindata.cpp, iomapserialize.cpp, house.cpp, map.cpp). *)
(*                                                                         *)
(* Memory is saved row by row, each row in a transaction of its own: the   *)
(* process may die between any two.  Players who are away are loaded, used *)
(* and saved at once, or not.                                              *)
(*                                                                         *)
(* Abstractions.  A task runs whole and leaves a list of the rows it       *)
(* commits, in their order; nothing else runs until all are written.  A    *)
(* transaction fails once for all its tries.  Things have an identity,     *)
(* which the rows do not keep; the letter of a warning, the bank and all   *)
(* else that a row holds of a player are left out.  The house is no guild  *)
(* hall and has one tile.  What an auction wins in loadMap is left out:    *)
(* loadHouses overwrites it.                                               *)
(***************************************************************************)
EXTENDS FiniteSets, Lists

CONSTANTS
  Owners,         \* players, and
  NoOwner,        \* the owner 0
  Wares, Gold,    \* things; those that are money
  Binary,         \* useHouseDataStorage; without it saves do all they do with it, and more
  MaxDoings,      \* BOUND: calls that move or change something
  MaxMishaps      \* BOUND: crashes and failed transactions

Tiles == "tiles"
Houses == "houses"

ASSUME StorageAssumption ==
  /\ Owners # {} /\ {NoOwner, Tiles, Houses} \cap Owners = {}
  /\ Gold \subseteq Wares /\ Binary \in BOOLEAN
  /\ MaxDoings \in Nat /\ MaxMishaps \in Nat

VARIABLES
  phase,          \* "up", "leaving" once SHUTDOWN, or "down"
  present,        \* the players in the world
  holds,          \* memory: what is in each chest
  home,           \* memory: the house
  stored,         \* the database: player_items, player_depotitems, house_data or tile_items
  homeRow,        \*               houses and house_lists
  auction,        \*               house_auctions: who bids
  writes,         \* the rows still to be committed
  stale,          \* history: the rows a thing moved from or to since they were saved
  suspect,        \* history: things that were stale when memory was lost, or a save cut short
  marred,         \* history: the house changed behind setOwnerEx, or was saved in part
  doings, mishaps \* BOUND

storageVars == <<phase, present, holds, home, stored, homeRow, auction, writes,
                 stale, suspect, marred, doings, mishaps>>
worldOf == <<phase, present, holds, home>>
rowsOf == <<stored, homeRow, auction>>
past == <<stale, suspect, marred>>

Inv(p) == <<p, "inventory">>
Depot(p) == <<p, "depot">>
Land == <<Tiles, "floor">>
Rows == Owners \cup {Tiles}
Chests == (Owners \X {"inventory", "depot"}) \cup {Land}
ChestsOf(r) == {c \in Chests : c[1] = r}
Empty == [c \in Chests |-> {}]

\* Who wrote the lists is kept for what they say.
NoHome == [owner |-> NoOwner, paid |-> FALSE, rentWarnings |-> 0, lists |-> NoOwner, clear |-> FALSE]
HomeType == [owner : Owners \cup {NoOwner}, paid : BOOLEAN, rentWarnings : 0..1,
             lists : Owners \cup {NoOwner}, clear : BOOLEAN]
warningsLimit == 1

-----------------------------------------------------------------------------
(* Calls, on what they find and leave: the chests, the house and the rows  *)
(* to write.  A player who is away is read from the rows.                  *)

Found == [chests |-> [c \in Chests |-> IF c[1] \in present \cup {Tiles} THEN holds[c] ELSE stored[c]],
          home |-> home, writes |-> <<>>, moved |-> [t \in Wares |-> {}]]

savePlayer(g, p) ==
  [g EXCEPT !.writes = Append(@, [row |-> p, home |-> NoHome,
                                  chests |-> [c \in ChestsOf(p) |-> g.chests[c]]])]
\* Whoever is away lives as long as the call: what is not saved is forgotten.
Mutant_SaveVirtual(g, p) == g
SaveVirtual(g, p) == IF p \in present THEN g ELSE savePlayer(g, p)

saveHouse(g) ==
  [g EXCEPT !.writes = Append(@, [row |-> Houses, home |-> [g.home EXCEPT !.clear = FALSE],
                                  chests |-> <<>>])]
saveMap(g) ==
  LET h == saveHouse(g)
  IN  [h EXCEPT !.writes = Append(@, [row |-> Tiles, home |-> NoHome,
                                      chests |-> [c \in {Land} |-> g.chests[c]]])]

TakeAway(g, ts, c) ==
  [g EXCEPT !.chests[c] = @ \ ts,
            !.moved = [t \in Wares |-> g.moved[t] \cup (IF t \in ts THEN {c[1]} ELSE {})]]
Move(g, ts, from, to) ==
  LET h == TakeAway(g, ts, from)
  IN  [h EXCEPT !.chests[to] = @ \cup ts,
                !.moved = [t \in Wares |-> @[t] \cup (IF t \in ts THEN {to[1]} ELSE {})]]

transferToDepot(g) == SaveVirtual(Move(g, g.chests[Land], Land, Depot(g.home.owner)), g.home.owner)

Mutant_Vacate(g, transfer) ==           \* the lists stay
  LET h == IF transfer THEN transferToDepot(g) ELSE g
  IN  [h EXCEPT !.home.rentWarnings = 0, !.home.paid = FALSE]
Vacate(g, transfer) ==
  LET h == IF transfer THEN transferToDepot(g) ELSE g
  IN  [h EXCEPT !.home.rentWarnings = 0, !.home.paid = FALSE, !.home.lists = NoOwner]
setOwnerEx(g, guid, transfer) ==
  IF g.home.owner = guid THEN g
  ELSE LET h == IF g.home.owner = NoOwner THEN g ELSE Vacate(g, transfer)
       IN  saveHouse([h EXCEPT !.home.owner = guid])

\* The owner counts as away too long or without premium, or not; a day has passed since
\* the last warning, or not.  Whoever pays while he is away is not saved, and so has not
\* paid.
payHouse(g, unfit, late) ==
  LET p == g.home.owner
      coins == g.chests[Depot(p)] \cap Gold
      paid == [g EXCEPT !.home.paid = TRUE]
  IN  IF p = NoOwner \/ g.home.paid THEN g
      ELSE IF unfit THEN setOwnerEx(g, NoOwner, TRUE)
      ELSE IF coins # {} THEN
        IF p \in present THEN TakeAway(paid, {CHOOSE t \in coins : TRUE}, Depot(p)) ELSE paid
      ELSE IF ~ late THEN g
      ELSE IF g.home.rentWarnings < warningsLimit
           THEN SaveVirtual([g EXCEPT !.home.rentWarnings = @ + 1], p)
      ELSE setOwnerEx(g, NoOwner, TRUE)

-----------------------------------------------------------------------------
(* The world.                                                              *)

Serves == phase = "up" /\ writes = <<>>
Doing == Serves /\ doings < MaxDoings /\ doings' = doings + 1

\* Memory of whoever is away is not kept; what moved awaits the rows it moved between.
Left(g, now) ==
  /\ present' = now
  /\ holds' = [c \in Chests |-> IF c[1] \in now \cup {Tiles} THEN g.chests[c] ELSE {}]
  /\ home' = g.home /\ writes' = g.writes
  /\ stale' = [t \in Wares |-> stale[t] \cup g.moved[t]]
Does(g) ==
  /\ Doing /\ Left(g, present)
  /\ UNCHANGED <<phase, rowsOf, suspect, mishaps>>

Login(p) ==
  /\ Serves /\ p \notin present
  /\ Left(Found, present \cup {p})
  /\ UNCHANGED <<phase, rowsOf, suspect, marred, doings, mishaps>>

onCreatureDisappear(p) ==
  /\ Serves /\ p \in present
  /\ Left(savePlayer(Found, p), present \ {p})
  /\ UNCHANGED <<phase, rowsOf, suspect, marred, doings, mishaps>>

CarryItem(p, t) ==
  /\ p \in present
  /\ \E from, to \in {Inv(p), Depot(p), Land} :
       /\ from # to /\ t \in holds[from]
       /\ Does(Move(Found, {t}, from, to))
  /\ UNCHANGED marred

\* A parcel to a player who may be away.
playerMail(p, q, t) ==
  /\ p \in present /\ t \in holds[Inv(p)]
  /\ Does(SaveVirtual(Move(Found, {t}, Inv(p), Depot(q)), q))
  /\ UNCHANGED marred

\* Guests, sub-owners and doors; who lets a sub-owner write is the owner.
setAccessList(p) ==
  /\ p \in present /\ home.owner = p
  /\ Does([Found EXCEPT !.home.lists = p])
  /\ UNCHANGED marred

houseBuy(p, skipsInitRent) ==
  /\ p \in present /\ home.owner = NoOwner
  /\ \E t \in holds[Inv(p)] \cap Gold :
       LET g == setOwnerEx(TakeAway(Found, {t}, Inv(p)), p, TRUE)
       IN  Does(IF skipsInitRent THEN [g EXCEPT !.home.paid = TRUE] ELSE g)
  /\ UNCHANGED marred

\* By a script, or for a trade.
setHouseOwner(guid, transfer) ==
  /\ home.owner # guid /\ Does(setOwnerEx(Found, guid, transfer))
  /\ UNCHANGED marred

RentRunsOut == home.paid /\ Does([Found EXCEPT !.home.paid = FALSE]) /\ UNCHANGED marred
payHouses(unfit, late) ==
  /\ home.owner # NoOwner /\ ~ home.paid
  /\ Does(payHouse(Found, unfit, late)) /\ UNCHANGED marred

\* The row is deleted at once, in a transaction of its own; the house is not saved.
updateAuctions ==
  /\ auction # NoOwner /\ auction' = NoOwner /\ marred' = TRUE
  /\ Doing
  /\ \E unfit, late \in BOOLEAN :
       Left(payHouse([Found EXCEPT !.home.owner = auction], unfit, late), present)
  /\ UNCHANGED <<phase, stored, homeRow, suspect, mishaps>>

\* One after the other, in the order they came.
SavePlayers(order) == InTurn(savePlayer, Found, order)
SaveGame ==
  /\ Serves
  /\ \E order \in SetToSeqs(present) : Left(saveMap(SavePlayers(order)), present)
  /\ UNCHANGED <<phase, rowsOf, suspect, marred, doings, mishaps>>

\* Once all have been kicked.
SaveAndLeave ==
  /\ Serves /\ present = {} /\ phase' = "leaving"
  /\ \E unfit, late \in BOOLEAN : Left(saveMap(payHouse(Found, unfit, late)), {})
  /\ UNCHANGED <<rowsOf, suspect, marred, doings, mishaps>>

-----------------------------------------------------------------------------
(* The database.                                                           *)

Written(w) ==
  /\ stored' = [c \in Chests |-> IF c \in DOMAIN w.chests THEN w.chests[c] ELSE stored[c]]
  /\ homeRow' = IF w.row = Houses THEN w.home ELSE homeRow

Commit ==
  /\ writes # <<>> /\ writes' = Tail(writes)
  /\ Written(Head(writes))
  /\ stale' = [t \in Wares |-> stale[t] \ {Head(writes).row}]
  /\ UNCHANGED <<worldOf, auction, suspect, marred, doings, mishaps>>

Mishap == mishaps < MaxMishaps /\ mishaps' = mishaps + 1

\* Those who have left are not saved again.
PlayerNotSaved(p) ==
  /\ p \in Owners /\ writes' = Tail(writes)
  /\ IF p \in present THEN UNCHANGED <<stale, suspect>>
     ELSE /\ suspect' = suspect \cup {t \in Wares : p \in stale[t]}
          /\ stale' = [t \in Wares |-> stale[t] \ {p}]
  /\ UNCHANGED <<stored, homeRow, marred>>

\* Without a transaction the map is not saved either; in one, saveHouse may stop before
\* its UPDATE, its DELETE or its INSERT, and what it did is committed.
HouseNotSaved(row) ==
  /\ row = Houses /\ marred' = TRUE
  /\ \/ writes' = <<>> /\ UNCHANGED homeRow
     \/ /\ writes' = Tail(writes)
        /\ \E lists \in {homeRow.lists, NoOwner} :
             homeRow' \in {homeRow, [Head(writes).home EXCEPT !.lists = lists]}
  /\ UNCHANGED <<stored, stale, suspect>>

\* The relational store commits its DELETE without what it could not insert.
MapNotSaved(row) ==
  /\ row = Tiles /\ writes' = Tail(writes)
  /\ \/ UNCHANGED <<stored, stale, suspect>>
     \/ LET lost == stored[Land] \cup holds[Land]
        IN  /\ ~ Binary /\ stored' = [stored EXCEPT ![Land] = {}]
            /\ suspect' = suspect \cup lost
            /\ stale' = [t \in Wares |-> stale[t] \cup (IF t \in lost THEN {Tiles} ELSE {})]
  /\ UNCHANGED <<homeRow, marred>>

Fail ==
  /\ writes # <<>> /\ Mishap
  /\ LET row == Head(writes).row IN PlayerNotSaved(row) \/ HouseNotSaved(row) \/ MapNotSaved(row)
  /\ UNCHANGED <<worldOf, auction, doings>>

MemoryIsLost ==
  /\ phase' = "down" /\ present' = {} /\ holds' = Empty /\ home' = NoHome /\ writes' = <<>>
  /\ suspect' = suspect \cup {t \in Wares : stale[t] # {}}
  /\ stale' = [t \in Wares |-> {}]
  /\ UNCHANGED <<rowsOf, marred, doings>>

Crash == phase # "down" /\ Mishap /\ MemoryIsLost
ProcessEnds == phase = "leaving" /\ writes = <<>> /\ MemoryIsLost /\ UNCHANGED mishaps

-----------------------------------------------------------------------------
(* Map::loadMap.                                                           *)

loadHouses == [homeRow EXCEPT !.lists = IF homeRow.owner = NoOwner THEN NoOwner ELSE @]

\* The things of a house to be cleared go to the depot of its new owner; the rows they
\* came from, and the order to clear it, stay until the next save.
loadMap ==
  /\ phase = "down" /\ phase' = "up"
  /\ LET g == [chests |-> stored, home |-> loadHouses, writes |-> <<>>,
               moved |-> [t \in Wares |-> {}]]
     IN  Left(IF loadHouses.clear /\ stored[Land] # {} THEN transferToDepot(g) ELSE g, {})
  /\ auction' = NoOwner
  /\ UNCHANGED <<stored, homeRow, suspect, marred, doings, mishaps>>

\* The site of the server: a bid on a free house, a house given away while it is down.
Bid ==
  /\ doings < MaxDoings /\ doings' = doings + 1
  /\ writes = <<>> /\ homeRow.owner = NoOwner
  /\ auction' \in Owners \ {auction}
  /\ UNCHANGED <<worldOf, stored, homeRow, writes, past, mishaps>>
GiveAway ==
  /\ doings < MaxDoings /\ doings' = doings + 1
  /\ phase = "down"
  /\ \E p \in Owners : homeRow' = [homeRow EXCEPT !.owner = p, !.clear = TRUE, !.paid = FALSE]
  /\ marred' = (marred \/ homeRow.lists # NoOwner)
  /\ UNCHANGED <<worldOf, stored, auction, writes, stale, suspect, mishaps>>

-----------------------------------------------------------------------------
StorageInit ==
  /\ phase = "up" /\ present = {}
  /\ LET p == CHOOSE p \in Owners : TRUE IN
       /\ stored = [Empty EXCEPT ![Inv(p)] = Wares]
       /\ homeRow = [NoHome EXCEPT !.owner = p, !.lists = p]
  /\ home = homeRow
  /\ holds = Empty /\ auction = NoOwner /\ writes = <<>>
  /\ stale = [t \in Wares |-> {}] /\ suspect = {} /\ marred = FALSE
  /\ doings = 0 /\ mishaps = 0

StorageNext ==
  \/ \E p \in Owners : Login(p) \/ onCreatureDisappear(p) \/ setAccessList(p)
  \/ \E p \in Owners, t \in Wares : CarryItem(p, t) \/ \E q \in Owners : playerMail(p, q, t)
  \/ \E p \in Owners, b \in BOOLEAN : houseBuy(p, b)
  \/ \E p \in Owners \cup {NoOwner}, b \in BOOLEAN : setHouseOwner(p, b)
  \/ RentRunsOut \/ \E unfit, late \in BOOLEAN : payHouses(unfit, late)
  \/ updateAuctions \/ SaveGame \/ SaveAndLeave
  \/ Commit \/ Fail \/ Crash \/ ProcessEnds \/ loadMap \/ Bid \/ GiveAway

StorageSpec == StorageInit /\ [][StorageNext]_storageVars

StorageTypeOK ==
  /\ phase \in {"up", "leaving", "down"} /\ present \subseteq Owners
  /\ holds \in [Chests -> SUBSET Wares] /\ stored \in [Chests -> SUBSET Wares]
  /\ home \in HomeType /\ homeRow \in HomeType
  /\ auction \in Owners \cup {NoOwner}
  /\ \A i \in DOMAIN writes : writes[i].row \in Rows \cup {Houses}
  /\ stale \in [Wares -> SUBSET Rows] /\ suspect \subseteq Wares /\ marred \in BOOLEAN
  /\ doings \in 0..MaxDoings /\ mishaps \in 0..MaxMishaps

\* A crash, a failed save or a restart costs or doubles only what moved since the rows
\* it moved between were last saved (IOLoginData::savePlayer, IOMapSerialize::saveMap):
\* anything else is in one row, and lies in memory where its row says.
RowsKeepWhatRests ==
  /\ \A t \in Wares \ suspect : stale[t] = {} =>
       LET n == Cardinality({c \in Chests : t \in stored[c]})
       IN  n = 1 \/ (n = 0 /\ t \in Gold)
  /\ phase # "down" /\ writes = <<>> =>
       \A r \in present \cup {Tiles}, t \in Wares :
         r \notin stale[t] => \A c \in ChestsOf(r) : t \in holds[c] <=> t \in stored[c]

\* House::setOwnerEx saves a new owner at once, and the access lists of the old one are
\* never in force for the new one, in memory or after a restart: unless an auction or the
\* site gave the house away, or it was saved in part.
TheHouseIsTheOwners ==
  marred \/ /\ \A h \in {home, homeRow} : h.lists \in {NoOwner, h.owner}
            /\ phase # "down" /\ writes = <<>> => home.owner = homeRow.owner

\* What the database has after a crash is nobody's loss: not of things, nor of a house.
RowsAreTrue == StorageTypeOK /\ RowsKeepWhatRests /\ TheHouseIsTheOwners
=============================================================================
