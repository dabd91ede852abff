-------------------------------- MODULE Items --------------------------------
(***************************************************************************)
(* Items and the cylinders that hold them: the slots of a player, a bag, a *)
(* tile (source/game.cpp, player.cpp, container.cpp, tile.cpp).            *)
(*                                                                         *)
(* An item has its place twice: in its parent pointer and in the list of   *)
(* the parent.  A move or an addition asks the target where (destination), *)
(* whether (queryAdd) and how much (maxCount), then splits, merges and     *)
(* exchanges stacks; some of it may fail after the rest was done.          *)
(*                                                                         *)
(* Abstractions.  One kind of coin in stacks of MaxStack (100 in the       *)
(* code), one bag, one sword, a tile that is its down items.  Slots differ *)
(* in what fits only.  The rules of hands, scripts, tile limits, nested    *)
(* bags and the weight of anything but coins are left out.                 *)
(*                                                                         *)
(* What a call finds out is handed to the operator for what it does next.  *)
(***************************************************************************)
EXTENDS Integers, Sequences, FiniteSets, SequencesExt, FiniteSetsExt

CONSTANTS
  Stacks,         \* objects for stacks of coins; free again once deleted
  Bag, Sword,
  Player, Tile,   \* the other cylinders
  Nil,            \* no item, no parent
  NSlots,         \* the slots, the first of them for the bag and nothing else
  MaxStack, BagSize,
  Strength,       \* the capacity of the player, in coins
  MaxCalls        \* BOUND: the operations of a behaviour

Anywhere == -1    \* INDEX_WHEREEVER
Slots == 1..NSlots
Goods == Stacks \cup {Bag, Sword}
Cylinders == {Player, Bag, Tile}

ASSUME ItemsAssumption ==
  /\ Stacks \cap {Bag, Sword} = {} /\ Bag # Sword
  /\ Player # Tile /\ {Player, Tile, Nil} \cap Goods = {}
  /\ NSlots \in Nat \ {0} /\ MaxStack \in Nat \ {0}
  /\ BagSize \in Nat /\ Strength \in Nat /\ MaxCalls \in Nat

VARIABLES
  held,           \* the items: count and parent, and the lists of the cylinders
  tradedBag,      \* the bag is the tradeItem of the player
  owed,           \* history: how many coins there have to be
  traded,         \* history: coins were added while the bag was in a trade
  calls           \* BOUND

itemVars == <<held, tradedBag, owed, traded, calls>>

Stackable(i) == i \in Stacks
Cut(f, i) == SelectSeq(f, LAMBDA j : j # i)
Placed(w) == ({w.slots[s] : s \in Slots} \cup ToSet(w.list) \cup ToSet(w.ground)) \ {Nil}
Coins(w, I) == MapThenSumSet(LAMBDA i : w.count[i], I \cap Stacks)

\* A new stack of n coins, and the deletion of one.
Unused(w) == CHOOSE i \in Stacks : w.count[i] = 0
CreateItem(w, n) == [w EXCEPT !.count[Unused(w)] = n]
Delete(w, i) == IF Stackable(i) THEN [w EXCEPT !.count[i] = 0] ELSE w

-----------------------------------------------------------------------------
(* What the cylinders do.                                                  *)

addThing(w, c, idx, i) ==
  CASE c = Player -> IF idx \in Slots
                     THEN [w EXCEPT !.slots[idx] = i, !.parent[i] = Player] ELSE w
    [] c = Bag -> IF idx >= BagSize THEN w
                  ELSE [w EXCEPT !.list = <<i>> \o @, !.parent[i] = Bag]
    [] c = Tile -> [w EXCEPT !.ground = <<i>> \o @, !.parent[i] = Tile]

\* The last of a stack, or anything else, goes; else the stack shrinks.
removeThing(w, i, n) ==
  IF Stackable(i) /\ n # w.count[i] THEN [w EXCEPT !.count[i] = Max({0, @ - n})]
  ELSE [w EXCEPT !.parent[i] = Nil,
                 !.slots = [s \in Slots |-> IF @[s] = i THEN Nil ELSE @[s]],
                 !.list = Cut(@, i),
                 !.ground = Cut(@, i)]

updateThing(w, i, n) == [w EXCEPT !.count[i] = n]

queryRemove(w, i, n) == n > 0 /\ (Stackable(i) => n <= w.count[i])

getThing(w, c, idx) ==
  CASE c = Player -> IF idx \in Slots THEN w.slots[idx] ELSE Nil
    [] c = Bag -> IF idx + 1 \in DOMAIN w.list THEN w.list[idx + 1] ELSE Nil
    [] c = Tile -> IF w.ground # <<>> THEN Head(w.ground) ELSE Nil

Carried(w, i) == w.parent[i] = Player \/ (w.parent[i] = Bag /\ w.parent[Bag] = Player)
Weight(w, i, n) == IF i = Bag THEN Coins(w, ToSet(w.list)) ELSE IF Stackable(i) THEN n ELSE 0
hasCapacity(w, i, n) ==
  Carried(w, i) \/ Weight(w, i, n) < Strength - Coins(w, {j \in Stacks : Carried(w, j)})

-----------------------------------------------------------------------------
(* queryAdd: "ok", "exchange", or why not.                                 *)

Fits(i, s) == (s = 1) <=> (i = Bag)

PlayerQueryAdd(w, s, i, n) ==
  LET ret == IF s \in {0, Anywhere} THEN "noRoom"
             ELSE IF Fits(i, s) THEN "ok" ELSE "cannotBeDressed"
      there == getThing(w, Player, s)
  IN  IF ret = "cannotBeDressed" THEN ret
      ELSE IF there # Nil /\ ~ (Stackable(there) /\ Stackable(i)) THEN "exchange"
      ELSE IF ~ hasCapacity(w, i, n) THEN "tooHeavy" ELSE ret

BagQueryAdd(w, idx, i, n, noLimit) ==
  IF i = Bag THEN "impossible"
  ELSE IF idx = Anywhere /\ ~ noLimit /\ Len(w.list) >= BagSize THEN "noRoom"
  ELSE IF w.parent[Bag] = Player /\ ~ noLimit /\ ~ hasCapacity(w, i, n) THEN "tooHeavy"
  ELSE "ok"

queryAdd(w, c, idx, i, n, noLimit) ==
  CASE c = Player -> PlayerQueryAdd(w, idx, i, n)
    [] c = Bag -> BagQueryAdd(w, idx, i, n, noLimit)
    [] c = Tile -> "ok"

-----------------------------------------------------------------------------
(* maxCount: how many fit, and whether that is enough.                     *)

Room(w, j) == MaxStack - w.count[j]
CanTopUp(w, i, j) == Stackable(i) /\ Stackable(j) /\ w.count[j] < MaxStack

BagMaxCount(w, idx, i, n, noLimit) ==
  LET free == Max({0, BagSize - Len(w.list)})
      at == IF idx = Anywhere THEN 0..(Len(w.list) - 1) ELSE {idx}
      fill == {p \in at : LET j == getThing(w, Bag, p)
                          IN  /\ j # Nil /\ CanTopUp(w, i, j) /\ (idx = Anywhere => j # i)
                              /\ BagQueryAdd(w, p, i, Room(w, j), noLimit) = "ok"}
      all == free * MaxStack + MapThenSumSet(LAMBDA p : Room(w, getThing(w, Bag, p)), fill)
  IN  IF noLimit THEN [most |-> Max({1, n}), enough |-> TRUE]
      ELSE IF Stackable(i) THEN [most |-> all, enough |-> all >= n]
      ELSE [most |-> free, enough |-> free # 0]

PlayerMaxCount(w, s, i, n) ==
  LET one == IF Stackable(i) THEN MaxStack ELSE 1
      fitting(t) ==
        LET j == w.slots[t]
        IN  CASE j = Bag -> BagMaxCount(w, Anywhere, i, n, FALSE).most
              [] j = Nil -> IF PlayerQueryAdd(w, t, i, w.count[i]) = "ok" THEN one ELSE 0
              [] OTHER -> IF CanTopUp(w, i, j) /\ PlayerQueryAdd(w, t, i, Room(w, j)) = "ok"
                          THEN Room(w, j) ELSE 0
      all == MapThenSumSet(fitting, Slots)
      j == getThing(w, Player, s)
  IN  IF s = Anywhere THEN [most |-> all, enough |-> all >= n]
      ELSE IF j # Nil
      THEN LET most == IF CanTopUp(w, i, j) THEN Room(w, j) ELSE 0
           IN  [most |-> most, enough |-> most >= n]
      ELSE IF PlayerQueryAdd(w, s, i, n) = "ok" THEN [most |-> one, enough |-> TRUE]
      ELSE [most |-> 0, enough |-> n = 0]

maxCount(w, c, idx, i, n, noLimit) ==
  CASE c = Player -> PlayerMaxCount(w, idx, i, n)
    [] c = Bag -> BagMaxCount(w, idx, i, n, noLimit)
    [] c = Tile -> [most |-> Max({1, n}), enough |-> TRUE]

-----------------------------------------------------------------------------
(* destination: the cylinder, the index there and the item that is there.  *)

To(c, idx, j) == [c |-> c, idx |-> idx, item |-> j]

\* A stack to top up in the slots, then in the bag, then the first free place; a
\* bag in a trade is not looked into.
PlayerSearch(w, i, noLimit) ==
  LET n == w.count[i]
      inside == w.parent[Bag] = Player /\ i # Bag /\ ~ tradedBag
      slots == {s \in Slots : LET j == w.slots[s]
                              IN  /\ j # Nil /\ j # i /\ CanTopUp(w, i, j)
                                  /\ PlayerQueryAdd(w, s, i, n) = "ok"}
      spots == {p \in 0..(Len(w.list) - 1) :
                  LET j == getThing(w, Bag, p)
                  IN  /\ inside /\ j # i /\ CanTopUp(w, i, j)
                      /\ BagQueryAdd(w, p, i, n, FALSE) = "ok"}
      free == {s \in Slots : w.slots[s] = Nil /\ PlayerQueryAdd(w, s, i, n) = "ok"}
      next == Len(w.list)
  IN  IF slots # {} THEN To(Player, Min(slots), w.slots[Min(slots)])
      ELSE IF spots # {} THEN To(Bag, Min(spots), getThing(w, Bag, Min(spots)))
      ELSE IF free # {} THEN To(Player, Min(free), Nil)
      ELSE IF inside /\ next < BagSize /\ BagQueryAdd(w, next, i, n, noLimit) = "ok"
      THEN To(Bag, next, Nil)
      ELSE To(Player, Anywhere, Nil)

\* The bag names the index after the one of the stack.
BagSearch(w, idx, i) ==
  LET stack == {p \in DOMAIN w.list : CanTopUp(w, i, w.list[p])}
  IN  IF w.parent[i] # Bag /\ stack # {} THEN To(Bag, Max(stack), w.list[Max(stack)])
      ELSE IF idx >= BagSize THEN To(Bag, Anywhere, Nil)
      ELSE To(Bag, idx, getThing(w, Bag, idx))

destination(w, c, idx, i, noLimit) ==
  CASE c = Player -> IF idx \in {0, Anywhere} THEN PlayerSearch(w, i, noLimit)
                     ELSE IF w.slots[idx] = Bag THEN To(Bag, Anywhere, Nil)
                     ELSE To(Player, idx, w.slots[idx])
    [] c = Bag -> BagSearch(w, idx, i)
    [] c = Tile -> To(Tile, idx, getThing(w, Tile, idx))

-----------------------------------------------------------------------------
(* Game::internalMoveItem.                                                 *)

Result(w, ret) == [w |-> w, ret |-> ret]

Inner(w, d, c, i) == IF d.c = c THEN d ELSE destination(w, d.c, d.idx, i, FALSE)
Final(w, c, idx, i) == Inner(w, destination(w, c, idx, i, FALSE), c, i)
Nothing(max) == max.most = 0 /\ ~ max.enough

\* j, in the slot i is to go to, changes places with i as far as it can.
Exchange(w, d, i, n) ==
  LET from == w.parent[i]
      j == d.item
      idx == IF from = Bag THEN SelectInSeq(w.list, LAMBDA k : k = i) - 1 ELSE 0
      ret == queryAdd(w, from, idx, j, w.count[j], FALSE)
      v == addThing(removeThing(w, j, w.count[j]), from, 0, j)
  IN  IF ret # "ok" THEN Result(w, ret)
      ELSE IF Nothing(maxCount(w, from, Anywhere, j, w.count[j], FALSE)) THEN Result(w, "noRoom")
      ELSE Result(v, queryAdd(v, d.c, d.idx, i, n, FALSE))

\* m of i go to d: to the stack there as many as fit, the rest as an item.
Mutant_Transfer(w, d, i, m) ==          \* the rest is reckoned from the whole stack
  LET v == removeThing(w, i, m)
      k == IF d.item # Nil /\ Stackable(d.item) THEN Min({Room(v, d.item), m}) ELSE 0
      merged == IF k > 0 THEN updateThing(v, d.item, v.count[d.item] + k) ELSE v
      x == IF merged.parent[i] = Nil THEN Delete(merged, i) ELSE merged
      left == w.count[i] - k
  IN  IF ~ Stackable(i) THEN addThing(v, d.c, d.idx, i)
      ELSE IF left = 0 THEN x
      ELSE addThing(CreateItem(x, left), d.c, d.idx, Unused(x))
Transfer(w, d, i, m) ==
  LET v == removeThing(w, i, m)
      k == IF d.item # Nil /\ Stackable(d.item) THEN Min({Room(v, d.item), m}) ELSE 0
      merged == IF k > 0 THEN updateThing(v, d.item, v.count[d.item] + k) ELSE v
      x == IF merged.parent[i] = Nil THEN Delete(merged, i) ELSE merged
  IN  IF ~ Stackable(i) THEN addThing(v, d.c, d.idx, i)
      ELSE IF m = k THEN x
      ELSE addThing(CreateItem(x, m - k), d.c, d.idx, Unused(x))

MoveAtMost(e, d, i, n, max) ==
  LET m == IF Stackable(i) THEN Min({n, max.most}) ELSE max.most
  IN  IF Nothing(max) THEN Result(e.w, "noRoom")
      ELSE IF ~ queryRemove(e.w, i, m) THEN e
      ELSE Result(Transfer(e.w, d, i, m), IF max.enough THEN "ok" ELSE "noRoom")
MoveIfAllowed(e, d, i, n) ==
  IF e.ret # "ok" THEN e
  ELSE MoveAtMost(e, d, i, n, maxCount(e.w, d.c, d.idx, i, n, FALSE))
MoveTo(w, d, i, n) ==
  LET ret == queryAdd(w, d.c, d.idx, i, n, FALSE)
  IN  IF i = d.item THEN Result(w, "ok")
      ELSE IF ret = "exchange"
      THEN MoveIfAllowed(Exchange(w, d, i, n), [d EXCEPT !.item = Nil], i, n)
      ELSE MoveIfAllowed(Result(w, ret), d, i, n)
internalMoveItem(w, c, idx, i, n) == MoveTo(w, Final(w, c, idx, i), i, n)

-----------------------------------------------------------------------------
(* Game::internalAddItem and those who call it.                            *)

\* rest: remainderCount; stack: the item that was topped up; more: what is left of i, a
\* new stack, which the call goes on to add.
Added(w, i, ret, rest, stack, more) ==
  [w |-> w, item |-> i, ret |-> ret, rest |-> rest, stack |-> stack, more |-> more]

AddUpTo(w, d, i, m) ==
  LET k == IF d.item # Nil /\ Stackable(d.item) THEN Min({Room(w, d.item), m}) ELSE 0
      v == IF k > 0 THEN updateThing(w, d.item, w.count[d.item] + k) ELSE w
  IN  IF Stackable(i) /\ m = k THEN Added(Delete(v, i), i, "ok", 0, d.item, Nil)
      ELSE IF Stackable(i) /\ d.item # Nil /\ w.count[i] # m - k
      THEN Added(CreateItem(v, m - k), i, "ok", m - k, d.item, Unused(v))
      ELSE Added(addThing(v, d.c, d.idx, i), i, "ok", 0, d.item, Nil)
AddIfRoom(w, d, i, max) ==
  IF max.enough THEN AddUpTo(w, d, i, Min({w.count[i], max.most}))
  ELSE Added(w, i, "noRoom", 0, d.item, Nil)
AddAt(w, d, c, i, noLimit) ==
  LET ret == queryAdd(w, d.c, d.idx, i, w.count[i], noLimit)
  IN  IF ret # "ok" THEN Added(w, i, ret, 0, d.item, Nil)
      ELSE AddIfRoom(w, d, i, maxCount(w, c, Anywhere, i, w.count[i], noLimit))
AddOnce(w, c, i, idx, noLimit) == AddAt(w, destination(w, c, idx, i, noLimit), c, i, noLimit)

\* When all is added every stack but the last was used up; else what was made for the rest
\* is deleted again, and the first call tells how much that was.
Unwound(adds) ==
  LET a == Last(adds)
      spent == {adds[k].item : k \in IF a.ret = "ok" THEN 1..(Len(adds) - 1) ELSE 2..Len(adds)}
  IN  [w |-> [a.w EXCEPT !.count = [i \in Goods |-> IF i \in spent THEN 0 ELSE @[i]]],
       ret |-> a.ret,
       rest |-> IF a.ret = "ok" THEN 0 ELSE adds[1].rest,
       stack |-> adds[1].stack]
\* It calls itself for what is left, which is less each time.
internalAddItem(w, c, i, idx, noLimit) ==
  Unwound(FoldLeft(LAMBDA adds, n :
                     IF Last(adds).more = Nil THEN adds
                     ELSE Append(adds, AddOnce(Last(adds).w, c, Last(adds).more, Anywhere, noLimit)),
                   <<AddOnce(w, c, i, idx, noLimit)>>,
                   [n \in 1..MaxStack |-> n]))

OnTheGround(w, i) == internalAddItem(w, Tile, i, Anywhere, TRUE).w
Instead(w, i, n) == IF n = 0 THEN <<w, i>> ELSE <<CreateItem(Delete(w, i), n), Unused(Delete(w, i))>>
DropRest(w, i, rest) == LET left == Instead(w, i, rest) IN OnTheGround(left[1], left[2])

\* What could not be kept lies on the ground or, when it must not, was never there.
Kept(a, i, n, dropOnMap) ==
  LET v == Delete(a.w, i)
      left == v.count[a.stack] - (n - a.rest)
  IN  IF a.ret = "ok" THEN Result(a.w, "ok")
      ELSE IF dropOnMap THEN Result(DropRest(a.w, i, a.rest), "ok")
      ELSE IF a.rest = 0 \/ a.stack = Nil THEN Result(v, a.ret)
      ELSE Result(IF left = 0 THEN Delete(removeThing(v, a.stack, v.count[a.stack]), a.stack)
                  ELSE updateThing(v, a.stack, left), a.ret)
internalPlayerAddItem(w, n, dropOnMap) ==
  LET i == Unused(w)
  IN  Kept(internalAddItem(CreateItem(w, n), Player, i, Anywhere, FALSE), i, n, dropOnMap)

addMoney(w, n) == internalPlayerAddItem(w, n, TRUE).w

internalRemoveItem(w, i, n) ==
  LET v == removeThing(w, i, n) IN IF v.parent[i] = Nil THEN Delete(v, i) ELSE v

\* The player's stacks: in the slots, then in the bag.
Purse(w) ==
  SelectSeq([s \in Slots |-> w.slots[s]] \o (IF w.parent[Bag] = Player THEN w.list ELSE <<>>),
            Stackable)
Wealth(w) == Coins(w, ToSet(Purse(w)))

\* From each stack in turn, all or what is still asked for.
removeItemOfType(w, n) ==
  FoldLeft(LAMBDA a, i : LET k == Min({a.n, a.w.count[i]})
                         IN  IF k = 0 THEN a
                             ELSE [w |-> internalRemoveItem(a.w, i, k), n |-> a.n - k],
           [w |-> w, n |-> n], Purse(w)).w

\* The smallest stacks go first, whole; the change is given back.
removeMoney(w, n) ==
  LET byWorth == SortSeq(Purse(w), LAMBDA i, j : w.count[i] < w.count[j])
      paid == FoldLeft(LAMBDA a, i :
                         IF a.n <= 0 THEN a
                         ELSE [w |-> internalRemoveItem(a.w, i, w.count[i]),
                               n |-> a.n - w.count[i]],
                       [w |-> w, n |-> n], byWorth)
  IN  IF paid.n < 0 THEN addMoney(paid.w, - paid.n) ELSE paid.w

-----------------------------------------------------------------------------
(* The operations.                                                         *)

Called == calls < MaxCalls /\ calls' = calls + 1
Indices(c) == CASE c = Player -> {Anywhere} \cup Slots
                [] c = Bag -> {Anywhere} \cup 0..(BagSize - 1)
                [] c = Tile -> {Anywhere}

playerMoveItem(i, c, idx, n) ==
  /\ i \in Placed(held)
  /\ n \in 1..Max({1, held.count[i]})
  /\ ~ (tradedBag /\ i = Bag)
  /\ held' = internalMoveItem(held, c, idx, i, n).w
  /\ Called
  /\ UNCHANGED <<tradedBag, owed, traded>>

GiveItem(n, r) ==
  /\ held' = r.w
  /\ owed' = IF r.ret = "ok" THEN owed + n ELSE owed
  /\ traded' = (traded \/ tradedBag)
  /\ Called
  /\ UNCHANGED tradedBag

Take(n, after) ==
  /\ n <= Wealth(held)
  /\ held' = after
  /\ owed' = owed - n
  /\ traded' = (traded \/ tradedBag)
  /\ Called
  /\ UNCHANGED tradedBag

Destroy(i, n) ==
  /\ i \in Placed(held) \cap Stacks /\ n \in 1..held.count[i]
  /\ held' = internalRemoveItem(held, i, n)
  /\ owed' = owed - n
  /\ Called
  /\ UNCHANGED <<tradedBag, traded>>

\* The bag comes into a trade, or the trade is over.
TradeBag ==
  /\ tradedBag \/ held.parent[Bag] = Player
  /\ tradedBag' = ~ tradedBag
  /\ Called
  /\ UNCHANGED <<held, owed, traded>>

\* The bag and two stacks are worn, the sword lies on the ground.
StartWith(i, s, j, t) ==
  [count |-> [k \in Goods |-> CASE k = i -> s [] k = j -> t
                                [] k \in {Bag, Sword} -> 1 [] OTHER -> 0],
   parent |-> [k \in Goods |-> CASE k \in {i, j, Bag} -> Player [] k = Sword -> Tile
                                 [] OTHER -> Nil],
   slots |-> [x \in Slots |-> CASE x = 1 -> Bag [] x = 2 -> i [] x = 3 -> j [] OTHER -> Nil],
   list |-> <<>>, ground |-> <<Sword>>]

ItemsInit ==
  LET i == CHOOSE k \in Stacks : TRUE
      j == CHOOSE k \in Stacks \ {i} : TRUE
  IN  /\ \E s, t \in 1..MaxStack : held = StartWith(i, s, j, t)
      /\ owed = Coins(held, Stacks)
      /\ tradedBag = FALSE /\ traded = FALSE /\ calls = 0

ItemsNext ==
  \/ \E i \in Goods, c \in Cylinders :
       \E idx \in Indices(c), n \in 1..MaxStack : playerMoveItem(i, c, idx, n)
  \/ \E n \in 1..MaxStack, b \in BOOLEAN : GiveItem(n, internalPlayerAddItem(held, n, b))
  \/ \E n \in 1..(2 * MaxStack) : \/ Take(n, removeItemOfType(held, n))
                                  \/ Take(n, removeMoney(held, n))
  \/ \E i \in Stacks, n \in 1..MaxStack : Destroy(i, n)
  \/ TradeBag

-----------------------------------------------------------------------------
(* Properties.                                                             *)

ItemsTypeOK ==
  /\ held.count \in [Goods -> 0..MaxStack]
  /\ held.parent \in [Goods -> Cylinders \cup {Nil}]
  /\ held.slots \in [Slots -> Goods \cup {Nil}]
  /\ held.list \in Seq(Goods) /\ held.ground \in Seq(Goods)
  /\ {tradedBag, traded} \subseteq BOOLEAN
  /\ owed \in Int /\ calls \in 0..MaxCalls

\* Every item is once in the cylinder its parent pointer names, and nowhere else;
\* and however stacks are split, merged, exchanged and put off, no coin is lost,
\* nor doubled.  Not doubled, that is, unless the bag was in a trade: room in it is
\* counted and not used, and a remainder is given out again after parts of it.
ItemsConserved ==
  /\ ItemsTypeOK
  /\ \A i \in Goods :
       /\ {s \in Slots : held.slots[s] = i} # {} <=> held.parent[i] = Player
       /\ Cardinality({s \in Slots : held.slots[s] = i}) <= 1
       /\ i \in ToSet(held.list) <=> held.parent[i] = Bag
       /\ i \in ToSet(held.ground) <=> held.parent[i] = Tile
       /\ held.parent[i] # Nil <=> held.count[i] > 0
  /\ IsInjective(held.list) /\ IsInjective(held.ground)
  /\ Len(held.list) <= BagSize
  /\ Coins(held, Stacks) >= owed
  /\ Coins(held, Stacks) = owed \/ traded
=============================================================================
