---------------------------- MODULE WaitingList ----------------------------
(***************************************************************************)
(* The queue of characters for whom the server has no room                 *)
(* (source/waitlist.cpp).  A character asks by logging in, is told its     *)
(* slot and has to ask again before its entry times out.                   *)
(*                                                                         *)
(* Abstractions.  An entry is found by name and address; here a character  *)
(* always comes from the same address.  The length of a time-out is left   *)
(* open: an entry is late from some moment after it was last renewed.      *)
(***************************************************************************)
EXTENDS Lists

CONSTANTS
  Names,       \* of characters
  Exempt,      \* those with PlayerFlag_CanAlwaysLogin
  Premium,     \* those of premium accounts
  SkipWait,    \* PREMIUM_SKIP_WAIT
  MaxPlayers   \* MAX_PLAYERS

ASSUME WaitingListAssumption ==
  /\ Exempt \subseteq Names
  /\ Premium \subseteq Names
  /\ SkipWait \in BOOLEAN
  /\ MaxPlayers \in Nat

VARIABLE waitList   \* std::list<Wait*>

Entry(n, late) == [name |-> n, late |-> late]

\* cleanup(): what is left of the list.
Current == Picked(waitList, {i \in DOMAIN waitList : ~waitList[i].late})

SkipsTheList(n, online) ==
  \/ n \in Exempt
  \/ waitList = <<>> /\ online < MaxPlayers
  \/ SkipWait /\ n \in Premium

\* find(): the slots of n, one at most.
Slots(l, n) == {i \in DOMAIN l : l[i].name = n}

Mutant_HasSeat(slot, online) == online + slot <= MaxPlayers + 1   \* slots counted from 0
\* There is room for n and for everyone ahead of him.
HasSeat(slot, online) == online + slot <= MaxPlayers

\* The place of a newcomer: premium ones stand before the others.
NewSlot(l, n) ==
  LET others == {i \in DOMAIN l : l[i].name \notin Premium}
  IN  IF n \in Premium /\ others # {} THEN Min(others) ELSE Len(l) + 1

\* WaitingList::login of n while `online` players are in the game.
LetsIn(n, online) ==
  \/ SkipsTheList(n, online)
  \/ \E slot \in Slots(Current, n) : HasSeat(slot, online)

AfterLogin(n, online) ==
  LET slots == Slots(Current, n) IN
    IF SkipsTheList(n, online) THEN waitList
    ELSE IF slots = {} THEN InsertAt(Current, NewSlot(Current, n), Entry(n, FALSE))
    ELSE IF LetsIn(n, online) THEN RemoveAt(Current, Min(slots))
    ELSE Current                                   \* its time-out starts again

\* Time passes.
TimeOutEntry ==
  \E i \in DOMAIN waitList :
    /\ ~waitList[i].late
    /\ waitList' = [waitList EXCEPT ![i].late = TRUE]

WaitingListType ==
  /\ \A i \in DOMAIN waitList : waitList[i] \in [name : Names, late : BOOLEAN]
  /\ \A i, j \in DOMAIN waitList : waitList[i].name = waitList[j].name => i = j

\* Those on the list who are to be let in before n.
AheadOf(n) ==
  {w \in ToSet(Current) :
     \A slot \in Slots(Current, n) : \E i \in 1 .. slot - 1 : Current[i] = w}
=============================================================================
