-------------------------------- MODULE Party --------------------------------
(***************************************************************************)
(* Parties (source/party.cpp; the requests of game.cpp; the pointers and   *)
(* lists of player.cpp).                                                   *)
(*                                                                         *)
(* Who is with whom is written twice with bare pointers: a party lists its *)
(* leader, members and invited players, and each player points to his      *)
(* party and lists the parties that invite him.  A party deletes itself in *)
(* the middle of the calls that empty it.  Requests are dispatcher tasks,  *)
(* one step each.                                                          *)
(*                                                                         *)
(* Abstractions.  Levels, places and recent deeds decide by a choice       *)
(* whether experience can be shared; so does a fight whether a player may  *)
(* leave.  Messages and shields are left out.                              *)
(***************************************************************************)
EXTENDS Integers, Sequences, SequencesExt

CONSTANTS
  Heroes,         \* the players
  Parties,        \* places of the heap for Party objects
  NoParty,
  Nobody

ASSUME PartyAssumption == NoParty \notin Parties /\ Nobody \notin Heroes

VARIABLES
  inWorld,            \* players in the game
  party,              \* per player: Player::party
  invitePartyList,    \* per player: the parties that invite him
  parties             \* per place: the Party there, or Deleted

partyVars == <<inWorld, party, invitePartyList, parties>>

\* A party that is not there, or is there no more.
Deleted == [leader |-> Nobody, memberList |-> <<>>, inviteList |-> <<>>,
            sharedExpActive |-> FALSE, sharedExpEnabled |-> FALSE]

PartyInit ==
  /\ inWorld = Heroes
  /\ party = [h \in Heroes |-> NoParty]
  /\ invitePartyList = [h \in Heroes |-> {}]
  /\ parties = [p \in Parties |-> Deleted]

\* The pointers, as the calls below pass them on.
Now == [party |-> party, invites |-> invitePartyList, parties |-> parties]
Becomes(w) ==
  /\ party' = w.party
  /\ invitePartyList' = w.invites
  /\ parties' = w.parties

-----------------------------------------------------------------------------
(* The methods of Party; w is the state the call finds.                    *)

isPlayerMember(pt, h) == \E i \in DOMAIN pt.memberList : pt.memberList[i] = h
isPlayerInvited(pt, h) == \E i \in DOMAIN pt.inviteList : pt.inviteList[i] = h
CanDisband(pt) == pt.memberList = <<>> /\ pt.inviteList = <<>>

\* able: whether levels, places and deeds allow it.
updateSharedExperience(pt, able) ==
  IF pt.sharedExpActive
  THEN [pt EXCEPT !.sharedExpEnabled = able /\ pt.memberList # <<>>]
  ELSE pt

\* removePartyInvitation for the players of S.
Uninvited(w, S, p) ==
  [w EXCEPT !.invites = [h \in Heroes |-> IF h \in S THEN @[h] \ {p} ELSE @[h]]]

Disband(w, p) ==
  LET pt == w.parties[p]
      with == {pt.leader} \cup ToSet(pt.memberList)
      v == Uninvited(w, ToSet(pt.inviteList), p)
  IN  [v EXCEPT !.party = [h \in Heroes |-> IF h \in with THEN NoParty ELSE @[h]],
                !.parties[p] = Deleted]

Mutant_PassLeadership(pt, h, able) ==      \* the new leader stays a member
  updateSharedExperience([pt EXCEPT !.leader = h, !.memberList = <<pt.leader>> \o @], able)
PassLeadership(pt, h, able) ==
  updateSharedExperience(
    [pt EXCEPT !.leader = h, !.memberList = <<pt.leader>> \o RemoveFirst(@, h)], able)

RemoveInvite(w, p, h) ==
  LET v == [Uninvited(w, {h}, p) EXCEPT !.parties[p].inviteList = RemoveFirst(@, h)]
  IN  IF ~ isPlayerInvited(w.parties[p], h) THEN w
      ELSE IF CanDisband(v.parties[p]) THEN Disband(v, p) ELSE v

\* The leader passes the leadership on, unless one member would be left alone.
Leave(w, p, h, able) ==
  LET pt == w.parties[p]
      missingLeader == h = pt.leader /\ Len(pt.memberList) <= 1
                         /\ (Len(pt.memberList) = 1 => pt.inviteList = <<>>)
      led == IF h # pt.leader \/ missingLeader THEN pt
             ELSE PassLeadership(pt, Head(pt.memberList), able)
      left == updateSharedExperience([led EXCEPT !.memberList = RemoveFirst(@, h),
                                                 !.inviteList = RemoveFirst(@, h)], able)
      v == [w EXCEPT !.parties[p] = left, !.party[h] = NoParty]
  IN  IF ~ isPlayerMember(pt, h) /\ h # pt.leader THEN w
      ELSE IF missingLeader \/ CanDisband(left) THEN Disband(v, p) ELSE v

\* clearPartyInvitations.  What one party does of it, without[p], no other touches, so that
\* the order of the player's list does not matter.
RefuseAll(w, h) ==
  LET ps == w.invites[h]
      without == [p \in ps |-> RemoveInvite(w, p, h)]
  IN  [party |-> [g \in Heroes |-> IF \E p \in ps : without[p].party[g] # w.party[g]
                                  THEN NoParty ELSE w.party[g]],
       invites |-> [g \in Heroes |-> IF g = h THEN {}
                                    ELSE {p \in w.invites[g] : p \in ps => p \in without[p].invites[g]}],
       parties |-> [p \in Parties |-> IF p \in ps THEN without[p].parties[p] ELSE w.parties[p]]]

-----------------------------------------------------------------------------
(* The requests of the players.                                            *)

Leads(h) == party[h] # NoParty /\ parties[party[h]].leader = h
isInviting(h, g) == Leads(h) /\ isPlayerInvited(parties[party[h]], g)

Invited(w, p, g) ==
  [w EXCEPT !.parties[p].inviteList = Append(@, g), !.invites[g] = @ \cup {p}]

\* With no party yet he founds one, at a free place of the heap.
playerInviteToParty(h, g) ==
  /\ {h, g} \subseteq inWorld /\ h # g
  /\ ~ isInviting(g, h)
  /\ party[g] = NoParty
  /\ \/ /\ Leads(h) /\ ~ isInviting(h, g)
        /\ Becomes(Invited(Now, party[h], g))
     \/ /\ party[h] = NoParty
        /\ \E p \in Parties :
             /\ parties[p] = Deleted
             /\ Becomes(Invited([Now EXCEPT !.party[h] = p,
                                            !.parties[p].leader = h], p, g))
  /\ UNCHANGED inWorld

playerJoinParty(h, g, able) ==
  /\ {h, g} \subseteq inWorld
  /\ isInviting(g, h)
  /\ party[h] = NoParty
  /\ LET p == party[g]
         joined == [parties[p] EXCEPT !.memberList = Append(@, h),
                                      !.inviteList = RemoveFirst(@, h)]
     IN  Becomes([Uninvited(Now, {h}, p)
                    EXCEPT !.party[h] = p,
                           !.parties[p] = updateSharedExperience(joined, able)])
  /\ UNCHANGED inWorld

playerRevokePartyInvitation(h, g) ==
  /\ {h, g} \subseteq inWorld
  /\ isInviting(h, g)
  /\ Becomes(RemoveInvite(Now, party[h], g))
  /\ UNCHANGED inWorld

playerPassPartyLeadership(h, g, able) ==
  /\ {h, g} \subseteq inWorld
  /\ Leads(h) /\ g # h /\ party[g] = party[h]
  /\ isPlayerMember(parties[party[h]], g)
  /\ Becomes([Now EXCEPT !.parties[party[h]] = PassLeadership(@, g, able)])
  /\ UNCHANGED inWorld

playerLeaveParty(h, able) ==
  /\ h \in inWorld
  /\ party[h] # NoParty
  /\ Becomes(Leave(Now, party[h], h, able))
  /\ UNCHANGED inWorld

playerSharePartyExperience(h, able) ==
  /\ h \in inWorld /\ Leads(h)
  /\ LET pt == parties[party[h]]
         on == ~ pt.sharedExpActive
     IN  parties' = [parties EXCEPT ![party[h]] =
                       updateSharedExperience([pt EXCEPT !.sharedExpActive = on], able)]
  /\ UNCHANGED <<inWorld, party, invitePartyList>>

\* A member walks, heals, fights or gains a level.
MemberActs(h, able) ==
  /\ h \in inWorld /\ party[h] # NoParty
  /\ parties' = [parties EXCEPT ![party[h]] = updateSharedExperience(@, able)]
  /\ parties' # parties
  /\ UNCHANGED <<inWorld, party, invitePartyList>>

\* onCreatureDisappear of the player himself: logout, kick or death.
Disappear(h, able) ==
  /\ h \in inWorld
  /\ LET w == RefuseAll(Now, h)
     IN  Becomes(IF w.party[h] = NoParty THEN w ELSE Leave(w, w.party[h], h, able))
  /\ inWorld' = inWorld \ {h}

Appear(h) ==
  /\ h \notin inWorld
  /\ inWorld' = inWorld \cup {h}
  /\ party' = [party EXCEPT ![h] = NoParty]
  /\ invitePartyList' = [invitePartyList EXCEPT ![h] = {}]
  /\ UNCHANGED parties

PartyNext ==
  \E h \in Heroes :
    \/ Appear(h)
    \/ \E g \in Heroes : playerInviteToParty(h, g) \/ playerRevokePartyInvitation(h, g)
    \/ \E able \in BOOLEAN :
         \/ playerLeaveParty(h, able) \/ Disappear(h, able)
         \/ playerSharePartyExperience(h, able) \/ MemberActs(h, able)
         \/ \E g \in Heroes : \/ playerJoinParty(h, g, able)
                              \/ playerPassPartyLeadership(h, g, able)

PartySpec == PartyInit /\ [][PartyNext]_partyVars

-----------------------------------------------------------------------------
(* Properties.                                                             *)

PartyTypeOK ==
  /\ inWorld \subseteq Heroes
  /\ party \in [Heroes -> Parties \cup {NoParty}]
  /\ invitePartyList \in [Heroes -> SUBSET Parties]
  /\ \A p \in Parties :
       /\ parties[p].leader \in Heroes \cup {Nobody}
       /\ parties[p].memberList \in Seq(Heroes)
       /\ parties[p].inviteList \in Seq(Heroes)

Live(p) == parties[p].leader # Nobody

\* Both sides of every tie agree, none reaches a deleted party or a player who
\* is gone, a party has someone to be with or to wait for, and experience is
\* never shared in an empty party: whatever the order in which its players
\* invite, join, pass on, leave and log out.
PartiesAgree ==
  /\ PartyTypeOK
  /\ \A p \in Parties :
       LET pt == parties[p]
           members == ToSet(pt.memberList)
           invited == ToSet(pt.inviteList)
       IN  /\ {h \in Heroes : party[h] = p}
                = members \cup (IF Live(p) THEN {pt.leader} ELSE {})
           /\ {h \in Heroes : p \in invitePartyList[h]} = invited
           /\ pt.leader \notin members \cup invited /\ members \cap invited = {}
           /\ IsInjective(pt.memberList) /\ IsInjective(pt.inviteList)
           /\ members \cup invited \subseteq inWorld
           /\ Live(p) => pt.leader \in inWorld /\ ~ CanDisband(pt)
           /\ pt.sharedExpActive /\ pt.sharedExpEnabled => members # {}
=============================================================================
