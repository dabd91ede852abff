-------------------------------- MODULE Chat --------------------------------
(***************************************************************************)
(* The channels and who is in them (source/chat.cpp, game.cpp, player.cpp, *)
(* party.cpp).                                                             *)
(*                                                                         *)
(* A channel keeps pointers to its users.  They are taken out of it by     *)
(* Chat, and, for the channels of a guild and of a party, by the message   *)
(* that closes the channel at the client.                                  *)
(*                                                                         *)
(* Abstractions.  One public channel, which all may enter, and one guild.  *)
(* A party is its address, free again when it disbands.  Everybody is      *)
(* premium, and channels.xml can be read.  What is said, muting and logs   *)
(* are left out, and so are the lists of channels sent to clients, but for *)
(* the channels they create.                                               *)
(***************************************************************************)
EXTENDS Naturals, FiniteSets, FiniteSetsExt

CONSTANTS
  Speakers,       \* players
  Clubs, NoClub,  \* addresses of parties
  PrivateIds,     \* numbers of private channels
  MaxChats        \* BOUND: calls

NoSpeaker == "nobody"
Public == 9
Guild == 0
Channels == {Public, Guild} \cup Clubs \cup PrivateIds

ASSUME ChatAssumption ==
  /\ PrivateIds \subseteq 100..9999 /\ IsFiniteSet(PrivateIds)
  /\ MaxChats \in Nat
  /\ NoSpeaker \notin Speakers /\ NoClub \notin Clubs
  /\ Clubs \cap ({Public, Guild} \cup PrivateIds) = {}

VARIABLES
  around, connected,  \* the players in the world; those with a client
  club, inGuild,       \* the party of each; the members of the guild
  open,                \* the channels that exist
  m_users,             \* of each channel
  m_owner, m_invites,  \* of the private ones
  lingering,           \* history: who left a guild or a party and not its channel
  missed,              \* history: who was passed over when he was to be taken out
  chats                \* BOUND

chatVars == <<around, connected, club, inGuild, open, m_users, m_owner, m_invites, lingering, missed, chats>>
people == <<around, connected, club, inGuild>>

-----------------------------------------------------------------------------
(* Chat.                                                                   *)

isInvited(p, c) == m_owner[c] = p \/ p \in m_invites[c]
\* Whether Chat::getChannel finds it for him.
getChannel(p, c) ==
  /\ c \in open
  /\ CASE c = Guild -> p \in inGuild
       [] c \in Clubs -> club[p] = c
       [] c \in PrivateIds -> isInvited(p, c)
       [] OTHER -> TRUE

getPrivateChannel(p) == {c \in PrivateIds \cap open : m_owner[c] = p}
Erased(cs) ==
  /\ open' = open \ cs
  /\ m_owner' = [c \in PrivateIds |-> IF c \in cs THEN NoSpeaker ELSE m_owner[c]]
  /\ m_invites' = [c \in PrivateIds |-> IF c \in cs THEN {} ELSE m_invites[c]]

\* Out of the channels cs, as users has them; those he owns go with all their users.
TakenOut(p, users, cs, owned) ==
  /\ m_users' = [c \in Channels |-> IF c \in owned THEN {}
                                   ELSE IF c \in cs THEN users[c] \ {p} ELSE users[c]]
  /\ Erased(owned)

\* sendClosePrivate of a guild or a party, for those with a client; removeUserFromChannel
\* finds the channel unless they have left already.
Freely(ps, left) == (ps \cap connected) \ left
Closed(c, ps, left) == [m_users EXCEPT ![c] = @ \ Freely(ps, left)]
Lingering(c, ps, left) == {<<p, c>> : p \in (ps \cap m_users[c]) \ Freely(ps, left)}

createGroupChannel(p, c) ==
  /\ p \in around /\ c \notin open
  /\ IF c = Guild THEN p \in inGuild ELSE club[p] = c
  /\ open' = open \cup {c}
  /\ UNCHANGED <<people, m_users, m_owner, m_invites, lingering, missed>>

\* By the player, or when his cast begins.
createPrivateChannel(p) ==
  /\ p \in around /\ getPrivateChannel(p) = {} /\ PrivateIds \ open # {}
  /\ LET c == Min(PrivateIds \ open)
     IN  /\ open' = open \cup {c}
         /\ m_owner' = [m_owner EXCEPT ![c] = p]
         /\ m_users' = [m_users EXCEPT ![c] = {p}]
  /\ UNCHANGED <<people, m_invites, lingering, missed>>

playerOpenChannel(p, c) ==
  /\ p \in around /\ getChannel(p, c) /\ p \notin m_users[c]
  /\ m_users' = [m_users EXCEPT ![c] = @ \cup {p}]
  /\ UNCHANGED <<people, open, m_owner, m_invites, lingering, missed>>

playerCloseChannel(p, c) ==
  /\ p \in around /\ getChannel(p, c) /\ p \in m_users[c]
  /\ TakenOut(p, m_users, {c}, {c} \cap getPrivateChannel(p))
  /\ UNCHANGED <<people, lingering, missed>>

playerChannelInvite(p, q) ==
  /\ {p, q} \subseteq around /\ p # q
  /\ \E c \in getPrivateChannel(p) : m_invites' = [m_invites EXCEPT ![c] = @ \cup {q}]
  /\ UNCHANGED <<people, open, m_users, m_owner, lingering, missed>>

Mutant_excludePlayer(c, q) ==           \* what he has open stays open
  m_invites' = [m_invites EXCEPT ![c] = @ \ {q}] /\ UNCHANGED m_users
excludePlayer(c, q) ==
  /\ m_invites' = [m_invites EXCEPT ![c] = @ \ {q}]
  /\ m_users' = [m_users EXCEPT ![c] = @ \ {q}]
playerChannelExclude(p, q) ==
  /\ {p, q} \subseteq around /\ p # q
  /\ \E c \in getPrivateChannel(p) : q \in m_invites[c] /\ excludePlayer(c, q)
  /\ UNCHANGED <<people, open, m_owner, lingering, missed>>

\* The walk of the private channels goes on from the one it has just erased: it reaches
\* the rest of them or it does not.
removeUserFromAllChannels(p, users) ==
  LET own == getPrivateChannel(p)
      rest == {c \in PrivateIds \cap open : \E d \in own : c > d}
  IN  \E reached \in BOOLEAN :
        LET out == IF reached THEN Channels ELSE Channels \ rest
        IN  /\ TakenOut(p, users, out, own)
            /\ missed' = missed \cup {<<p, c>> : c \in {d \in Channels \ out : p \in users[d]}}

\* The channels of guilds stay; the public ones are read anew.
reload ==
  /\ m_users' = [c \in Channels |-> IF c = Guild THEN m_users[c] ELSE {}]
  /\ Erased(Clubs \cup PrivateIds)
  /\ UNCHANGED <<people, lingering, missed>>

-----------------------------------------------------------------------------
(* Those who come, leave and belong.                                       *)

Enter(p) ==
  /\ p \notin connected
  /\ around' = around \cup {p} /\ connected' = connected \cup {p}
  /\ UNCHANGED <<club, inGuild, open, m_users, m_owner, m_invites, lingering, missed>>

ConnectionLost(p) ==
  /\ p \in connected /\ connected' = connected \ {p}
  /\ UNCHANGED <<around, club, inGuild, open, m_users, m_owner, m_invites, lingering, missed>>

\* ProtocolGame::login of one who is in the world already.
TakeOver(p) ==
  /\ p \in connected /\ connected' = connected \ {p}
  /\ removeUserFromAllChannels(p, m_users)
  /\ UNCHANGED <<around, club, inGuild, lingering>>

joinParty(p, c) ==
  /\ p \in around /\ club[p] = NoClub /\ club' = [club EXCEPT ![p] = c]
  /\ UNCHANGED <<around, connected, inGuild, open, m_users, m_owner, m_invites, lingering, missed>>

\* Party::leave forgets the party first and closes the channel after.  A party that is
\* left to one disbands, in the other order, unless someone is still invited.
Members(c) == {q \in Speakers : club[q] = c}
Disbanded(p, invited) ==
  LET ps == Members(club[p]) IN IF Cardinality(ps) <= 2 /\ ~ invited THEN ps ELSE {p}
Forgotten(ps) == [q \in Speakers |-> IF q \in ps THEN NoClub ELSE club[q]]
LeaveParty(p) ==
  /\ p \in around /\ club[p] # NoClub
  /\ \E invited \in BOOLEAN :
       LET ps == Disbanded(p, invited)
       IN  /\ club' = Forgotten(ps)
           /\ m_users' = Closed(club[p], ps, {p})
           /\ lingering' = lingering \cup Lingering(club[p], ps, {p})
  /\ UNCHANGED <<around, connected, inGuild, open, m_owner, m_invites, missed>>

\* The last invitation to a party of one is taken back.
InvitationsEnd(p) ==
  /\ club[p] # NoClub /\ Members(club[p]) = {p}
  /\ club' = Forgotten({p})
  /\ m_users' = Closed(club[p], {p}, {})
  /\ lingering' = lingering \cup Lingering(club[p], {p}, {})
  /\ UNCHANGED <<around, connected, inGuild, open, m_owner, m_invites, missed>>

joinGuild(p) ==
  /\ p \in around \ inGuild /\ inGuild' = inGuild \cup {p}
  /\ UNCHANGED <<around, connected, club, open, m_users, m_owner, m_invites, lingering, missed>>
\* leaveGuild of one, or of all when the guild is disbanded.
leaveGuild(ps) ==
  /\ ps \subseteq around \cap inGuild /\ ps # {} /\ inGuild' = inGuild \ ps
  /\ m_users' = Closed(Guild, ps, {})
  /\ lingering' = lingering \cup Lingering(Guild, ps, {})
  /\ UNCHANGED <<around, connected, club, open, m_owner, m_invites, missed>>

\* Player::onCreatureDisappear: out of his party, then out of every channel.
LeaveWorld(p) ==
  /\ p \in around
  /\ around' = around \ {p} /\ connected' = connected \ {p}
  /\ \E invited \in BOOLEAN :
       LET c == club[p]
           ps == IF c = NoClub THEN {} ELSE Disbanded(p, invited)
       IN  /\ club' = Forgotten(ps)
           /\ removeUserFromAllChannels(p, IF ps = {} THEN m_users ELSE Closed(c, ps, {p}))
           /\ lingering' = lingering \cup (IF ps = {} THEN {} ELSE Lingering(c, ps, {p}))
  /\ UNCHANGED inGuild

-----------------------------------------------------------------------------
ChatInit ==
  /\ around = Speakers /\ connected = Speakers /\ open = {Public}
  /\ \E c \in Clubs : club = [p \in Speakers |-> c]
  /\ inGuild = Speakers
  /\ m_users = [c \in Channels |-> {}]
  /\ m_owner = [c \in PrivateIds |-> NoSpeaker] /\ m_invites = [c \in PrivateIds |-> {}]
  /\ lingering = {} /\ missed = {} /\ chats = 0

ChatNext ==
  /\ chats < MaxChats /\ chats' = chats + 1
  /\ \/ \E p \in Speakers :
          \/ Enter(p) \/ ConnectionLost(p) \/ TakeOver(p) \/ LeaveWorld(p)
          \/ LeaveParty(p) \/ InvitationsEnd(p) \/ joinGuild(p) \/ createPrivateChannel(p)
          \/ \E c \in Clubs : joinParty(p, c)
          \/ \E c \in Channels : playerOpenChannel(p, c) \/ playerCloseChannel(p, c)
          \/ \E c \in Clubs \cup {Guild} : createGroupChannel(p, c)
          \/ \E q \in Speakers : playerChannelInvite(p, q) \/ playerChannelExclude(p, q)
     \/ \E ps \in SUBSET Speakers : leaveGuild(ps)
     \/ reload

ChatSpec == ChatInit /\ [][ChatNext]_chatVars

ChatTypeOK ==
  /\ connected \subseteq around /\ around \subseteq Speakers
  /\ club \in [Speakers -> Clubs \cup {NoClub}] /\ inGuild \subseteq Speakers
  /\ open \subseteq Channels /\ m_users \in [Channels -> SUBSET Speakers]
  /\ m_owner \in [PrivateIds -> Speakers \cup {NoSpeaker}]
  /\ m_invites \in [PrivateIds -> SUBSET Speakers]
  /\ chats \in 0..MaxChats

\* A channel forgets whoever leaves the world, so that it never speaks to a player who is
\* gone: unless the walk of removeUserFromAllChannels passed it over.  Whoever hears a
\* private channel is invited, a guild's or a party's is a member, unless he left it
\* while his client was gone or by Party::leave, which closes the channel too late.  A
\* private channel goes with its owner, who has but one.
ChannelsForget ==
  /\ ChatTypeOK
  /\ \A c \in Channels : \A p \in m_users[c] :
       /\ c \in open
       /\ p \in around \/ <<p, c>> \in missed
       /\ getChannel(p, c) \/ <<p, c>> \in lingering \cup missed
  /\ \A c \in PrivateIds \cap open : m_owner[c] \in around /\ getPrivateChannel(m_owner[c]) = {c}
=============================================================================
