--------------------------- MODULE World_proofs -----------------------------
(* Theorems about PoolLocks, for any set of connections of each kind, and   *)
(* about Chat and Party, for any players, parties and numbers of private    *)
(* channels, and about Walk, for any requests and any ground.               *)
EXTENDS PoolLocks, Chat, Party, Walk, Lists_proofs

(* A protocol has a message to append to exactly while one of the lists     *)
(* holds it, never both; and a parser that has found none, and waits for    *)
(* the pool, will not find that it has gone to the queue meanwhile.         *)
Collecting ==
  /\ LocksTypeOK
  /\ \A c \in Connections :
       /\ c \in m_outputBuffer <=> Buffer(c) \in m_autoSend \cup m_addQueue
       /\ ~ (Buffer(c) \in m_autoSend /\ Buffer(c) \in m_addQueue)
  /\ doing = "getOutputBuffer" => Buffer(parsing) \notin m_addQueue

LEMMA MessageFacts ==
  /\ \A c \in Connections : /\ Buffer(c) \in Messages /\ Buffer(c).to = c /\ Buffer(c).collects
                            /\ Single(c) \in Messages /\ Single(c).to = c
  /\ \A m \in Messages : m.to \in Connections
  /\ \A m \in Messages : m.collects => m = Buffer(m.to)
  /\ \A m \in Messages, c \in Connections : m = Buffer(c) => m.to = c /\ m.collects
  /\ \A c, d \in Connections : Buffer(c) # Single(d)
BY DEF Messages, Buffer, Single

LEMMA CollectingInit == LocksInit => Collecting
BY DEF LocksInit, Collecting, LocksTypeOK

LEMMA CollectingStep == Collecting /\ [LocksNext]_locksVars => Collecting'
<1> SUFFICES ASSUME Collecting, [LocksNext]_locksVars PROVE Collecting'
  OBVIOUS
<1> USE PoolLocksAssumption
<1> USE DEF Collecting, LocksTypeOK
<1>1. ASSUME NEW c \in Connections, onWrite(c) \/ parsePacket(c) PROVE Collecting'
  BY <1>1 DEF onWrite, parsePacket, dispatcher, service, lists
<1>2. CASE Parsed \/ getOutputBuffer \/ getOutputMessage \/ SendSingle
  <2>1. CASE Parsed
    BY <2>1 DEF Parsed, LeaveConnection, dispatcher, lists
  <2>2. CASE getOutputBuffer
    BY <2>2 DEF getOutputBuffer, dispatcher, lists
  <2>3. CASE getOutputMessage
    BY <2>3 DEF getOutputMessage, dispatcher, lists
  <2>4. CASE SendSingle
    <3>1. parsing \in Connections
      BY <2>4 DEF SendSingle
    <3> QED BY <2>4, <3>1 DEF SendSingle, LeaveConnection, dispatcher
  <2> QED BY <1>2, <2>1, <2>2, <2>3, <2>4
<1>3. CASE configureOutputMessage
  <2>1. parsing \in Connections
    BY <1>3 DEF configureOutputMessage
  <2>2. LocksTypeOK'
    BY <1>3, <2>1, MessageFacts DEF configureOutputMessage, LeaveConnection, dispatcher
  <2>3. ASSUME NEW c \in Connections
        PROVE  /\ c \in m_outputBuffer' <=> Buffer(c) \in m_autoSend' \cup m_addQueue'
               /\ ~ (Buffer(c) \in m_autoSend' /\ Buffer(c) \in m_addQueue')
    <3>1. CASE c = parsing
      BY <1>3, <3>1 DEF configureOutputMessage
    <3>2. CASE c # parsing
      <4>1. Buffer(c) # Buffer(parsing)
        BY <2>1, <3>2, MessageFacts
      <4> QED BY <1>3, <3>2, <4>1 DEF configureOutputMessage
    <3> QED BY <3>1, <3>2
  <2> QED BY <1>3, <2>2, <2>3 DEF configureOutputMessage, LeaveConnection
<1>4. CASE autoSend
  <2>1. parsing \in Connections
    BY <1>4 DEF autoSend
  <2>2. LocksTypeOK'
    BY <1>4, <2>1, MessageFacts DEF autoSend, LeaveConnection, dispatcher
  <2>3. \A c \in Connections : Buffer(c) \in m_addQueue' <=> Buffer(c) \in m_addQueue
    BY <1>4, MessageFacts DEF autoSend
  <2> QED BY <1>4, <2>2, <2>3 DEF autoSend, LeaveConnection
<1>5. ASSUME NEW C \in SUBSET (Connections \ Admins), Task(C) PROVE Collecting'
  <2> DEFINE New == {Buffer(c) : c \in C \ m_outputBuffer}
  <2>1. New \subseteq Messages
    BY MessageFacts
  <2>2. \A c \in Connections : Buffer(c) \in New <=> c \in C \ m_outputBuffer
    BY MessageFacts
  <2>3. m_autoSend' = m_autoSend \cup New
    BY <1>5 DEF Task
  <2> HIDE DEF New
  <2> QED BY <1>5, <2>1, <2>2, <2>3 DEF Task, service
<1>6. CASE sendAll
  BY <1>6 DEF sendAll, Collected, service
<1>7. ASSUME NEW m \in Messages, send(m) PROVE Collecting'
  <2>1. m.to \in Connections /\ m \in m_autoSend
    BY <1>7, MessageFacts DEF send
  <2>2. LocksTypeOK'
    BY <1>7, <2>1 DEF send, Unlisted, service
  <2>3. ASSUME NEW c \in Connections
        PROVE  /\ c \in m_outputBuffer' <=> Buffer(c) \in m_autoSend' \cup m_addQueue'
               /\ ~ (Buffer(c) \in m_autoSend' /\ Buffer(c) \in m_addQueue')
    <3>1. CASE m = Buffer(c)
      <4>1. m.to = c /\ m.collects
        BY <3>1, MessageFacts
      <4> QED BY <1>7, <2>1, <3>1, <4>1 DEF send, Unlisted
    <3>2. CASE m # Buffer(c)
      <4>1. m.collects => m.to # c
        BY <3>2, MessageFacts
      <4> QED BY <1>7, <3>2, <4>1 DEF send, Unlisted
    <3> QED BY <3>1, <3>2
  <2>4. doing = "getOutputBuffer" => m # Buffer(parsing)
    <3> SUFFICES ASSUME doing = "getOutputBuffer" PROVE m # Buffer(parsing)
      OBVIOUS
    <3>1. parsing \in Connections
      OBVIOUS
    <3> QED BY <1>7, <3>1, MessageFacts DEF send
  <2> QED BY <1>7, <2>2, <2>3, <2>4 DEF send, service
<1>8. CASE AllSent
  BY <1>8 DEF AllSent, service, lists
<1>9. CASE UNCHANGED locksVars
  BY <1>9 DEF locksVars, dispatcher, service, lists
<1> QED BY <1>1, <1>2, <1>3, <1>4, <1>5, <1>6, <1>7, <1>8, <1>9 DEF LocksNext

(* Two threads move messages between the two lists of the pool; what a      *)
(* protocol appends to is always in exactly one of them.                    *)
THEOREM BuffersAreListedOnce == LocksSpec => []BufferIsListedOnce
<1>1. Collecting => BufferIsListedOnce
  <2> SUFFICES ASSUME Collecting PROVE BufferIsListedOnce
    OBVIOUS
  <2>1. \A m \in {Buffer(c) : c \in Connections} : ~ (m \in m_autoSend /\ m \in m_addQueue)
    BY DEF Collecting
  <2> QED BY <2>1 DEF Collecting, BufferIsListedOnce, LocksTypeOK
<1> QED BY <1>1, CollectingInit, CollectingStep, PTL DEF LocksSpec
-----------------------------------------------------------------------------
(* The channels.                                                           *)

\* getChannel, by what it reads.
Finds(op, ow, inv, cl, ig, p, c) ==
  /\ c \in op
  /\ c = Guild => p \in ig
  /\ c \in Clubs => cl[p] = c
  /\ c \in PrivateIds => ow[c] = p \/ p \in inv[c]

(* Who is in a channel, and who has one.                                   *)
Hearing(us, op, ow, inv, cl, ig, ar, ling, miss) ==
  \A c \in Channels : \A p \in us[c] :
    /\ c \in op
    /\ p \in ar \/ <<p, c>> \in miss
    /\ Finds(op, ow, inv, cl, ig, p, c) \/ <<p, c>> \in ling \cup miss
Owning(op, ow, ar) ==
  \A c \in PrivateIds \cap op :
    ow[c] \in ar /\ \A d \in PrivateIds \cap op : ow[d] = ow[c] => d = c

ChatTyped ==
  /\ connected \subseteq around /\ around \subseteq Speakers
  /\ club \in [Speakers -> Clubs \cup {NoClub}] /\ inGuild \subseteq Speakers
  /\ open \subseteq Channels /\ m_users \in [Channels -> SUBSET Speakers]
  /\ m_owner \in [PrivateIds -> Speakers \cup {NoSpeaker}]
  /\ m_invites \in [PrivateIds -> SUBSET Speakers]

Minded ==
  /\ ChatTyped
  /\ Hearing(m_users, open, m_owner, m_invites, club, inGuild, around, lingering, missed)
  /\ Owning(open, m_owner, around)

LEMMA ChannelFacts ==
  /\ Guild \notin Clubs /\ Guild \notin PrivateIds /\ Public # Guild
  /\ Public \notin Clubs /\ Public \notin PrivateIds /\ Clubs \cap PrivateIds = {}
  /\ Guild \in Channels /\ Public \in Channels /\ Clubs \subseteq Channels /\ PrivateIds \subseteq Channels
  /\ NoClub \notin Clubs /\ NoSpeaker \notin Speakers
  /\ PrivateIds \in SUBSET Nat
<1> DEFINE Numbers == 100..9999
<1>1. Numbers \in SUBSET Nat /\ Guild \notin Numbers /\ Public \notin Numbers /\ Guild # Public
  BY DEF Guild, Public
<1>2. PrivateIds \in SUBSET Numbers
  BY ChatAssumption
<1>3. Clubs \cap ({Public, Guild} \cup PrivateIds) = {} /\ NoClub \notin Clubs /\ NoSpeaker \notin Speakers
  BY ChatAssumption
<1> HIDE DEF Numbers
<1>4. PrivateIds \in SUBSET Nat /\ Guild \notin PrivateIds /\ Public \notin PrivateIds
  BY <1>1, <1>2
<1>5. Guild \in Channels /\ Public \in Channels /\ Clubs \subseteq Channels /\ PrivateIds \subseteq Channels
  BY DEF Channels
<1> QED BY <1>1, <1>3, <1>4, <1>5

LEMMA IsFound ==
  ASSUME NEW p \in Speakers, NEW c \in Channels
  PROVE  /\ getChannel(p, c) <=> Finds(open, m_owner, m_invites, club, inGuild, p, c)
         /\ getChannel(p, c)' <=> Finds(open', m_owner', m_invites', club', inGuild', p, c)
BY ChannelFacts DEF getChannel, Finds, isInvited

LEMMA MindedIs ==
  /\ ChannelsForget <=> Minded /\ chats \in 0..MaxChats
  /\ ChannelsForget' <=> Minded' /\ chats' \in 0..MaxChats
<1>1. ChatTypeOK <=> ChatTyped /\ chats \in 0..MaxChats
  BY DEF ChatTypeOK, ChatTyped
<1>2. ChatTypeOK' <=> ChatTyped' /\ chats' \in 0..MaxChats
  BY DEF ChatTypeOK, ChatTyped
<1>3. ASSUME ChatTyped
      PROVE  (\A c \in Channels : \A p \in m_users[c] :
                /\ c \in open
                /\ p \in around \/ <<p, c>> \in missed
                /\ getChannel(p, c) \/ <<p, c>> \in lingering \cup missed)
             <=> Hearing(m_users, open, m_owner, m_invites, club, inGuild, around, lingering, missed)
  <2>1. \A c \in Channels : m_users[c] \subseteq Speakers
    BY <1>3 DEF ChatTyped
  <2> QED BY <2>1, IsFound DEF Hearing
<1>4. ASSUME ChatTyped'
      PROVE  (\A c \in Channels : \A p \in m_users'[c] :
                /\ c \in open'
                /\ p \in around' \/ <<p, c>> \in missed'
                /\ getChannel(p, c)' \/ <<p, c>> \in lingering' \cup missed')
             <=> Hearing(m_users', open', m_owner', m_invites', club', inGuild', around', lingering', missed')
  <2>1. \A c \in Channels : m_users'[c] \subseteq Speakers
    BY <1>4 DEF ChatTyped
  <2> QED BY <2>1, IsFound DEF Hearing
<1>5. (\A c \in PrivateIds \cap open : m_owner[c] \in around /\ getPrivateChannel(m_owner[c]) = {c})
        <=> Owning(open, m_owner, around)
  BY DEF Owning, getPrivateChannel
<1>6. (\A c \in PrivateIds \cap open' : m_owner'[c] \in around' /\ getPrivateChannel(m_owner[c])' = {c})
        <=> Owning(open', m_owner', around')
  BY DEF Owning, getPrivateChannel
<1>7. ChannelsForget <=> Minded /\ chats \in 0..MaxChats
  BY <1>1, <1>3, <1>5 DEF ChannelsForget, Minded
<1>8. ChannelsForget' <=> Minded' /\ chats' \in 0..MaxChats
  BY <1>2, <1>4, <1>6 DEF ChannelsForget, Minded
<1> QED BY <1>7, <1>8

\* Hearing, of one who hears c,
Hears(op, ow, inv, cl, ig, ar, ling, miss, q, c) ==
  /\ c \in op
  /\ q \in ar \/ <<q, c>> \in miss
  /\ Finds(op, ow, inv, cl, ig, q, c) \/ <<q, c>> \in ling \cup miss
\* and that he does so afterwards.
StillHears(q, c) ==
  Hears(open, m_owner, m_invites, club, inGuild, around, lingering, missed, q, c)'

LEMMA HearingIs ==
  ASSUME \A c \in Channels : \A q \in m_users'[c] : StillHears(q, c)
  PROVE  Hearing(m_users, open, m_owner, m_invites, club, inGuild, around, lingering, missed)'
BY DEF Hearing, StillHears, Hears

\* Who could hear c goes on with it if nothing has changed for him.
LEMMA HearsOn ==
  ASSUME Minded, NEW c \in Channels, NEW q \in m_users[c], c \in open',
         lingering \subseteq lingering', missed \subseteq missed',
         q \in around => q \in around' \/ <<q, c>> \in missed',
         c = Guild => (q \in inGuild => q \in inGuild' \/ <<q, c>> \in lingering' \cup missed'),
         c \in Clubs => (club[q] = c => club'[q] = c \/ <<q, c>> \in lingering' \cup missed'),
         c \in PrivateIds => m_owner'[c] = m_owner[c] /\ (q \in m_invites[c] => q \in m_invites'[c])
  PROVE  StillHears(q, c)
<1>1. /\ q \in around \/ <<q, c>> \in missed
      /\ Finds(open, m_owner, m_invites, club, inGuild, q, c) \/ <<q, c>> \in lingering \cup missed
  BY DEF Minded, Hearing
<1>2. q \in around' \/ <<q, c>> \in missed'
  BY <1>1
<1>3. \/ Finds(open', m_owner', m_invites', club', inGuild', q, c)
      \/ <<q, c>> \in lingering' \cup missed'
  BY <1>1 DEF Finds
<1> QED BY <1>2, <1>3 DEF StillHears, Hears

\* What opens lets nobody in but who has made it.
LEMMA OpeningKeeps ==
  ASSUME Minded, NEW p \in Speakers
  PROVE  /\ \A c \in Clubs \cup {Guild} : createGroupChannel(p, c) => Minded'
         /\ createPrivateChannel(p) => Minded'
<1> USE ChannelFacts
<1>1. ASSUME NEW c \in Clubs \cup {Guild}, createGroupChannel(p, c) PROVE Minded'
  <2>1. /\ UNCHANGED <<people, m_users, m_owner, m_invites, lingering, missed>>
        /\ open' = open \cup {c} /\ c \in Channels /\ c \notin PrivateIds
    BY <1>1 DEF createGroupChannel
  <2>2. ChatTyped'
    BY <2>1 DEF Minded, ChatTyped, people
  <2>3. Hearing(m_users, open, m_owner, m_invites, club, inGuild, around, lingering, missed)'
    BY <2>1 DEF Minded, Hearing, Finds, people
  <2>4. Owning(open, m_owner, around)'
    BY <2>1 DEF Minded, Owning, people
  <2> QED BY <2>2, <2>3, <2>4 DEF Minded
<1>2. ASSUME createPrivateChannel(p) PROVE Minded'
  <2>1. PICK c : /\ c = Min(PrivateIds \ open) /\ open' = open \cup {c}
                 /\ m_owner' = [m_owner EXCEPT ![c] = p] /\ m_users' = [m_users EXCEPT ![c] = {p}]
    BY <1>2 DEF createPrivateChannel
  <2>2. /\ p \in around /\ getPrivateChannel(p) = {} /\ PrivateIds \ open # {}
        /\ UNCHANGED <<people, m_invites, lingering, missed>>
    BY <1>2 DEF createPrivateChannel
  <2>3. c \in PrivateIds /\ c \notin open /\ c \in Channels
    <3>1. PrivateIds \ open \in SUBSET Nat
      OBVIOUS
    <3>2. Min(PrivateIds \ open) \in PrivateIds \ open
      BY <2>2, <3>1, SmallestIsOne
    <3> QED BY <2>1, <3>2
  <2>4. ChatTyped'
    BY <2>1, <2>2, <2>3 DEF Minded, ChatTyped, people
  <2>5. /\ m_owner'[c] = p /\ \A d \in PrivateIds : d # c => m_owner'[d] = m_owner[d]
        /\ m_users'[c] = {p} /\ \A d \in Channels : d # c => m_users'[d] = m_users[d]
    BY <2>1, <2>3 DEF Minded, ChatTyped
  <2>6. ASSUME NEW d \in Channels, NEW x \in m_users'[d] PROVE StillHears(x, d)
    <3>1. CASE d = c
      <4>1. x = p /\ p \in around' /\ c \in open' /\ m_owner'[c] = p
        BY <2>1, <2>2, <2>5, <2>6, <3>1 DEF people
      <4> QED BY <2>3, <3>1, <4>1 DEF StillHears, Hears, Finds
    <3>2. CASE d # c
      <4>1. x \in m_users[d] /\ d \in open'
        BY <2>1, <2>5, <2>6, <3>2 DEF Minded, Hearing
      <4>2. d \in PrivateIds => m_owner'[d] = m_owner[d]
        BY <2>5, <3>2
      <4> QED BY <2>2, <4>1, <4>2, HearsOn DEF people
    <3> QED BY <3>1, <3>2
  <2>7. Owning(open, m_owner, around)'
    BY <2>1, <2>2, <2>3, <2>5 DEF Minded, Owning, getPrivateChannel, people
  <2> QED BY <2>4, <2>6, <2>7, HearingIs DEF Minded
<1> QED BY <1>1, <1>2

\* What p opens, others are let into or shut out of.
LEMMA InvitingKeeps ==
  ASSUME Minded, NEW p \in Speakers, NEW q \in Speakers
  PROVE  /\ \A c \in Channels : playerOpenChannel(p, c) => Minded'
         /\ playerChannelInvite(p, q) => Minded'
         /\ playerChannelExclude(p, q) => Minded'
<1> USE ChannelFacts
<1>1. ASSUME NEW c \in Channels, playerOpenChannel(p, c) PROVE Minded'
  <2>1. /\ p \in around /\ m_users' = [m_users EXCEPT ![c] = @ \cup {p}]
        /\ Finds(open, m_owner, m_invites, club, inGuild, p, c)
        /\ UNCHANGED <<people, open, m_owner, m_invites, lingering, missed>>
    BY <1>1, IsFound DEF playerOpenChannel
  <2>2. ChatTyped'
    BY <2>1 DEF Minded, ChatTyped, people
  <2>3. \A d \in Channels : m_users'[d] = IF d = c THEN m_users[d] \cup {p} ELSE m_users[d]
    BY <2>1 DEF Minded, ChatTyped
  <2>4. Hearing(m_users, open, m_owner, m_invites, club, inGuild, around, lingering, missed)'
    <3>1. ASSUME NEW d \in Channels, NEW x \in m_users'[d] PROVE StillHears(x, d)
      <4>1. CASE x \in m_users[d]
        <5>1. d \in open
          BY <4>1 DEF Minded, Hearing
        <5> QED BY <2>1, <4>1, <5>1, HearsOn DEF people
      <4>2. CASE x \notin m_users[d]
        <5>1. x = p /\ d = c
          BY <2>3, <3>1, <4>2
        <5>2. c \in open /\ p \in around
          BY <2>1 DEF Finds
        <5> QED BY <2>1, <5>1, <5>2 DEF StillHears, Hears, people
      <4> QED BY <4>1, <4>2
    <3> QED BY <3>1, HearingIs
  <2> QED BY <2>1, <2>2, <2>4 DEF Minded, people
<1>2. ASSUME playerChannelInvite(p, q) PROVE Minded'
  <2>1. PICK c \in getPrivateChannel(p) : m_invites' = [m_invites EXCEPT ![c] = @ \cup {q}]
    BY <1>2 DEF playerChannelInvite
  <2>2. UNCHANGED <<people, open, m_users, m_owner, lingering, missed>> /\ c \in PrivateIds
    BY <1>2, <2>1 DEF playerChannelInvite, getPrivateChannel
  <2>3. ChatTyped'
    BY <2>1, <2>2 DEF Minded, ChatTyped, people
  <2>4. \A d \in PrivateIds : m_invites[d] \subseteq m_invites'[d]
    BY <2>1, <2>2 DEF Minded, ChatTyped
  <2>5. Hearing(m_users, open, m_owner, m_invites, club, inGuild, around, lingering, missed)'
    <3>1. ASSUME NEW d \in Channels, NEW x \in m_users'[d] PROVE StillHears(x, d)
      <4>1. x \in m_users[d] /\ d \in open
        BY <2>2, <3>1 DEF Minded, Hearing
      <4> QED BY <2>2, <2>4, <4>1, HearsOn DEF people
    <3> QED BY <3>1, HearingIs
  <2> QED BY <2>2, <2>3, <2>5 DEF Minded, people
<1>3. ASSUME playerChannelExclude(p, q) PROVE Minded'
  <2>1. PICK c \in getPrivateChannel(p) : q \in m_invites[c] /\ excludePlayer(c, q)
    BY <1>3 DEF playerChannelExclude
  <2>2. /\ UNCHANGED <<people, open, m_owner, lingering, missed>> /\ c \in PrivateIds /\ c \in Channels
        /\ m_invites' = [m_invites EXCEPT ![c] = @ \ {q}] /\ m_users' = [m_users EXCEPT ![c] = @ \ {q}]
    BY <1>3, <2>1 DEF playerChannelExclude, getPrivateChannel, excludePlayer
  <2>3. ChatTyped'
    BY <2>2 DEF Minded, ChatTyped, people
  <2>4. /\ \A d \in PrivateIds : m_invites'[d] = IF d = c THEN m_invites[d] \ {q} ELSE m_invites[d]
        /\ \A d \in Channels : m_users'[d] = IF d = c THEN m_users[d] \ {q} ELSE m_users[d]
    BY <2>2 DEF Minded, ChatTyped
  <2>5. Hearing(m_users, open, m_owner, m_invites, club, inGuild, around, lingering, missed)'
    <3>1. ASSUME NEW d \in Channels, NEW x \in m_users'[d] PROVE StillHears(x, d)
      <4>1. x \in m_users[d] /\ (d = c => x # q)
        BY <2>4, <3>1
      <4>2. d \in open
        BY <4>1 DEF Minded, Hearing
      <4>3. d \in PrivateIds => (x \in m_invites[d] => x \in m_invites'[d])
        BY <2>4, <4>1
      <4> QED BY <2>2, <4>1, <4>2, <4>3, HearsOn DEF people
    <3> QED BY <3>1, HearingIs
  <2> QED BY <2>2, <2>3, <2>5 DEF Minded, people
<1> QED BY <1>1, <1>2, <1>3

\* What is erased is nobody's, and nobody is in it; the others are as they were.
LEMMA ErasedFacts ==
  ASSUME ChatTyped, NEW cs, Erased(cs)
  PROVE  /\ open' = open \ cs /\ open' \subseteq Channels
         /\ m_owner' \in [PrivateIds -> Speakers \cup {NoSpeaker}]
         /\ m_invites' \in [PrivateIds -> SUBSET Speakers]
         /\ \A c \in PrivateIds \cap open' : m_owner'[c] = m_owner[c] /\ m_invites'[c] = m_invites[c]
BY DEF ChatTyped, Erased

LEMMA ErasingKeepsOwners ==
  ASSUME Minded, NEW cs, Erased(cs), around \subseteq around' PROVE Owning(open, m_owner, around)'
<1>1. ChatTyped
  BY DEF Minded
<1> QED BY <1>1, ErasedFacts DEF Minded, Owning

LEMMA ClosingKeeps ==
  ASSUME Minded
  PROVE  /\ \A p \in Speakers, c \in Channels : playerCloseChannel(p, c) => Minded'
         /\ reload => Minded'
<1> USE ChannelFacts
<1>1. ASSUME NEW p \in Speakers, NEW c \in Channels, playerCloseChannel(p, c) PROVE Minded'
  <2> DEFINE own == {c} \cap getPrivateChannel(p)
  <2>1. /\ Erased(own) /\ UNCHANGED <<people, lingering, missed>>
        /\ m_users' = [d \in Channels |-> IF d \in own THEN {}
                                          ELSE IF d \in {c} THEN m_users[d] \ {p} ELSE m_users[d]]
    BY <1>1 DEF playerCloseChannel, TakenOut
  <2>2. ChatTyped
    BY DEF Minded
  <2> HIDE DEF own
  <2>3. ChatTyped'
    BY <2>1, <2>2, ErasedFacts DEF ChatTyped, people
  <2>4. \A d \in Channels : m_users'[d] \subseteq m_users[d] /\ (d \in own => m_users'[d] = {})
    BY <2>1
  <2>5. Hearing(m_users, open, m_owner, m_invites, club, inGuild, around, lingering, missed)'
    <3>1. ASSUME NEW d \in Channels, NEW x \in m_users'[d] PROVE StillHears(x, d)
      <4>1. x \in m_users[d] /\ d \notin own
        BY <2>4, <3>1
      <4>2. d \in open /\ d \in open'
        BY <2>1, <4>1 DEF Minded, Hearing, Erased
      <4>3. d \in PrivateIds => m_owner'[d] = m_owner[d] /\ m_invites'[d] = m_invites[d]
        BY <2>1, <2>2, <4>2, ErasedFacts
      <4> QED BY <2>1, <4>1, <4>2, <4>3, HearsOn DEF people
    <3> QED BY <3>1, HearingIs
  <2> QED BY <2>1, <2>3, <2>5, ErasingKeepsOwners DEF Minded, people
<1>2. ASSUME reload PROVE Minded'
  <2> DEFINE all == Clubs \cup PrivateIds
  <2>1. /\ Erased(all) /\ UNCHANGED <<people, lingering, missed>>
        /\ m_users' = [d \in Channels |-> IF d = Guild THEN m_users[d] ELSE {}]
    BY <1>2 DEF reload
  <2>2. ChatTyped
    BY DEF Minded
  <2>3. Guild \notin all
    OBVIOUS
  <2> HIDE DEF all
  <2>4. ChatTyped'
    BY <2>1, <2>2, ErasedFacts DEF ChatTyped, people
  <2>5. \A d \in Channels : m_users'[d] \subseteq m_users[d] /\ (d \in all => m_users'[d] = {})
    BY <2>1, <2>3
  <2>6. Hearing(m_users, open, m_owner, m_invites, club, inGuild, around, lingering, missed)'
    <3>1. ASSUME NEW d \in Channels, NEW x \in m_users'[d] PROVE StillHears(x, d)
      <4>1. x \in m_users[d] /\ d \notin all
        BY <2>5, <3>1
      <4>2. d \in open /\ d \in open'
        BY <2>1, <4>1 DEF Minded, Hearing, Erased
      <4>3. d \in PrivateIds => m_owner'[d] = m_owner[d] /\ m_invites'[d] = m_invites[d]
        BY <2>1, <2>2, <4>2, ErasedFacts
      <4> QED BY <2>1, <4>1, <4>2, <4>3, HearsOn DEF people
    <3> QED BY <3>1, HearingIs
  <2> QED BY <2>1, <2>4, <2>6, ErasingKeepsOwners DEF Minded, people
<1> QED BY <1>1, <1>2

LEMMA ComingKeeps ==
  ASSUME Minded, NEW p \in Speakers
  PROVE  /\ Enter(p) => Minded'
         /\ ConnectionLost(p) => Minded'
         /\ joinGuild(p) => Minded'
         /\ \A c \in Clubs : joinParty(p, c) => Minded'
<1> USE ChannelFacts
<1>1. ASSUME Enter(p) \/ ConnectionLost(p) \/ joinGuild(p) \/ \E c \in Clubs : joinParty(p, c)
      PROVE  Minded'
  <2>1. /\ UNCHANGED <<open, m_users, m_owner, m_invites, lingering, missed>>
        /\ around \subseteq around' /\ inGuild \subseteq inGuild'
        /\ \A x \in Speakers : club[x] # NoClub => club'[x] = club[x]
    BY <1>1 DEF Enter, ConnectionLost, joinGuild, joinParty, Minded, ChatTyped
  <2>2. ChatTyped'
    BY <1>1, <2>1 DEF Enter, ConnectionLost, joinGuild, joinParty, Minded, ChatTyped
  <2>3. ASSUME NEW d \in Channels, NEW x \in m_users'[d] PROVE StillHears(x, d)
    <3>1. x \in m_users[d] /\ d \in open /\ x \in Speakers
      BY <2>1, <2>3 DEF Minded, Hearing, ChatTyped
    <3>2. d \in Clubs => (club[x] = d => club'[x] = d)
      BY <2>1, <3>1
    <3> QED BY <2>1, <3>1, <3>2, HearsOn
  <2>4. Owning(open, m_owner, around)'
    BY <2>1 DEF Minded, Owning
  <2> QED BY <2>2, <2>3, <2>4, HearingIs DEF Minded
<1> QED BY <1>1

\* Those of ps who do not freely leave c linger in it; nobody else notices.
LEMMA ClosedHears ==
  ASSUME Minded, NEW c \in Channels, NEW ps \in SUBSET Speakers, NEW left,
         NEW d \in Channels, NEW x \in Closed(c, ps, left)[d]
  PROVE  x \in m_users[d] /\ (d = c /\ x \in ps => <<x, c>> \in Lingering(c, ps, left))
<1>1. m_users \in [Channels -> SUBSET Speakers]
  BY DEF Minded, ChatTyped
<1>2. Closed(c, ps, left)[d] = IF d = c THEN m_users[d] \ Freely(ps, left) ELSE m_users[d]
  BY <1>1 DEF Closed
<1> QED BY <1>2 DEF Lingering

LEMMA ClosedType ==
  ASSUME Minded, NEW c \in Channels, NEW ps, NEW left
  PROVE  Closed(c, ps, left) \in [Channels -> SUBSET Speakers]
BY DEF Minded, ChatTyped, Closed

\* Those of ps leave the party, or the guild, of c, which is closed for them.
LEMMA LeavingKeeps ==
  ASSUME Minded, NEW c \in Channels, NEW ps \in SUBSET Speakers, NEW left,
         m_users' = Closed(c, ps, left), lingering' = lingering \cup Lingering(c, ps, left),
         UNCHANGED <<around, connected, open, m_owner, m_invites, missed>>,
         \/ c = Guild /\ inGuild' = inGuild \ ps /\ club' = club
         \/ c \in Clubs /\ inGuild' = inGuild /\ club' = Forgotten(ps) /\ \A x \in ps : club[x] = c
  PROVE  Minded'
<1> USE ChannelFacts
<1>1. club' \in [Speakers -> Clubs \cup {NoClub}] /\ inGuild' \subseteq Speakers
  BY DEF Minded, ChatTyped, Forgotten
<1>2. ChatTyped'
  BY <1>1, ClosedType DEF Minded, ChatTyped
<1>3. ASSUME NEW d \in Channels, NEW x \in m_users'[d] PROVE StillHears(x, d)
  <2>1. x \in m_users[d] /\ (d = c /\ x \in ps => <<x, d>> \in lingering')
    BY <1>3, ClosedHears
  <2>2. d \in open /\ x \in Speakers
    BY <2>1 DEF Minded, Hearing, ChatTyped
  <2>3. d = Guild => (x \in inGuild => x \in inGuild' \/ <<x, d>> \in lingering' \cup missed')
    BY <2>1, <2>2
  <2>4. d \in Clubs => (club[x] = d => club'[x] = d \/ <<x, d>> \in lingering' \cup missed')
    BY <2>1, <2>2 DEF Forgotten
  <2> QED BY <2>1, <2>2, <2>3, <2>4, HearsOn
<1>4. Owning(open, m_owner, around)'
  BY DEF Minded, Owning
<1> QED BY <1>2, <1>3, <1>4, HearingIs DEF Minded

LEMMA DisbandedFacts ==
  ASSUME Minded, NEW p \in Speakers, NEW invited
  PROVE  /\ Disbanded(p, invited) \in SUBSET Speakers /\ p \in Disbanded(p, invited)
         /\ \A x \in Disbanded(p, invited) : club[x] = club[p]
         /\ club[p] # NoClub => club[p] \in Clubs
BY DEF Disbanded, Members, Minded, ChatTyped

LEMMA PartingKeeps ==
  ASSUME Minded
  PROVE  /\ \A p \in Speakers : LeaveParty(p) \/ InvitationsEnd(p) => Minded'
         /\ \A ps \in SUBSET Speakers : leaveGuild(ps) => Minded'
<1> USE ChannelFacts
<1>1. ASSUME NEW p \in Speakers, LeaveParty(p) PROVE Minded'
  <2>1. PICK ps : /\ \E invited \in BOOLEAN : ps = Disbanded(p, invited)
                  /\ club' = Forgotten(ps) /\ m_users' = Closed(club[p], ps, {p})
                  /\ lingering' = lingering \cup Lingering(club[p], ps, {p})
    BY <1>1 DEF LeaveParty
  <2>2. club[p] # NoClub /\ UNCHANGED <<around, connected, inGuild, open, m_owner, m_invites, missed>>
    BY <1>1 DEF LeaveParty
  <2>3. club[p] \in Clubs /\ club[p] \in Channels /\ ps \in SUBSET Speakers /\ \A x \in ps : club[x] = club[p]
    BY <2>1, <2>2, DisbandedFacts
  <2> QED BY <2>1, <2>2, <2>3, LeavingKeeps
<1>2. ASSUME NEW p \in Speakers, InvitationsEnd(p) PROVE Minded'
  <2>1. club[p] \in Clubs /\ club[p] \in Channels
    BY <1>2 DEF InvitationsEnd, Minded, ChatTyped
  <2>2. /\ club' = Forgotten({p}) /\ m_users' = Closed(club[p], {p}, {})
        /\ lingering' = lingering \cup Lingering(club[p], {p}, {})
        /\ UNCHANGED <<around, connected, inGuild, open, m_owner, m_invites, missed>>
    BY <1>2 DEF InvitationsEnd
  <2>3. {p} \in SUBSET Speakers /\ \A x \in {p} : club[x] = club[p]
    OBVIOUS
  <2> QED BY <2>1, <2>2, <2>3, LeavingKeeps
<1>3. ASSUME NEW ps \in SUBSET Speakers, leaveGuild(ps) PROVE Minded'
  <2>1. /\ inGuild' = inGuild \ ps /\ club' = club /\ m_users' = Closed(Guild, ps, {})
        /\ lingering' = lingering \cup Lingering(Guild, ps, {})
        /\ UNCHANGED <<around, connected, open, m_owner, m_invites, missed>>
    BY <1>3 DEF leaveGuild
  <2> QED BY <2>1, LeavingKeeps
<1> QED BY <1>1, <1>2, <1>3

\* p is taken out of every channel, or is among the missed; his own are erased, so that
\* none of them is left without an owner when he leaves the world.
LEMMA RemovingKeeps ==
  ASSUME Minded, NEW p \in Speakers, NEW users \in [Channels -> SUBSET Speakers],
         removeUserFromAllChannels(p, users), \A d \in Channels : users[d] \subseteq m_users[d],
         around \ {p} \subseteq around', around' \subseteq around, connected' \subseteq around',
         inGuild' = inGuild, club' \in [Speakers -> Clubs \cup {NoClub}], lingering \subseteq lingering',
         \A d \in Clubs : \A x \in users[d] : club[x] = d => club'[x] = d \/ <<x, d>> \in lingering'
  PROVE  Minded'
<1> USE ChannelFacts
<1> DEFINE own == getPrivateChannel(p)
<1>1. PICK out : /\ TakenOut(p, users, out, own)
                 /\ missed' = missed \cup {<<p, c>> : c \in {d \in Channels \ out : p \in users[d]}}
  BY DEF removeUserFromAllChannels
<1>2. ChatTyped
  BY DEF Minded
<1>3. \A c \in PrivateIds \cap open : m_owner[c] = p => c \in own
  BY DEF getPrivateChannel
<1> HIDE DEF own
<1>4. /\ Erased(own)
      /\ m_users' = [c \in Channels |-> IF c \in own THEN {}
                                       ELSE IF c \in out THEN users[c] \ {p} ELSE users[c]]
  BY <1>1 DEF TakenOut
<1>5. ChatTyped'
  <2>1. m_users' \in [Channels -> SUBSET Speakers]
    BY <1>4
  <2> QED BY <1>2, <1>4, <2>1, ErasedFacts DEF ChatTyped
<1>6. ASSUME NEW d \in Channels, NEW x \in m_users'[d] PROVE StillHears(x, d)
  <2>1. d \notin own /\ x \in users[d] /\ (x = p => d \notin out)
    BY <1>4, <1>6
  <2>2. x \in m_users[d] /\ (x = p => <<x, d>> \in missed')
    BY <1>1, <2>1
  <2>3. d \in open /\ d \in open'
    BY <1>4, <2>1, <2>2 DEF Minded, Hearing, Erased
  <2>4. d \in PrivateIds => m_owner'[d] = m_owner[d] /\ m_invites'[d] = m_invites[d]
    BY <1>2, <1>4, <2>3, ErasedFacts
  <2>5. d \in Clubs => (club[x] = d => club'[x] = d \/ <<x, d>> \in lingering' \cup missed')
    BY <2>1
  <2>6. x \in around => x \in around' \/ <<x, d>> \in missed'
    BY <2>2
  <2>7. missed \subseteq missed'
    BY <1>1
  <2> QED BY <2>2, <2>3, <2>4, <2>5, <2>6, <2>7, HearsOn
<1>7. Owning(open, m_owner, around)'
  <2>1. \A c \in PrivateIds \cap open' : c \in open /\ c \notin own /\ m_owner'[c] = m_owner[c]
    BY <1>2, <1>4, ErasedFacts
  <2> QED BY <1>3, <2>1 DEF Minded, Owning
<1> QED BY <1>5, <1>6, <1>7, HearingIs DEF Minded

LEMMA GoingKeeps ==
  ASSUME Minded, NEW p \in Speakers
  PROVE  /\ TakeOver(p) => Minded'
         /\ LeaveWorld(p) => Minded'
<1>0. m_users \in [Channels -> SUBSET Speakers] /\ club \in [Speakers -> Clubs \cup {NoClub}]
      /\ connected \subseteq around
  BY DEF Minded, ChatTyped
<1>1. ASSUME TakeOver(p) PROVE Minded'
  <2>1. /\ connected' = connected \ {p} /\ removeUserFromAllChannels(p, m_users)
        /\ UNCHANGED <<around, club, inGuild, lingering>>
    BY <1>1 DEF TakeOver
  <2> QED BY <1>0, <2>1, RemovingKeeps
<1>2. ASSUME LeaveWorld(p) PROVE Minded'
  <2>1. PICK invited \in BOOLEAN :
          LET c == club[p]
              ps == IF c = NoClub THEN {} ELSE Disbanded(p, invited)
          IN  /\ club' = Forgotten(ps)
              /\ removeUserFromAllChannels(p, IF ps = {} THEN m_users ELSE Closed(c, ps, {p}))
              /\ lingering' = lingering \cup (IF ps = {} THEN {} ELSE Lingering(c, ps, {p}))
    BY <1>2 DEF LeaveWorld
  <2>2. around' = around \ {p} /\ connected' = connected \ {p} /\ inGuild' = inGuild
    BY <1>2 DEF LeaveWorld
  <2>3. CASE club[p] = NoClub
    <3>1. club' = Forgotten({}) /\ removeUserFromAllChannels(p, m_users) /\ lingering' = lingering
      BY <2>1, <2>3
    <3>2. club' = club
      BY <1>0, <3>1 DEF Forgotten
    <3> QED BY <1>0, <2>2, <3>1, <3>2, RemovingKeeps
  <2>4. CASE club[p] # NoClub
    <3> DEFINE ps == Disbanded(p, invited)
               users == Closed(club[p], ps, {p})
    <3>1. /\ ps \in SUBSET Speakers /\ p \in ps /\ \A x \in ps : club[x] = club[p]
          /\ club[p] \in Clubs
      BY <2>4, DisbandedFacts
    <3>2. club[p] \in Channels
      BY <3>1, ChannelFacts
    <3>3. /\ club' = Forgotten(ps) /\ removeUserFromAllChannels(p, users)
          /\ lingering' = lingering \cup Lingering(club[p], ps, {p})
      BY <2>1, <2>4, <3>1
    <3>4. users \in [Channels -> SUBSET Speakers]
      BY <3>2, ClosedType
    <3>5. \A d \in Channels : \A x \in users[d] :
            x \in m_users[d] /\ (d = club[p] /\ x \in ps => <<x, d>> \in lingering')
      BY <3>1, <3>2, <3>3, ClosedHears
    <3> HIDE DEF users, ps
    <3>6. club' \in [Speakers -> Clubs \cup {NoClub}]
      BY <1>0, <3>3 DEF Forgotten
    <3>7. \A d \in Clubs : \A x \in users[d] : club[x] = d => club'[x] = d \/ <<x, d>> \in lingering'
      <4>1. ASSUME NEW d \in Clubs, NEW x \in users[d], club[x] = d, x \in Speakers
            PROVE  club'[x] = d \/ <<x, d>> \in lingering'
        BY <3>1, <3>3, <3>5, <4>1, ChannelFacts DEF Forgotten
      <4> QED BY <3>4, <4>1, ChannelFacts
    <3>8. \A d \in Channels : users[d] \subseteq m_users[d]
      BY <3>5
    <3>9. /\ around \ {p} \subseteq around' /\ around' \subseteq around /\ connected' \subseteq around'
          /\ lingering \subseteq lingering'
      BY <1>0, <2>2, <3>3
    <3> QED BY <2>2, <3>3, <3>4, <3>6, <3>7, <3>8, <3>9, RemovingKeeps
  <2> QED BY <2>3, <2>4
<1> QED BY <1>1, <1>2

LEMMA ChatsOpen == ChatInit => ChannelsForget
<1> SUFFICES ASSUME ChatInit PROVE ChannelsForget
  OBVIOUS
<1>1. PICK c \in Clubs : club = [p \in Speakers |-> c]
  BY DEF ChatInit
<1>2. ChatTyped
  BY <1>1, ChannelFacts DEF ChatInit, ChatTyped
<1>3. Hearing(m_users, open, m_owner, m_invites, club, inGuild, around, lingering, missed)
  BY DEF ChatInit, Hearing
<1>4. Owning(open, m_owner, around)
  BY ChannelFacts DEF ChatInit, Owning
<1>5. chats \in 0..MaxChats
  BY ChatAssumption DEF ChatInit
<1> QED BY <1>2, <1>3, <1>4, <1>5, MindedIs DEF Minded

LEMMA ChatsGoOn == ChannelsForget /\ [ChatNext]_chatVars => ChannelsForget'
<1> SUFFICES ASSUME ChannelsForget, [ChatNext]_chatVars PROVE ChannelsForget'
  OBVIOUS
<1>1. Minded /\ chats \in 0..MaxChats
  BY MindedIs
<1>2. CASE UNCHANGED chatVars
  BY <1>1, <1>2, MindedIs DEF chatVars, Minded, ChatTyped, Hearing, Finds, Owning
<1>3. CASE ChatNext
  <2>1. chats' \in 0..MaxChats
    BY <1>1, <1>3, ChatAssumption DEF ChatNext
  <2>2. Minded'
    <3>1. CASE \/ reload
               \/ \E ps \in SUBSET Speakers : leaveGuild(ps)
      BY <1>1, <3>1, ClosingKeeps, PartingKeeps
    <3>2. ASSUME NEW p \in Speakers,
                 \/ Enter(p) \/ ConnectionLost(p) \/ TakeOver(p) \/ LeaveWorld(p)
                 \/ LeaveParty(p) \/ InvitationsEnd(p) \/ joinGuild(p) \/ createPrivateChannel(p)
                 \/ \E c \in Clubs : joinParty(p, c)
                 \/ \E c \in Clubs \cup {Guild} : createGroupChannel(p, c)
          PROVE  Minded'
      BY <1>1, <3>2, ComingKeeps, GoingKeeps, PartingKeeps, OpeningKeeps
    <3>3. ASSUME NEW p \in Speakers, NEW c \in Channels, playerOpenChannel(p, c) \/ playerCloseChannel(p, c)
          PROVE  Minded'
      BY <1>1, <3>3, InvitingKeeps, ClosingKeeps
    <3>4. ASSUME NEW p \in Speakers, NEW q \in Speakers, playerChannelInvite(p, q) \/ playerChannelExclude(p, q)
          PROVE  Minded'
      BY <1>1, <3>4, InvitingKeeps
    <3> QED BY <1>3, <3>1, <3>2, <3>3, <3>4 DEF ChatNext
  <2> QED BY <2>1, <2>2, MindedIs
<1> QED BY <1>2, <1>3

\* No channel speaks to a player who is gone, or is no longer let in, but where the code
\* passes him over: whatever the players, the parties and the numbers of channels are.
THEOREM ChannelsDoForget == ChatSpec => []ChannelsForget
<1> QED BY ChatsOpen, ChatsGoOn, PTL DEF ChatSpec
-----------------------------------------------------------------------------
(* The parties: what the methods of one do to the others.                  *)

Sheet == [leader : Heroes \cup {Nobody}, memberList : Seq(Heroes), inviteList : Seq(Heroes),
          sharedExpActive : BOOLEAN, sharedExpEnabled : BOOLEAN]
States == [party : [Heroes -> Parties \cup {NoParty}], invites : [Heroes -> SUBSET Parties],
           parties : [Parties -> Sheet]]

\* Each player is in a party once,
Neat(pt) ==
  /\ IsInjective(pt.memberList) /\ IsInjective(pt.inviteList)
  /\ pt.leader \notin ToSet(pt.memberList) \cup ToSet(pt.inviteList)
  /\ ToSet(pt.memberList) \cap ToSet(pt.inviteList) = {}
  /\ pt.sharedExpActive /\ pt.sharedExpEnabled => ToSet(pt.memberList) # {}
\* and points to it.
Tied(pt, pointers, invited, p) ==
  /\ \A h \in Heroes : pointers[h] = p <=> h = pt.leader \/ h \in ToSet(pt.memberList)
  /\ \A h \in Heroes : p \in invited[h] <=> h \in ToSet(pt.inviteList)
Peopled(pt, W) ==
  /\ ToSet(pt.memberList) \cup ToSet(pt.inviteList) \subseteq W
  /\ IF pt.leader = Nobody THEN pt = Deleted ELSE pt.leader \in W /\ ~ CanDisband(pt)
Agree(w, W) ==
  /\ w \in States /\ W \subseteq Heroes
  /\ \A p \in Parties : Neat(w.parties[p]) /\ Tied(w.parties[p], w.party, w.invites, p) /\ Peopled(w.parties[p], W)

\* Of w and v: nothing has changed but for p.
Elsewhere(w, v, p) ==
  \A q \in Parties : q # p =>
    /\ v.parties[q] = w.parties[q]
    /\ \A h \in Heroes : (v.party[h] = q <=> w.party[h] = q) /\ (q \in v.invites[h] <=> q \in w.invites[h])

LEMMA OneChanges ==
  ASSUME NEW w, NEW v \in States, NEW W, Agree(w, W), NEW p \in Parties, Elsewhere(w, v, p),
         Neat(v.parties[p]), Tied(v.parties[p], v.party, v.invites, p), Peopled(v.parties[p], W)
  PROVE  Agree(v, W)
<1>1. ASSUME NEW q \in Parties, q # p
      PROVE  Neat(v.parties[q]) /\ Tied(v.parties[q], v.party, v.invites, q) /\ Peopled(v.parties[q], W)
  <2>1. Neat(w.parties[q]) /\ Tied(w.parties[q], w.party, w.invites, q) /\ Peopled(w.parties[q], W)
    BY DEF Agree
  <2>2. /\ v.parties[q] = w.parties[q]
        /\ \A h \in Heroes : (v.party[h] = q <=> w.party[h] = q) /\ (q \in v.invites[h] <=> q \in w.invites[h])
    BY <1>1 DEF Elsewhere
  <2> QED BY <2>1, <2>2 DEF Tied
<1> QED BY <1>1 DEF Agree

LEMMA SheetFacts ==
  ASSUME NEW pt \in Sheet
  PROVE  /\ pt.memberList = <<>> <=> ToSet(pt.memberList) = {}
         /\ pt.inviteList = <<>> <=> ToSet(pt.inviteList) = {}
         /\ CanDisband(pt) <=> ToSet(pt.memberList) = {} /\ ToSet(pt.inviteList) = {}
         /\ ToSet(pt.memberList) \subseteq Heroes /\ ToSet(pt.inviteList) \subseteq Heroes
         /\ \A h : isPlayerMember(pt, h) <=> h \in ToSet(pt.memberList)
         /\ \A h : isPlayerInvited(pt, h) <=> h \in ToSet(pt.inviteList)
<1>1. pt.memberList \in Seq(Heroes) /\ pt.inviteList \in Seq(Heroes)
  BY DEF Sheet
<1>2. \A l \in Seq(Heroes) : ToSet(l) \subseteq Heroes /\ (l = <<>> <=> ToSet(l) = {})
  BY EmptyList DEF ToSet
<1> QED BY <1>1, <1>2 DEF CanDisband, isPlayerMember, isPlayerInvited, ToSet

LEMMA NobodyThere ==
  /\ Deleted \in Sheet /\ Neat(Deleted) /\ Deleted.leader = Nobody
  /\ ToSet(Deleted.memberList) = {} /\ ToSet(Deleted.inviteList) = {}
<1>1. Deleted \in Sheet
  BY DEF Deleted, Sheet
<1>2. Deleted.memberList = <<>> /\ Deleted.inviteList = <<>> /\ Deleted.leader = Nobody /\ ~ Deleted.sharedExpActive
  BY DEF Deleted
<1>3. DOMAIN <<>> = {}
  OBVIOUS
<1> QED BY <1>1, <1>2, <1>3 DEF Neat, IsInjective, ToSet

LEMMA SharingFacts ==
  ASSUME NEW pt \in Sheet, NEW able \in BOOLEAN
  PROVE  LET r == updateSharedExperience(pt, able)
         IN  /\ r \in Sheet /\ r.leader = pt.leader
             /\ r.memberList = pt.memberList /\ r.inviteList = pt.inviteList
             /\ r.sharedExpActive /\ r.sharedExpEnabled => ToSet(r.memberList) # {}
<1>1. pt.memberList = <<>> <=> ToSet(pt.memberList) = {}
  BY SheetFacts
<1> QED BY <1>1 DEF updateSharedExperience, Sheet

\* The party of p goes, and r is what is left.
Disbands(w, r, p) ==
  LET pt == w.parties[p]
  IN  /\ r \in States
      /\ \A q \in Parties : r.parties[q] = IF q = p THEN Deleted ELSE w.parties[q]
      /\ \A h \in Heroes : r.party[h] = IF h = pt.leader \/ h \in ToSet(pt.memberList)
                                        THEN NoParty ELSE w.party[h]
      /\ \A h \in Heroes : r.invites[h] = IF h \in ToSet(pt.inviteList)
                                          THEN w.invites[h] \ {p} ELSE w.invites[h]

LEMMA DisbandFacts ==
  ASSUME NEW w \in States, NEW p \in Parties
  PROVE  Disbands(w, Disband(w, p), p)
<1>1. Deleted \in Sheet
  BY NobodyThere
<1> QED BY <1>1 DEF Disbands, Disband, Uninvited, States

\* A party goes, with all that points to it.
LEMMA DisbandAgrees ==
  ASSUME NEW w, NEW v \in States, NEW W, Agree(w, W), NEW p \in Parties, Elsewhere(w, v, p),
         \A h \in Heroes : v.party[h] = p => h = v.parties[p].leader \/ h \in ToSet(v.parties[p].memberList),
         \A h \in Heroes : h = v.parties[p].leader \/ h \in ToSet(v.parties[p].memberList) => v.party[h] \in {p, NoParty},
         \A h \in Heroes : p \in v.invites[h] => h \in ToSet(v.parties[p].inviteList)
  PROVE  /\ Agree(Disband(v, p), W) /\ Elsewhere(w, Disband(v, p), p)
         /\ \A h \in Heroes : Disband(v, p).party[h] # p /\ p \notin Disband(v, p).invites[h]
<1> DEFINE r == Disband(v, p)
           pt == v.parties[p]
<1>1. /\ r \in States
      /\ \A q \in Parties : r.parties[q] = IF q = p THEN Deleted ELSE v.parties[q]
      /\ \A h \in Heroes : r.party[h] = IF h = pt.leader \/ h \in ToSet(pt.memberList)
                                        THEN NoParty ELSE v.party[h]
      /\ \A h \in Heroes : r.invites[h] = IF h \in ToSet(pt.inviteList) THEN v.invites[h] \ {p} ELSE v.invites[h]
  BY DisbandFacts DEF Disbands
<1> HIDE DEF r
<1>2. Elsewhere(w, r, p)
  <2>1. ASSUME NEW q \in Parties, q # p
        PROVE  /\ r.parties[q] = w.parties[q]
               /\ \A h \in Heroes : (r.party[h] = q <=> w.party[h] = q) /\ (q \in r.invites[h] <=> q \in w.invites[h])
    <3>1. /\ v.parties[q] = w.parties[q]
          /\ \A h \in Heroes : (v.party[h] = q <=> w.party[h] = q) /\ (q \in v.invites[h] <=> q \in w.invites[h])
      BY <2>1 DEF Elsewhere
    <3>2. q # NoParty
      BY PartyAssumption
    <3>3. \A h \in Heroes : r.party[h] = q <=> v.party[h] = q
      BY <1>1, <2>1, <3>2
    <3>4. \A h \in Heroes : q \in r.invites[h] <=> q \in v.invites[h]
      BY <1>1, <2>1
    <3>5. r.parties[q] = v.parties[q]
      BY <1>1, <2>1
    <3> QED BY <3>1, <3>3, <3>4, <3>5
  <2> QED BY <2>1 DEF Elsewhere
<1>3. \A h \in Heroes : r.party[h] # p /\ p \notin r.invites[h]
  BY <1>1, PartyAssumption
<1>4. r.parties[p] = Deleted
  BY <1>1
<1>5. Neat(r.parties[p]) /\ Tied(r.parties[p], r.party, r.invites, p) /\ Peopled(r.parties[p], W)
  BY <1>3, <1>4, NobodyThere, PartyAssumption DEF Tied, Peopled
<1>6. Agree(r, W)
  BY <1>1, <1>2, <1>5, OneChanges
<1> QED BY <1>2, <1>3, <1>6 DEF r

Uninvites(w, v, S, p) ==
  /\ v \in States /\ v.party = w.party /\ v.parties = w.parties
  /\ \A h \in Heroes : v.invites[h] = IF h \in S THEN w.invites[h] \ {p} ELSE w.invites[h]

LEMMA UninvitedFacts ==
  ASSUME NEW w \in States, NEW S, NEW p \in Parties
  PROVE  Uninvites(w, Uninvited(w, S, p), S, p)
BY DEF Uninvites, Uninvited, States

LEMMA RemoveInviteAgrees ==
  ASSUME NEW w, NEW W, Agree(w, W), NEW p \in Parties, NEW h \in Heroes
  PROVE  /\ Agree(RemoveInvite(w, p, h), W) /\ Elsewhere(w, RemoveInvite(w, p, h), p)
         /\ p \notin RemoveInvite(w, p, h).invites[h]
         /\ \A g \in Heroes : RemoveInvite(w, p, h).invites[g] \subseteq w.invites[g]
         /\ \A g \in Heroes : RemoveInvite(w, p, h).party[g] \in {w.party[g], NoParty}
         /\ \A g \in Heroes : RemoveInvite(w, p, h).party[g] # w.party[g] => w.party[g] = p
<1> DEFINE pt == w.parties[p]
           l == RemoveFirst(pt.inviteList, h)
           v == [Uninvited(w, {h}, p) EXCEPT !.parties[p].inviteList = RemoveFirst(@, h)]
           r == RemoveInvite(w, p, h)
<1>1. w \in States /\ Neat(pt) /\ Tied(pt, w.party, w.invites, p) /\ Peopled(pt, W)
  BY DEF Agree
<1>2. pt \in Sheet
  BY <1>1 DEF States
<1>3. CASE ~ isPlayerInvited(pt, h)
  <2>1. r = w
    BY <1>3 DEF RemoveInvite
  <2>2. p \notin w.invites[h]
    BY <1>1, <1>2, <1>3, SheetFacts DEF Tied
  <2> QED BY <2>1, <2>2 DEF Elsewhere
<1>4. CASE isPlayerInvited(pt, h)
  <2>1. /\ l \in Seq(Heroes) /\ IsInjective(l) /\ ToSet(l) = ToSet(pt.inviteList) \ {h}
    BY <1>1, <1>2, ErasedFromList DEF Neat, Sheet
  <2>2. h \in ToSet(pt.inviteList)
    BY <1>2, <1>4, SheetFacts
  <2>3. /\ v \in States /\ v.party = w.party
        /\ v.parties = [w.parties EXCEPT ![p] = [pt EXCEPT !.inviteList = l]]
        /\ \A g \in Heroes : v.invites[g] = IF g = h THEN w.invites[g] \ {p} ELSE w.invites[g]
    <3> DEFINE u == Uninvited(w, {h}, p)
    <3>1. /\ u \in States /\ u.party = w.party /\ u.parties = w.parties
          /\ \A g \in Heroes : u.invites[g] = IF g \in {h} THEN w.invites[g] \ {p} ELSE w.invites[g]
      BY <1>1, UninvitedFacts DEF Uninvites
    <3> HIDE DEF u
    <3>2. v = [u EXCEPT !.parties = [u.parties EXCEPT ![p] = [pt EXCEPT !.inviteList = l]]]
      BY <1>1, <3>1 DEF u, States, Sheet
    <3>3. [pt EXCEPT !.inviteList = l] \in Sheet
      BY <1>2, <2>1 DEF Sheet
    <3> HIDE DEF v, l
    <3> QED BY <1>1, <3>1, <3>2, <3>3 DEF States
  <2> DEFINE qt == [pt EXCEPT !.inviteList = l]
  <2>4. /\ v.parties[p] = qt /\ \A q \in Parties : q # p => v.parties[q] = w.parties[q]
        /\ qt \in Sheet /\ qt.leader = pt.leader /\ qt.memberList = pt.memberList /\ qt.inviteList = l
        /\ qt.sharedExpActive = pt.sharedExpActive /\ qt.sharedExpEnabled = pt.sharedExpEnabled
    <3> HIDE DEF v, l
    <3> QED BY <1>1, <1>2, <2>1, <2>3 DEF States, Sheet
  <2>5. r = IF CanDisband(v.parties[p]) THEN Disband(v, p) ELSE v
    BY <1>4 DEF RemoveInvite
  <2> HIDE DEF r, v, qt, l
  <2>6. Elsewhere(w, v, p)
    BY <2>3, <2>4 DEF Elsewhere
  <2>7. Neat(qt) /\ Tied(qt, v.party, v.invites, p)
    <3>1. IsInjective(qt.inviteList) /\ ToSet(qt.inviteList) = ToSet(pt.inviteList) \ {h}
          /\ ToSet(qt.memberList) = ToSet(pt.memberList) /\ IsInjective(qt.memberList)
      BY <1>1, <2>1, <2>4 DEF Neat
    <3>2. Neat(qt)
      BY <1>1, <2>4, <3>1 DEF Neat
    <3>3. \A g \in Heroes : p \in v.invites[g] <=> g \in ToSet(qt.inviteList)
      BY <1>1, <2>3, <3>1 DEF Tied
    <3>4. \A g \in Heroes : v.party[g] = p <=> g = qt.leader \/ g \in ToSet(qt.memberList)
      BY <1>1, <2>3, <2>4, <3>1 DEF Tied
    <3> QED BY <3>2, <3>3, <3>4 DEF Tied
  <2>8. CASE CanDisband(qt)
    <3>1. \A g \in Heroes : v.party[g] = p <=> g = v.parties[p].leader \/ g \in ToSet(v.parties[p].memberList)
      BY <2>4, <2>7 DEF Tied
    <3>2. \A g \in Heroes : p \in v.invites[g] => g \in ToSet(v.parties[p].inviteList)
      BY <2>4, <2>7 DEF Tied
    <3>3. /\ Agree(Disband(v, p), W) /\ Elsewhere(w, Disband(v, p), p)
          /\ \A g \in Heroes : Disband(v, p).party[g] # p /\ p \notin Disband(v, p).invites[g]
      BY <2>3, <2>6, <3>1, <3>2, DisbandAgrees
    <3> DEFINE d == Disband(v, p)
    <3>0. Disbands(v, d, p)
      BY <2>3, DisbandFacts
    <3>4. \A g \in Heroes : d.party[g] = IF g = v.parties[p].leader \/ g \in ToSet(v.parties[p].memberList)
                                       THEN NoParty ELSE v.party[g]
      BY <2>3, <3>0 DEF Disbands
    <3>9. \A g \in Heroes : d.invites[g] = IF g \in ToSet(v.parties[p].inviteList)
                                         THEN v.invites[g] \ {p} ELSE v.invites[g]
      BY <2>3, <3>0 DEF Disbands
    <3>5. r = d
      BY <2>4, <2>5, <2>8
    <3> HIDE DEF d
    <3>6. \A g \in Heroes : d.invites[g] \subseteq w.invites[g]
      BY <2>3, <3>9
    <3>7. \A g \in Heroes : d.party[g] \in {w.party[g], NoParty} /\ (d.party[g] # w.party[g] => w.party[g] = p)
      BY <2>3, <3>1, <3>4
    <3>8. Agree(d, W) /\ Elsewhere(w, d, p) /\ p \notin d.invites[h]
      BY <3>3 DEF d
    <3> QED BY <3>5, <3>6, <3>7, <3>8 DEF r
  <2>9. CASE ~ CanDisband(qt)
    <3>1. Peopled(qt, W)
      BY <1>1, <2>1, <2>2, <2>4, <2>9, NobodyThere DEF Peopled
    <3>2. r = v
      BY <2>4, <2>5, <2>9
    <3>3. Agree(v, W)
      BY <2>3, <2>4, <2>6, <2>7, <3>1, OneChanges
    <3> QED BY <2>3, <2>6, <3>2, <3>3 DEF r
  <2> QED BY <2>8, <2>9
<1> QED BY <1>3, <1>4

\* Each of the parties that invite h forgets him, and goes if it has nobody else.
LEMMA RefuseAllAgrees ==
  ASSUME NEW w, NEW W, Agree(w, W), NEW h \in Heroes
  PROVE  Agree(RefuseAll(w, h), W) /\ RefuseAll(w, h).invites[h] = {}
<1> DEFINE ps == w.invites[h]
           x(p) == RemoveInvite(w, p, h)
           r == RefuseAll(w, h)
<1>1. w \in States /\ ps \subseteq Parties
  BY DEF Agree, States
<1>2. ASSUME NEW p \in ps
      PROVE  /\ x(p) \in States
             /\ Neat(x(p).parties[p]) /\ Tied(x(p).parties[p], x(p).party, x(p).invites, p) /\ Peopled(x(p).parties[p], W)
             /\ p \notin x(p).invites[h]
             /\ \A g \in Heroes : x(p).invites[g] \subseteq w.invites[g]
             /\ \A g \in Heroes : x(p).party[g] \in {w.party[g], NoParty}
             /\ \A g \in Heroes : x(p).party[g] # w.party[g] => w.party[g] = p
  BY <1>1, RemoveInviteAgrees DEF Agree
<1> HIDE DEF x
<1>3. /\ r.party = [g \in Heroes |-> IF \E p \in ps : x(p).party[g] # w.party[g] THEN NoParty ELSE w.party[g]]
      /\ r.invites = [g \in Heroes |-> IF g = h THEN {} ELSE {p \in w.invites[g] : p \in ps => p \in x(p).invites[g]}]
      /\ r.parties = [p \in Parties |-> IF p \in ps THEN x(p).parties[p] ELSE w.parties[p]]
      /\ r = [party |-> r.party, invites |-> r.invites, parties |-> r.parties]
  BY DEF RefuseAll, x
<1> HIDE DEF r
<1>4. r \in States
  <2>1. r.party \in [Heroes -> Parties \cup {NoParty}]
    BY <1>1, <1>3 DEF States
  <2>2. r.invites \in [Heroes -> SUBSET Parties]
    BY <1>1, <1>3 DEF States
  <2>3. r.parties \in [Parties -> Sheet]
    <3>1. \A p \in ps : x(p).parties[p] \in Sheet
      BY <1>1, <1>2 DEF States
    <3>2. \A p \in Parties : w.parties[p] \in Sheet
      BY <1>1 DEF States
    <3> QED BY <1>3, <3>1, <3>2
  <2> QED BY <1>3, <2>1, <2>2, <2>3 DEF States
<1>5. ASSUME NEW q \in Parties
      PROVE  Neat(r.parties[q]) /\ Tied(r.parties[q], r.party, r.invites, q) /\ Peopled(r.parties[q], W)
  <2>0. q # NoParty
    BY PartyAssumption
  <2>1. CASE q \in ps
    <3>1. r.parties[q] = x(q).parties[q]
      BY <1>3, <2>1
    <3>2. \A g \in Heroes : r.party[g] = q <=> x(q).party[g] = q
      <4> TAKE g \in Heroes
      <4>1. ASSUME r.party[g] = q PROVE x(q).party[g] = q
        <5>1. ~ \E p \in ps : x(p).party[g] # w.party[g]
          BY <1>3, <2>0, <4>1
        <5> QED BY <1>3, <2>1, <4>1, <5>1
      <4>2. ASSUME x(q).party[g] = q PROVE r.party[g] = q
        <5>1. w.party[g] = q
          BY <1>2, <2>0, <2>1, <4>2
        <5>2. ~ \E p \in ps : x(p).party[g] # w.party[g]
          BY <1>2, <4>2, <5>1
        <5> QED BY <1>3, <5>1, <5>2
      <4> QED BY <4>1, <4>2
    <3>3. \A g \in Heroes : q \in r.invites[g] <=> q \in x(q).invites[g]
      BY <1>2, <1>3, <2>1
    <3>4. Tied(x(q).parties[q], x(q).party, x(q).invites, q)
      BY <1>2, <2>1
    <3>5. Tied(x(q).parties[q], r.party, r.invites, q)
      BY <3>2, <3>3, <3>4 DEF Tied
    <3> QED BY <1>2, <2>1, <3>1, <3>5
  <2>2. CASE q \notin ps
    <3>1. r.parties[q] = w.parties[q]
      BY <1>3, <2>2
    <3>2. \A g \in Heroes : r.party[g] = q <=> w.party[g] = q
      <4> TAKE g \in Heroes
      <4>1. w.party[g] = q => ~ \E p \in ps : x(p).party[g] # w.party[g]
        BY <1>2, <2>2
      <4> QED BY <1>3, <2>0, <4>1
    <3>3. \A g \in Heroes : q \in r.invites[g] <=> q \in w.invites[g]
      BY <1>3, <2>2
    <3>4. Neat(w.parties[q]) /\ Tied(w.parties[q], w.party, w.invites, q) /\ Peopled(w.parties[q], W)
      BY DEF Agree
    <3>5. Tied(w.parties[q], r.party, r.invites, q)
      BY <3>2, <3>3, <3>4 DEF Tied
    <3> QED BY <3>1, <3>4, <3>5
  <2> QED BY <2>1, <2>2
<1>6. W \subseteq Heroes
  BY DEF Agree
<1>7. Agree(r, W) /\ r.invites[h] = {}
  BY <1>3, <1>4, <1>5, <1>6 DEF Agree
<1> QED BY <1>7 DEF r

LEMMA PassingFacts ==
  ASSUME NEW pt \in Sheet, Neat(pt), pt.leader \in Heroes, NEW g \in ToSet(pt.memberList), NEW able \in BOOLEAN
  PROVE  LET r == PassLeadership(pt, g, able)
         IN  /\ r \in Sheet /\ Neat(r) /\ r.leader = g /\ r.inviteList = pt.inviteList
             /\ ToSet(r.memberList) = (ToSet(pt.memberList) \ {g}) \cup {pt.leader}
<1> DEFINE l == RemoveFirst(pt.memberList, g)
           k == <<pt.leader>> \o l
           qt == [pt EXCEPT !.leader = g, !.memberList = k]
           r == updateSharedExperience(qt, able)
<1>1. l \in Seq(Heroes) /\ IsInjective(l) /\ ToSet(l) = ToSet(pt.memberList) \ {g}
  BY ErasedFromList DEF Sheet, Neat
<1>2. pt.leader \notin ToSet(l) /\ g # pt.leader /\ g \in Heroes /\ g \notin ToSet(pt.inviteList)
  BY <1>1, SheetFacts DEF Neat
<1> HIDE DEF l
<1>3. k \in Seq(Heroes) /\ IsInjective(k) /\ ToSet(k) = ToSet(l) \cup {pt.leader}
  BY <1>1, <1>2, PutFirst
<1> HIDE DEF k
<1>4. /\ qt \in Sheet /\ qt.leader = g /\ qt.memberList = k /\ qt.inviteList = pt.inviteList
  BY <1>2, <1>3 DEF Sheet
<1> HIDE DEF qt
<1>5. /\ r \in Sheet /\ r.leader = g /\ r.memberList = k /\ r.inviteList = pt.inviteList
      /\ r.sharedExpActive /\ r.sharedExpEnabled => ToSet(r.memberList) # {}
  BY <1>4, SharingFacts
<1>6. PassLeadership(pt, g, able) = r
  BY DEF PassLeadership, r, qt, k, l
<1> HIDE DEF r
<1>7. Neat(r)
  BY <1>1, <1>2, <1>3, <1>5 DEF Neat
<1> QED BY <1>1, <1>3, <1>5, <1>6, <1>7

\* Whoever leaves is out of both lists, and someone of the party leads it, unless it is to go.
LeavesIt(pt, h, left, missing) ==
  /\ IsInjective(left.memberList) /\ IsInjective(left.inviteList)
  /\ left.sharedExpActive /\ left.sharedExpEnabled => ToSet(left.memberList) # {}
  /\ ToSet(left.inviteList) = ToSet(pt.inviteList)
  /\ IF missing THEN left.leader = h /\ pt.leader = h /\ ToSet(left.memberList) = ToSet(pt.memberList)
     ELSE /\ left.leader \notin ToSet(left.memberList)
          /\ \A g : g = left.leader \/ g \in ToSet(left.memberList)
                    <=> g # h /\ (g = pt.leader \/ g \in ToSet(pt.memberList))

Leaves(w, p, h, r) ==
  \E left \in Sheet, missing \in BOOLEAN :
    /\ LeavesIt(w.parties[p], h, left, missing)
    /\ r = IF missing \/ CanDisband(left)
           THEN Disband([w EXCEPT !.parties[p] = left, !.party[h] = NoParty], p)
           ELSE [w EXCEPT !.parties[p] = left, !.party[h] = NoParty]

LEMMA LeaveIs ==
  ASSUME NEW w, NEW W, Agree(w, W), NEW p \in Parties, NEW h \in Heroes, w.party[h] = p, NEW able \in BOOLEAN
  PROVE  Leaves(w, p, h, Leave(w, p, h, able))
<1> DEFINE pt == w.parties[p]
           missing == h = pt.leader /\ Len(pt.memberList) <= 1
                        /\ (Len(pt.memberList) = 1 => pt.inviteList = <<>>)
           led == IF h # pt.leader \/ missing THEN pt
                  ELSE PassLeadership(pt, Head(pt.memberList), able)
           lt == [led EXCEPT !.memberList = RemoveFirst(@, h), !.inviteList = RemoveFirst(@, h)]
           left == updateSharedExperience(lt, able)
<1>1. /\ w \in States /\ pt \in Sheet /\ Neat(pt) /\ Tied(pt, w.party, w.invites, p) /\ Peopled(pt, W)
      /\ pt.memberList \in Seq(Heroes)
  BY DEF Agree, States, Sheet
<1>2. h = pt.leader \/ h \in ToSet(pt.memberList)
  BY <1>1 DEF Tied
<1>3. h \notin ToSet(pt.inviteList) /\ pt.leader \in Heroes
  <2>1. pt.leader \in Heroes \cup {Nobody}
    BY <1>1 DEF Sheet
  <2>2. pt.leader # Nobody
    BY <1>1, <1>2, NobodyThere, PartyAssumption DEF Peopled
  <2> QED BY <1>1, <1>2, <2>1, <2>2 DEF Neat
<1>4. missing \in BOOLEAN
  OBVIOUS
<1> HIDE DEF pt
<1>5. /\ led \in Sheet /\ Neat(led) /\ led.inviteList = pt.inviteList
      /\ h = pt.leader /\ ~ missing => /\ led.leader \in ToSet(pt.memberList)
                                       /\ ToSet(led.memberList) = (ToSet(pt.memberList) \ {led.leader}) \cup {h}
      /\ h # pt.leader \/ missing => led = pt
  <2>1. CASE h # pt.leader \/ missing
    BY <1>1, <2>1
  <2>2. CASE ~(h # pt.leader \/ missing)
    <3>1. pt.memberList # <<>>
      <4>1. pt.memberList = <<>> => Len(pt.memberList) = 0
        OBVIOUS
      <4>2. h = pt.leader /\ Len(pt.memberList) = 0 => missing
        OBVIOUS
      <4>3. h = pt.leader /\ ~ missing
        BY <2>2
      <4> HIDE DEF missing
      <4> QED BY <4>1, <4>2, <4>3
    <3>2. Head(pt.memberList) \in ToSet(pt.memberList)
      BY <1>1, <3>1, EmptyList
    <3>3. led = PassLeadership(pt, Head(pt.memberList), able)
      BY <2>2
    <3>4. h = pt.leader /\ ~ missing
      BY <2>2
    <3> HIDE DEF missing, led
    <3>5. /\ led \in Sheet /\ Neat(led) /\ led.leader = Head(pt.memberList) /\ led.inviteList = pt.inviteList
          /\ ToSet(led.memberList) = (ToSet(pt.memberList) \ {Head(pt.memberList)}) \cup {pt.leader}
      BY <1>1, <1>3, <3>2, <3>3, PassingFacts
    <3> QED BY <3>2, <3>4, <3>5
  <2> QED BY <2>1, <2>2
<1> HIDE DEF missing, led
<1>6. /\ lt \in Sheet /\ lt.leader = led.leader
      /\ IsInjective(lt.memberList) /\ ToSet(lt.memberList) = ToSet(led.memberList) \ {h}
      /\ IsInjective(lt.inviteList) /\ ToSet(lt.inviteList) = ToSet(led.inviteList) \ {h}
  <2> DEFINE a == RemoveFirst(led.memberList, h)
             b == RemoveFirst(led.inviteList, h)
  <2>1. a \in Seq(Heroes) /\ IsInjective(a) /\ ToSet(a) = ToSet(led.memberList) \ {h}
    BY <1>5, ErasedFromList DEF Sheet, Neat
  <2>2. b \in Seq(Heroes) /\ IsInjective(b) /\ ToSet(b) = ToSet(led.inviteList) \ {h}
    BY <1>5, ErasedFromList DEF Sheet, Neat
  <2>3. lt = [led EXCEPT !.memberList = a, !.inviteList = b]
    OBVIOUS
  <2> HIDE DEF a, b, lt
  <2>4. lt \in Sheet /\ lt.leader = led.leader /\ lt.memberList = a /\ lt.inviteList = b
    BY <1>5, <2>1, <2>2, <2>3 DEF Sheet
  <2> QED BY <2>1, <2>2, <2>4
<1> HIDE DEF lt
<1>7. /\ left \in Sheet /\ left.leader = lt.leader
      /\ left.memberList = lt.memberList /\ left.inviteList = lt.inviteList
      /\ left.sharedExpActive /\ left.sharedExpEnabled => ToSet(left.memberList) # {}
  BY <1>6, SharingFacts
<1>8. Leave(w, p, h, able) = IF missing \/ CanDisband(left)
                             THEN Disband([w EXCEPT !.parties[p] = left, !.party[h] = NoParty], p)
                             ELSE [w EXCEPT !.parties[p] = left, !.party[h] = NoParty]
  <2>1. ~(~ isPlayerMember(pt, h) /\ h # pt.leader)
    BY <1>1, <1>2, SheetFacts
  <2> QED BY <2>1 DEF Leave, pt, missing, led, lt, left
<1> HIDE DEF left
<1>9. ToSet(left.inviteList) = ToSet(pt.inviteList)
  BY <1>3, <1>5, <1>6, <1>7
<1>10. CASE missing
  <2>1. pt.leader = h
    BY <1>10 DEF missing
  <2>2. led = pt
    BY <1>5, <1>10
  <2>3. h \notin ToSet(pt.memberList)
    BY <1>1, <2>1 DEF Neat
  <2>4. ToSet(left.memberList) = ToSet(pt.memberList)
    BY <1>6, <1>7, <2>2, <2>3
  <2> QED BY <1>4, <1>6, <1>7, <1>8, <1>9, <1>10, <2>1, <2>2, <2>4 DEF pt, LeavesIt, Leaves
<1>11. CASE ~ missing
  <2>1. left.leader \notin ToSet(left.memberList)
    BY <1>5, <1>6, <1>7 DEF Neat
  <2>2. \A g : g = left.leader \/ g \in ToSet(left.memberList) <=> g # h /\ (g = pt.leader \/ g \in ToSet(pt.memberList))
    <3>1. CASE h = pt.leader
      <4>1. h \notin ToSet(pt.memberList)
        BY <1>1, <3>1 DEF Neat
      <4> QED BY <1>5, <1>6, <1>7, <1>11, <3>1, <4>1
    <3>2. CASE h # pt.leader
      BY <1>5, <1>6, <1>7, <3>2
    <3> QED BY <3>1, <3>2
  <2> QED BY <1>4, <1>6, <1>7, <1>8, <1>9, <1>11, <2>1, <2>2 DEF pt, LeavesIt, Leaves
<1> QED BY <1>10, <1>11

LEMMA LeaveAgrees ==
  ASSUME NEW w, NEW W, Agree(w, W), NEW p \in Parties, NEW h \in Heroes, w.party[h] = p, NEW able \in BOOLEAN
  PROVE  LET r == Leave(w, p, h, able)
         IN  Agree(r, W) /\ r.party[h] = NoParty /\ r.invites[h] \subseteq w.invites[h]
<1> DEFINE pt == w.parties[p]
           r == Leave(w, p, h, able)
<1>1. /\ w \in States /\ pt \in Sheet /\ Neat(pt) /\ Tied(pt, w.party, w.invites, p) /\ Peopled(pt, W)
  BY DEF Agree, States
<1>a. PICK left \in Sheet, missing \in BOOLEAN :
        /\ LeavesIt(w.parties[p], h, left, missing)
        /\ r = IF missing \/ CanDisband(left)
               THEN Disband([w EXCEPT !.parties[p] = left, !.party[h] = NoParty], p)
               ELSE [w EXCEPT !.parties[p] = left, !.party[h] = NoParty]
  <2>1. Leaves(w, p, h, r)
    BY LeaveIs
  <2> HIDE DEF r
  <2> QED BY <2>1 DEF Leaves
<1>2. LeavesIt(pt, h, left, missing)
  BY <1>a
<1> DEFINE v == [w EXCEPT !.parties[p] = left, !.party[h] = NoParty]
<1>3. /\ v \in States /\ v.invites = w.invites
      /\ \A q \in Parties : v.parties[q] = IF q = p THEN left ELSE w.parties[q]
      /\ \A g \in Heroes : v.party[g] = IF g = h THEN NoParty ELSE w.party[g]
  BY <1>1 DEF States
<1>4. r = IF missing \/ CanDisband(left) THEN Disband(v, p) ELSE v
  BY <1>a
<1> USE DEF LeavesIt
<1> HIDE DEF v, r, pt
<1>5. Elsewhere(w, v, p)
  BY <1>3, PartyAssumption DEF Elsewhere
<1>6. \A g \in Heroes : p \in v.invites[g] <=> g \in ToSet(left.inviteList)
  BY <1>1, <1>2, <1>3 DEF Tied
<1>7. \A g \in Heroes : w.party[g] = p <=> g = pt.leader \/ g \in ToSet(pt.memberList)
  BY <1>1 DEF Tied
<1>8. p # NoParty
  BY PartyAssumption
<1>9. /\ \A g \in Heroes : v.party[g] = p => g = left.leader \/ g \in ToSet(left.memberList)
      /\ \A g \in Heroes : g = left.leader \/ g \in ToSet(left.memberList) => v.party[g] \in {p, NoParty}
  BY <1>2, <1>3, <1>7, <1>8
<1>10. CASE missing \/ CanDisband(left)
  <2>1. v.parties[p] = left
    BY <1>3
  <2>2. Agree(Disband(v, p), W)
    BY <1>3, <1>5, <1>6, <1>9, <2>1, DisbandAgrees
  <2> DEFINE d == Disband(v, p)
  <2>0. Disbands(v, d, p)
    BY <1>3, DisbandFacts
  <2>3. \A g \in Heroes : d.party[g] = IF g = v.parties[p].leader \/ g \in ToSet(v.parties[p].memberList)
                                     THEN NoParty ELSE v.party[g]
    BY <1>3, <2>0 DEF Disbands
  <2>4. \A g \in Heroes : d.invites[g] = IF g \in ToSet(v.parties[p].inviteList)
                                       THEN v.invites[g] \ {p} ELSE v.invites[g]
    BY <1>3, <2>0 DEF Disbands
  <2>5. r = d
    BY <1>4, <1>10
  <2> HIDE DEF d
  <2>6. d.party[h] = NoParty /\ d.invites[h] \subseteq w.invites[h]
    BY <1>3, <2>3, <2>4
  <2> QED BY <2>2, <2>5, <2>6 DEF r, d
<1>11. CASE ~ (missing \/ CanDisband(left))
  <2>1. /\ left.leader \notin ToSet(left.memberList)
        /\ \A g : g = left.leader \/ g \in ToSet(left.memberList) <=> g # h /\ (g = pt.leader \/ g \in ToSet(pt.memberList))
    BY <1>2, <1>11
  <2>2. Neat(left)
    <3>1. left.leader \notin ToSet(pt.inviteList) /\ ToSet(left.memberList) \cap ToSet(pt.inviteList) = {}
      BY <1>1, <2>1 DEF Neat
    <3> QED BY <1>2, <2>1, <3>1 DEF Neat
  <2>3. Tied(left, v.party, v.invites, p)
    <3>1. \A g \in Heroes : v.party[g] = p <=> g = left.leader \/ g \in ToSet(left.memberList)
      BY <1>3, <1>7, <1>8, <2>1
    <3> QED BY <1>6, <3>1 DEF Tied
  <2>4. Peopled(left, W)
    <3>1. pt.leader \in W /\ pt.leader # Nobody /\ ToSet(pt.memberList) \cup ToSet(pt.inviteList) \subseteq W
      <4>1. pt.leader # Nobody
        BY <1>1, <1>7, NobodyThere, PartyAssumption DEF Peopled
      <4> QED BY <1>1, <4>1 DEF Peopled
    <3>2. W \subseteq Heroes /\ Nobody \notin Heroes
      BY PartyAssumption DEF Agree
    <3>3. left.leader \in W
      BY <2>1, <3>1
    <3>4. ToSet(left.memberList) \cup ToSet(left.inviteList) \subseteq W
      BY <1>2, <2>1, <3>1
    <3> QED BY <1>11, <3>2, <3>3, <3>4 DEF Peopled
  <2>5. v.parties[p] = left
    BY <1>3
  <2>6. Agree(v, W)
    BY <1>3, <1>5, <2>2, <2>3, <2>4, <2>5, OneChanges
  <2>7. r = v
    BY <1>4, <1>11
  <2> QED BY <1>3, <2>6, <2>7 DEF r
<1> QED BY <1>10, <1>11

-----------------------------------------------------------------------------
(* The parties: the requests.                                              *)

Then == [party |-> party', invites |-> invitePartyList', parties |-> parties']

LEMMA AgreementIs ==
  /\ Agree(Now, inWorld) => PartiesAgree
  /\ \A v \in States : Becomes(v) => Then = v
<1>1. ASSUME Agree(Now, inWorld) PROVE PartiesAgree
  <2>1. /\ party \in [Heroes -> Parties \cup {NoParty}] /\ invitePartyList \in [Heroes -> SUBSET Parties]
        /\ parties \in [Parties -> Sheet] /\ inWorld \subseteq Heroes
    BY <1>1 DEF Agree, Now, States
  <2>2. ASSUME NEW p \in Parties
        PROVE  Neat(parties[p]) /\ Tied(parties[p], party, invitePartyList, p) /\ Peopled(parties[p], inWorld)
    BY <1>1 DEF Agree, Now
  <2>3. PartyTypeOK
    BY <2>1 DEF PartyTypeOK, Sheet
  <2>4. ASSUME NEW p \in Parties
        PROVE  LET pt == parties[p]
                   members == ToSet(pt.memberList)
                   invited == ToSet(pt.inviteList)
               IN  /\ {h \in Heroes : party[h] = p} = members \cup (IF Live(p) THEN {pt.leader} ELSE {})
                   /\ {h \in Heroes : p \in invitePartyList[h]} = invited
                   /\ pt.leader \notin members \cup invited /\ members \cap invited = {}
                   /\ IsInjective(pt.memberList) /\ IsInjective(pt.inviteList)
                   /\ members \cup invited \subseteq inWorld
                   /\ Live(p) => pt.leader \in inWorld /\ ~ CanDisband(pt)
                   /\ pt.sharedExpActive /\ pt.sharedExpEnabled => members # {}
    <3> DEFINE pt == parties[p]
    <3>1. pt \in Sheet /\ Neat(pt) /\ Tied(pt, party, invitePartyList, p) /\ Peopled(pt, inWorld)
      BY <2>1, <2>2
    <3>2. ToSet(pt.memberList) \subseteq Heroes /\ ToSet(pt.inviteList) \subseteq Heroes
      BY <3>1, SheetFacts
    <3>3. pt.leader \in Heroes \cup {Nobody} /\ (Live(p) <=> pt.leader # Nobody) /\ Nobody \notin Heroes
      BY <3>1, PartyAssumption DEF Sheet, Live
    <3>4. {h \in Heroes : party[h] = p} = ToSet(pt.memberList) \cup (IF Live(p) THEN {pt.leader} ELSE {})
      BY <3>1, <3>2, <3>3 DEF Tied
    <3>5. {h \in Heroes : p \in invitePartyList[h]} = ToSet(pt.inviteList)
      BY <3>1, <3>2 DEF Tied
    <3> QED BY <3>1, <3>3, <3>4, <3>5 DEF Neat, Peopled
  <2> QED BY <2>3, <2>4 DEF PartiesAgree
<1>2. ASSUME NEW v \in States, Becomes(v) PROVE Then = v
  BY <1>2 DEF Becomes, Then, States
<1> QED BY <1>1, <1>2

LEMMA NowFacts ==
  ASSUME Agree(Now, inWorld)
  PROVE  /\ Now \in States /\ Now.party = party /\ Now.invites = invitePartyList /\ Now.parties = parties
         /\ party \in [Heroes -> Parties \cup {NoParty}] /\ invitePartyList \in [Heroes -> SUBSET Parties]
         /\ parties \in [Parties -> Sheet] /\ inWorld \subseteq Heroes
         /\ \A p \in Parties : /\ Neat(parties[p]) /\ Tied(parties[p], party, invitePartyList, p)
                               /\ Peopled(parties[p], inWorld)
BY DEF Agree, Now, States

\* Who is led has a leader, and is not the leader's guest.
LEMMA LeadsFacts ==
  ASSUME Agree(Now, inWorld), NEW h \in Heroes, Leads(h)
  PROVE  party[h] \in Parties /\ parties[party[h]].leader = h /\ h # Nobody
BY NowFacts, PartyAssumption DEF Leads

LEMMA InvitingAgrees ==
  ASSUME Agree(Now, inWorld), NEW h \in Heroes, NEW g \in Heroes, playerInviteToParty(h, g)
  PROVE  Agree(Then, inWorld)
<1> DEFINE I(v, p) == Invited(v, p, g)
<1>0. /\ h \in inWorld /\ g \in inWorld /\ h # g /\ party[g] = NoParty
  BY DEF playerInviteToParty
<1>1. ASSUME NEW p \in Parties, NEW v \in States, Elsewhere(Now, v, p), Becomes(Invited(v, p, g)),
             v.parties[p].leader = h, Neat(v.parties[p]), Tied(v.parties[p], v.party, v.invites, p),
             ToSet(v.parties[p].memberList) \cup ToSet(v.parties[p].inviteList) \subseteq inWorld,
             g \notin ToSet(v.parties[p].memberList) \cup ToSet(v.parties[p].inviteList)
      PROVE  Agree(Then, inWorld)
  <2> DEFINE pt == v.parties[p]
             l == Append(pt.inviteList, g)
             qt == [pt EXCEPT !.inviteList = l]
             u == Invited(v, p, g)
  <2>1. pt \in Sheet
    BY DEF States
  <2>2. l \in Seq(Heroes) /\ IsInjective(l) /\ ToSet(l) = ToSet(pt.inviteList) \cup {g}
    <3>1. pt.inviteList \in Seq(Heroes) /\ IsInjective(pt.inviteList) /\ g \notin ToSet(pt.inviteList)
      BY <1>1, <2>1 DEF Sheet, Neat
    <3> DEFINE k == pt.inviteList
    <3> HIDE DEF k
    <3>2. /\ Append(k, g) \in Seq(Heroes) /\ IsInjective(Append(k, g))
          /\ ToSet(Append(k, g)) = ToSet(k) \cup {g}
      <4>1. k \in Seq(Heroes) /\ IsInjective(k) /\ g \notin ToSet(k) /\ g \in Heroes
        BY <3>1 DEF k
      <4> HIDE DEF k
      <4> QED BY ONLY <4>1, AppendedToList
    <3> QED BY <3>2 DEF k
  <2>3. u = [v EXCEPT !.parties = [v.parties EXCEPT ![p] = qt],
                      !.invites = [v.invites EXCEPT ![g] = @ \cup {p}]]
    BY DEF Invited, States
  <2> HIDE DEF l, u, pt
  <2>4. /\ qt \in Sheet /\ qt.leader = pt.leader /\ qt.memberList = pt.memberList /\ qt.inviteList = l
        /\ qt.sharedExpActive = pt.sharedExpActive /\ qt.sharedExpEnabled = pt.sharedExpEnabled
    BY <2>1, <2>2 DEF Sheet
  <2> HIDE DEF qt
  <2>5. /\ u \in States /\ u.party = v.party
        /\ \A q \in Parties : u.parties[q] = IF q = p THEN qt ELSE v.parties[q]
        /\ \A x \in Heroes : u.invites[x] = IF x = g THEN v.invites[x] \cup {p} ELSE v.invites[x]
    BY <2>3, <2>4 DEF States
  <2>6. Elsewhere(Now, u, p)
    <3>1. ASSUME NEW q \in Parties, q # p
          PROVE  /\ u.parties[q] = Now.parties[q]
                 /\ \A x \in Heroes : (u.party[x] = q <=> Now.party[x] = q) /\ (q \in u.invites[x] <=> q \in Now.invites[x])
      <4>1. /\ v.parties[q] = Now.parties[q]
            /\ \A x \in Heroes : (v.party[x] = q <=> Now.party[x] = q) /\ (q \in v.invites[x] <=> q \in Now.invites[x])
        BY <1>1, <3>1 DEF Elsewhere
      <4>2. \A x \in Heroes : q \in u.invites[x] <=> q \in v.invites[x]
        BY <2>5, <3>1
      <4> QED BY <2>5, <3>1, <4>1, <4>2
    <3> QED BY <3>1 DEF Elsewhere
  <2>7. Neat(qt)
    <3>1. /\ IsInjective(pt.memberList) /\ pt.leader = h /\ pt.leader \notin ToSet(pt.memberList) \cup ToSet(pt.inviteList)
          /\ ToSet(pt.memberList) \cap ToSet(pt.inviteList) = {} /\ g \notin ToSet(pt.memberList)
          /\ pt.sharedExpActive /\ pt.sharedExpEnabled => ToSet(pt.memberList) # {}
      BY <1>1 DEF Neat, pt
    <3> QED BY <1>0, <2>2, <2>4, <3>1 DEF Neat
  <2>8. Tied(qt, u.party, u.invites, p)
    <3>1. Tied(pt, v.party, v.invites, p)
      BY <1>1 DEF pt
    <3>2. \A x \in Heroes : u.party[x] = p <=> x = qt.leader \/ x \in ToSet(qt.memberList)
      BY <2>4, <2>5, <3>1 DEF Tied
    <3>3. \A x \in Heroes : p \in u.invites[x] <=> x \in ToSet(pt.inviteList) \/ x = g
      BY <2>5, <3>1 DEF Tied
    <3>4. \A x \in Heroes : p \in u.invites[x] <=> x \in ToSet(qt.inviteList)
      BY <2>2, <2>4, <3>3
    <3> QED BY <3>2, <3>4 DEF Tied
  <2>9. Peopled(qt, inWorld)
    <3>1. h # Nobody /\ pt.leader = h /\ ToSet(pt.memberList) \cup ToSet(pt.inviteList) \subseteq inWorld
      BY <1>1, PartyAssumption DEF pt
    <3>2. ~ CanDisband(qt)
      BY <2>2, <2>4, SheetFacts
    <3> QED BY <1>0, <2>2, <2>4, <3>1, <3>2 DEF Peopled
  <2>10. Agree(u, inWorld)
    BY <2>5, <2>6, <2>7, <2>8, <2>9, OneChanges
  <2> QED BY <1>1, <2>5, <2>10, AgreementIs DEF u
<1>2. CASE Leads(h) /\ ~ isInviting(h, g) /\ Becomes(Invited(Now, party[h], g))
  <2> DEFINE p == party[h]
  <2>1. p \in Parties /\ parties[p].leader = h
    BY <1>2, LeadsFacts
  <2>2. g \notin ToSet(parties[p].inviteList)
    BY <1>2, <2>1, NowFacts, SheetFacts DEF isInviting
  <2>3. g \notin ToSet(parties[p].memberList)
    BY <1>0, <2>1, NowFacts, PartyAssumption DEF Tied
  <2>4. ToSet(parties[p].memberList) \cup ToSet(parties[p].inviteList) \subseteq inWorld
    BY <2>1, NowFacts DEF Peopled
  <2>5. Elsewhere(Now, Now, p)
    BY DEF Elsewhere
  <2> HIDE DEF p
  <2> QED BY <1>1, <1>2, <2>1, <2>2, <2>3, <2>4, <2>5, NowFacts DEF p
<1>3. ASSUME NEW p \in Parties, parties[p] = Deleted, party[h] = NoParty,
             Becomes(Invited([Now EXCEPT !.party[h] = p, !.parties[p].leader = h], p, g))
      PROVE  Agree(Then, inWorld)
  <2> DEFINE v == [Now EXCEPT !.party[h] = p, !.parties[p].leader = h]
             qt == [Deleted EXCEPT !.leader = h]
  <2>1. /\ qt \in Sheet /\ qt.leader = h /\ ToSet(qt.memberList) = {} /\ ToSet(qt.inviteList) = {}
        /\ ~ qt.sharedExpActive /\ IsInjective(qt.memberList) /\ IsInjective(qt.inviteList)
    <3>1. qt.memberList = Deleted.memberList /\ qt.inviteList = Deleted.inviteList
      BY NobodyThere DEF Sheet
    <3>2. qt \in Sheet /\ qt.leader = h /\ ~ qt.sharedExpActive
      <4>1. Deleted \in Sheet /\ ~ Deleted.sharedExpActive
        BY NobodyThere DEF Deleted
      <4> QED BY <4>1 DEF Sheet
    <3> QED BY <3>1, <3>2, NobodyThere DEF Neat
  <2>2. /\ v.party = [party EXCEPT ![h] = p] /\ v.invites = invitePartyList
        /\ v.parties = [parties EXCEPT ![p] = qt] /\ v = [party |-> v.party, invites |-> v.invites, parties |-> v.parties]
    <3>1. Now \in States /\ Now.party = party /\ Now.invites = invitePartyList /\ Now.parties = parties
      BY NowFacts
    <3>2. v = [Now EXCEPT !.party = [party EXCEPT ![h] = p], !.parties = [parties EXCEPT ![p] = qt]]
      BY <1>3, <3>1 DEF States
    <3> HIDE DEF v, qt
    <3> QED BY <3>1, <3>2 DEF States
  <2> HIDE DEF v, qt
  <2>3. /\ v \in States /\ v.parties[p] = qt
        /\ \A q \in Parties : q # p => v.parties[q] = parties[q]
        /\ \A x \in Heroes : v.party[x] = IF x = h THEN p ELSE party[x]
    BY <2>1, <2>2, NowFacts DEF States
  <2>4. Elsewhere(Now, v, p)
    BY <1>3, <2>2, <2>3, NowFacts, PartyAssumption DEF Elsewhere
  <2>5. Neat(qt)
    BY <2>1 DEF Neat
  <2>6. Tied(qt, v.party, v.invites, p)
    <3>1. Tied(Deleted, party, invitePartyList, p)
      BY <1>3, NowFacts
    <3>2. \A x \in Heroes : party[x] # p /\ p \notin invitePartyList[x]
      BY <3>1, NobodyThere, PartyAssumption DEF Tied
    <3> QED BY <2>1, <2>2, <2>3, <3>2 DEF Tied
  <2>7. Becomes(Invited(v, p, g))
    BY <1>3 DEF v
  <2> QED BY <1>1, <2>1, <2>3, <2>4, <2>5, <2>6, <2>7
<1> QED BY <1>2, <1>3 DEF playerInviteToParty

\* The party of p is led by another, or shares what it gets otherwise.
LEMMA SheetChanges ==
  ASSUME Agree(Now, inWorld), NEW p \in Parties, NEW qt \in Sheet, Neat(qt), ~ CanDisband(qt), qt.leader # Nobody,
         parties' = [parties EXCEPT ![p] = qt], party' = party, invitePartyList' = invitePartyList,
         parties[p].leader # Nobody,
         \A g : g = qt.leader \/ g \in ToSet(qt.memberList)
                <=> g = parties[p].leader \/ g \in ToSet(parties[p].memberList),
         ToSet(qt.inviteList) = ToSet(parties[p].inviteList)
  PROVE  Agree(Then, inWorld)
<1> DEFINE pt == parties[p]
<1>1. /\ Now.party = party /\ Now.invites = invitePartyList /\ Now.parties = parties
      /\ party \in [Heroes -> Parties \cup {NoParty}] /\ invitePartyList \in [Heroes -> SUBSET Parties]
      /\ parties \in [Parties -> Sheet]
      /\ Tied(pt, party, invitePartyList, p) /\ Peopled(pt, inWorld)
  BY NowFacts
<1>2. /\ Then.party = party /\ Then.invites = invitePartyList
      /\ \A q \in Parties : Then.parties[q] = IF q = p THEN qt ELSE parties[q]
      /\ Then \in States
  BY <1>1 DEF Then, States
<1>3. Elsewhere(Now, Then, p)
  BY <1>1, <1>2 DEF Elsewhere
<1>4. Tied(qt, party, invitePartyList, p)
  BY <1>1 DEF Tied
<1>5. Peopled(qt, inWorld)
  BY <1>1 DEF Peopled
<1> QED BY <1>2, <1>3, <1>4, <1>5, OneChanges

LEMMA SharingAgrees ==
  ASSUME Agree(Now, inWorld), NEW h \in Heroes, NEW able \in BOOLEAN
  PROVE  /\ playerSharePartyExperience(h, able) => Agree(Then, inWorld)
         /\ MemberActs(h, able) => Agree(Then, inWorld)
         /\ \A g \in Heroes : playerPassPartyLeadership(h, g, able) => Agree(Then, inWorld)
<1>1. ASSUME NEW p \in Parties, NEW g \in Heroes, party[g] = p
      PROVE  /\ parties[p] \in Sheet /\ Neat(parties[p]) /\ parties[p].leader # Nobody /\ parties[p].leader \in Heroes
             /\ ~ CanDisband(parties[p])
  <2>1. /\ parties[p] \in Sheet /\ Neat(parties[p]) /\ Tied(parties[p], party, invitePartyList, p)
        /\ Peopled(parties[p], inWorld)
    BY NowFacts
  <2>2. g = parties[p].leader \/ g \in ToSet(parties[p].memberList)
    BY <1>1, <2>1 DEF Tied
  <2>3. parties[p].leader # Nobody
    BY <2>1, <2>2, NobodyThere, PartyAssumption DEF Peopled
  <2> QED BY <2>1, <2>3 DEF Peopled, Sheet
<1>2. ASSUME NEW p \in Parties, party[h] = p, NEW on \in BOOLEAN,
             NEW pt, pt = [parties[p] EXCEPT !.sharedExpActive = on],
             parties' = [parties EXCEPT ![p] = updateSharedExperience(pt, able)],
             UNCHANGED <<inWorld, party, invitePartyList>>
      PROVE  Agree(Then, inWorld)
  <2> DEFINE qt == updateSharedExperience(pt, able)
  <2>1. /\ pt \in Sheet /\ pt.leader = parties[p].leader
        /\ pt.memberList = parties[p].memberList /\ pt.inviteList = parties[p].inviteList
    BY <1>1, <1>2 DEF Sheet
  <2>2. /\ qt \in Sheet /\ qt.leader = parties[p].leader
        /\ qt.memberList = parties[p].memberList /\ qt.inviteList = parties[p].inviteList
        /\ qt.sharedExpActive /\ qt.sharedExpEnabled => ToSet(qt.memberList) # {}
    BY <2>1, SharingFacts
  <2>3. parties' = [parties EXCEPT ![p] = qt]
    BY <1>2
  <2> HIDE DEF qt
  <2>4. Neat(qt)
    BY <1>1, <1>2, <2>2 DEF Neat
  <2>5. ~ CanDisband(qt)
    BY <1>1, <1>2, <2>2 DEF CanDisband
  <2> QED BY <1>1, <1>2, <2>2, <2>3, <2>4, <2>5, SheetChanges
<1>3. ASSUME playerSharePartyExperience(h, able) PROVE Agree(Then, inWorld)
  <2> DEFINE p == party[h]
             on == ~ parties[p].sharedExpActive
             pt == [parties[p] EXCEPT !.sharedExpActive = on]
  <2>1. p \in Parties
    BY <1>3, LeadsFacts DEF playerSharePartyExperience
  <2>2. /\ parties' = [parties EXCEPT ![p] = updateSharedExperience(pt, able)]
        /\ UNCHANGED <<inWorld, party, invitePartyList>> /\ on \in BOOLEAN
    BY <1>3 DEF playerSharePartyExperience
  <2>3. pt = [parties[p] EXCEPT !.sharedExpActive = on]
    OBVIOUS
  <2> HIDE DEF p, on, pt
  <2> QED BY <1>2, <2>1, <2>2, <2>3 DEF p
<1>4. ASSUME MemberActs(h, able) PROVE Agree(Then, inWorld)
  <2> DEFINE p == party[h]
             on == parties[p].sharedExpActive
             pt == [parties[p] EXCEPT !.sharedExpActive = on]
  <2>1. p \in Parties
    BY <1>4, NowFacts DEF MemberActs
  <2>2. on \in BOOLEAN /\ pt = parties[p]
    BY <2>1, NowFacts DEF Sheet
  <2>3. pt = [parties[p] EXCEPT !.sharedExpActive = on]
    OBVIOUS
  <2> HIDE DEF on, pt
  <2>4. /\ parties' = [parties EXCEPT ![p] = updateSharedExperience(pt, able)]
        /\ UNCHANGED <<inWorld, party, invitePartyList>>
    BY <1>4, <2>1, <2>2, NowFacts DEF MemberActs
  <2> HIDE DEF p
  <2> QED BY <1>2, <2>1, <2>2, <2>3, <2>4 DEF p
<1>5. ASSUME NEW g \in Heroes, playerPassPartyLeadership(h, g, able) PROVE Agree(Then, inWorld)
  <2> DEFINE p == party[h]
             pt == parties[p]
             qt == PassLeadership(pt, g, able)
  <2>1. p \in Parties /\ pt.leader = h
    BY <1>5, LeadsFacts DEF playerPassPartyLeadership
  <2>2. /\ pt \in Sheet /\ Neat(pt) /\ pt.leader # Nobody /\ pt.leader \in Heroes
    BY <1>1, <2>1
  <2>3. g \in ToSet(pt.memberList)
    BY <1>5, <2>1, <2>2, SheetFacts DEF playerPassPartyLeadership
  <2> HIDE DEF pt
  <2>4. /\ qt \in Sheet /\ Neat(qt) /\ qt.leader = g /\ qt.inviteList = pt.inviteList
        /\ ToSet(qt.memberList) = (ToSet(pt.memberList) \ {g}) \cup {pt.leader}
    BY <2>2, <2>3, PassingFacts
  <2>5. Becomes([Now EXCEPT !.parties[p] = qt])
    BY <1>5, <2>1, NowFacts DEF playerPassPartyLeadership, pt
  <2> HIDE DEF qt
  <2>6. parties' = [parties EXCEPT ![p] = qt] /\ party' = party /\ invitePartyList' = invitePartyList
    BY <2>5 DEF Becomes, Now
  <2>7. ~ CanDisband(qt)
    BY <2>4, SheetFacts
  <2>8. g # Nobody
    BY PartyAssumption
  <2>9. \A x : x = qt.leader \/ x \in ToSet(qt.memberList) <=> x = pt.leader \/ x \in ToSet(pt.memberList)
    BY <2>3, <2>4
  <2> HIDE DEF p
  <2> QED BY <2>1, <2>2, <2>4, <2>6, <2>7, <2>8, <2>9, SheetChanges DEF pt
<1> QED BY <1>3, <1>4, <1>5

LEMMA JoiningAgrees ==
  ASSUME Agree(Now, inWorld), NEW h \in Heroes, NEW g \in Heroes, NEW able \in BOOLEAN, playerJoinParty(h, g, able)
  PROVE  Agree(Then, inWorld)
<1> DEFINE p == party[g]
           pt == parties[p]
           m == Append(pt.memberList, h)
           l == RemoveFirst(pt.inviteList, h)
           jt == [pt EXCEPT !.memberList = m, !.inviteList = l]
           qt == updateSharedExperience(jt, able)
           u == Uninvited(Now, {h}, p)
           v == [u EXCEPT !.party[h] = p, !.parties[p] = qt]
<1>1. p \in Parties /\ pt.leader = g /\ party[h] = NoParty /\ isPlayerInvited(pt, h) /\ h \in inWorld
  BY LeadsFacts DEF playerJoinParty, isInviting
<1>2. /\ pt \in Sheet /\ Neat(pt) /\ Tied(pt, party, invitePartyList, p) /\ Peopled(pt, inWorld)
  BY <1>1, NowFacts
<1>3. h \in ToSet(pt.inviteList) /\ h \notin ToSet(pt.memberList) /\ h # pt.leader
  BY <1>1, <1>2, SheetFacts DEF Neat
<1>4. Becomes(v)
  BY <1>1 DEF playerJoinParty
<1> HIDE DEF pt
<1>5. m \in Seq(Heroes) /\ IsInjective(m) /\ ToSet(m) = ToSet(pt.memberList) \cup {h}
  <2> DEFINE k == pt.memberList
  <2>1. k \in Seq(Heroes) /\ IsInjective(k) /\ h \notin ToSet(k)
    BY <1>2, <1>3 DEF Sheet, Neat
  <2> HIDE DEF k
  <2>2. Append(k, h) \in Seq(Heroes) /\ IsInjective(Append(k, h)) /\ ToSet(Append(k, h)) = ToSet(k) \cup {h}
    BY <2>1, AppendedToList
  <2> QED BY <2>2 DEF k
<1>6. l \in Seq(Heroes) /\ IsInjective(l) /\ ToSet(l) = ToSet(pt.inviteList) \ {h}
  BY <1>2, ErasedFromList DEF Sheet, Neat
<1> HIDE DEF m, l
<1>7. jt \in Sheet /\ jt.leader = pt.leader /\ jt.memberList = m /\ jt.inviteList = l
  BY <1>2, <1>5, <1>6 DEF Sheet
<1> HIDE DEF jt
<1>8. /\ qt \in Sheet /\ qt.leader = pt.leader /\ qt.memberList = m /\ qt.inviteList = l
      /\ qt.sharedExpActive /\ qt.sharedExpEnabled => ToSet(qt.memberList) # {}
  BY <1>7, SharingFacts
<1>9. /\ u \in States /\ u.party = party /\ u.parties = parties
      /\ \A x \in Heroes : u.invites[x] = IF x \in {h} THEN invitePartyList[x] \ {p} ELSE invitePartyList[x]
  <2>1. Now \in States /\ Now.party = party /\ Now.invites = invitePartyList /\ Now.parties = parties
    BY NowFacts
  <2>2. /\ u \in States /\ u.party = Now.party /\ u.parties = Now.parties
        /\ \A x \in Heroes : u.invites[x] = IF x \in {h} THEN Now.invites[x] \ {p} ELSE Now.invites[x]
    <3>1. Uninvites(Now, u, {h}, p)
      BY <1>1, <2>1, UninvitedFacts
    <3> HIDE DEF u
    <3> QED BY <3>1 DEF Uninvites
  <2> HIDE DEF u, p
  <2> QED BY <2>1, <2>2
<1> HIDE DEF qt, u, p
<1>10. /\ v \in States /\ v.invites = u.invites
       /\ \A q \in Parties : v.parties[q] = IF q = p THEN qt ELSE parties[q]
       /\ \A x \in Heroes : v.party[x] = IF x = h THEN p ELSE party[x]
  BY <1>1, <1>8, <1>9 DEF States
<1> HIDE DEF v
<1>11. Elsewhere(Now, v, p)
  <2>1. ASSUME NEW q \in Parties, q # p PROVE v.parties[q] = Now.parties[q]
    BY <1>10, <2>1, NowFacts
  <2>2. ASSUME NEW q \in Parties, q # p, NEW x \in Heroes PROVE v.party[x] = q <=> Now.party[x] = q
    <3>1. x = h => party[x] = NoParty
      BY <1>1
    <3>2. v.party[x] = q <=> party[x] = q
      BY <1>10, <2>2, <3>1, PartyAssumption
    <3> QED BY <3>2, NowFacts
  <2>3. ASSUME NEW q \in Parties, q # p, NEW x \in Heroes PROVE q \in v.invites[x] <=> q \in Now.invites[x]
    BY <1>9, <1>10, <2>3, NowFacts
  <2> QED BY <2>1, <2>2, <2>3 DEF Elsewhere
<1>12. Neat(qt)
  BY <1>2, <1>3, <1>5, <1>6, <1>8 DEF Neat
<1>13. Tied(qt, v.party, v.invites, p)
  <2>1. \A x \in Heroes : v.party[x] = p <=> x = qt.leader \/ x \in ToSet(qt.memberList)
    BY <1>2, <1>5, <1>8, <1>10 DEF Tied
  <2>2. \A x \in Heroes : p \in v.invites[x] <=> x \in ToSet(qt.inviteList)
    <3>1. \A x \in Heroes : p \in invitePartyList[x] <=> x \in ToSet(pt.inviteList)
      BY <1>2 DEF Tied
    <3>2. \A x \in Heroes : p \in v.invites[x] <=> x # h /\ p \in invitePartyList[x]
      BY <1>9, <1>10
    <3> QED BY <1>6, <1>8, <3>1, <3>2
  <2> QED BY <2>1, <2>2 DEF Tied
<1>14. Peopled(qt, inWorld)
  <2>1. pt.leader # Nobody
    BY <1>2, <1>3, NobodyThere DEF Peopled
  <2>2. ~ CanDisband(qt)
    BY <1>5, <1>8, SheetFacts
  <2> QED BY <1>1, <1>2, <1>5, <1>6, <1>8, <2>1, <2>2 DEF Peopled
<1>15. Agree(v, inWorld)
  BY <1>1, <1>10, <1>11, <1>12, <1>13, <1>14, OneChanges
<1> QED BY <1>4, <1>10, <1>15, AgreementIs

\* Who has no party and no invitation may go.
LEMMA UntiedGoes ==
  ASSUME NEW w, NEW W, Agree(w, W), NEW h \in Heroes, w.party[h] = NoParty, w.invites[h] = {}
  PROVE  Agree(w, W \ {h})
<1>1. w \in States /\ W \ {h} \subseteq Heroes
  BY DEF Agree
<1>2. ASSUME NEW p \in Parties
      PROVE  Neat(w.parties[p]) /\ Tied(w.parties[p], w.party, w.invites, p) /\ Peopled(w.parties[p], W \ {h})
  <2>1. Neat(w.parties[p]) /\ Tied(w.parties[p], w.party, w.invites, p) /\ Peopled(w.parties[p], W)
    BY DEF Agree
  <2>2. p # NoParty
    BY PartyAssumption
  <2>3. h # w.parties[p].leader /\ h \notin ToSet(w.parties[p].memberList) \cup ToSet(w.parties[p].inviteList)
    BY <2>1, <2>2 DEF Tied
  <2> QED BY <2>1, <2>3 DEF Peopled
<1> QED BY <1>1, <1>2 DEF Agree

LEMMA GoingAgrees ==
  ASSUME Agree(Now, inWorld), NEW h \in Heroes
  PROVE  /\ \A able \in BOOLEAN : playerLeaveParty(h, able) => Agree(Then, inWorld')
         /\ \A able \in BOOLEAN : Disappear(h, able) => Agree(Then, inWorld')
         /\ \A g \in Heroes : playerRevokePartyInvitation(h, g) => Agree(Then, inWorld')
         /\ Appear(h) => Agree(Then, inWorld')
<1>1. ASSUME NEW able \in BOOLEAN, playerLeaveParty(h, able) PROVE Agree(Then, inWorld')
  <2> DEFINE r == Leave(Now, party[h], h, able)
  <2>1. party[h] \in Parties /\ Now.party[h] = party[h] /\ Becomes(r) /\ inWorld' = inWorld
    BY <1>1, NowFacts DEF playerLeaveParty
  <2>2. Agree(r, inWorld)
    BY <2>1, LeaveAgrees
  <2> HIDE DEF r
  <2>3. r \in States
    BY <2>2 DEF Agree
  <2> QED BY <2>1, <2>2, <2>3, AgreementIs
<1>2. ASSUME NEW able \in BOOLEAN, Disappear(h, able) PROVE Agree(Then, inWorld')
  <2> DEFINE w == RefuseAll(Now, h)
             r == IF w.party[h] = NoParty THEN w ELSE Leave(w, w.party[h], h, able)
  <2>1. Becomes(r) /\ inWorld' = inWorld \ {h}
    BY <1>2 DEF Disappear
  <2>2. Agree(w, inWorld) /\ w.invites[h] = {}
    BY RefuseAllAgrees
  <2> HIDE DEF w
  <2>3. Agree(r, inWorld) /\ r.party[h] = NoParty /\ r.invites[h] = {}
    <3>1. CASE w.party[h] = NoParty
      BY <2>2, <3>1
    <3>2. CASE w.party[h] # NoParty
      <4> DEFINE d == Leave(w, w.party[h], h, able)
      <4>1. w.party[h] \in Parties
        BY <2>2, <3>2 DEF Agree, States
      <4>2. Agree(d, inWorld) /\ d.party[h] = NoParty /\ d.invites[h] \subseteq w.invites[h]
        BY <2>2, <4>1, LeaveAgrees
      <4>3. r = d
        BY <3>2
      <4> HIDE DEF d, r
      <4> QED BY <2>2, <4>2, <4>3
    <3> QED BY <3>1, <3>2
  <2> HIDE DEF r
  <2>4. r \in States
    BY <2>3 DEF Agree
  <2>5. Agree(r, inWorld \ {h})
    BY <2>3, UntiedGoes
  <2> QED BY <2>1, <2>4, <2>5, AgreementIs
<1>3. ASSUME NEW g \in Heroes, playerRevokePartyInvitation(h, g) PROVE Agree(Then, inWorld')
  <2> DEFINE r == RemoveInvite(Now, party[h], g)
  <2>1. party[h] \in Parties /\ Becomes(r) /\ inWorld' = inWorld
    BY <1>3, LeadsFacts DEF playerRevokePartyInvitation, isInviting
  <2>2. Agree(r, inWorld)
    BY <2>1, RemoveInviteAgrees
  <2> HIDE DEF r
  <2>3. r \in States
    BY <2>2 DEF Agree
  <2> QED BY <2>1, <2>2, <2>3, AgreementIs
<1>4. ASSUME Appear(h) PROVE Agree(Then, inWorld')
  <2>1. \A p \in Parties : party[h] # p /\ p \notin invitePartyList[h]
    <3> TAKE p \in Parties
    <3>1. Tied(parties[p], party, invitePartyList, p) /\ Peopled(parties[p], inWorld)
      BY NowFacts
    <3>2. h # parties[p].leader
      BY <1>4, <3>1, PartyAssumption DEF Peopled, Appear
    <3>3. h \notin ToSet(parties[p].memberList) \cup ToSet(parties[p].inviteList)
      BY <1>4, <3>1 DEF Peopled, Appear
    <3> QED BY <3>1, <3>2, <3>3 DEF Tied
  <2>2. party[h] = NoParty /\ invitePartyList[h] = {}
    BY <2>1, NowFacts
  <2>3. party' = party /\ invitePartyList' = invitePartyList /\ parties' = parties /\ inWorld' = inWorld \cup {h}
    BY <1>4, <2>2, NowFacts DEF Appear
  <2>4. Then = Now
    BY <2>3 DEF Then, Now
  <2>5. \A p \in Parties : Peopled(parties[p], inWorld) => Peopled(parties[p], inWorld \cup {h})
    BY DEF Peopled
  <2>6. Agree(Now, inWorld \cup {h})
    BY <2>5, NowFacts DEF Agree
  <2> QED BY <2>3, <2>4, <2>6
<1> QED BY <1>1, <1>2, <1>3, <1>4

LEMMA AgreementBegins == PartyInit => Agree(Now, inWorld)
<1> SUFFICES ASSUME PartyInit PROVE Agree(Now, inWorld)
  OBVIOUS
<1>1. /\ Now.party = [h \in Heroes |-> NoParty] /\ Now.invites = [h \in Heroes |-> {}]
      /\ Now.parties = [p \in Parties |-> Deleted] /\ inWorld = Heroes /\ Now \in States
  BY NobodyThere DEF PartyInit, Now, States
<1>2. \A p \in Parties : Neat(Deleted) /\ Tied(Deleted, Now.party, Now.invites, p) /\ Peopled(Deleted, inWorld)
  BY <1>1, NobodyThere, PartyAssumption DEF Tied, Peopled
<1> QED BY <1>1, <1>2 DEF Agree

LEMMA AgreementStep == Agree(Now, inWorld) /\ [PartyNext]_partyVars => Agree(Now, inWorld)'
<1> SUFFICES ASSUME Agree(Now, inWorld), [PartyNext]_partyVars PROVE Agree(Then, inWorld')
  BY DEF Agree, Now, Then
<1>1. CASE UNCHANGED partyVars
  <2>1. Then = Now /\ inWorld' = inWorld
    BY <1>1 DEF Then, Now, partyVars
  <2> QED BY <2>1
<1>2. CASE PartyNext
  <2>1. PICK h \in Heroes :
          \/ Appear(h)
          \/ \E g \in Heroes : playerInviteToParty(h, g) \/ playerRevokePartyInvitation(h, g)
          \/ \E able \in BOOLEAN :
               \/ playerLeaveParty(h, able) \/ Disappear(h, able)
               \/ playerSharePartyExperience(h, able) \/ MemberActs(h, able)
               \/ \E g \in Heroes : playerJoinParty(h, g, able) \/ playerPassPartyLeadership(h, g, able)
    BY <1>2 DEF PartyNext
  <2>2. CASE \/ Appear(h)
             \/ \E g \in Heroes : playerRevokePartyInvitation(h, g)
             \/ \E able \in BOOLEAN : playerLeaveParty(h, able) \/ Disappear(h, able)
    BY <2>2, GoingAgrees
  <2>3. CASE \E g \in Heroes : playerInviteToParty(h, g)
    <3>1. inWorld' = inWorld
      BY <2>3 DEF playerInviteToParty
    <3> QED BY <2>3, <3>1, InvitingAgrees
  <2>4. CASE \E able \in BOOLEAN, g \in Heroes : playerJoinParty(h, g, able)
    <3>1. inWorld' = inWorld
      BY <2>4 DEF playerJoinParty
    <3> QED BY <2>4, <3>1, JoiningAgrees
  <2>5. CASE \E able \in BOOLEAN : \/ playerSharePartyExperience(h, able) \/ MemberActs(h, able)
                                   \/ \E g \in Heroes : playerPassPartyLeadership(h, g, able)
    <3>1. inWorld' = inWorld
      BY <2>5 DEF playerSharePartyExperience, MemberActs, playerPassPartyLeadership
    <3> QED BY <2>5, <3>1, SharingAgrees
  <2> QED BY <2>1, <2>2, <2>3, <2>4, <2>5
<1> QED BY <1>1, <1>2

\* Whatever the order in which they invite, join, pass on, leave and log out: the lists of a
\* party and the pointers of its players agree, and none reaches what is deleted or gone.
THEOREM PartiesStayAgreed == PartySpec => []PartiesAgree
<1>1. Agree(Now, inWorld) => PartiesAgree
  BY AgreementIs
<1> QED BY <1>1, AgreementBegins, AgreementStep, PTL DEF PartySpec

-----------------------------------------------------------------------------
(* The walk: what the calls pass on.                                       *)

WayTasks == {AutoWalk(p) : p \in Seq(Steps)} \cup {GoToFollow}
WalkTasks == EventTasks \cup WayTasks
WalkFields ==
  [kind : WalkerKinds, listWalkDir : Seq(Steps), cancelNextWalk : BOOLEAN,
   eventWalk : WalkIds \cup {0}, fast : BOOLEAN, isIdle : BOOLEAN, resting : BOOLEAN,
   following : BOOLEAN, hasFollowPath : BOOLEAN, away : 0..MaxAway, walkTask : Requested, walkTaskEvent : WalkIds \cup {0},
   actionTaskEvent : WalkIds \cup {0}, exhausted : BOOLEAN]
Walkers == [c : WalkFields, timers : SUBSET [id : WalkIds, task : EventTasks], tasks : Seq(WalkTasks)]

Carries(k, r) == k \in {Act(r, TRUE), Act(r, FALSE)}

\* Events are told apart by their ids, and who remembers one knows what it is for.
IdsTell(s) ==
  /\ IsFiniteSet(s.timers)
  /\ \A t, u \in s.timers : t.id = u.id => t = u
  /\ \A t \in s.timers : /\ t.id = s.c.eventWalk => t.task = Step
                         /\ t.id \in {s.c.walkTaskEvent, s.c.actionTaskEvent} => t.task # Step

\* A request is with one event, or with one task, or waits for the walk.
OnePlace(s, r) ==
  /\ \A t, u \in s.timers : Carries(t.task, r) /\ Carries(u.task, r) => t = u
  /\ \A i, k \in DOMAIN s.tasks : Carries(s.tasks[i], r) /\ Carries(s.tasks[k], r) => i = k
  /\ \A t \in s.timers, i \in DOMAIN s.tasks : ~ (Carries(t.task, r) /\ Carries(s.tasks[i], r))
  /\ s.c.walkTask = r => /\ \A t \in s.timers : ~ Carries(t.task, r)
                         /\ \A i \in DOMAIN s.tasks : ~ Carries(s.tasks[i], r)
NoPlace(s, r) ==
  /\ \A t \in s.timers : ~ Carries(t.task, r)
  /\ \A i \in DOMAIN s.tasks : ~ Carries(s.tasks[i], r)
  /\ s.c.walkTask # r

Kept(s) == s \in Walkers /\ IdsTell(s) /\ \A r \in Requests : OnePlace(s, r)
Stepping(s) ==
  s.c.eventWalk # 0 => (\E t \in s.timers : t.task = Step) \/ \E i \in DOMAIN s.tasks : s.tasks[i] = Step

\* What has no place gets none, but for the requests of Q.
PassesOn(s, v, Q) == Kept(v) /\ \A r \in Requests \ Q : NoPlace(s, r) => NoPlace(v, r)

\* Some is dropped: the step that was to come is, only where eventWalk says so.
Drops(s, v) ==
  /\ v \in Walkers /\ v.timers \subseteq s.timers /\ v.tasks = s.tasks
  /\ v.c.walkTask \in {s.c.walkTask, NoRequest}
  /\ v.c.eventWalk \in {s.c.eventWalk, 0}
  /\ v.c.walkTaskEvent \in {s.c.walkTaskEvent, 0}
  /\ v.c.actionTaskEvent \in {s.c.actionTaskEvent, 0}
  /\ v.c.eventWalk = 0 \/ \A t \in s.timers \ v.timers : t.task # Step

\* A walk is there for the request that waits for one; only players have any, and they are
\* never idle.
Fit(s) ==
  /\ s.c.fast
  /\ s.c.kind = "player" => ~ s.c.isIdle
  /\ s.c.kind # "player" => s.c.walkTask = NoRequest
Attends(s) ==
  /\ Fit(s)
  /\ s.c.walkTask # NoRequest => \/ s.c.eventWalk # 0
                                 \/ \E i \in DOMAIN s.tasks : s.tasks[i].what = "autowalk"
Rouses(s, v) == Fit(s) => Attends(v) /\ v.c.kind = s.c.kind
Minds(s, v) == Fit(s) => Fit(v) /\ v.c.kind = s.c.kind /\ (Attends(s) => Attends(v))

\* All that the calls of a walk keep.
Continues(s, v) == PassesOn(s, v, {}) /\ Minds(s, v) /\ (Stepping(s) => Stepping(v))
Alike(f, g) ==
  /\ f.kind = g.kind /\ f.fast = g.fast /\ f.isIdle = g.isIdle
  /\ f.walkTask = g.walkTask /\ f.eventWalk = g.eventWalk
  /\ f.walkTaskEvent = g.walkTaskEvent /\ f.actionTaskEvent = g.actionTaskEvent

OtherTasks == {Step} \cup WayTasks

LEMMA TasksDiffer ==
  /\ \A r \in Requests : /\ Act(r, TRUE) \notin OtherTasks /\ Act(r, FALSE) \notin OtherTasks
                         /\ Carries(Act(r, TRUE), r) /\ Carries(Act(r, FALSE), r)
  /\ \A r, q \in Requests : (Carries(Act(r, TRUE), q) \/ Carries(Act(r, FALSE), q)) => q = r
  /\ \A r \in Requests, k \in OtherTasks : ~ Carries(k, r)
  /\ Step \in OtherTasks
<1>1. \A k \in OtherTasks : k.what # "act"
  <2>1. GoToFollow.what = "follow" /\ \A p : AutoWalk(p).what = "autowalk"
    BY DEF AutoWalk, GoToFollow
  <2>2. \A k \in OtherTasks : k = Step \/ k = GoToFollow \/ \E p : k = AutoWalk(p)
    BY DEF OtherTasks, WayTasks
  <2>3. Step.what = "step"
    BY DEF Step
  <2> QED BY <2>1, <2>2, <2>3
<1>2. \A r : /\ Act(r, TRUE).what = "act" /\ Act(r, TRUE).request = r
            /\ Act(r, FALSE).what = "act" /\ Act(r, FALSE).request = r
  BY DEF Act
<1>3. \A r \in Requests : Act(r, TRUE) \notin OtherTasks /\ Act(r, FALSE) \notin OtherTasks
  BY <1>1, <1>2
<1>4. \A r \in Requests : Carries(Act(r, TRUE), r) /\ Carries(Act(r, FALSE), r)
  BY DEF Carries
<1>5. ASSUME NEW r \in Requests, NEW q \in Requests, Carries(Act(r, TRUE), q) \/ Carries(Act(r, FALSE), q) PROVE q = r
  <2> HIDE DEF Carries
  <2>1. \A k : Carries(k, q) => k = Act(q, TRUE) \/ k = Act(q, FALSE)
    BY DEF Carries
  <2>2. \A k : Carries(k, q) => k.request = q
    BY <1>2, <2>1
  <2>3. Act(r, TRUE).request = r /\ Act(r, FALSE).request = r
    BY <1>2
  <2>4. CASE Carries(Act(r, TRUE), q)
    BY <2>2, <2>3, <2>4
  <2>5. CASE Carries(Act(r, FALSE), q)
    BY <2>2, <2>3, <2>5
  <2> QED BY <1>5, <2>4, <2>5
<1>6. \A r \in Requests, k \in OtherTasks : ~ Carries(k, r)
  BY <1>3 DEF Carries
<1>7. Step \in OtherTasks
  BY DEF OtherTasks
<1> QED BY <1>3, <1>4, <1>5, <1>6, <1>7

LEMMA NothingDropped ==
  ASSUME NEW s, Kept(s), NEW v \in Walkers, v.timers = s.timers, v.tasks = s.tasks,
         v.c.walkTask = s.c.walkTask, v.c.eventWalk = s.c.eventWalk,
         v.c.walkTaskEvent = s.c.walkTaskEvent, v.c.actionTaskEvent = s.c.actionTaskEvent
  PROVE  Drops(s, v)
BY DEF Drops

LEMMA DropsOn ==
  ASSUME NEW s, NEW u, NEW v, Drops(s, u), Drops(u, v)
  PROVE  Drops(s, v)
BY DEF Drops

LEMMA DropsPassOn ==
  ASSUME NEW s, NEW v, Kept(s), Drops(s, v)
  PROVE  PassesOn(s, v, {}) /\ (Stepping(s) => Stepping(v))
<1>1. \A t \in v.timers : t \in s.timers /\ t.id # 0
  BY WalkAssumption DEF Drops, Walkers
<1>2. IdsTell(v)
  <2>1. IsFiniteSet(v.timers)
    BY FS_Subset DEF Kept, IdsTell, Drops
  <2> QED BY <1>1, <2>1 DEF Kept, IdsTell, Drops
<1>3. ASSUME NEW r \in Requests PROVE OnePlace(v, r) /\ (NoPlace(s, r) => NoPlace(v, r))
  BY <1>1, WalkAssumption DEF Kept, Drops, OnePlace, NoPlace
<1>4. ASSUME Stepping(s) PROVE Stepping(v)
  BY <1>4 DEF Stepping, Drops
<1> QED BY <1>2, <1>3, <1>4 DEF PassesOn, Kept, Drops

LEMMA PassingGoesOn ==
  ASSUME NEW s, NEW u, NEW v, NEW Q, PassesOn(s, u, Q), PassesOn(u, v, Q)
  PROVE  PassesOn(s, v, Q)
BY DEF PassesOn

LEMMA ContinuesOn ==
  ASSUME NEW s, NEW u, NEW v, Continues(s, u), Continues(u, v)
  PROVE  Continues(s, v)
BY PassingGoesOn DEF Continues, Minds

LEMMA StandingContinues == ASSUME NEW s, Kept(s) PROVE Continues(s, s)
BY DEF Continues, Minds, PassesOn

\* A walk that is made sure of, or none that is waited for.
LEMMA RousedMinds ==
  ASSUME NEW s, NEW v, v.c.kind = s.c.kind, v.c.fast = s.c.fast, v.c.isIdle = s.c.isIdle,
         v.c.walkTask \in {s.c.walkTask, NoRequest}
  PROVE  /\ v.c.eventWalk # 0 \/ v.c.walkTask = NoRequest => Rouses(s, v)
         /\ v.tasks = s.tasks /\ v.c.eventWalk = s.c.eventWalk => Minds(s, v)
         /\ Rouses(s, v) => Minds(s, v)
BY DEF Rouses, Minds, Attends, Fit

-----------------------------------------------------------------------------
(* New events.                                                             *)

LEMMA NewIdIsNew ==
  ASSUME ~ IsFiniteSet(WalkIds), NEW s, Kept(s)
  PROVE  NewId(s) \in WalkIds \ Known(s)
<1> DEFINE ids == {t.id : t \in s.timers}
           f == [t \in s.timers |-> t.id]
<1>1. IsFiniteSet(s.timers)
  BY DEF Kept, IdsTell
<1>2. f \in Surjection(s.timers, ids)
  BY DEF Surjection
<1>3. IsFiniteSet(ids)
  <2> HIDE DEF f, ids
  <2> QED BY <1>1, <1>2, FS_Surjection
<1>4. IsFiniteSet({s.c.eventWalk, s.c.walkTaskEvent, s.c.actionTaskEvent})
  <2>1. IsFiniteSet({s.c.eventWalk}) /\ IsFiniteSet({s.c.walkTaskEvent}) /\ IsFiniteSet({s.c.actionTaskEvent})
    BY FS_Singleton
  <2>2. IsFiniteSet({s.c.eventWalk} \cup {s.c.walkTaskEvent})
    BY <2>1, FS_Union
  <2>3. IsFiniteSet(({s.c.eventWalk} \cup {s.c.walkTaskEvent}) \cup {s.c.actionTaskEvent})
    BY <2>1, <2>2, FS_Union
  <2>4. ({s.c.eventWalk} \cup {s.c.walkTaskEvent}) \cup {s.c.actionTaskEvent}
          = {s.c.eventWalk, s.c.walkTaskEvent, s.c.actionTaskEvent}
    OBVIOUS
  <2> QED BY <2>3, <2>4
<1>5. IsFiniteSet(Known(s))
  BY <1>3, <1>4, FS_Union DEF Known
<1>6. WalkIds \ Known(s) # {}
  <2>1. SUFFICES ASSUME WalkIds \ Known(s) = {} PROVE FALSE
    OBVIOUS
  <2>2. WalkIds \subseteq Known(s)
    BY <2>1
  <2> QED BY <1>5, <2>2, FS_Subset
<1>7. WalkIds \ Known(s) \in SUBSET Nat
  BY WalkAssumption
<1> QED BY <1>6, <1>7, SmallestIsOne DEF NewId

LEMMA StepAdded ==
  ASSUME ~ IsFiniteSet(WalkIds), NEW s, Kept(s)
  PROVE  PassesOn(s, AnotherStep(s), {}) /\ Stepping(AnotherStep(s)) /\ Rouses(s, AnotherStep(s))
<1> DEFINE i == NewId(s)
           e == [id |-> i, task |-> Step]
           v == AnotherStep(s)
<1>1. i \in WalkIds /\ i \notin Known(s) /\ i # 0
  BY NewIdIsNew, WalkAssumption
<1>2. s \in Walkers
  BY DEF Kept
<1> HIDE DEF i
<1>3. /\ v \in Walkers /\ v.timers = s.timers \cup {e} /\ v.tasks = s.tasks
      /\ v.c.walkTask = s.c.walkTask /\ v.c.eventWalk = i
      /\ v.c.walkTaskEvent = s.c.walkTaskEvent /\ v.c.actionTaskEvent = s.c.actionTaskEvent
      /\ v.c.kind = s.c.kind /\ v.c.fast = s.c.fast /\ v.c.isIdle = s.c.isIdle
  <2>1. v = [s EXCEPT !.timers = @ \cup {e}, !.c = [@ EXCEPT !.eventWalk = i]]
    BY <1>2 DEF AnotherStep, addEvent, Walkers, i
  <2>2. e \in [id : WalkIds, task : EventTasks]
    BY <1>1 DEF EventTasks
  <2>3. [s.c EXCEPT !.eventWalk = i] \in WalkFields
    BY <1>1, <1>2 DEF Walkers, WalkFields
  <2> HIDE DEF v, e
  <2> QED BY <1>2, <2>1, <2>2, <2>3 DEF Walkers, WalkFields
<1>4. \A t \in s.timers : t.id # i
  BY <1>1 DEF Known
<1>5. i \notin {s.c.eventWalk, s.c.walkTaskEvent, s.c.actionTaskEvent}
  BY <1>1 DEF Known
<1>6. e.id = i /\ e.task = Step /\ \A r \in Requests : ~ Carries(e.task, r)
  BY TasksDiffer
<1> HIDE DEF e, v
<1>7. IdsTell(v)
  <2>1. IsFiniteSet(v.timers)
    BY <1>3, FS_AddElement DEF Kept, IdsTell
  <2>2. \A t \in s.timers : t.id # i /\ (t.id \in {s.c.walkTaskEvent, s.c.actionTaskEvent} => t.task # Step)
    BY <1>4 DEF Kept, IdsTell
  <2>3. \A t, u \in v.timers : t.id = u.id => t = u
    BY <1>3, <1>4, <1>6 DEF Kept, IdsTell
  <2> QED BY <1>3, <1>5, <1>6, <2>1, <2>2, <2>3 DEF IdsTell
<1>8. ASSUME NEW r \in Requests PROVE OnePlace(v, r) /\ (NoPlace(s, r) => NoPlace(v, r))
  BY <1>3, <1>6 DEF Kept, OnePlace, NoPlace
<1>9. Stepping(v) /\ Rouses(s, v)
  BY <1>1, <1>3, <1>6, RousedMinds DEF Stepping
<1> QED BY <1>3, <1>7, <1>8, <1>9 DEF PassesOn, Kept, v

LEMMA ActAdded ==
  ASSUME ~ IsFiniteSet(WalkIds), NEW s, Kept(s), NEW r \in Requests, NEW b \in BOOLEAN, NoPlace(s, r),
         NEW v \in Walkers, v.tasks = s.tasks,
         v.timers = s.timers \cup {[id |-> NewId(s), task |-> Act(r, b)]},
         v.c.eventWalk = s.c.eventWalk, v.c.walkTask \in {s.c.walkTask, NoRequest},
         v.c.walkTaskEvent \in {s.c.walkTaskEvent, NewId(s)},
         v.c.actionTaskEvent \in {s.c.actionTaskEvent, NewId(s)}
  PROVE  PassesOn(s, v, {r}) /\ (Stepping(s) => Stepping(v))
<1> DEFINE i == NewId(s)
           e == [id |-> i, task |-> Act(r, b)]
<1>1. i \in WalkIds /\ i \notin Known(s) /\ i # 0
  BY NewIdIsNew, WalkAssumption
<1>2. \A t \in s.timers : t.id # i
  BY <1>1 DEF Known
<1>3. i \notin {s.c.eventWalk, s.c.walkTaskEvent, s.c.actionTaskEvent}
  BY <1>1 DEF Known
<1>4. e.id = i /\ e.task = Act(r, b) /\ e.task # Step /\ \A q \in Requests : Carries(e.task, q) <=> q = r
  BY TasksDiffer
<1>5. v.timers = s.timers \cup {e}
  OBVIOUS
<1> HIDE DEF i, e
<1>6. IdsTell(v)
  <2>1. IsFiniteSet(v.timers)
    BY <1>5, FS_AddElement DEF Kept, IdsTell
  <2>2. \A t, u \in v.timers : t.id = u.id => t = u
    BY <1>2, <1>4, <1>5 DEF Kept, IdsTell
  <2>3. \A t \in s.timers : /\ t.id = v.c.eventWalk => t.task = Step
                            /\ t.id \in {v.c.walkTaskEvent, v.c.actionTaskEvent} => t.task # Step
    BY <1>2 DEF Kept, IdsTell, i
  <2> QED BY <1>3, <1>4, <1>5, <2>1, <2>2, <2>3 DEF IdsTell
<1>7. ASSUME NEW q \in Requests PROVE OnePlace(v, q) /\ (q # r /\ NoPlace(s, q) => NoPlace(v, q))
  <2>1. CASE q = r
    <3>1. \A t \in v.timers : Carries(t.task, q) => t = e
      BY <1>5, <2>1 DEF NoPlace
    <3>2. (\A k \in DOMAIN v.tasks : ~ Carries(v.tasks[k], q)) /\ v.c.walkTask # q
      BY <2>1, WalkAssumption DEF NoPlace
    <3> QED BY <2>1, <3>1, <3>2 DEF OnePlace
  <2>2. CASE q # r
    <3>1. \A t \in v.timers : Carries(t.task, q) => t \in s.timers
      BY <1>4, <1>5, <2>2
    <3>2. v.c.walkTask = q => s.c.walkTask = q
      BY WalkAssumption
    <3> QED BY <2>2, <3>1, <3>2 DEF Kept, OnePlace, NoPlace
  <2> QED BY <2>1, <2>2
<1>8. Stepping(s) => Stepping(v)
  BY <1>5 DEF Stepping
<1> QED BY <1>6, <1>7, <1>8 DEF PassesOn, Kept

\* Where a step stops events: what the id of another event is about is no step.
LEMMA StoppedDrops ==
  ASSUME NEW s, Kept(s), NEW i \in {s.c.walkTaskEvent, s.c.actionTaskEvent}
  PROVE  Drops(s, stopEvent(s, i)) /\ stopEvent(s, i).c = s.c
<1> DEFINE v == stopEvent(s, i)
<1>1. s \in Walkers /\ v = [s EXCEPT !.timers = {t \in @ : t.id # i}]
  BY DEF Kept, stopEvent
<1>2. v \in Walkers /\ v.timers = {t \in s.timers : t.id # i} /\ v.tasks = s.tasks /\ v.c = s.c
  BY <1>1 DEF Walkers
<1> HIDE DEF v
<1>3. \A t \in s.timers \ v.timers : t.task # Step
  BY <1>2 DEF Kept, IdsTell
<1> QED BY <1>2, <1>3 DEF Drops, v

LEMMA stopEventWalkDrops ==
  ASSUME NEW s, Kept(s)
  PROVE  /\ Drops(s, stopEventWalk(s)) /\ stopEventWalk(s).c.eventWalk = 0
         /\ stopEventWalk(s).c = [s.c EXCEPT !.eventWalk = 0]
<1> DEFINE v == stopEventWalk(s)
<1>1. s \in Walkers
  BY DEF Kept
<1>2. v = [s EXCEPT !.timers = {t \in @ : t.id # s.c.eventWalk}, !.c = [@ EXCEPT !.eventWalk = 0]]
  BY <1>1 DEF Walkers, stopEventWalk, stopEvent
<1>3. [s.c EXCEPT !.eventWalk = 0] \in WalkFields /\ s.c \in WalkFields
  BY <1>1 DEF Walkers, WalkFields
<1> HIDE DEF v
<1>4. /\ v \in Walkers /\ v.timers \subseteq s.timers /\ v.tasks = s.tasks
      /\ v.c = [s.c EXCEPT !.eventWalk = 0]
  BY <1>1, <1>2, <1>3 DEF Walkers
<1>5. /\ v.c.eventWalk = 0 /\ v.c.walkTask = s.c.walkTask /\ v.c.walkTaskEvent = s.c.walkTaskEvent
      /\ v.c.actionTaskEvent = s.c.actionTaskEvent
  BY <1>3, <1>4 DEF WalkFields
<1> QED BY <1>4, <1>5 DEF Drops, v

\* setNextActionTask and setNextWalkActionTask with nothing to wait for.
LEMMA FreedDrops ==
  ASSUME NEW s, Kept(s), NEW b
  PROVE  /\ Drops(s, setNextActionTask(s, NoRequest, b))
         /\ setNextActionTask(s, NoRequest, b).c = [s.c EXCEPT !.actionTaskEvent = 0]
         /\ Minds(s, setNextActionTask(s, NoRequest, b))
         /\ Drops(s, setNextWalkActionTask(s, NoRequest))
         /\ Minds(s, setNextWalkActionTask(s, NoRequest))
<1> DEFINE x == stopEvent(s, s.c.actionTaskEvent)
           y == stopEvent(s, s.c.walkTaskEvent)
           v == setNextActionTask(s, NoRequest, b)
           w == setNextWalkActionTask(s, NoRequest)
<1>1. /\ Drops(s, x) /\ x.c = s.c /\ x \in Walkers
      /\ Drops(s, y) /\ y.c = s.c /\ y \in Walkers
  BY StoppedDrops DEF Drops
<1>2. /\ v = [x EXCEPT !.c = [@ EXCEPT !.actionTaskEvent = 0]]
      /\ w = [y EXCEPT !.c = [@ EXCEPT !.walkTaskEvent = 0, !.walkTask = NoRequest]]
  BY <1>1 DEF Walkers, setNextActionTask, setNextWalkActionTask
<1> HIDE DEF x, y, v, w
<1>3. /\ [s.c EXCEPT !.actionTaskEvent = 0] \in WalkFields /\ s.c \in WalkFields
      /\ [s.c EXCEPT !.walkTaskEvent = 0, !.walkTask = NoRequest] \in WalkFields
  <2>1. s.c \in WalkFields
    BY DEF Kept, Walkers
  <2> QED BY <2>1 DEF WalkFields, Requested
<1>4. /\ v \in Walkers /\ v.timers = x.timers /\ v.tasks = x.tasks /\ v.c = [s.c EXCEPT !.actionTaskEvent = 0]
      /\ w \in Walkers /\ w.timers = y.timers /\ w.tasks = y.tasks
      /\ w.c = [s.c EXCEPT !.walkTaskEvent = 0, !.walkTask = NoRequest]
  BY <1>1, <1>2, <1>3 DEF Walkers
<1>5. Drops(x, v)
  BY <1>1, <1>3, <1>4 DEF Drops, WalkFields
<1>6. Drops(y, w)
  BY <1>1, <1>3, <1>4 DEF Drops, WalkFields
<1>7. Minds(s, v) /\ Minds(s, w)
  <2>1. v.tasks = s.tasks
    BY <1>1, <1>4 DEF Drops
  <2> QED BY <1>3, <1>4, <2>1, RousedMinds DEF WalkFields
<1> QED BY <1>1, <1>4, <1>5, <1>6, <1>7, DropsOn DEF v, w

LEMMA onWalkCompletePasses ==
  ASSUME ~ IsFiniteSet(WalkIds), NEW s, Kept(s)
  PROVE  /\ PassesOn(s, onWalkComplete(s), {})
         /\ onWalkComplete(s).c.walkTask = NoRequest
         /\ Minds(s, onWalkComplete(s))
<1>1. CASE s.c.walkTask = NoRequest
  <2>1. onWalkComplete(s) = s
    BY <1>1 DEF onWalkComplete
  <2> QED BY <1>1, <2>1, StandingContinues DEF Continues
<1>2. CASE s.c.walkTask # NoRequest
  <2> DEFINE r == s.c.walkTask
             i == NewId(s)
             e == [id |-> i, task |-> Act(r, TRUE)]
             u == [s EXCEPT !.c = [@ EXCEPT !.walkTask = NoRequest]]
             v == onWalkComplete(s)
  <2>1. s \in Walkers /\ s.c \in WalkFields /\ r \in Requests
    BY <1>2 DEF Kept, Walkers, WalkFields, Requested
  <2>2. i \in WalkIds
    BY NewIdIsNew
  <2>3. /\ \A t \in s.timers : ~ Carries(t.task, r)
        /\ \A k \in DOMAIN s.tasks : ~ Carries(s.tasks[k], r)
    BY <2>1 DEF Kept, OnePlace
  <2>4. NewId(u) = i
    <3>1. u.timers = s.timers /\ u.c.eventWalk = s.c.eventWalk /\ u.c.walkTaskEvent = s.c.walkTaskEvent
          /\ u.c.actionTaskEvent = s.c.actionTaskEvent
      BY <2>1 DEF Walkers, WalkFields
    <3> HIDE DEF u
    <3> QED BY <3>1 DEF NewId, Known
  <2>5. v = [s EXCEPT !.timers = @ \cup {e}, !.c = [@ EXCEPT !.walkTaskEvent = i, !.walkTask = NoRequest]]
    <3>1. v = [addEvent(s, Act(s.c.walkTask, TRUE))
                 EXCEPT !.c.walkTaskEvent = NewId(s), !.c.walkTask = NoRequest]
      BY <1>2 DEF onWalkComplete
    <3>2. addEvent(s, Act(s.c.walkTask, TRUE)) = [s EXCEPT !.timers = @ \cup {e}]
      BY DEF addEvent
    <3> HIDE DEF v, e, i
    <3> QED BY <2>1, <3>1, <3>2 DEF Walkers, i
  <2>6. /\ [s.c EXCEPT !.walkTaskEvent = i, !.walkTask = NoRequest] \in WalkFields
        /\ [s.c EXCEPT !.walkTask = NoRequest] \in WalkFields
    <3> HIDE DEF i
    <3> QED BY <2>1, <2>2 DEF WalkFields, Requested
  <2>7. e \in [id : WalkIds, task : EventTasks]
    <3>1. Act(r, TRUE) \in EventTasks
      <4> HIDE DEF r
      <4> QED BY <2>1 DEF EventTasks, Act
    <3> HIDE DEF r, i
    <3> QED BY <2>2, <3>1
  <2> HIDE DEF v
  <2>8. /\ v \in Walkers /\ v.timers = s.timers \cup {e} /\ v.tasks = s.tasks
        /\ v.c = [s.c EXCEPT !.walkTaskEvent = i, !.walkTask = NoRequest]
    <3> HIDE DEF e, i
    <3> QED BY <2>1, <2>5, <2>6, <2>7 DEF Walkers
  <2>9. /\ u \in Walkers /\ u.timers = s.timers /\ u.tasks = s.tasks
        /\ u.c = [s.c EXCEPT !.walkTask = NoRequest]
    BY <2>1, <2>6 DEF Walkers
  <2> HIDE DEF u, i
  <2>10. /\ v.c.walkTask = NoRequest /\ v.c.eventWalk = s.c.eventWalk /\ v.c.walkTaskEvent = i
         /\ v.c.actionTaskEvent = s.c.actionTaskEvent
         /\ u.c.walkTask = NoRequest /\ u.c.eventWalk = s.c.eventWalk
         /\ u.c.walkTaskEvent = s.c.walkTaskEvent /\ u.c.actionTaskEvent = s.c.actionTaskEvent
    BY <2>1, <2>8, <2>9 DEF WalkFields
  <2>11. Drops(s, u)
    BY <2>9, <2>10 DEF Drops
  <2>12. Kept(u) /\ PassesOn(s, u, {})
    BY <2>11, DropsPassOn DEF PassesOn
  <2>13. NoPlace(u, r)
    BY <2>1, <2>3, <2>9, <2>10, WalkAssumption DEF NoPlace
  <2>14. PassesOn(u, v, {r})
    <3>1. /\ v \in Walkers /\ v.tasks = u.tasks
          /\ v.timers = u.timers \cup {[id |-> NewId(u), task |-> Act(r, TRUE)]}
          /\ v.c.eventWalk = u.c.eventWalk /\ v.c.walkTask \in {u.c.walkTask, NoRequest}
          /\ v.c.walkTaskEvent \in {u.c.walkTaskEvent, NewId(u)}
          /\ v.c.actionTaskEvent \in {u.c.actionTaskEvent, NewId(u)}
      BY <2>4, <2>8, <2>9, <2>10
    <3> HIDE DEF r
    <3> QED BY <2>1, <2>12, <2>13, <3>1, ActAdded
  <2>15. ~ NoPlace(s, r)
    BY DEF NoPlace
  <2>16. Minds(s, v)
    BY <2>1, <2>8, RousedMinds DEF WalkFields
  <2> QED BY <2>10, <2>12, <2>14, <2>15, <2>16 DEF PassesOn, v
<1> QED BY <1>1, <1>2

-----------------------------------------------------------------------------
(* The walk.                                                               *)

\* Of what a step changes, nothing is about events and requests.
LEMMA FieldsPass ==
  ASSUME NEW s, Kept(s), NEW f \in WalkFields, f.walkTask = s.c.walkTask, f.eventWalk \in {s.c.eventWalk, 0},
         f.walkTaskEvent = s.c.walkTaskEvent, f.actionTaskEvent = s.c.actionTaskEvent
  PROVE  /\ Drops(s, [s EXCEPT !.c = f]) /\ [s EXCEPT !.c = f].c = f
         /\ [s EXCEPT !.c = f].tasks = s.tasks
<1> DEFINE v == [s EXCEPT !.c = f]
<1>1. s \in Walkers
  BY DEF Kept
<1>2. v \in Walkers /\ v.timers = s.timers /\ v.tasks = s.tasks /\ v.c = f
  BY <1>1 DEF Walkers
<1> HIDE DEF v
<1>3. Drops(s, v)
  BY <1>2 DEF Drops
<1> QED BY <1>2, <1>3 DEF v

LEMMA FieldsLead ==
  ASSUME NEW s, Kept(s), NEW f \in WalkFields, Alike(s.c, f)
  PROVE  Continues(s, [s EXCEPT !.c = f]) /\ [s EXCEPT !.c = f].c = f
<1> DEFINE v == [s EXCEPT !.c = f]
<1>1. Drops(s, v) /\ v.c = f /\ v.tasks = s.tasks
  BY FieldsPass DEF Alike
<1> HIDE DEF v
<1>2. Minds(s, v)
  BY <1>1, RousedMinds DEF Alike
<1> QED BY <1>1, <1>2, DropsPassOn DEF Continues, v

\* A task is added that carries no request.
LEMMA SendContinues ==
  ASSUME NEW s, Kept(s), NEW k \in OtherTasks, k \in WalkTasks
  PROVE  Continues(s, Send(s, k)) /\ Send(s, k).c = s.c
<1> DEFINE v == Send(s, k)
           n == Len(s.tasks)
<1>1. s \in Walkers
  BY DEF Kept
<1>2. v \in Walkers /\ v.c = s.c /\ v.timers = s.timers /\ v.tasks = Append(s.tasks, k)
  <2>1. s.tasks \in Seq(WalkTasks)
    BY <1>1 DEF Walkers
  <2>2. Append(s.tasks, k) \in Seq(WalkTasks)
    BY <2>1, AppendProperties
  <2> QED BY <1>1, <2>2 DEF Walkers, Send
<1>3. /\ DOMAIN s.tasks = 1..n /\ DOMAIN v.tasks = 1..(n + 1) /\ n \in Nat
      /\ v.tasks[n + 1] = k /\ \A i \in 1..n : v.tasks[i] = s.tasks[i]
  <2>1. s.tasks \in Seq(WalkTasks)
    BY <1>1 DEF Walkers
  <2> QED BY <1>2, <2>1, AppendProperties, LenProperties
<1> HIDE DEF v, n
<1>4. \A i \in DOMAIN v.tasks : i = n + 1 \/ i \in DOMAIN s.tasks
  BY <1>3
<1>5. ASSUME NEW r \in Requests, NEW i \in DOMAIN v.tasks, Carries(v.tasks[i], r)
      PROVE  i \in DOMAIN s.tasks /\ Carries(s.tasks[i], r)
  BY <1>3, <1>4, <1>5, TasksDiffer
<1>6. IdsTell(v)
  BY <1>2 DEF Kept, IdsTell
<1>7. ASSUME NEW r \in Requests PROVE OnePlace(v, r) /\ (NoPlace(s, r) => NoPlace(v, r))
  BY <1>2, <1>5 DEF Kept, OnePlace, NoPlace
<1>8. Stepping(s) => Stepping(v)
  <2>1. \A i \in DOMAIN s.tasks : i \in DOMAIN v.tasks /\ v.tasks[i] = s.tasks[i]
    BY <1>3
  <2> QED BY <1>2, <2>1 DEF Stepping
<1>9. Minds(s, v)
  <2>1. \A i \in DOMAIN s.tasks : i \in DOMAIN v.tasks /\ v.tasks[i] = s.tasks[i]
    BY <1>3
  <2> QED BY <1>2, <2>1 DEF Minds, Attends, Fit
<1>10. PassesOn(s, v, {})
  BY <1>2, <1>6, <1>7 DEF PassesOn, Kept
<1> QED BY <1>2, <1>8, <1>9, <1>10 DEF Continues, v

LEMMA FollowSent ==
  ASSUME NEW s, Kept(s)
  PROVE  Continues(s, Send(s, GoToFollow)) /\ Send(s, GoToFollow).c = s.c
BY SendContinues DEF OtherTasks, WalkTasks, WayTasks

LEMMA StopFollowingContinues ==
  ASSUME NEW s, Kept(s)
  PROVE  Continues(s, StopFollowing(s))
<1> DEFINE f == [s.c EXCEPT !.following = FALSE, !.cancelNextWalk = @ \/ s.c.kind = "player"]
<1>1. s \in Walkers /\ s.c \in WalkFields
  BY DEF Kept, Walkers
<1>2. StopFollowing(s) = [s EXCEPT !.c = f]
  BY <1>1 DEF StopFollowing, Walkers, WalkFields
<1>3. f \in WalkFields /\ Alike(s.c, f)
  <2>1. (s.c.cancelNextWalk \/ s.c.kind = "player") \in BOOLEAN
    OBVIOUS
  <2> QED BY <1>1, <2>1 DEF WalkFields, Alike
<1> HIDE DEF f
<1> QED BY <1>2, <1>3, FieldsLead

LEMMA onCreatureMoveContinues ==
  ASSUME NEW s, Kept(s), NEW lost
  PROVE  Continues(s, onCreatureMove(s, lost))
<1> DEFINE v == IF s.c.hasFollowPath THEN Send(s, GoToFollow) ELSE s
<1>1. Continues(s, v) /\ Kept(v)
  BY FollowSent, StandingContinues DEF Continues, PassesOn
<1>2. onCreatureMove(s, lost) \in {s, v, StopFollowing(v)}
  BY DEF onCreatureMove
<1> HIDE DEF v
<1> QED BY <1>1, <1>2, StandingContinues, StopFollowingContinues, ContinuesOn

LEMMA addEventWalkContinues ==
  ASSUME ~ IsFiniteSet(WalkIds), NEW s, Kept(s), Stepping(s)
  PROVE  Continues(s, addEventWalk(s)) /\ Rouses(s, addEventWalk(s))
<1> DEFINE f == [s.c EXCEPT !.cancelNextWalk = FALSE]
           v == [s EXCEPT !.c = f]
<1>1. s \in Walkers /\ s.c \in WalkFields
  BY DEF Kept, Walkers
<1>2. f \in WalkFields /\ Alike(s.c, f)
  BY <1>1 DEF WalkFields, Alike
<1>3. addEventWalk(s) = IF ~ s.c.fast \/ s.c.eventWalk # 0 THEN v ELSE AnotherStep(v)
  BY <1>1 DEF addEventWalk, Walkers
<1> HIDE DEF f
<1>4. Continues(s, v) /\ v.c = f
  BY <1>2, FieldsLead
<1> HIDE DEF v
<1>5. Kept(v) /\ Stepping(v) /\ (Fit(s) => Fit(v) /\ v.c.kind = s.c.kind)
  BY <1>4 DEF Continues, PassesOn, Minds
<1>6. Continues(v, AnotherStep(v)) /\ Rouses(v, AnotherStep(v))
  BY <1>5, StepAdded DEF Continues, Rouses, Minds, Attends
<1>7. CASE ~ s.c.fast \/ s.c.eventWalk # 0
  <2>1. Rouses(s, v)
    BY <1>2, <1>4, <1>5, <1>7 DEF Rouses, Attends, Alike, Fit
  <2> QED BY <1>3, <1>4, <1>7, <2>1
<1>8. CASE ~ (~ s.c.fast \/ s.c.eventWalk # 0)
  <2>1. Rouses(s, AnotherStep(v))
    BY <1>5, <1>6 DEF Rouses
  <2> QED BY <1>3, <1>4, <1>6, <1>8, <2>1, ContinuesOn
<1> QED BY <1>7, <1>8

LEMMA AwayIsBounded ==
  ASSUME NEW a \in 0..MaxAway, NEW d \in Steps
  PROVE  Max({0, Min({MaxAway, a + d})}) \in 0..MaxAway
<1> DEFINE n == Min({MaxAway, a + d})
<1>1. MaxAway \in Nat /\ a + d \in Int
  BY WalkAssumption DEF Steps
<1>2. n = IF MaxAway <= a + d THEN MaxAway ELSE a + d
  <2> DEFINE b == a + d
  <2>1. b \in Int
    BY <1>1
  <2> HIDE DEF b
  <2>2. Min({MaxAway, b}) = IF MaxAway <= b THEN MaxAway ELSE b
    BY <1>1, <2>1 DEF Min
  <2> QED BY <2>2 DEF b
<1>3. n \in Int /\ n <= MaxAway
  BY <1>1, <1>2
<1> HIDE DEF n
<1>4. Max({0, n}) = IF n <= 0 THEN 0 ELSE n
  BY <1>3 DEF Max
<1> QED BY <1>1, <1>3, <1>4 DEF n

LEMMA FreedContinues ==
  ASSUME NEW s, Kept(s), NEW b
  PROVE  Continues(s, setNextActionTask(s, NoRequest, b))
BY FreedDrops, DropsPassOn DEF Continues

LEMMA TakeStepContinues ==
  ASSUME NEW s, Kept(s), NEW d \in Steps, NEW v \in TakeStep(s, d)
  PROVE  Continues(s, v)
<1> DEFINE l == IF Wanders(s.c) \/ s.c.listWalkDir = <<>> THEN s.c.listWalkDir ELSE Tail(s.c.listWalkDir)
           f == [s.c EXCEPT !.listWalkDir = l]
           u == [s EXCEPT !.c = f]
           w == IF s.c.kind = "player" THEN setNextActionTask(u, NoRequest, FALSE) ELSE u
           g == [w.c EXCEPT !.resting = TRUE, !.away = Max({0, Min({MaxAway, @ + d})})]
           x == [w EXCEPT !.c = g]
<1>1. s \in Walkers /\ s.c \in WalkFields
  BY DEF Kept, Walkers
<1>2. f \in WalkFields /\ Alike(s.c, f)
  <2>1. l \in Seq(Steps)
    <3>1. s.c.listWalkDir \in Seq(Steps)
      BY <1>1 DEF WalkFields
    <3> QED BY <3>1, HeadTailProperties
  <2> HIDE DEF l
  <2> QED BY <1>1, <2>1 DEF WalkFields, Alike
<1>3. u = [s EXCEPT !.c.listWalkDir = IF Wanders(s.c) \/ @ = <<>> THEN @ ELSE Tail(@)]
  BY <1>1 DEF Walkers
<1> HIDE DEF f
<1>4. Continues(s, u) /\ Kept(u)
  BY <1>2, FieldsLead DEF Continues, PassesOn
<1> HIDE DEF u
<1>5. Continues(s, w) /\ Kept(w)
  BY <1>4, FreedContinues, ContinuesOn DEF Continues, PassesOn
<1>6. v = w \/ \E lost \in BOOLEAN : v = onCreatureMove(x, lost)
  <2>1. x = [w EXCEPT !.c.resting = TRUE, !.c.away = Max({0, Min({MaxAway, @ + d})})]
    <3>1. w \in Walkers /\ w.c \in WalkFields
      BY <1>5 DEF Kept, Walkers
    <3> HIDE DEF w
    <3> QED BY <3>1 DEF Walkers, WalkFields
  <2> HIDE DEF x
  <2> QED BY <1>3, <2>1 DEF TakeStep
<1> HIDE DEF w
<1>7. g \in WalkFields /\ Alike(w.c, g)
  <2>1. w.c \in WalkFields
    BY <1>5 DEF Kept, Walkers
  <2>2. Max({0, Min({MaxAway, w.c.away + d})}) \in 0..MaxAway
    <3>1. w.c.away \in 0..MaxAway
      BY <2>1 DEF WalkFields
    <3> QED BY <3>1, AwayIsBounded
  <2> QED BY <2>1, <2>2 DEF WalkFields, Alike
<1> HIDE DEF g
<1>8. Continues(w, x) /\ Kept(x)
  BY <1>5, <1>7, FieldsLead DEF Continues, PassesOn
<1> HIDE DEF x
<1> QED BY <1>5, <1>6, <1>8, onCreatureMoveContinues, ContinuesOn

\* eventWalk forgotten, as its event may not be.
LEMMA ForgettingPasses ==
  ASSUME NEW s, Kept(s)
  PROVE  /\ PassesOn(s, [s EXCEPT !.c.eventWalk = 0], {})
         /\ [s EXCEPT !.c.eventWalk = 0].c = [s.c EXCEPT !.eventWalk = 0]
<1> DEFINE f == [s.c EXCEPT !.eventWalk = 0]
<1>1. s \in Walkers /\ s.c \in WalkFields
  BY DEF Kept, Walkers
<1>2. /\ f \in WalkFields /\ f.walkTask = s.c.walkTask /\ f.eventWalk = 0
      /\ f.walkTaskEvent = s.c.walkTaskEvent /\ f.actionTaskEvent = s.c.actionTaskEvent
  BY <1>1 DEF WalkFields
<1>3. [s EXCEPT !.c.eventWalk = 0] = [s EXCEPT !.c = f]
  BY <1>1 DEF Walkers
<1> HIDE DEF f
<1>4. Drops(s, [s EXCEPT !.c = f]) /\ [s EXCEPT !.c = f].c = f
  BY <1>2, FieldsPass
<1> QED BY <1>3, <1>4, DropsPassOn DEF f

\* A player stops walking at the end of his way only, and then nothing waits for it.
LEMMA StopWalkingContinues ==
  ASSUME ~ IsFiniteSet(WalkIds), NEW s, Kept(s), 0 \in NextSteps(s.c)
  PROVE  Continues(s, StopWalking(s))
<1> DEFINE v == IF s.c.isIdle THEN [s EXCEPT !.c.eventWalk = 0] ELSE s
           u == IF s.c.listWalkDir = <<>> THEN onWalkComplete(v) ELSE v
           w == stopEventWalk(u)
<1>1. s \in Walkers /\ s.c \in WalkFields
  BY DEF Kept, Walkers
<1>2. StopWalking(s) = w
  BY DEF StopWalking
<1>3. /\ PassesOn(s, v, {}) /\ Kept(v)
      /\ v.c.kind = s.c.kind /\ v.c.fast = s.c.fast /\ v.c.isIdle = s.c.isIdle /\ v.c.walkTask = s.c.walkTask
  <2> DEFINE z == [s EXCEPT !.c.eventWalk = 0]
  <2>1. PassesOn(s, z, {}) /\ Kept(z) /\ z.c = [s.c EXCEPT !.eventWalk = 0]
    BY ForgettingPasses DEF PassesOn
  <2> HIDE DEF z
  <2>2. z.c.kind = s.c.kind /\ z.c.fast = s.c.fast /\ z.c.isIdle = s.c.isIdle /\ z.c.walkTask = s.c.walkTask
    BY <1>1, <2>1 DEF WalkFields
  <2>3. PassesOn(s, s, {})
    BY DEF PassesOn
  <2> QED BY <2>1, <2>2, <2>3 DEF z
<1> HIDE DEF v
<1>4. Fit(s) => Fit(v)
  BY <1>3 DEF Fit
<1>5. /\ PassesOn(v, u, {}) /\ Kept(u) /\ (Fit(v) => Fit(u) /\ u.c.kind = v.c.kind)
      /\ s.c.listWalkDir = <<>> => u.c.walkTask = NoRequest
      /\ s.c.listWalkDir # <<>> => u = v
  BY <1>3, onWalkCompletePasses DEF PassesOn, Minds
<1> HIDE DEF u
<1>6. /\ PassesOn(u, w, {}) /\ w.c = [u.c EXCEPT !.eventWalk = 0] /\ w.c.eventWalk = 0
  BY <1>5, stopEventWalkDrops, DropsPassOn
<1>7. w.c.walkTask = u.c.walkTask /\ w.c.kind = u.c.kind /\ (Fit(u) => Fit(w))
  <2>1. u.c \in WalkFields
    BY <1>5 DEF Kept, Walkers
  <2> HIDE DEF w
  <2> QED BY <1>6, <2>1 DEF WalkFields, Fit
<1> HIDE DEF w
<1>8. ASSUME Fit(s) PROVE Attends(w) /\ w.c.kind = s.c.kind
  <2>0. w.c.kind = s.c.kind
    BY <1>3, <1>4, <1>5, <1>7, <1>8
  <2>1. CASE s.c.kind = "player"
    <3>1. s.c.listWalkDir = <<>>
      <4>1. s.c.listWalkDir # <<>> => Head(s.c.listWalkDir) # 0
        <5>1. s.c.listWalkDir \in Seq(Steps)
          BY <1>1 DEF WalkFields
        <5> QED BY <5>1, HeadTailProperties DEF Steps
      <4> QED BY <1>8, <2>1, <4>1 DEF NextSteps, Wanders, Fit
    <3> QED BY <1>4, <1>5, <1>7, <1>8, <2>0, <3>1 DEF Attends
  <2>2. CASE s.c.kind # "player"
    BY <1>3, <1>4, <1>5, <1>7, <1>8, <2>2 DEF Attends, Fit
  <2> QED BY <2>0, <2>1, <2>2
<1>9. PassesOn(s, w, {}) /\ Stepping(w)
  BY <1>3, <1>5, <1>6, PassingGoesOn DEF Stepping
<1>10. Minds(s, w)
  BY <1>8 DEF Minds, Attends
<1> QED BY <1>2, <1>9, <1>10 DEF Continues

LEMMA AbortedContinues ==
  ASSUME NEW s, Kept(s)
  PROVE  Continues(s, onWalkAborted(s)) /\ onWalkAborted(s) \in {s, setNextWalkActionTask(s, NoRequest)}
<1>1. onWalkAborted(s) \in {s, setNextWalkActionTask(s, NoRequest)}
  BY DEF onWalkAborted
<1>2. Continues(s, setNextWalkActionTask(s, NoRequest))
  BY FreedDrops, DropsPassOn DEF Continues
<1> QED BY <1>1, <1>2, StandingContinues

\* The list is cleared and the walk given up.
LEMMA GivenUpContinues ==
  ASSUME NEW s, Kept(s), NEW b \in BOOLEAN
  PROVE  Continues(s, onWalkAborted([s EXCEPT !.c.cancelNextWalk = b, !.c.listWalkDir = <<>>]))
<1> DEFINE f == [s.c EXCEPT !.cancelNextWalk = b, !.listWalkDir = <<>>]
           x == [s EXCEPT !.c = f]
<1>1. s \in Walkers /\ s.c \in WalkFields
  BY DEF Kept, Walkers
<1>2. x = [s EXCEPT !.c.cancelNextWalk = b, !.c.listWalkDir = <<>>]
  BY <1>1 DEF Walkers
<1>3. f \in WalkFields /\ Alike(s.c, f)
  <2>1. <<>> \in Seq(Steps)
    OBVIOUS
  <2> QED BY <1>1, <2>1 DEF WalkFields, Alike
<1> HIDE DEF f
<1>4. Continues(s, x) /\ Kept(x)
  BY <1>3, FieldsLead DEF Continues, PassesOn
<1> HIDE DEF x
<1> QED BY <1>2, <1>4, AbortedContinues, ContinuesOn

LEMMA HaltedContinues == ASSUME NEW s, Kept(s) PROVE Continues(s, Halted(s))
BY GivenUpContinues, StandingContinues DEF Halted

LEMMA GoesOnContinues ==
  ASSUME ~ IsFiniteSet(WalkIds), NEW s, Kept(s)
  PROVE  Continues(s, GoesOn(s)) /\ Stepping(GoesOn(s))
<1> DEFINE w == [s EXCEPT !.c.eventWalk = 0]
<1>1. CASE s.c.eventWalk = 0
  <2>1. GoesOn(s) = s /\ Stepping(s)
    BY <1>1 DEF GoesOn, Stepping
  <2> QED BY <2>1, StandingContinues
<1>2. CASE s.c.eventWalk # 0
  <2>1. GoesOn(s) = addEventWalk(w)
    BY <1>2 DEF GoesOn
  <2>2. PassesOn(s, w, {}) /\ w.c = [s.c EXCEPT !.eventWalk = 0]
    BY ForgettingPasses
  <2>3. s.c \in WalkFields
    BY DEF Kept, Walkers
  <2> HIDE DEF w
  <2>4. Kept(w) /\ Stepping(w) /\ (Fit(s) => Fit(w) /\ w.c.kind = s.c.kind)
    BY <2>2, <2>3 DEF PassesOn, Stepping, WalkFields, Fit
  <2>5. Continues(w, addEventWalk(w)) /\ Rouses(w, addEventWalk(w))
    BY <2>4, addEventWalkContinues
  <2>6. PassesOn(s, addEventWalk(w), {}) /\ Stepping(addEventWalk(w))
    BY <2>2, <2>4, <2>5, PassingGoesOn DEF Continues
  <2>7. Minds(s, addEventWalk(w))
    BY <2>4, <2>5 DEF Minds, Rouses, Attends
  <2> QED BY <2>1, <2>6, <2>7 DEF Continues
<1> QED BY <1>1, <1>2

LEMMA onWalkContinues ==
  ASSUME ~ IsFiniteSet(WalkIds), NEW s, Kept(s), NEW v \in onWalk(s)
  PROVE  Continues(s, v) /\ Stepping(v) /\ Kept(v)
<1> DEFINE Stepped == IF s.c.resting THEN {s}
                      ELSE UNION {IF d = 0 THEN {StopWalking(s)} ELSE TakeStep(s, d) : d \in NextSteps(s.c)}
<1>1. onWalk(s) = {GoesOn(x) : x \in {Halted(u) : u \in Stepped}}
  BY DEF onWalk
<1>2. NextSteps(s.c) \subseteq Steps \cup {0}
  <2>1. s.c.listWalkDir \in Seq(Steps)
    BY DEF Kept, Walkers, WalkFields
  <2> QED BY <2>1, HeadTailProperties DEF NextSteps
<1>3. ASSUME NEW u \in Stepped PROVE Continues(s, u)
  <2>1. CASE s.c.resting
    BY <1>3, <2>1, StandingContinues
  <2>2. CASE ~ s.c.resting
    <3>1. PICK d \in NextSteps(s.c) : u \in IF d = 0 THEN {StopWalking(s)} ELSE TakeStep(s, d)
      BY <1>3, <2>2
    <3>2. CASE d = 0
      BY <3>1, <3>2, StopWalkingContinues
    <3>3. CASE d # 0
      BY <1>2, <3>1, <3>3, TakeStepContinues
    <3> QED BY <3>2, <3>3
  <2> QED BY <2>1, <2>2
<1> HIDE DEF Stepped
<1>4. PICK u \in Stepped : v = GoesOn(Halted(u))
  BY <1>1
<1>5. Continues(s, Halted(u)) /\ Kept(Halted(u))
  BY <1>3, HaltedContinues, ContinuesOn DEF Continues, PassesOn
<1>6. Continues(Halted(u), v) /\ Stepping(v)
  BY <1>4, <1>5, GoesOnContinues
<1> QED BY <1>5, <1>6, ContinuesOn DEF Continues, PassesOn

LEMMA startAutoWalkContinues ==
  ASSUME ~ IsFiniteSet(WalkIds), NEW s, Kept(s), Stepping(s), NEW path \in Seq(Steps), NEW v \in startAutoWalk(s, path)
  PROVE  Continues(s, v) /\ Rouses(s, v)
<1> DEFINE f == [s.c EXCEPT !.listWalkDir = path]
           g == [s.c EXCEPT !.listWalkDir = path, !.cancelNextWalk = FALSE]
           x == [s EXCEPT !.c = f]
           u == [s EXCEPT !.c = g]
<1>1. s \in Walkers /\ s.c \in WalkFields
  BY DEF Kept, Walkers
<1>2. f \in WalkFields /\ Alike(s.c, f) /\ g \in WalkFields /\ Alike(s.c, g)
  BY <1>1 DEF WalkFields, Alike
<1>3. (\E w \in onWalk(u) : v = AnotherStep(w)) \/ v = addEventWalk(x)
  <2>1. x = [s EXCEPT !.c.listWalkDir = path] /\ u = [x EXCEPT !.c.cancelNextWalk = FALSE]
    BY <1>1 DEF Walkers, WalkFields
  <2> HIDE DEF x, u
  <2> QED BY <2>1 DEF startAutoWalk
<1> HIDE DEF f, g
<1>4. Continues(s, x) /\ Continues(s, u)
  BY <1>2, FieldsLead
<1> HIDE DEF x, u
<1>5. /\ Kept(x) /\ Stepping(x) /\ Kept(u)
      /\ Fit(s) => Fit(x) /\ Fit(u) /\ x.c.kind = s.c.kind /\ u.c.kind = s.c.kind
  BY <1>4 DEF Continues, PassesOn, Minds
<1>6. CASE v = addEventWalk(x)
  <2>1. Continues(x, v) /\ Rouses(x, v)
    BY <1>5, <1>6, addEventWalkContinues
  <2> QED BY <1>4, <1>5, <2>1, ContinuesOn DEF Rouses
<1>7. ASSUME NEW w \in onWalk(u), v = AnotherStep(w) PROVE Continues(s, v) /\ Rouses(s, v)
  <2>1. Continues(u, w) /\ Kept(w)
    BY <1>5, onWalkContinues
  <2>2. PassesOn(w, v, {}) /\ Stepping(v) /\ Rouses(w, v)
    BY <1>7, <2>1, StepAdded
  <2>3. Continues(w, v) /\ (Fit(u) => Fit(w) /\ w.c.kind = u.c.kind)
    BY <2>1, <2>2 DEF Continues, Rouses, Minds, Attends
  <2> QED BY <1>4, <1>5, <2>1, <2>2, <2>3, ContinuesOn DEF Rouses
<1> QED BY <1>3, <1>6, <1>7

LEMMA PathsAreWays == Paths \subseteq Seq(Steps)
<1>1. \A d \in Steps : <<d>> \in Seq(Steps)
  OBVIOUS
<1>2. <<-1, -1>> \in Seq(Steps) /\ <<>> \in Seq(Steps)
  BY DEF Steps
<1> QED BY <1>1, <1>2 DEF Paths

\* The path replaces the walk, but the walk goes on.
LEMMA goToFollowCreatureContinues ==
  ASSUME ~ IsFiniteSet(WalkIds), NEW s, Kept(s), Stepping(s), NEW v \in goToFollowCreature(s)
  PROVE  Continues(s, v)
<1> DEFINE f == [s.c EXCEPT !.hasFollowPath = FALSE, !.listWalkDir = <<>>]
           g == [s.c EXCEPT !.hasFollowPath = TRUE]
           x == [s EXCEPT !.c = f]
           u == [s EXCEPT !.c = g]
<1>1. s \in Walkers /\ s.c \in WalkFields
  BY DEF Kept, Walkers
<1>2. f \in WalkFields /\ Alike(s.c, f) /\ g \in WalkFields /\ Alike(s.c, g)
  <2>1. <<>> \in Seq(Steps)
    OBVIOUS
  <2> QED BY <1>1, <2>1 DEF WalkFields, Alike
<1>3. v = s \/ v = x \/ \E path \in Paths : v \in startAutoWalk(u, path)
  <2>1. x = [s EXCEPT !.c.hasFollowPath = FALSE, !.c.listWalkDir = <<>>] /\ u = [s EXCEPT !.c.hasFollowPath = TRUE]
    BY <1>1 DEF Walkers, WalkFields
  <2> HIDE DEF x, u
  <2> QED BY <2>1 DEF goToFollowCreature
<1> HIDE DEF f, g
<1>4. Continues(s, x) /\ Continues(s, u) /\ Kept(u) /\ Stepping(u)
  BY <1>2, FieldsLead DEF Continues, PassesOn
<1> HIDE DEF x, u
<1>5. ASSUME NEW path \in Paths, v \in startAutoWalk(u, path) PROVE Continues(u, v)
  BY <1>4, <1>5, PathsAreWays, startAutoWalkContinues
<1> QED BY <1>3, <1>4, <1>5, StandingContinues, ContinuesOn

LEMMA setFollowCreatureContinues ==
  ASSUME ~ IsFiniteSet(WalkIds), NEW s, Kept(s), Stepping(s), NEW v \in setFollowCreature(s)
  PROVE  Continues(s, v)
<1> DEFINE u == IF s.c.listWalkDir = <<>> THEN s ELSE onWalkAborted([s EXCEPT !.c.listWalkDir = <<>>])
           f == [u.c EXCEPT !.following = TRUE, !.hasFollowPath = FALSE]
           x == [u EXCEPT !.c = f]
<1>1. Continues(s, u) /\ Kept(u)
  <2>1. s \in Walkers /\ s.c \in WalkFields
    BY DEF Kept, Walkers
  <2>2. [s EXCEPT !.c.listWalkDir = <<>>]
          = [s EXCEPT !.c.cancelNextWalk = s.c.cancelNextWalk, !.c.listWalkDir = <<>>]
    BY <2>1 DEF Walkers, WalkFields
  <2>3. s.c.cancelNextWalk \in BOOLEAN
    BY <2>1 DEF WalkFields
  <2> QED BY <2>2, <2>3, GivenUpContinues, StandingContinues DEF Continues, PassesOn
<1>2. v \in goToFollowCreature(x)
  <2>1. x = [u EXCEPT !.c.following = TRUE, !.c.hasFollowPath = FALSE]
    <3>1. u \in Walkers /\ u.c \in WalkFields
      BY <1>1 DEF Kept, Walkers
    <3> HIDE DEF u
    <3> QED BY <3>1 DEF Walkers, WalkFields
  <2> HIDE DEF x
  <2> QED BY <2>1 DEF setFollowCreature
<1> HIDE DEF u
<1>3. f \in WalkFields /\ Alike(u.c, f)
  <2>1. u.c \in WalkFields
    BY <1>1 DEF Kept, Walkers
  <2> QED BY <2>1 DEF WalkFields, Alike
<1> HIDE DEF f
<1>4. Continues(u, x)
  BY <1>1, <1>3, FieldsLead
<1> HIDE DEF x
<1>5. Continues(s, x) /\ Kept(x) /\ Stepping(x)
  BY <1>1, <1>4, ContinuesOn DEF Continues, PassesOn
<1> QED BY <1>2, <1>5, goToFollowCreatureContinues, ContinuesOn

-----------------------------------------------------------------------------
(* The requests.                                                           *)

\* r gets a place, of which it had none.
Takes(s, v, r) == PassesOn(s, v, {r}) /\ Stepping(v) /\ (s.c.kind = "player" => Minds(s, v))

LEMMA TakesOn ==
  ASSUME NEW s, NEW u, NEW v, NEW r \in Requests, Continues(s, u), Takes(u, v, r)
  PROVE  Takes(s, v, r)
BY DEF PassesOn, Takes, Continues, Minds

LEMMA setNextActionTaskTakes ==
  ASSUME ~ IsFiniteSet(WalkIds), NEW s, Kept(s), Stepping(s), NEW r \in Requests, NoPlace(s, r), NEW b \in BOOLEAN
  PROVE  Takes(s, setNextActionTask(s, r, b), r)
<1> DEFINE x == setNextActionTask(s, NoRequest, b)
           i == NewId(x)
           e == [id |-> i, task |-> Act(r, b)]
           v == setNextActionTask(s, r, b)
<1>1. Continues(s, x) /\ Kept(x) /\ Stepping(x) /\ NoPlace(x, r)
  BY FreedContinues DEF Continues, PassesOn
<1>2. r # NoRequest
  BY WalkAssumption
<1>3. v = [x EXCEPT !.timers = @ \cup {e}, !.c = [@ EXCEPT !.actionTaskEvent = i]]
  <2>1. x = [stopEvent(s, s.c.actionTaskEvent) EXCEPT !.c.actionTaskEvent = 0]
    BY DEF setNextActionTask
  <2>2. v = [addEvent(x, Act(r, b)) EXCEPT !.c.actionTaskEvent = NewId(x)]
    BY <1>2, <2>1 DEF setNextActionTask
  <2>3. addEvent(x, Act(r, b)) = [x EXCEPT !.timers = @ \cup {e}]
    BY DEF addEvent
  <2>4. x \in Walkers
    BY <1>1 DEF Kept
  <2> HIDE DEF x, v, i, e
  <2> QED BY <2>2, <2>3, <2>4 DEF Walkers, i
<1> HIDE DEF x
<1>4. i \in WalkIds
  BY <1>1, NewIdIsNew
<1>5. e \in [id : WalkIds, task : EventTasks]
  <2>1. Act(r, TRUE) \in EventTasks /\ Act(r, FALSE) \in EventTasks
    BY DEF EventTasks, Act
  <2>2. Act(r, b) \in EventTasks
    <3>1. CASE b = TRUE
      BY <2>1, <3>1
    <3>2. CASE b = FALSE
      BY <2>1, <3>2
    <3> QED BY <3>1, <3>2
  <2> HIDE DEF i
  <2> QED BY <1>4, <2>2
<1> HIDE DEF v, i
<1>6. /\ v \in Walkers /\ v.timers = x.timers \cup {e} /\ v.tasks = x.tasks
      /\ v.c = [x.c EXCEPT !.actionTaskEvent = i] /\ x.c \in WalkFields
  <2>1. x \in Walkers /\ x.c \in WalkFields
    BY <1>1 DEF Kept, Walkers
  <2>2. [x.c EXCEPT !.actionTaskEvent = i] \in WalkFields
    BY <1>4, <2>1 DEF WalkFields
  <2> HIDE DEF e
  <2> QED BY <1>3, <1>5, <2>1, <2>2 DEF Walkers
<1>7. /\ v.c.eventWalk = x.c.eventWalk /\ v.c.walkTask = x.c.walkTask
      /\ v.c.walkTaskEvent = x.c.walkTaskEvent /\ v.c.actionTaskEvent = i
      /\ v.c.kind = x.c.kind /\ v.c.fast = x.c.fast /\ v.c.isIdle = x.c.isIdle
  BY <1>6 DEF WalkFields
<1>8. PassesOn(x, v, {r}) /\ Stepping(v)
  <2>1. v.timers = x.timers \cup {[id |-> NewId(x), task |-> Act(r, b)]}
    BY <1>6 DEF i
  <2>2. v.c.actionTaskEvent = NewId(x)
    BY <1>7 DEF i
  <2> HIDE DEF e
  <2> QED BY <1>1, <1>6, <1>7, <2>1, <2>2, ActAdded
<1>9. Minds(x, v)
  BY <1>6, <1>7, RousedMinds
<1> QED BY <1>1, <1>8, <1>9, TakesOn DEF Takes, v

\* The walk it waits for is about to begin.
LEMMA setNextWalkActionTaskTakes ==
  ASSUME NEW s, Kept(s), Stepping(s), NEW r \in Requests, NoPlace(s, r),
         NEW i \in DOMAIN s.tasks, s.tasks[i].what = "autowalk"
  PROVE  Takes(s, setNextWalkActionTask(s, r), r)
<1> DEFINE x == setNextWalkActionTask(s, NoRequest)
           v == setNextWalkActionTask(s, r)
<1>1. Continues(s, x) /\ Kept(x) /\ Stepping(x) /\ NoPlace(x, r) /\ x.tasks = s.tasks
  BY FreedDrops, DropsPassOn DEF PassesOn, Continues, Drops
<1>2. x \in Walkers /\ x.c \in WalkFields
  BY <1>1 DEF Kept, Walkers
<1>3. v = [x EXCEPT !.c = [@ EXCEPT !.walkTask = r]]
  <2> DEFINE u == stopEvent(s, s.c.walkTaskEvent)
  <2>1. u \in Walkers /\ u.c \in WalkFields
    BY StoppedDrops DEF Drops, Walkers
  <2>2. x = [u EXCEPT !.c = [@ EXCEPT !.walkTaskEvent = 0, !.walkTask = NoRequest]]
    <3>1. x = [u EXCEPT !.c.walkTaskEvent = 0, !.c.walkTask = NoRequest]
      BY DEF setNextWalkActionTask
    <3> HIDE DEF u, x
    <3> QED BY <2>1, <3>1 DEF Walkers
  <2>3. v = [u EXCEPT !.c = [@ EXCEPT !.walkTaskEvent = 0, !.walkTask = r]]
    <3>1. v = [u EXCEPT !.c.walkTaskEvent = 0, !.c.walkTask = r]
      BY DEF setNextWalkActionTask
    <3> HIDE DEF u, v
    <3> QED BY <2>1, <3>1 DEF Walkers
  <2> HIDE DEF u, v, x
  <2>4. [[u.c EXCEPT !.walkTaskEvent = 0, !.walkTask = NoRequest] EXCEPT !.walkTask = r]
          = [u.c EXCEPT !.walkTaskEvent = 0, !.walkTask = r]
    BY <2>1 DEF WalkFields
  <2> QED BY <2>1, <2>2, <2>3, <2>4 DEF Walkers
<1> HIDE DEF x, v
<1>4. /\ v \in Walkers /\ v.timers = x.timers /\ v.tasks = x.tasks
      /\ v.c = [x.c EXCEPT !.walkTask = r]
  <2>1. [x.c EXCEPT !.walkTask = r] \in WalkFields
    BY <1>2 DEF WalkFields, Requested
  <2> QED BY <1>2, <1>3, <2>1 DEF Walkers
<1>5. /\ v.c.eventWalk = x.c.eventWalk /\ v.c.walkTask = r
      /\ v.c.walkTaskEvent = x.c.walkTaskEvent /\ v.c.actionTaskEvent = x.c.actionTaskEvent
      /\ v.c.kind = x.c.kind /\ v.c.fast = x.c.fast /\ v.c.isIdle = x.c.isIdle
  BY <1>2, <1>4 DEF WalkFields
<1>6. IdsTell(v)
  BY <1>1, <1>4, <1>5 DEF Kept, IdsTell
<1>7. ASSUME NEW q \in Requests PROVE OnePlace(v, q) /\ (q # r /\ NoPlace(x, q) => NoPlace(v, q))
  BY <1>1, <1>4, <1>5 DEF Kept, OnePlace, NoPlace
<1>8. Stepping(v)
  BY <1>1, <1>4, <1>5 DEF Stepping
<1>9. x.c.kind = "player" => Minds(x, v)
  BY <1>1, <1>4, <1>5 DEF Minds, Attends, Fit
<1>10. Takes(x, v, r)
  BY <1>4, <1>6, <1>7, <1>8, <1>9 DEF Takes, PassesOn, Kept
<1> QED BY <1>1, <1>10, TakesOn DEF v

\* What becomes of a request that had no place: it has one, or it is carried out.
Ends(s, o, r) == Takes(s, o.s, r) /\ (o.carried => NoPlace(o.s, r))
Ready(s, r) == Kept(s) /\ Stepping(s) /\ NoPlace(s, r)

LEMMA FreedIsReady ==
  ASSUME NEW s, NEW r \in Requests, Ready(s, r)
  PROVE  Ready(Freed(s), r) /\ Continues(s, Freed(s))
BY FreedContinues DEF Ready, Freed, PassesOn, Continues

LEMMA DoneEnds ==
  ASSUME NEW s, NEW r \in Requests, Ready(s, r), NEW o \in Done(s, r)
  PROVE  Ends(s, o, r)
<1> DEFINE f == [s.c EXCEPT !.exhausted = @ \/ ~ TurnsThings(r), !.cancelNextWalk = @ \/ UsesThings(r)]
           v == [s EXCEPT !.c = f]
<1>1. s \in Walkers /\ s.c \in WalkFields
  BY DEF Ready, Kept, Walkers
<1>2. CarryOut(s, r) = v
  BY <1>1 DEF CarryOut, Walkers, WalkFields
<1>3. f \in WalkFields /\ Alike(s.c, f)
  <2>1. (s.c.exhausted \/ ~ TurnsThings(r)) \in BOOLEAN /\ (s.c.cancelNextWalk \/ UsesThings(r)) \in BOOLEAN
    OBVIOUS
  <2> QED BY <1>1, <2>1 DEF WalkFields, Alike
<1> HIDE DEF f
<1>4. Continues(s, v)
  BY <1>3, FieldsLead DEF Ready
<1> HIDE DEF v
<1>5. o.s = v
  BY <1>2 DEF Done
<1> QED BY <1>4, <1>5 DEF Ends, Takes, PassesOn, Ready, Continues

LEMMA PutOffEnds ==
  ASSUME NEW s, NEW r, NEW S, \A v \in S : Takes(s, v, r), NEW o \in PutOff(S)
  PROVE  Ends(s, o, r)
<1>1. o.s \in S /\ o.carried = FALSE
  BY DEF PutOff
<1> QED BY <1>1 DEF Ends

LEMMA ReadyTakes == ASSUME NEW s, NEW r \in Requests, Ready(s, r) PROVE Takes(s, s, r)
BY DEF Ready, Takes, PassesOn, Minds

LEMMA WalkThereTakes ==
  ASSUME NEW s, NEW r \in Requests, Ready(s, r), NEW v \in WalkThere(s, r)
  PROVE  Takes(s, v, r)
<1> DEFINE k == AutoWalk(Way(s))
           u == Send(s, k)
<1>1. k \in OtherTasks /\ k \in WalkTasks /\ k.what = "autowalk"
  <2>1. Way(s) \in Seq(Steps)
    <3>1. s.c.away \in Nat
      BY WalkAssumption DEF Ready, Kept, Walkers, WalkFields
    <3>2. \A i \in 1..s.c.away : -1 \in Steps
      BY DEF Steps
    <3> QED BY <3>1, <3>2, IsASeq DEF Way
  <2> QED BY <2>1 DEF OtherTasks, WalkTasks, WayTasks, AutoWalk
<1> HIDE DEF k
<1>2. Continues(s, u) /\ Ready(u, r)
  BY <1>1, SendContinues DEF Ready, PassesOn, Continues
<1>3. Len(s.tasks) + 1 \in DOMAIN u.tasks /\ u.tasks[Len(s.tasks) + 1].what = "autowalk"
  <2>1. s \in Walkers /\ s.tasks \in Seq(WalkTasks)
    BY DEF Ready, Kept, Walkers
  <2>2. u.tasks = Append(s.tasks, k)
    BY <2>1 DEF Send, Walkers
  <2> HIDE DEF u
  <2> QED BY <1>1, <2>1, <2>2, AppendProperties, LenProperties
<1> HIDE DEF u
<1>5. Takes(u, setNextWalkActionTask(u, r), r)
  BY <1>2, <1>3, setNextWalkActionTaskTakes DEF Ready
<1>4. v = setNextWalkActionTask(u, r) \/ v = s
  BY DEF WalkThere, u, k
<1> QED BY <1>2, <1>4, <1>5, ReadyTakes, TakesOn

LEMMA EndsOn ==
  ASSUME NEW s, NEW u, NEW r \in Requests, Continues(s, u), NEW o, Ends(u, o, r)
  PROVE  Ends(s, o, r)
BY TakesOn DEF Ends

LEMMA ServedEnds ==
  ASSUME ~ IsFiniteSet(WalkIds), NEW s, NEW r \in Requests, Ready(s, r), NEW delay \in BOOLEAN, NEW o \in Served(s, r, delay)
  PROVE  Ends(s, o, r)
<1> DEFINE f == Freed(s)
<1>1. Ready(f, r) /\ Continues(s, f)
  BY FreedIsReady
<1>2. ASSUME o \in Later(s, r) PROVE Ends(s, o, r)
  BY <1>2, setNextActionTaskTakes, PutOffEnds DEF Later, Ready
<1>3. ASSUME NEW u \in {s, f}, o \in PutOff(WalkThere(u, r)) PROVE Ends(s, o, r)
  <2>1. Ready(u, r) /\ Continues(s, u)
    BY <1>1, StandingContinues DEF Ready
  <2> HIDE DEF f
  <2>2. Ends(u, o, r)
    BY <1>3, <2>1, WalkThereTakes, PutOffEnds
  <2> QED BY <2>1, <2>2, EndsOn
<1>4. ASSUME NEW u \in {s, f}, o \in Done(u, r) PROVE Ends(s, o, r)
  <2>1. Ready(u, r) /\ Continues(s, u)
    BY <1>1, StandingContinues DEF Ready
  <2> HIDE DEF f
  <2> QED BY <1>4, <2>1, DoneEnds, EndsOn
<1>5. ASSUME o \in PutOff({setNextActionTask(f, r, FALSE)}) PROVE Ends(s, o, r)
  <2> HIDE DEF f
  <2>1. Takes(f, setNextActionTask(f, r, FALSE), r)
    BY <1>1, setNextActionTaskTakes DEF Ready
  <2>2. Ends(f, o, r)
    BY <1>5, <2>1, PutOffEnds
  <2> QED BY <1>1, <2>2, EndsOn
<1>6. \/ o \in Later(s, r)
      \/ \E u \in {s, f} : o \in PutOff(WalkThere(u, r)) \/ o \in Done(u, r)
      \/ o \in PutOff({setNextActionTask(f, r, FALSE)})
  <2>1. \/ r[1] = "playerMoveItem" /\ o \in MoveItem(s, r)
        \/ r[1] = "playerMoveCreature" /\ o \in MoveCreature(s, r, delay)
        \/ o \in UseThing(s, r) \/ o \in TurnThing(s, r)
    BY WalkAssumption DEF Served, UsesThings, TurnsThings, Handlers
  <2>2. CASE o \in MoveItem(s, r)
    BY <2>2 DEF MoveItem
  <2>3. CASE o \in MoveCreature(s, r, delay)
    BY <2>3 DEF MoveCreature
  <2>4. CASE o \in UseThing(s, r)
    BY <2>4 DEF UseThing
  <2>5. CASE o \in TurnThing(s, r)
    BY <2>5 DEF TurnThing
  <2> QED BY <2>1, <2>2, <2>3, <2>4, <2>5
<1> HIDE DEF f
<1> QED BY <1>2, <1>3, <1>4, <1>5, <1>6

-----------------------------------------------------------------------------
(* The steps.                                                              *)

WalkKept ==
  /\ Kept(Before) /\ Stepping(Before)
  /\ done \subseteq asked /\ asked \subseteq Requests /\ inputs \in 0..MaxInputs
  /\ \A r \in Requests : r \in asked \ done \/ NoPlace(Before, r)
  /\ slowed \in BOOLEAN
  /\ slowed = FALSE => Attends(Before) /\ (creature.kind = "player" \/ asked = {})

LEMMA BeforeIs ==
  /\ Before.c = creature /\ Before.timers = timers /\ Before.tasks = tasks
  /\ \A v \in Walkers : After(v) => Before' = v
BY DEF Before, After, Walkers

LEMMA WalkGoesOn ==
  ASSUME WalkKept, NEW v, After(v), PassesOn(Before, v, {}), Stepping(v),
         asked' = asked, done' = done, inputs' \in 0..MaxInputs, slowed' \in BOOLEAN,
         slowed' = TRUE \/ (slowed = FALSE /\ Minds(Before, v))
  PROVE  WalkKept'
<1>1. Before' = v /\ Kept(v)
  BY BeforeIs DEF PassesOn, Kept
<1>2. \A r \in Requests : r \in asked \ done \/ NoPlace(v, r)
  BY DEF WalkKept, PassesOn
<1>3. Kept(Before)' /\ Stepping(Before)'
  BY <1>1 DEF Kept, IdsTell, OnePlace, Walkers, Stepping, Carries
<1>4. \A r \in Requests : r \in asked' \ done' \/ NoPlace(Before', r)
  BY <1>1, <1>2
<1>5. ASSUME slowed' = FALSE PROVE Attends(Before)' /\ (creature'.kind = "player" \/ asked' = {})
  <2>1. Attends(Before) /\ (creature.kind = "player" \/ asked = {}) /\ Minds(Before, v)
    BY <1>5 DEF WalkKept
  <2>2. Attends(v) /\ v.c.kind = Before.c.kind
    BY <2>1 DEF Minds, Attends
  <2>3. Attends(Before)'
    BY <1>1, <2>2 DEF Attends, Fit
  <2>4. creature' = v.c /\ Before.c = creature
    BY BeforeIs DEF After
  <2> QED BY <2>1, <2>2, <2>3, <2>4
<1> QED BY <1>3, <1>4, <1>5 DEF WalkKept, NoPlace, Carries, Before

LEMMA LeadingGoesOn ==
  ASSUME WalkKept, NEW v, After(v), Continues(Before, v), asked' = asked, done' = done,
         inputs' \in 0..MaxInputs, slowed' \in BOOLEAN, slowed = TRUE => slowed' = TRUE
  PROVE  WalkKept'
<1>1. PassesOn(Before, v, {}) /\ Stepping(v) /\ Minds(Before, v) /\ slowed \in BOOLEAN
  BY DEF Continues, WalkKept
<1> QED BY <1>1, WalkGoesOn

LEMMA InterferingCounts ==
  ASSUME WalkKept, Interferes
  PROVE  /\ asked' = asked /\ done' = done /\ inputs' \in 0..MaxInputs
         /\ slowed' \in BOOLEAN /\ (slowed = TRUE => slowed' = TRUE)
         /\ slowed' = (slowed \/ ~ creature'.fast)
<1>1. asked' = asked /\ done' = done /\ inputs' \in 0..MaxInputs
  BY WalkAssumption DEF Interferes, WalkKept
<1>2. slowed' = (slowed \/ ~ creature'.fast) /\ slowed \in BOOLEAN
  BY DEF Interferes, WalkKept
<1>3. (slowed \/ ~ creature'.fast) \in BOOLEAN
  OBVIOUS
<1>4. slowed = TRUE => (slowed \/ ~ creature'.fast) = TRUE
  OBVIOUS
<1> QED BY <1>1, <1>2, <1>3, <1>4

LEMMA FieldsGoOn ==
  ASSUME WalkKept, NEW f \in WalkFields, Alike(creature, f), creature' = f, timers' = timers, tasks' = tasks,
         asked' = asked, done' = done, inputs' \in 0..MaxInputs, slowed' \in BOOLEAN, slowed = TRUE => slowed' = TRUE
  PROVE  WalkKept'
<1> DEFINE v == [Before EXCEPT !.c = f]
<1>1. Kept(Before)
  BY DEF WalkKept
<1>2. Continues(Before, v)
  BY <1>1, BeforeIs, FieldsLead
<1>3. After(v)
  BY DEF After, Before
<1> HIDE DEF v
<1> QED BY <1>2, <1>3, LeadingGoesOn

LEMMA WalkBegins == WalkInit => WalkKept
<1> SUFFICES ASSUME WalkInit PROVE WalkKept
  OBVIOUS
<1>1. creature \in WalkFields /\ timers = {} /\ tasks = <<>> /\ asked = {} /\ done = {} /\ inputs = 0
  <2>1. creature \in WalkFields
    <3>1. <<>> \in Seq(Steps)
      OBVIOUS
    <3> QED BY <3>1 DEF WalkInit, WalkFields, Requested
  <2> QED BY <2>1 DEF WalkInit
<1>2. creature.walkTask = NoRequest /\ creature.eventWalk = 0
  BY DEF WalkInit
<1>3. Before \in Walkers
  BY <1>1 DEF Before, Walkers
<1>4. IdsTell(Before)
  BY <1>1, FS_EmptySet, BeforeIs DEF IdsTell
<1>5. \A r \in Requests : NoPlace(Before, r) /\ OnePlace(Before, r)
  BY <1>1, <1>2, BeforeIs, WalkAssumption DEF NoPlace, OnePlace
<1>6. Stepping(Before)
  BY <1>2, BeforeIs DEF Stepping
<1>7. Attends(Before)
  <2>1. creature.fast = TRUE /\ creature.isIdle = FALSE
    BY DEF WalkInit
  <2> QED BY <1>2, <2>1, BeforeIs DEF Attends, Fit
<1>8. slowed \in BOOLEAN
  BY DEF WalkInit
<1>9. Kept(Before)
  BY <1>3, <1>4, <1>5 DEF Kept
<1>10. 0 \in 0..MaxInputs
  BY WalkAssumption
<1> QED BY <1>1, <1>5, <1>6, <1>7, <1>8, <1>9, <1>10 DEF WalkKept

\* A monster has no request, whether it is idle or not.
LEMMA IdleGoesOn ==
  ASSUME WalkKept, NEW s, Continues(Before, s), Stepping(s), creature.kind = "monster", NEW b \in BOOLEAN,
         After([s EXCEPT !.c.isIdle = b]), asked' = asked, done' = done, inputs' \in 0..MaxInputs,
         slowed' \in BOOLEAN, slowed = TRUE => slowed' = TRUE
  PROVE  WalkKept'
<1> DEFINE f == [s.c EXCEPT !.isIdle = b]
           v == [s EXCEPT !.c = f]
<1>1. Kept(s) /\ s \in Walkers /\ s.c \in WalkFields
  BY DEF Continues, PassesOn, Kept, Walkers
<1>2. After(v)
  <2>1. v = [s EXCEPT !.c.isIdle = b]
    BY <1>1 DEF Walkers
  <2> HIDE DEF v
  <2> QED BY <2>1
<1>3. /\ f \in WalkFields /\ f.walkTask = s.c.walkTask /\ f.eventWalk = s.c.eventWalk
      /\ f.walkTaskEvent = s.c.walkTaskEvent /\ f.actionTaskEvent = s.c.actionTaskEvent
      /\ f.kind = s.c.kind /\ f.fast = s.c.fast
  BY <1>1 DEF WalkFields
<1> HIDE DEF f
<1>4. PassesOn(s, v, {}) /\ Stepping(v) /\ v.c = f
  BY <1>1, <1>3, FieldsPass, DropsPassOn
<1> HIDE DEF v
<1>5. PassesOn(Before, v, {})
  BY <1>4, PassingGoesOn DEF Continues
<1>6. Minds(Before, v)
  <2>1. Fit(Before) => Fit(s) /\ s.c.kind = "monster"
    BY BeforeIs DEF Continues, Minds
  <2> QED BY <1>3, <1>4, <2>1, BeforeIs DEF Minds, Fit, Attends
<1>7. slowed' = TRUE \/ (slowed = FALSE /\ Minds(Before, v))
  BY <1>6 DEF WalkKept
<1> QED BY <1>2, <1>4, <1>5, <1>7, WalkGoesOn

LEMMA PlayerWalks ==
  ASSUME ~ IsFiniteSet(WalkIds), WalkKept,
         (\E d \in Steps : playerMove(d)) \/ playerStopAutoWalk \/ updateIdleStatus
  PROVE  WalkKept'
<1>0. Kept(Before) /\ Stepping(Before) /\ Before \in Walkers /\ creature \in WalkFields
  BY BeforeIs DEF WalkKept, Kept, Walkers
<1>1. ASSUME NEW d \in Steps, playerMove(d) PROVE WalkKept'
  <2>1. PICK v \in startAutoWalk(Before, <<d>>) : After(v)
    BY <1>1 DEF playerMove
  <2>2. Interferes /\ <<d>> \in Seq(Steps)
    BY <1>1 DEF playerMove
  <2>3. Continues(Before, v)
    BY <1>0, <2>2, startAutoWalkContinues
  <2> QED BY <2>1, <2>2, <2>3, InterferingCounts, LeadingGoesOn
<1>2. CASE playerStopAutoWalk
  <2> DEFINE f == [creature EXCEPT !.cancelNextWalk = TRUE]
  <2>1. creature' = f /\ timers' = timers /\ tasks' = tasks /\ Interferes
    BY <1>2 DEF playerStopAutoWalk, After, Before
  <2>2. f \in WalkFields /\ Alike(creature, f)
    BY <1>0 DEF WalkFields, Alike
  <2> HIDE DEF f
  <2> QED BY <2>1, <2>2, InterferingCounts, FieldsGoOn
<1>3. CASE updateIdleStatus
  <2>1. After([Before EXCEPT !.c.isIdle = ~ @]) /\ Interferes /\ creature.kind = "monster"
    BY <1>3 DEF updateIdleStatus
  <2>2. [Before EXCEPT !.c.isIdle = ~ @] = [Before EXCEPT !.c.isIdle = ~ creature.isIdle]
    BY BeforeIs, <1>0 DEF Walkers
  <2>3. (~ creature.isIdle) \in BOOLEAN
    OBVIOUS
  <2>4. Continues(Before, Before)
    BY <1>0, StandingContinues
  <2> QED BY <1>0, <2>1, <2>2, <2>3, <2>4, IdleGoesOn, InterferingCounts
<1> QED BY <1>1, <1>2, <1>3

LEMMA SpeedChanges ==
  ASSUME ~ IsFiniteSet(WalkIds), WalkKept, SlowDown \/ SpeedUp
  PROVE  WalkKept'
<1>0. Kept(Before) /\ Stepping(Before) /\ Before \in Walkers /\ creature \in WalkFields
  BY BeforeIs DEF WalkKept, Kept, Walkers
<1>1. CASE SlowDown
  <2> DEFINE u == stopEventWalk(Before)
             f == [u.c EXCEPT !.fast = FALSE, !.cancelNextWalk = TRUE]
             v == [u EXCEPT !.c = f]
  <2>1. PassesOn(Before, u, {}) /\ Stepping(u) /\ Kept(u)
    BY <1>0, stopEventWalkDrops, DropsPassOn DEF PassesOn
  <2>2. u \in Walkers /\ u.c \in WalkFields
    BY <2>1 DEF Kept, Walkers
  <2>3. After(v) /\ Interferes
    <3>1. After([u EXCEPT !.c.fast = FALSE, !.c.cancelNextWalk = TRUE]) /\ Interferes
      BY <1>1 DEF SlowDown
    <3> HIDE DEF u
    <3>2. [u EXCEPT !.c.fast = FALSE, !.c.cancelNextWalk = TRUE] = v
      BY <2>2 DEF Walkers, WalkFields
    <3> HIDE DEF v
    <3> QED BY <3>1, <3>2
  <2> HIDE DEF u
  <2>4. /\ f \in WalkFields /\ f.walkTask = u.c.walkTask /\ f.eventWalk = u.c.eventWalk
        /\ f.walkTaskEvent = u.c.walkTaskEvent /\ f.actionTaskEvent = u.c.actionTaskEvent /\ f.fast = FALSE
    BY <2>2 DEF WalkFields
  <2> HIDE DEF f
  <2>5. PassesOn(u, v, {}) /\ Stepping(v) /\ v.c = f
    BY <2>1, <2>4, FieldsPass, DropsPassOn
  <2> HIDE DEF v
  <2>6. creature'.fast = FALSE
    BY <2>3, <2>4, <2>5 DEF After
  <2>7. slowed' = TRUE
    <3>1. slowed' = (slowed \/ ~ creature'.fast)
      BY <2>3, InterferingCounts
    <3>2. (slowed \/ ~ creature'.fast) = TRUE
      BY <2>6
    <3> QED BY <3>1, <3>2
  <2>8. PassesOn(Before, v, {})
    BY <2>1, <2>5, PassingGoesOn
  <2>9. asked' = asked /\ done' = done /\ inputs' \in 0..MaxInputs /\ slowed' \in BOOLEAN
    BY <2>3, InterferingCounts
  <2>10. slowed' = TRUE \/ (slowed = FALSE /\ Minds(Before, v))
    BY <2>7
  <2> QED BY <2>3, <2>5, <2>8, <2>9, <2>10, WalkGoesOn
<1>2. CASE SpeedUp
  <2> DEFINE f == [creature EXCEPT !.fast = TRUE]
             s == [Before EXCEPT !.c = f]
             v == IF s.c.listWalkDir # <<>> THEN addEventWalk(s) ELSE s
  <2>1. After(v) /\ asked' = asked /\ done' = done /\ inputs' \in 0..MaxInputs /\ slowed' = slowed
    <3>1. [Before EXCEPT !.c.fast = TRUE] = s
      BY BeforeIs, <1>0 DEF Walkers, WalkFields
    <3> HIDE DEF s
    <3> QED BY <1>2, <3>1 DEF SpeedUp, WalkKept
  <2>2. /\ f \in WalkFields /\ f.walkTask = Before.c.walkTask /\ f.eventWalk = Before.c.eventWalk
        /\ f.walkTaskEvent = Before.c.walkTaskEvent /\ f.actionTaskEvent = Before.c.actionTaskEvent
    BY <1>0, BeforeIs DEF WalkFields
  <2> HIDE DEF f
  <2>3. PassesOn(Before, s, {}) /\ Stepping(s) /\ Kept(s)
    BY <1>0, <2>2, FieldsPass, DropsPassOn DEF PassesOn
  <2> HIDE DEF s
  <2>4. PassesOn(s, addEventWalk(s), {}) /\ Stepping(addEventWalk(s))
    BY <2>3, addEventWalkContinues DEF Continues
  <2>5. PassesOn(Before, v, {}) /\ Stepping(v)
    BY <2>3, <2>4, PassingGoesOn
  <2> HIDE DEF v
  <2>6. slowed = TRUE
    BY <1>2, BeforeIs DEF SpeedUp, WalkKept, Attends, Fit
  <2>7. slowed' = TRUE /\ slowed' \in BOOLEAN
    BY <2>1, <2>6
  <2>8. slowed' = TRUE \/ (slowed = FALSE /\ Minds(Before, v))
    BY <2>7
  <2> QED BY <2>1, <2>5, <2>7, <2>8, WalkGoesOn
<1> QED BY <1>1, <1>2

LEMMA FollowingGoesOn ==
  ASSUME ~ IsFiniteSet(WalkIds), WalkKept,
         \/ WalkFollow \/ WalkAttack \/ FollowsAnother
         \/ \E lost \in BOOLEAN : FollowedMoves(lost)
  PROVE  WalkKept'
<1>0. Kept(Before) /\ Stepping(Before)
  BY DEF WalkKept
<1>1. ASSUME NEW v, Continues(Before, v), After(v), Interferes PROVE WalkKept'
  BY <1>1, InterferingCounts, LeadingGoesOn
<1>2. CASE WalkFollow
  <2> DEFINE s == Send(StopFollowing(Before), GoToFollow)
  <2>1. Continues(Before, s)
    BY <1>0, StopFollowingContinues, FollowSent, ContinuesOn DEF Continues, PassesOn
  <2>2. PICK v \in {s} \cup setFollowCreature(s) : After(v)
    BY <1>2 DEF WalkFollow
  <2>3. Interferes
    BY <1>2 DEF WalkFollow
  <2> HIDE DEF s
  <2>4. Continues(Before, v)
    BY <1>0, <2>1, <2>2, setFollowCreatureContinues, ContinuesOn DEF Continues, PassesOn
  <2> QED BY <1>1, <2>2, <2>3, <2>4
<1>3. ASSUME NEW s \in {Before, StopFollowing(Before)} \cup setFollowCreature(Before)
      PROVE  Continues(Before, s) /\ Kept(s)
  BY <1>0, StandingContinues, StopFollowingContinues, setFollowCreatureContinues DEF Continues, PassesOn
<1>4. CASE WalkAttack
  <2>1. PICK s \in {Before, StopFollowing(Before)} \cup setFollowCreature(Before) : After(Send(s, GoToFollow))
    BY <1>4 DEF WalkAttack
  <2>2. Continues(Before, Send(s, GoToFollow))
    BY <1>3, FollowSent, ContinuesOn
  <2>3. Interferes
    BY <1>4 DEF WalkAttack
  <2> QED BY <1>1, <2>1, <2>2, <2>3
<1>5. CASE FollowsAnother
  BY <1>1, <1>3, <1>5 DEF FollowsAnother
<1>6. ASSUME NEW lost \in BOOLEAN, FollowedMoves(lost) PROVE WalkKept'
  BY <1>0, <1>1, <1>6, onCreatureMoveContinues DEF FollowedMoves
<1> QED BY <1>2, <1>4, <1>5, <1>6

LEMMA ThinkingGoesOn ==
  ASSUME ~ IsFiniteSet(WalkIds), WalkKept, onThink
  PROVE  WalkKept'
<1>0. Kept(Before) /\ Stepping(Before) /\ slowed \in BOOLEAN
  BY DEF WalkKept
<1>1. /\ asked' = asked /\ done' = done /\ inputs' \in 0..MaxInputs /\ slowed' = slowed
  BY DEF onThink, WalkKept
<1>2. ASSUME NEW s \in Thoughts(Before) PROVE Continues(Before, s) /\ Kept(s) /\ Stepping(s)
  <2>1. s = Before \/ s = StopFollowing(Before) \/ s \in goToFollowCreature(Before)
    BY <1>2 DEF Thoughts
  <2>2. Continues(Before, s)
    BY <1>0, <2>1, StandingContinues, StopFollowingContinues, goToFollowCreatureContinues
  <2> QED BY <1>0, <2>2 DEF Continues, PassesOn
<1>3. PICK s \in Thoughts(Before) : \/ After(s)
                                    \/ creature.kind = "monster" /\ After([s EXCEPT !.c.isIdle = TRUE])
                                    \/ \E v \in Hunts(s) : After(v)
  BY DEF onThink
<1>4. CASE After(s)
  BY <1>0, <1>1, <1>2, <1>4, LeadingGoesOn
<1>5. CASE creature.kind = "monster" /\ After([s EXCEPT !.c.isIdle = TRUE])
  BY <1>1, <1>2, <1>5, <1>0, IdleGoesOn
<1>6. ASSUME NEW v \in Hunts(s), After(v) PROVE WalkKept'
  <2> DEFINE u == addEventWalk(s)
  <2>1. Continues(s, u) /\ Kept(u) /\ Stepping(u)
    BY <1>2, addEventWalkContinues DEF Continues, PassesOn
  <2>2. v = u \/ v \in setFollowCreature(u)
    BY <1>6 DEF Hunts
  <2> HIDE DEF u
  <2>3. Continues(Before, v)
    BY <1>2, <2>1, <2>2, setFollowCreatureContinues, ContinuesOn
  <2> QED BY <1>0, <1>1, <1>6, <2>3, LeadingGoesOn
<1> QED BY <1>3, <1>4, <1>5, <1>6

LEMMA EventDueGoesOn ==
  ASSUME WalkKept, NEW t \in timers, EventDue(t)
  PROVE  WalkKept'
<1> DEFINE s == Before
           v == [s EXCEPT !.timers = @ \ {t}, !.tasks = Append(@, t.task)]
           n == Len(s.tasks)
<1>1. Kept(s) /\ Stepping(s) /\ s \in Walkers /\ t \in s.timers
  BY BeforeIs DEF WalkKept, Kept
<1>2. After(v) /\ asked' = asked /\ done' = done /\ inputs' \in 0..MaxInputs /\ slowed' = slowed /\ slowed \in BOOLEAN
  BY DEF EventDue, After, Before, WalkKept
<1> HIDE DEF s
<1>3. t.task \in WalkTasks
  BY <1>1 DEF Walkers, WalkTasks
<1>4. /\ v \in Walkers /\ v.c = s.c /\ v.timers = s.timers \ {t} /\ v.tasks = Append(s.tasks, t.task)
  <2>1. s.tasks \in Seq(WalkTasks)
    BY <1>1 DEF Walkers
  <2>2. Append(s.tasks, t.task) \in Seq(WalkTasks)
    BY <1>3, <2>1, AppendProperties
  <2> QED BY <1>1, <2>2 DEF Walkers
<1>5. /\ DOMAIN s.tasks = 1..n /\ DOMAIN v.tasks = 1..(n + 1) /\ n \in Nat
      /\ v.tasks[n + 1] = t.task /\ \A i \in 1..n : v.tasks[i] = s.tasks[i]
  <2>1. s.tasks \in Seq(WalkTasks)
    BY <1>1 DEF Walkers
  <2> QED BY <1>3, <1>4, <2>1, AppendProperties, LenProperties
<1> HIDE DEF v, n
<1>6. \A i \in DOMAIN v.tasks :
        /\ i = n + 1 \/ i \in DOMAIN s.tasks
        /\ i = n + 1 => v.tasks[i] = t.task
        /\ i \in DOMAIN s.tasks => v.tasks[i] = s.tasks[i] /\ i # n + 1
  BY <1>5
<1>7. IdsTell(v)
  <2>1. IsFiniteSet(v.timers)
    BY <1>1, <1>4, FS_Subset DEF Kept, IdsTell
  <2> QED BY <1>1, <1>4, <2>1 DEF Kept, IdsTell
<1>8. ASSUME NEW r \in Requests PROVE OnePlace(v, r) /\ (NoPlace(s, r) => NoPlace(v, r))
  <2>1. OnePlace(s, r)
    BY <1>1 DEF Kept
  <2>2. CASE Carries(t.task, r)
    <3>0. /\ \A u \in s.timers : Carries(u.task, r) => u = t
          /\ \A i \in DOMAIN s.tasks : ~ Carries(s.tasks[i], r)
          /\ s.c.walkTask # r
      BY <1>1, <2>1, <2>2 DEF OnePlace
    <3>1. /\ \A u \in v.timers : ~ Carries(u.task, r)
          /\ \A i \in DOMAIN s.tasks : ~ Carries(s.tasks[i], r)
          /\ v.c.walkTask # r /\ ~ NoPlace(s, r)
      BY <1>1, <1>4, <2>2, <3>0 DEF NoPlace
    <3>2. ASSUME NEW i \in DOMAIN v.tasks, Carries(v.tasks[i], r) PROVE i = n + 1
      <4>1. CASE i \in DOMAIN s.tasks
        <5>1. v.tasks[i] = s.tasks[i]
          BY <1>6, <4>1
        <5> QED BY <3>1, <3>2, <4>1, <5>1
      <4> QED BY <1>6, <4>1
    <3>3. \A i, k \in DOMAIN v.tasks : Carries(v.tasks[i], r) /\ Carries(v.tasks[k], r) => i = k
      BY <3>2
    <3>4. OnePlace(v, r)
      <4> HIDE DEF Carries
      <4> QED BY <3>1, <3>3 DEF OnePlace
    <3> QED BY <3>1, <3>4
  <2>3. CASE ~ Carries(t.task, r)
    <3>1. ASSUME NEW i \in DOMAIN v.tasks, Carries(v.tasks[i], r)
          PROVE  i \in DOMAIN s.tasks /\ Carries(s.tasks[i], r)
      <4>1. CASE i = n + 1
        <5>1. v.tasks[i] = t.task
          BY <1>6, <4>1
        <5> QED BY <2>3, <3>1, <5>1
      <4>2. CASE i \in DOMAIN s.tasks
        <5>1. v.tasks[i] = s.tasks[i]
          BY <1>6, <4>2
        <5> QED BY <3>1, <4>2, <5>1
      <4> QED BY <1>6, <4>1, <4>2
    <3>2. v.timers \subseteq s.timers /\ v.c = s.c
      BY <1>4
    <3>3. \A i, k \in DOMAIN v.tasks : Carries(v.tasks[i], r) /\ Carries(v.tasks[k], r) => i = k
      BY <2>1, <3>1 DEF OnePlace
    <3>4. OnePlace(v, r)
      BY <2>1, <3>1, <3>2, <3>3 DEF OnePlace
    <3>5. NoPlace(s, r) => NoPlace(v, r)
      BY <3>1, <3>2 DEF NoPlace
    <3> QED BY <3>4, <3>5
  <2> QED BY <2>2, <2>3
<1>9. Stepping(v)
  <2>1. \A i \in DOMAIN s.tasks : i \in DOMAIN v.tasks /\ v.tasks[i] = s.tasks[i]
    BY <1>5
  <2>2. n + 1 \in DOMAIN v.tasks /\ v.tasks[n + 1] = t.task
    BY <1>5
  <2> QED BY <1>1, <1>4, <2>1, <2>2 DEF Stepping
<1>10. PassesOn(s, v, {})
  BY <1>4, <1>7, <1>8 DEF PassesOn, Kept
<1>11. Minds(s, v)
  <2>1. \A i \in DOMAIN s.tasks : i \in DOMAIN v.tasks /\ v.tasks[i] = s.tasks[i]
    BY <1>5
  <2> QED BY <1>4, <2>1 DEF Minds, Attends, Fit
<1> QED BY <1>2, <1>9, <1>10, <1>11, LeadingGoesOn DEF s, Continues

LEMMA TaskTaken ==
  ASSUME NEW s, Kept(s), Stepping(s), s.tasks # <<>>
  PROVE  LET v == [s EXCEPT !.tasks = Tail(@)]
             t == Head(s.tasks)
         IN  /\ PassesOn(s, v, {}) /\ t \in WalkTasks
             /\ t # Step => Stepping(v)
             /\ v.c = s.c /\ (t.what # "autowalk" => Minds(s, v))
             /\ \A r \in Requests : Carries(t, r) => NoPlace(v, r) /\ ~ NoPlace(s, r)
<1> DEFINE v == [s EXCEPT !.tasks = Tail(@)]
           t == Head(s.tasks)
           n == Len(s.tasks)
<1>1. s \in Walkers /\ s.tasks \in Seq(WalkTasks)
  BY DEF Kept, Walkers
<1>2. /\ Tail(s.tasks) \in Seq(WalkTasks) /\ t \in WalkTasks /\ t = s.tasks[1]
      /\ DOMAIN s.tasks = 1..n /\ n \in Nat /\ n >= 1
      /\ DOMAIN Tail(s.tasks) = 1..(n - 1) /\ \A i \in 1..(n - 1) : Tail(s.tasks)[i] = s.tasks[i + 1]
  BY <1>1, HeadTailProperties, LenProperties, EmptySeq
<1>3. v \in Walkers /\ v.c = s.c /\ v.timers = s.timers /\ v.tasks = Tail(s.tasks)
  BY <1>1, <1>2 DEF Walkers
<1> HIDE DEF v, t, n
<1>4. \A i \in DOMAIN v.tasks : i + 1 \in DOMAIN s.tasks /\ v.tasks[i] = s.tasks[i + 1] /\ i + 1 # 1 /\ i \in Int
  BY <1>2, <1>3
<1>5. 1 \in DOMAIN s.tasks
  BY <1>2
<1>6. ASSUME NEW r \in Requests
      PROVE  /\ OnePlace(v, r) /\ (NoPlace(s, r) => NoPlace(v, r))
             /\ Carries(t, r) => NoPlace(v, r) /\ ~ NoPlace(s, r)
  <2>1. OnePlace(s, r)
    BY DEF Kept
  <2>2. NoPlace(s, r) => NoPlace(v, r)
    BY <1>3, <1>4 DEF NoPlace
  <2>3. Carries(t, r) => NoPlace(v, r) /\ ~ NoPlace(s, r)
    BY <1>2, <1>3, <1>4, <1>5, <2>1 DEF OnePlace, NoPlace
  <2>4. \A i, k \in DOMAIN v.tasks : Carries(v.tasks[i], r) /\ Carries(v.tasks[k], r) => i = k
    <3>1. \A i, k \in DOMAIN v.tasks : Carries(v.tasks[i], r) /\ Carries(v.tasks[k], r) => i + 1 = k + 1
      BY <1>4, <2>1 DEF OnePlace
    <3> QED BY <1>4, <3>1
  <2> QED BY <1>3, <1>4, <2>1, <2>2, <2>3, <2>4 DEF OnePlace
<1>7. IdsTell(v)
  BY <1>3 DEF Kept, IdsTell
<1>10. ASSUME NEW i \in DOMAIN s.tasks, i # 1 PROVE i - 1 \in DOMAIN v.tasks /\ v.tasks[i - 1] = s.tasks[i]
  <2>1. i \in 1..n
    BY <1>2
  <2>2. i - 1 \in 1..(n - 1) /\ (i - 1) + 1 = i
    BY <1>2, <1>10, <2>1
  <2>3. v.tasks[i - 1] = s.tasks[(i - 1) + 1]
    BY <1>2, <1>3, <2>2
  <2> QED BY <1>2, <1>3, <2>2, <2>3
<1>11. t.what # "autowalk" => Minds(s, v)
  BY <1>2, <1>3, <1>10 DEF Minds, Attends, Fit
<1>8. t # Step => Stepping(v)
  <2>1. ASSUME t # Step, NEW i \in DOMAIN s.tasks, s.tasks[i] = Step PROVE \E k \in DOMAIN v.tasks : v.tasks[k] = Step
    <3>1. i # 1
      BY <1>2, <2>1
    <3> QED BY <1>10, <2>1, <3>1
  <2> QED BY <1>3, <2>1 DEF Stepping
<1>9. PassesOn(s, v, {})
  BY <1>3, <1>6, <1>7 DEF PassesOn, Kept
<1> QED BY <1>2, <1>3, <1>6, <1>8, <1>9, <1>11 DEF v, t

\* A request is taken up that is asked for and not yet carried out.
LEMMA ServingGoesOn ==
  ASSUME ~ IsFiniteSet(WalkIds), WalkKept, NEW s, PassesOn(Before, s, {}), Minds(Before, s), NEW r \in Requests, Ready(s, r),
         NEW delay \in BOOLEAN, Serve(s, r, delay), r \notin done, asked' = asked \cup {r}, inputs' \in 0..MaxInputs,
         slowed = FALSE => creature.kind = "player", slowed' = slowed
  PROVE  WalkKept'
<1>1. PICK o \in Served(s, r, delay) : After(o.s) /\ done' = IF o.carried THEN done \cup {r} ELSE done
  BY DEF Serve
<1>2. Ends(s, o, r)
  BY ServedEnds
<1> DEFINE v == o.s
<1>3. /\ Kept(v) /\ Stepping(v) /\ (o.carried => NoPlace(v, r)) /\ (s.c.kind = "player" => Minds(s, v))
      /\ \A q \in Requests \ {r} : NoPlace(Before, q) => NoPlace(v, q)
  BY <1>2 DEF Ends, Takes, PassesOn
<1>4. Before' = v
  BY <1>1, <1>3, BeforeIs DEF Kept
<1> HIDE DEF v
<1>5. \A q \in Requests : q \in asked' \ done' \/ NoPlace(v, q)
  BY <1>1, <1>3 DEF WalkKept
<1>6. done' \subseteq asked' /\ asked' \subseteq Requests
  BY <1>1 DEF WalkKept
<1>7. Kept(Before)' /\ Stepping(Before)'
  BY <1>3, <1>4 DEF Kept, IdsTell, OnePlace, Walkers, Stepping, Carries
<1>8. \A q \in Requests : q \in asked' \ done' \/ NoPlace(Before', q)
  BY <1>4, <1>5
<1>9. ASSUME slowed' = FALSE PROVE Attends(Before)' /\ creature'.kind = "player"
  <2>1. Attends(Before) /\ Before.c.kind = "player"
    BY <1>9, BeforeIs DEF WalkKept
  <2>2. Attends(s) /\ s.c.kind = "player"
    BY <2>1 DEF Minds, Attends
  <2>3. Attends(v) /\ v.c.kind = "player"
    BY <1>3, <2>2 DEF Minds, Attends
  <2>4. Attends(Before')
    BY <1>4, <2>3
  <2>5. creature' = v.c
    BY <1>1 DEF After, v
  <2> QED BY <2>3, <2>4, <2>5 DEF Attends, Fit
<1>10. slowed' \in BOOLEAN
  BY DEF WalkKept
<1> QED BY <1>6, <1>7, <1>8, <1>9, <1>10 DEF WalkKept, NoPlace, Carries, Before

LEMMA RequestGoesOn ==
  ASSUME ~ IsFiniteSet(WalkIds), WalkKept, NEW r \in Requests, Request(r)
  PROVE  WalkKept'
<1>0. r \notin asked
  BY DEF Request
<1>1. PassesOn(Before, Before, {}) /\ Minds(Before, Before) /\ Ready(Before, r) /\ r \notin done
  BY <1>0, StandingContinues DEF WalkKept, Continues, Ready
<1>2. Serve(Before, r, TRUE) /\ asked' = asked \cup {r} /\ slowed' = slowed /\ creature.kind = "player"
  BY DEF Request
<1>3. inputs' \in 0..MaxInputs
  <2>1. inputs \in 0..MaxInputs
    BY DEF WalkKept
  <2>2. inputs < MaxInputs /\ inputs' = inputs + 1
    BY DEF Request
  <2> QED BY <2>1, <2>2, WalkAssumption
<1> QED BY <1>1, <1>2, <1>3, ServingGoesOn

LEMMA TaskGoesOn ==
  ASSUME ~ IsFiniteSet(WalkIds), WalkKept, RunTask
  PROVE  WalkKept'
<1> DEFINE s == [Before EXCEPT !.tasks = Tail(@)]
           t == Head(tasks)
<1>0. Kept(Before) /\ Stepping(Before) /\ Before.tasks = tasks /\ tasks # <<>>
  BY BeforeIs DEF WalkKept, RunTask
<1>1. /\ PassesOn(Before, s, {}) /\ t \in WalkTasks /\ Kept(s)
      /\ t # Step => Stepping(s)
      /\ s.c = Before.c /\ (t.what # "autowalk" => Minds(Before, s))
      /\ \A r \in Requests : Carries(t, r) => NoPlace(s, r) /\ ~ NoPlace(Before, r)
  BY <1>0, TaskTaken DEF PassesOn
<1>2. /\ t.what = "act" => Serve(s, t.request, t.delay)
      /\ t.what = "step" => done' = done /\ \E v \in onWalk(s) : After(v)
      /\ t.what = "autowalk" => done' = done /\ \E v \in startAutoWalk(s, t.path) : After(v)
      /\ t.what = "follow" => done' = done /\ \E v \in goToFollowCreature(s) : After(v)
  BY DEF RunTask
<1>3. asked' = asked /\ inputs' \in 0..MaxInputs /\ slowed' = slowed /\ slowed \in BOOLEAN
  BY DEF RunTask, WalkKept
<1> HIDE DEF s, t
<1>4. ASSUME NEW v, After(v), PassesOn(s, v, {}), Stepping(v), Minds(Before, v), done' = done PROVE WalkKept'
  BY <1>1, <1>3, <1>4, PassingGoesOn, WalkGoesOn
<1>5. ASSUME NEW r \in Requests, NEW b \in BOOLEAN, t = Act(r, b) PROVE WalkKept'
  <2>1. t.what = "act" /\ t.request = r /\ t.delay = b
    BY <1>5 DEF Act
  <2>2. Serve(s, r, b)
    BY <1>2, <2>1
  <2>3. Carries(t, r)
    BY <1>5 DEF Carries
  <2>4. t # Step
    BY <2>1 DEF Step
  <2>5. Ready(s, r) /\ r \in asked /\ r \notin done /\ asked' = asked \cup {r}
    BY <1>1, <1>3, <2>3, <2>4 DEF Ready, WalkKept
  <2>6. Minds(Before, s) /\ (slowed = FALSE => creature.kind = "player")
    BY <1>1, <2>1, <2>5 DEF WalkKept
  <2> QED BY <1>1, <1>3, <2>2, <2>5, <2>6, ServingGoesOn
<1>6. CASE t = Step
  <2>1. t.what = "step"
    BY <1>6 DEF Step
  <2>2. done' = done /\ Minds(Before, s)
    BY <1>1, <1>2, <2>1
  <2>3. PICK v \in onWalk(s) : After(v)
    BY <1>2, <2>1
  <2>4. Continues(s, v) /\ Stepping(v)
    BY <1>1, <2>3, onWalkContinues
  <2>5. PassesOn(s, v, {}) /\ Minds(Before, v)
    BY <2>2, <2>4 DEF Continues, Minds, Attends
  <2> QED BY <1>4, <2>2, <2>3, <2>4, <2>5
<1>7. ASSUME NEW p \in Seq(Steps), t = AutoWalk(p) PROVE WalkKept'
  <2>1. t.what = "autowalk" /\ t.path = p /\ t # Step
    BY <1>7 DEF AutoWalk, Step
  <2>2. PICK v \in startAutoWalk(s, p) : After(v)
    BY <1>2, <2>1
  <2>3. Continues(s, v) /\ Rouses(s, v) /\ Stepping(v)
    BY <1>1, <2>1, <2>2, startAutoWalkContinues DEF Continues
  <2>4. Minds(Before, v)
    BY <1>1, <2>3 DEF Rouses, Minds, Attends, Fit
  <2>5. PassesOn(s, v, {}) /\ done' = done
    BY <1>2, <2>1, <2>3 DEF Continues
  <2> QED BY <1>4, <2>2, <2>3, <2>4, <2>5
<1>8. CASE t = GoToFollow
  <2>1. t.what = "follow" /\ t # Step
    BY <1>8 DEF GoToFollow, Step
  <2>2. PICK v \in goToFollowCreature(s) : After(v)
    BY <1>2, <2>1
  <2>3. Continues(s, v) /\ Stepping(v)
    BY <1>1, <2>1, <2>2, goToFollowCreatureContinues DEF Continues
  <2>4. PassesOn(s, v, {}) /\ Minds(Before, v) /\ done' = done
    BY <1>1, <1>2, <2>1, <2>3 DEF Continues, Minds, Attends
  <2> QED BY <1>4, <2>2, <2>3, <2>4
<1>9. \/ t = Step \/ (\E r \in Requests, b \in BOOLEAN : t = Act(r, b))
      \/ t = GoToFollow \/ (\E p \in Seq(Steps) : t = AutoWalk(p))
  <2>1. CASE t \in [what : {"act"}, request : Requests, delay : BOOLEAN]
    <3>1. t = Act(t.request, t.delay) /\ t.request \in Requests /\ t.delay \in BOOLEAN
      BY <2>1 DEF Act
    <3> QED BY <3>1
  <2>2. CASE t \in WayTasks
    BY <2>2 DEF WayTasks
  <2> QED BY <1>1, <2>1, <2>2 DEF WalkTasks, EventTasks
<1> QED BY <1>5, <1>6, <1>7, <1>8, <1>9

LEMMA RestGoesOn ==
  ASSUME WalkKept, Rested \/ Recovered
  PROVE  WalkKept'
<1>0. creature \in WalkFields
  BY BeforeIs DEF WalkKept, Kept, Walkers
<1>1. ASSUME NEW f \in {[creature EXCEPT !.resting = FALSE], [creature EXCEPT !.exhausted = FALSE]}, creature' = f
      PROVE  WalkKept'
  <2>1. f \in WalkFields /\ Alike(creature, f)
    BY <1>0 DEF WalkFields, Alike
  <2>2. /\ timers' = timers /\ tasks' = tasks /\ asked' = asked /\ done' = done /\ inputs' \in 0..MaxInputs
        /\ slowed' = slowed /\ slowed \in BOOLEAN
    BY DEF Rested, Recovered, WalkKept
  <2> QED BY <1>1, <2>1, <2>2, FieldsGoOn
<1> QED BY <1>1 DEF Rested, Recovered

LEMMA WalkStep == ASSUME ~ IsFiniteSet(WalkIds), WalkKept, [WalkNext]_walkVars PROVE WalkKept'
<1>1. CASE UNCHANGED walkVars
  <2>1. After(Before) /\ Continues(Before, Before)
    BY <1>1, StandingContinues DEF walkVars, After, Before, WalkKept
  <2> QED BY <1>1, <2>1, LeadingGoesOn DEF walkVars, WalkKept
<1>2. CASE WalkNext
  BY <1>2, RequestGoesOn, PlayerWalks, SpeedChanges, FollowingGoesOn, ThinkingGoesOn, EventDueGoesOn, TaskGoesOn, RestGoesOn DEF WalkNext
<1> QED BY <1>1, <1>2

LEMMA KeptIsSound == WalkKept => WalkSound
<1> SUFFICES ASSUME WalkKept PROVE WalkSound
  OBVIOUS
<1>1. Kept(Before) /\ Stepping(Before) /\ Before \in Walkers
  BY DEF WalkKept, Kept
<1>2. WalkTypeOK
  <2>1. creature \in WalkFields
    BY <1>1, BeforeIs DEF Walkers
  <2>2. timers \subseteq [id : WalkIds, task : EventTasks]
    BY <1>1, BeforeIs DEF Walkers
  <2>3. \A i \in DOMAIN tasks : tasks[i].what \in {"step", "act", "autowalk", "follow"}
    <3>1. tasks \in Seq(WalkTasks)
      BY <1>1, BeforeIs DEF Walkers
    <3>2. \A k \in WalkTasks : k.what \in {"step", "act", "autowalk", "follow"}
      BY DEF WalkTasks, EventTasks, WayTasks, Step, AutoWalk, GoToFollow
    <3>3. \A i \in DOMAIN tasks : tasks[i] \in WalkTasks
      BY <3>1, ElementOfSeq, LenProperties
    <3> QED BY <3>2, <3>3
  <2> QED BY <2>1, <2>2, <2>3 DEF WalkTypeOK, WalkFields, WalkKept
<1>3. NotParalysed
  BY <1>1, BeforeIs DEF NotParalysed, Queued, Stepping
<1>4. ASSUME NEW r \in Requests PROVE Places(r) <= IF r \in done THEN 0 ELSE 1
  <2> DEFINE T == {t \in timers : t.task \in {Act(r, TRUE), Act(r, FALSE)}}
             K == {i \in DOMAIN tasks : tasks[i] \in {Act(r, TRUE), Act(r, FALSE)}}
  <2>1. OnePlace(Before, r) /\ (r \in done => NoPlace(Before, r))
    BY <1>1 DEF Kept, WalkKept
  <2>2. /\ \A x, y \in T : x = y
        /\ \A x, y \in K : x = y
        /\ T = {} \/ K = {}
        /\ creature.walkTask = r => T = {} /\ K = {}
        /\ r \in done => T = {} /\ K = {} /\ creature.walkTask # r
    BY <2>1, BeforeIs DEF OnePlace, NoPlace, Carries
  <2>3. Places(r) = Cardinality(T) + Cardinality(K) + (IF creature.walkTask = r THEN 1 ELSE 0)
    BY DEF Places
  <2> HIDE DEF T, K
  <2>4. ASSUME NEW S, S # {}, \A x, y \in S : x = y PROVE Cardinality(S) = 1
    <3>1. PICK x \in S : TRUE
      BY <2>4
    <3>2. S = {x}
      BY <2>4
    <3> QED BY <3>2, FS_Singleton
  <2>5. Cardinality({}) = 0
    BY FS_EmptySet
  <2>6. Cardinality(T) = IF T = {} THEN 0 ELSE 1
    BY <2>2, <2>4, <2>5
  <2>7. Cardinality(K) = IF K = {} THEN 0 ELSE 1
    BY <2>2, <2>4, <2>5
  <2> QED BY <2>2, <2>3, <2>6, <2>7
<1>5. RequestsHaveAWalk
  <2>1. slowed = FALSE => Attends(Before)
    BY DEF WalkKept
  <2>2. slowed = TRUE \/ slowed = FALSE
    BY DEF WalkKept
  <2>3. CASE slowed = TRUE
    BY <2>3 DEF RequestsHaveAWalk
  <2>4. CASE slowed = FALSE
    BY <2>1, <2>4, BeforeIs DEF RequestsHaveAWalk, Attends
  <2> QED BY <2>2, <2>3, <2>4
<1> QED BY <1>2, <1>3, <1>4, <1>5 DEF WalkSound, RequestsHaveOnePlace

\* However often a walk is put off, stopped and taken up again: while eventWalk is set a step
\* is to come, and a request waits in one place and is carried out once, for any requests
\* and any ground, as long as the ids of events do not run out.
THEOREM WalksStaySound == ASSUME ~ IsFiniteSet(WalkIds) PROVE WalkSpec => []WalkSound
<1>1. WalkKept /\ [WalkNext]_walkVars => WalkKept'
  BY WalkStep
<1> QED BY <1>1, WalkBegins, KeptIsSound, PTL DEF WalkSpec
=============================================================================
