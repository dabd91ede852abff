---------------------------- MODULE Affairs_proofs ----------------------------
(* Theorems about Guilds, for any fellows, guilds and greatest number of    *)
(* members, about Wars, for any soldiers of the two guilds, any stakes and  *)
(* any number of kills that decides a war, about GlobalSave, for any        *)
(* players, orders and times of day, about Scripts, for any items, timers   *)
(* and number of environments, and about Trade, for any players, items,     *)
(* documents and houses.                                                    *)
EXTENDS Guilds, Wars, GlobalSave, Scripts, Trade, Lists_proofs

-----------------------------------------------------------------------------
(* The guilds.                                                              *)

Leads(p, g) ==
  IF p \in here THEN copy[p].guild = g /\ copy[p].level = Leader
  ELSE rows[p].guild = g /\ rows[p].level = Leader

\* One fellow leads g, the owner unless that was passed on to one who was away;
Led(g) ==
  \E p \in Fellows : /\ \A q \in Fellows : Leads(q, g) <=> q = p
                     /\ g \in disowned \/ ownerid[g] = p

\* and the table, which is never behind the copies, has no more members than allowed.
NotOver(g) == Cardinality(Members(g)) <= GuildMaxPlayer

(* What every order needs of the others: nothing is known of who is away,   *)
(* and the guilds there will be have left no trace yet.                     *)
Orderly ==
  /\ GuildsTypeOK
  /\ NothingDangles
  /\ \A p \in Fellows \ here : copy[p] = Guildless
  /\ \A g \in GuildIds : Exists(g) => g <= given
  /\ \A g \in disowned : g <= given
  /\ \A g \in GuildIds : Exists(g) /\ g \notin torn => Led(g) /\ NotOver(g)

-----------------------------------------------------------------------------
LEMMA IdFacts ==
  /\ NoGuild \notin GuildIds /\ GuildIds \subseteq Nat /\ 1 \in GuildIds
  /\ \A g \in GuildIds, n \in Nat : n # 0 /\ n <= g => n \in GuildIds
<1>1. Cardinality(GuildIds) \in Nat
  BY GuildsAssumption, FS_CardinalityType
<1> QED BY <1>1, GuildsAssumption DEF NoGuild

LEMMA MembersFinite ==
  \A g : IsFiniteSet(Members(g)) /\ Cardinality(Members(g)) \in Nat
<1> TAKE g
<1>1. Members(g) \in SUBSET Fellows
  BY DEF Members
<1> QED BY <1>1, GuildsAssumption, FS_Subset, FS_CardinalityType

\* An order that lets nobody into g leaves it as small as it was.
LEMMA StaysSmall ==
  ASSUME NEW g \in GuildIds, NotOver(g),
         \A p \in Fellows : rows'[p].guild = g => rows[p].guild = g
  PROVE  NotOver(g)'
<1>1. Members(g)' \subseteq Members(g)
  BY DEF Members
<1>2. IsFiniteSet(Members(g)') /\ Cardinality(Members(g)') <= Cardinality(Members(g))
  BY <1>1, MembersFinite, FS_Subset
<1>3. Cardinality(Members(g)') \in Nat
  BY <1>2, FS_CardinalityType
<1>4. Cardinality(Members(g))' = Cardinality(Members(g)')
  OBVIOUS
<1> QED BY <1>2, <1>3, <1>4, MembersFinite, GuildsAssumption DEF NotOver

\* An order that changes nothing of the rank of a leader of g.
LEMMA StaysLed ==
  ASSUME NEW g \in GuildIds, Led(g),
         \A p \in Fellows : Leads(p, g)' <=> Leads(p, g),
         ownerid'[g] = ownerid[g], g \in disowned => g \in disowned'
  PROVE  Led(g)'
BY DEF Led

LEMMA GuildlessType ==
  /\ Guildless \in [guild : GuildIds \cup {NoGuild}, level : 0..3, invites : SUBSET GuildIds]
  /\ Guildless.guild = NoGuild /\ Guildless.level = 0 /\ Guildless.invites = {}
BY DEF Guildless

LEMMA RankedCopy ==
  ASSUME NEW c \in [guild : GuildIds \cup {NoGuild}, level : 0..3, invites : SUBSET GuildIds],
         NEW g \in GuildIds \cup {NoGuild}, NEW l \in 0..3
  PROVE  /\ Ranked(c, g, l) \in [guild : GuildIds \cup {NoGuild}, level : 0..3, invites : SUBSET GuildIds]
         /\ Ranked(c, g, l).guild = g /\ Ranked(c, g, l).level = l /\ Ranked(c, g, l).invites = c.invites
BY DEF Ranked

LEMMA LeftCopy ==
  ASSUME NEW c \in [guild : GuildIds \cup {NoGuild}, level : 0..3, invites : SUBSET GuildIds]
  PROVE  /\ leaveGuild(c) \in [guild : GuildIds \cup {NoGuild}, level : 0..3, invites : SUBSET GuildIds]
         /\ leaveGuild(c).guild = NoGuild /\ leaveGuild(c).level = 0 /\ leaveGuild(c).invites = c.invites
<1>1. 0 \in 0..3 /\ NoGuild \in GuildIds \cup {NoGuild}
  OBVIOUS
<1> QED BY <1>1, RankedCopy DEF leaveGuild

-----------------------------------------------------------------------------
LEMMA OrderlyInit == GuildsInit => Orderly
<1> SUFFICES ASSUME GuildsInit PROVE Orderly
  OBVIOUS
<1> USE GuildsAssumption, IdFacts
<1>1. GuildsTypeOK
  BY DEF GuildsInit, GuildsTypeOK, RankType, NoRank, Rank, Guildless, NoGuild, Member, Vice, Leader
<1>2. \A g \in GuildIds : Exists(g) => g = 1 /\ ownerid[1] \in Fellows /\ given = 1
  BY <1>1 DEF GuildsInit, Exists, GuildsTypeOK, NoGuild
<1>3. NothingDangles
  BY <1>2 DEF GuildsInit, NothingDangles, Exists, Guildless, NoRank, Rank, NoGuild
<1>4. ASSUME Exists(1) PROVE Led(1) /\ NotOver(1)
  <2>1. ownerid[1] \in Fellows /\ \A q \in Fellows : Leads(q, 1) <=> q = ownerid[1]
    BY <1>2, <1>4 DEF GuildsInit, Leads, Rank, NoRank, Member, Vice, Leader
  <2> QED BY <2>1 DEF Led, NotOver, GuildsInit
<1> QED BY <1>1, <1>2, <1>3, <1>4 DEF Orderly, GuildsInit

-----------------------------------------------------------------------------
LEMMA EntersKeeps == ASSUME Orderly, NEW p \in Fellows, Enters(p) PROVE Orderly'
<1> USE GuildsAssumption, IdFacts
<1>1. GuildsTypeOK'
  BY DEF Orderly, GuildsTypeOK, Enters, loadRank, Ranked, Guildless, RankType, Exists
<1>2. NothingDangles'
  BY DEF Orderly, GuildsTypeOK, RankType, NothingDangles, Enters, loadRank, Ranked, Guildless, Exists
<1>3. \A q \in Fellows, g \in GuildIds : Leads(q, g)' <=> Leads(q, g)
  BY DEF Orderly, GuildsTypeOK, NothingDangles, RankType, Leads, Enters, loadRank, Ranked, Guildless, Exists, Leader
<1>4. \A g \in GuildIds : Led(g) /\ NotOver(g) => Led(g)' /\ NotOver(g)'
  BY <1>3, StaysLed, StaysSmall DEF Enters
<1> QED BY <1>1, <1>2, <1>4 DEF Orderly, Enters, GuildsTypeOK, Exists

LEMMA SavedRows ==
  ASSUME Orderly, NEW p \in here, saveRank(p)
  PROVE  /\ rows' \in [Fellows -> RankType] /\ guildInvites' \subseteq Fellows \X GuildIds
         /\ \A q \in Fellows \ {p} : rows'[q] = rows[q]
         /\ rows'[p].guild = copy[p].guild
         /\ copy[p].guild # NoGuild => rows'[p].level = copy[p].level /\ rows[p].guild = copy[p].guild
         /\ \A x \in guildInvites' : x \in guildInvites \/ x[2] \in copy[p].invites
<1> USE GuildsAssumption, IdFacts
<1>1. p \in Fellows /\ copy[p].guild \in GuildIds \cup {NoGuild} /\ copy[p].level \in 0..3
  BY DEF Orderly, GuildsTypeOK
<1>2. copy[p].guild # NoGuild => Exists(copy[p].guild) /\ rows[p].guild = copy[p].guild
  BY <1>1 DEF Orderly, NothingDangles
<1>3. rows' \in [Fellows -> RankType]
  BY <1>1 DEF Orderly, GuildsTypeOK, saveRank, RankType, Of, NoRank, Rank, NoGuild
<1>4. rows'[p] = IF Exists(copy[p].guild) THEN Of(copy[p]) ELSE NoRank
  BY <1>1 DEF Orderly, GuildsTypeOK, saveRank
<1>5. guildInvites' \subseteq Fellows \X GuildIds
  BY <1>1 DEF Orderly, GuildsTypeOK, saveRank
<1>6. \A q \in Fellows \ {p} : rows'[q] = rows[q]
  BY DEF Orderly, GuildsTypeOK, saveRank
<1>7. \A x \in guildInvites' : x \in guildInvites \/ x[2] \in copy[p].invites
  BY DEF saveRank
<1> QED BY <1>1, <1>2, <1>3, <1>4, <1>5, <1>6, <1>7 DEF Of, NoRank, Rank, NoGuild, Exists

LEMMA SavingKeeps ==
  ASSUME Orderly, NEW p \in Fellows, Leaves(p) \/ IsSaved(p) PROVE Orderly'
<1> USE GuildsAssumption, IdFacts
<1>1. p \in here /\ saveRank(p)
  BY DEF Leaves, IsSaved
<1> DEFINE after(q) == IF Leaves(p) /\ q = p THEN Guildless ELSE copy[q]
<1>2. /\ \A q \in Fellows : copy'[q] = after(q)
      /\ copy' \in [Fellows -> [guild : GuildIds \cup {NoGuild}, level : 0..3, invites : SUBSET GuildIds]]
  <2>1. CASE Leaves(p)
    BY <2>1, GuildlessType DEF Leaves, Orderly, GuildsTypeOK
  <2>2. CASE ~Leaves(p)
    BY <2>2 DEF IsSaved, Orderly, GuildsTypeOK
  <2> QED BY <2>1, <2>2
<1>3. UNCHANGED <<ownerid, given, torn, disowned, decrees, falls>>
  BY DEF Leaves, IsSaved
<1>4. here' = IF Leaves(p) THEN here \ {p} ELSE here
  BY DEF Leaves, IsSaved
<1>5. GuildsTypeOK'
  BY <1>1, <1>2, <1>3, <1>4, SavedRows DEF Orderly, GuildsTypeOK
<1>6. NothingDangles'
  <2>1. ASSUME NEW q \in Fellows
        PROVE  /\ {rows'[q].guild, copy'[q].guild} \subseteq {NoGuild} \cup {g \in GuildIds : Exists(g)'}
               /\ \A g \in copy'[q].invites : g \in GuildIds /\ Exists(g)'
               /\ copy'[q].guild # NoGuild => copy'[q].invites = {} /\ rows'[q].guild = copy'[q].guild
    <3>1. /\ copy'[q].guild # NoGuild => copy'[q] = copy[q]
          /\ \A g \in copy'[q].invites : g \in copy[q].invites
          /\ rows'[q].guild = rows[q].guild \/ rows'[q].guild = copy[q].guild
          /\ copy'[q].guild # NoGuild => rows'[q].guild = rows[q].guild
      BY <1>1, <1>2, SavedRows, GuildlessType
    <3>2. \A g \in GuildIds : Exists(g)' <=> Exists(g)
      BY <1>3 DEF Exists
    <3>3. copy[q].invites \subseteq GuildIds
      BY DEF Orderly, GuildsTypeOK
    <3>4. /\ {rows[q].guild, copy[q].guild} \subseteq {NoGuild} \cup {g \in GuildIds : Exists(g)}
          /\ \A g \in copy[q].invites : Exists(g)
          /\ copy[q].guild # NoGuild => copy[q].invites = {} /\ rows[q].guild = copy[q].guild
      BY DEF Orderly, NothingDangles
    <3> QED BY <3>1, <3>2, <3>3, <3>4
  <2>2. \A x \in guildInvites' : Exists(x[2])'
    BY <1>1, <1>3, SavedRows DEF Orderly, NothingDangles, Exists
  <2> QED BY <2>1, <2>2 DEF NothingDangles
<1>7. \A q \in Fellows, g \in GuildIds : Leads(q, g)' <=> Leads(q, g)
  BY <1>1, <1>2, <1>4, SavedRows DEF Leads, Leader, Guildless
<1>8. \A q \in Fellows, g \in GuildIds : rows'[q].guild = g => rows[q].guild = g
  BY <1>1, SavedRows
<1>9. \A g \in GuildIds : Led(g) /\ NotOver(g) => Led(g)' /\ NotOver(g)'
  BY <1>3, <1>7, <1>8, StaysLed, StaysSmall
<1>10. \A q \in Fellows \ here' : copy'[q] = Guildless
  BY <1>2, <1>4 DEF Orderly
<1> QED BY <1>3, <1>5, <1>6, <1>9, <1>10 DEF Orderly, Exists

LEMMA CrashKeeps == ASSUME Orderly, ServerCrashes PROVE Orderly'
<1> USE GuildsAssumption, IdFacts
<1>1. GuildsTypeOK'
  <2> DEFINE lost == {{copy[p].guild, rows[p].guild} \cap GuildIds :
                      p \in {q \in here : Of(copy[q]) # rows[q]}}
  <2>1. torn' \subseteq GuildIds
    <3>1. torn' = torn \cup UNION lost
      BY DEF ServerCrashes
    <3>2. \A S \in lost : S \subseteq GuildIds
      OBVIOUS
    <3> HIDE DEF lost
    <3> QED BY <3>1, <3>2 DEF Orderly, GuildsTypeOK
  <2>2. falls' \in 0..MaxFalls
    BY DEF Orderly, GuildsTypeOK, ServerCrashes
  <2> QED BY <2>1, <2>2, GuildlessType DEF Orderly, GuildsTypeOK, ServerCrashes
<1>2. NothingDangles'
  BY DEF Orderly, NothingDangles, ServerCrashes, Guildless, Exists
<1>3. ASSUME NEW g \in GuildIds, g \notin torn', NEW q \in Fellows PROVE Leads(q, g)' <=> Leads(q, g)
  <2>1. CASE q \in here /\ Of(copy[q]) # rows[q]
    <3>1. copy[q].guild # g /\ rows[q].guild # g
      BY <1>3, <2>1 DEF ServerCrashes
    <3> QED BY <2>1, <3>1 DEF Leads, ServerCrashes
  <2>2. CASE q \in here /\ Of(copy[q]) = rows[q]
    BY <2>2 DEF Leads, ServerCrashes, Of, Rank
  <2>3. CASE q \notin here
    BY <2>3 DEF Leads, ServerCrashes
  <2> QED BY <2>1, <2>2, <2>3
<1>4. \A g \in GuildIds : g \notin torn' => g \notin torn
  BY DEF ServerCrashes
<1>5. \A g \in GuildIds : g \notin torn' /\ Led(g) /\ NotOver(g) => Led(g)' /\ NotOver(g)'
  BY <1>3, StaysLed, StaysSmall DEF ServerCrashes
<1> QED BY <1>1, <1>2, <1>4, <1>5 DEF Orderly, ServerCrashes, Exists

-----------------------------------------------------------------------------
(* What follows from one fellow's getting a rank in g at once.              *)
LEMMA JoinedCopies ==
  ASSUME Orderly, NEW p \in here, NEW g \in GuildIds, NEW l \in 0..3, joinGuild(p, g, l),
         UNCHANGED here
  PROVE  /\ p \in Fellows
         /\ rows' \in [Fellows -> RankType]
         /\ copy' \in [Fellows -> [guild : GuildIds \cup {NoGuild}, level : 0..3, invites : SUBSET GuildIds]]
         /\ rows'[p] = Rank(g, l) /\ copy'[p] = Ranked(Guildless, g, l)
         /\ \A q \in Fellows \ {p} : rows'[q] = rows[q] /\ copy'[q] = copy[q]
         /\ Rank(g, l).guild = g /\ Rank(g, l).level = l
         /\ Ranked(Guildless, g, l).guild = g /\ Ranked(Guildless, g, l).level = l
         /\ Ranked(Guildless, g, l).invites = {}
<1>1. /\ Rank(g, l) \in RankType /\ Rank(g, l).guild = g /\ Rank(g, l).level = l
      /\ Ranked(Guildless, g, l) \in [guild : GuildIds \cup {NoGuild}, level : 0..3, invites : SUBSET GuildIds]
      /\ Ranked(Guildless, g, l).guild = g /\ Ranked(Guildless, g, l).level = l
      /\ Ranked(Guildless, g, l).invites = {}
  BY DEF RankType, Rank, Ranked, Guildless
<1> QED BY <1>1 DEF joinGuild, Orderly, GuildsTypeOK

LEMMA JoinKeeps ==
  ASSUME Orderly, NEW p \in Fellows, NEW g \in GuildIds, guildJoin(p, g) PROVE Orderly'
<1> USE GuildsAssumption, IdFacts
<1>0. p \in here /\ Member \in 0..3 /\ joinGuild(p, g, Member) /\ Exists(g) /\ copy[p].guild = NoGuild
  BY DEF guildJoin, Member
<1>1. UNCHANGED <<here, guildInvites, ownerid, given, torn, disowned>>
  BY DEF guildJoin
<1>2. GuildsTypeOK'
  BY <1>0, <1>1, JoinedCopies DEF Orderly, GuildsTypeOK, guildJoin, Decree
<1>3. NothingDangles'
  BY <1>0, <1>1, JoinedCopies DEF Orderly, NothingDangles, Exists
<1>4. \A q \in Fellows, h \in GuildIds : Leads(q, h)' <=> Leads(q, h)
  BY <1>0, <1>1, JoinedCopies DEF Leads, Member, Leader
<1>5. \A h \in GuildIds : Led(h) => Led(h)'
  BY <1>1, <1>4, StaysLed
<1>6. \A h \in GuildIds \ {g} : NotOver(h) => NotOver(h)'
  <2>1. \A h \in GuildIds \ {g} : \A q \in Fellows : rows'[q].guild = h => rows[q].guild = h
    BY <1>0, <1>1, JoinedCopies
  <2> QED BY <2>1, StaysSmall
<1>7. NotOver(g)'
  <2>1. Cardinality(Members(g)) < GuildMaxPlayer
    BY DEF guildJoin
  <2>2. Members(g)' = Members(g) \cup {p}
    BY <1>0, <1>1, JoinedCopies DEF Members
  <2>3. IsFiniteSet(Members(g))
    BY MembersFinite
  <2>4. Cardinality(Members(g) \cup {p}) =
          IF p \in Members(g) THEN Cardinality(Members(g)) ELSE Cardinality(Members(g)) + 1
    BY <2>3, FS_AddElement
  <2> QED BY <2>1, <2>2, <2>4, MembersFinite DEF NotOver
<1> QED BY <1>0, <1>1, <1>2, <1>3, <1>5, <1>6, <1>7, JoinedCopies DEF Orderly, Exists

LEMMA CreateKeeps ==
  ASSUME Orderly, NEW p \in Fellows, guildCreate(p) PROVE Orderly'
<1> USE GuildsAssumption, IdFacts
<1> DEFINE new == given + 1
           owned == {h \in GuildIds : ownerid'[h] = p}
<1>1. new \in GuildIds /\ ownerid' = [ownerid EXCEPT ![new] = p] /\ given' = new
  BY DEF guildCreate
<1>2. given \in Nat /\ new \notin disowned /\ ~Exists(new) /\ ownerid \in [GuildIds -> Fellows \cup {NoFellow}]
  BY <1>1 DEF Orderly, GuildsTypeOK
<1>3. Min(owned) \in owned
  <2>1. new \in owned /\ owned \in SUBSET Nat
    BY <1>1, <1>2
  <2> HIDE DEF owned
  <2> QED BY <2>1, SmallestIsOne
<1>4. PICK g \in GuildIds : /\ ownerid'[g] = p /\ joinGuild(p, g, Leader)
                            /\ torn' = IF g = new THEN torn ELSE torn \cup {g, new}
  BY <1>3 DEF guildCreate
<1>5. /\ p \in here /\ copy[p].guild = NoGuild /\ Leader \in 0..3
      /\ UNCHANGED <<here, guildInvites, disowned, falls>> /\ decrees' \in 0..MaxDecrees
  BY DEF guildCreate, Leader, Decree, Orderly, GuildsTypeOK
<1> HIDE DEF owned
<1>6. GuildsTypeOK'
  BY <1>1, <1>2, <1>4, <1>5, JoinedCopies DEF Orderly, GuildsTypeOK
<1>7. \A h \in GuildIds : Exists(h) => Exists(h)'
  BY <1>1, <1>2 DEF Exists
<1>8. Exists(g)'
  BY <1>4 DEF Exists
<1>9. NothingDangles'
  <2>1. ASSUME NEW q \in Fellows
        PROVE  /\ {rows'[q].guild, copy'[q].guild} \subseteq {NoGuild} \cup {h \in GuildIds : Exists(h)'}
               /\ \A h \in copy'[q].invites : h \in GuildIds /\ Exists(h)'
               /\ copy'[q].guild # NoGuild => copy'[q].invites = {} /\ rows'[q].guild = copy'[q].guild
    <3>1. CASE q = p
      <4>0. here' = here /\ joinGuild(p, g, Leader) /\ p \in here /\ Leader \in 0..3
        BY <1>4, <1>5
      <4>1. rows'[p] = Rank(g, Leader) /\ copy'[p] = Ranked(Guildless, g, Leader)
        BY <4>0 DEF joinGuild, Orderly, GuildsTypeOK
      <4>2. rows'[q].guild = g /\ copy'[q].guild = g /\ copy'[q].invites = {}
        BY <3>1, <4>1 DEF Rank, Ranked, Guildless
      <4>. QED BY <1>8, <4>2
    <3>2. CASE q # p
      <4>1. rows'[q] = rows[q] /\ copy'[q] = copy[q]
        BY <1>4, <1>5, <3>2, JoinedCopies
      <4>2. /\ {rows[q].guild, copy[q].guild} \subseteq {NoGuild} \cup {h \in GuildIds : Exists(h)}
            /\ \A h \in copy[q].invites : h \in GuildIds /\ Exists(h)
            /\ copy[q].guild # NoGuild => copy[q].invites = {} /\ rows[q].guild = copy[q].guild
        BY DEF Orderly, NothingDangles, GuildsTypeOK
      <4> QED BY <1>7, <4>1, <4>2
    <3> QED BY <3>1, <3>2
  <2>2. \A x \in guildInvites' : Exists(x[2])'
    BY <1>5, <1>7 DEF Orderly, NothingDangles, GuildsTypeOK
  <2> QED BY <2>1, <2>2 DEF NothingDangles
<1>10. ASSUME NEW h \in GuildIds, Exists(h)', h \notin torn' PROVE Led(h)' /\ NotOver(h)'
  <2>1. CASE h = new
    <3>1. g = new /\ \A q \in Fellows : rows[q].guild # new /\ copy[q].guild # new
      BY <1>2, <1>4, <1>10, <2>1 DEF Orderly, NothingDangles, NoGuild
    <3>2. \A q \in Fellows : Leads(q, h)' <=> q = p
      <4>1. \A q \in Fellows \ {p} : rows'[q].guild # g /\ copy'[q].guild # g
        <5>1. \A q \in Fellows \ {p} : rows'[q] = rows[q] /\ copy'[q] = copy[q]
          BY <1>4, <1>5, JoinedCopies
        <5> QED BY <3>1, <5>1
      <4>2. copy'[p].guild = g /\ copy'[p].level = Leader
        BY <1>4, <1>5, JoinedCopies
      <4> QED BY <1>5, <2>1, <3>1, <4>1, <4>2 DEF Leads
    <3>3. Led(h)'
      BY <1>4, <2>1, <3>1, <3>2 DEF Led
    <3>4. Members(h)' = {p}
      BY <1>4, <1>5, <2>1, <3>1, JoinedCopies DEF Members
    <3>5. Cardinality(Members(h)') = 1
      BY <3>4, FS_Singleton
    <3> QED BY <3>3, <3>5 DEF NotOver
  <2>2. CASE h # new
    <3>1. g # h
      BY <1>4, <1>10, <2>2
    <3>2. Exists(h) /\ h \notin torn /\ ownerid'[h] = ownerid[h]
      BY <1>1, <1>2, <1>4, <1>10, <2>2 DEF Exists
    <3>3. \A q \in Fellows : Leads(q, h)' <=> Leads(q, h)
      BY <1>4, <1>5, <3>1, JoinedCopies DEF Leads
    <3>4. \A q \in Fellows : rows'[q].guild = h => rows[q].guild = h
      BY <1>4, <1>5, <3>1, JoinedCopies
    <3> QED BY <1>5, <3>2, <3>3, <3>4, StaysLed, StaysSmall DEF Orderly
  <2> QED BY <2>1, <2>2
<1>11. \A h \in GuildIds : Exists(h)' => h <= given'
  BY <1>1, <1>2 DEF Orderly, Exists
<1>12. \A q \in Fellows \ here' : copy'[q] = Guildless
  <2>1. here' = here /\ \A q \in Fellows \ {p} : copy'[q] = copy[q]
    BY <1>4, <1>5, JoinedCopies
  <2>2. \A q \in Fellows \ here : copy[q] = Guildless
    BY DEF Orderly
  <2> QED BY <1>5, <2>1, <2>2
<1>13. \A h \in disowned' : h <= given'
  <2>1. disowned' = disowned /\ given' = given + 1 /\ disowned \subseteq GuildIds
    BY <1>1, <1>5 DEF Orderly, GuildsTypeOK
  <2>2. \A h \in disowned : h \in Nat /\ h <= given
    BY <2>1 DEF Orderly
  <2> QED BY <1>2, <2>1, <2>2
<1> QED BY <1>6, <1>9, <1>10, <1>11, <1>12, <1>13 DEF Orderly

LEMMA DisbandKeeps == ASSUME Orderly, NEW p \in Fellows, disband(p) PROVE Orderly'
<1> USE GuildsAssumption, IdFacts
<1>1. PICK g \in GuildIds : /\ disbandGuild(g) /\ UNCHANGED <<here, given, torn, disowned, falls>>
                            /\ decrees' \in 0..MaxDecrees
  <2>1. disbandGuild(copy[p].guild) /\ copy[p].guild \in GuildIds
    BY DEF disband, Decreed, Exists
  <2>2. UNCHANGED <<here, given, torn, disowned, falls>> /\ decrees' \in 0..MaxDecrees
    BY DEF disband, Decreed, Decree, Orderly, GuildsTypeOK
  <2> QED BY <2>1, <2>2
<1>2. /\ ownerid' \in [GuildIds -> Fellows \cup {NoFellow}]
      /\ \A h \in GuildIds : Exists(h)' <=> Exists(h) /\ h # g
      /\ \A h \in GuildIds \ {g} : ownerid'[h] = ownerid[h]
  BY <1>1 DEF disbandGuild, Orderly, GuildsTypeOK, Exists
<1>3. /\ guildInvites' \subseteq Fellows \X GuildIds
      /\ \A x \in guildInvites' : x \in guildInvites /\ x[2] # g
  BY <1>1 DEF disbandGuild, Orderly, GuildsTypeOK
<1>4. /\ rows' \in [Fellows -> RankType]
      /\ \A q \in Fellows : rows'[q] = IF rows[q].guild = g THEN NoRank ELSE rows[q]
      /\ NoRank.guild = NoGuild
  BY <1>1 DEF disbandGuild, Orderly, GuildsTypeOK, NoRank, Rank, RankType, NoGuild
<1>5. ASSUME NEW q \in Fellows
      PROVE  /\ copy'[q] \in [guild : GuildIds \cup {NoGuild}, level : 0..3, invites : SUBSET GuildIds]
             /\ q \notin here => copy'[q] = copy[q]
             /\ copy'[q].guild = (IF q \in here /\ copy[q].guild = g THEN NoGuild ELSE copy[q].guild)
             /\ copy'[q].guild # NoGuild => copy'[q].level = copy[q].level
             /\ copy'[q].invites \subseteq copy[q].invites
             /\ q \in here /\ copy[q].guild # g => g \notin copy'[q].invites
  <2>1. copy'[q] = IF q \notin here THEN copy[q]
                   ELSE IF copy[q].guild = g THEN leaveGuild(copy[q]) ELSE Forgets(copy[q], g)
    BY <1>1 DEF disbandGuild
  <2>2. copy[q] \in [guild : GuildIds \cup {NoGuild}, level : 0..3, invites : SUBSET GuildIds]
    BY DEF Orderly, GuildsTypeOK
  <2>3. CASE q \notin here
    BY <2>1, <2>2, <2>3
  <2>4. CASE q \in here /\ copy[q].guild = g
    BY <2>1, <2>2, <2>4, LeftCopy
  <2>5. CASE q \in here /\ copy[q].guild # g
    BY <2>1, <2>2, <2>5 DEF Forgets
  <2> QED BY <2>3, <2>4, <2>5
<1>6. GuildsTypeOK'
  <2>1. copy' \in [Fellows -> [guild : GuildIds \cup {NoGuild}, level : 0..3, invites : SUBSET GuildIds]]
    <3>1. copy' = [q \in Fellows |-> copy'[q]]
      BY <1>1 DEF disbandGuild
    <3> QED BY <1>5, <3>1
  <2> QED BY <1>1, <1>2, <1>3, <1>4, <2>1 DEF Orderly, GuildsTypeOK
<1>7. NothingDangles'
  <2>1. ASSUME NEW q \in Fellows
        PROVE  /\ {rows'[q].guild, copy'[q].guild} \subseteq {NoGuild} \cup {h \in GuildIds : Exists(h)'}
               /\ \A h \in copy'[q].invites : h \in GuildIds /\ Exists(h)'
               /\ copy'[q].guild # NoGuild => copy'[q].invites = {} /\ rows'[q].guild = copy'[q].guild
    <3>1. /\ {rows[q].guild, copy[q].guild} \subseteq {NoGuild} \cup {h \in GuildIds : Exists(h)}
          /\ \A h \in copy[q].invites : h \in GuildIds /\ Exists(h)
          /\ copy[q].guild # NoGuild => copy[q].invites = {} /\ rows[q].guild = copy[q].guild
          /\ q \notin here => copy[q].guild = NoGuild /\ copy[q].invites = {}
      BY GuildlessType DEF Orderly, NothingDangles, GuildsTypeOK
    <3>2. \A h \in GuildIds \ {g} : Exists(h) => Exists(h)'
      BY <1>2 DEF Exists
    <3>3. /\ rows'[q].guild = IF rows[q].guild = g THEN NoGuild ELSE rows[q].guild
          /\ copy'[q].guild = IF q \in here /\ copy[q].guild = g THEN NoGuild ELSE copy[q].guild
          /\ copy'[q].invites \subseteq copy[q].invites
      BY <1>4, <1>5
    <3>4. g \notin copy'[q].invites /\ copy'[q].guild # g
      BY <1>5, <3>1, <3>3
    <3>5. {rows'[q].guild, copy'[q].guild} \subseteq {NoGuild} \cup {h \in GuildIds : Exists(h)'}
      <4>1. rows'[q].guild # g
        BY <3>3
      <4> QED BY <3>1, <3>2, <3>3, <3>4, <4>1
    <3>6. \A h \in copy'[q].invites : h \in GuildIds /\ Exists(h)'
      BY <3>1, <3>2, <3>3, <3>4
    <3>7. copy'[q].guild # NoGuild => copy'[q].invites = {} /\ rows'[q].guild = copy'[q].guild
      BY <3>1, <3>3, <3>4
    <3> QED BY <3>5, <3>6, <3>7
  <2>2. \A x \in guildInvites' : Exists(x[2])'
    BY <1>2, <1>3 DEF Orderly, NothingDangles, GuildsTypeOK
  <2> QED BY <2>1, <2>2 DEF NothingDangles
<1>8. ASSUME NEW h \in GuildIds, Exists(h)', h \notin torn' PROVE Led(h)' /\ NotOver(h)'
  <2>1. Exists(h) /\ h # g /\ h \notin torn
    BY <1>1, <1>2, <1>8
  <2>2. \A q \in Fellows : Leads(q, h)' <=> Leads(q, h)
    BY <1>1, <1>4, <1>5, <2>1 DEF Leads
  <2>3. \A q \in Fellows : rows'[q].guild = h => rows[q].guild = h
    BY <1>4
  <2> QED BY <1>1, <1>2, <2>1, <2>2, <2>3, StaysLed, StaysSmall DEF Orderly
<1> QED BY <1>1, <1>2, <1>5, <1>6, <1>7, <1>8 DEF Orderly

-----------------------------------------------------------------------------
(* An order that founds and ends no guild, lets nobody in and makes no      *)
(* leader needs only to keep what the copies and the rows say consistent.   *)
LEMMA OrderKeeps ==
  ASSUME Orderly, GuildsTypeOK', NothingDangles',
         UNCHANGED <<here, ownerid, given, torn, disowned>>,
         \A q \in Fellows \ here : copy'[q] = copy[q],
         \A q \in Fellows, g \in GuildIds : rows'[q].guild = g => rows[q].guild = g,
         \A g \in GuildIds : Led(g) /\ Exists(g) /\ g \notin torn =>
           \A q \in Fellows : Leads(q, g)' <=> Leads(q, g)
  PROVE  Orderly'
<1>1. ASSUME NEW g \in GuildIds, Exists(g)', g \notin torn' PROVE Led(g)' /\ NotOver(g)'
  <2>1. Exists(g) /\ g \notin torn
    BY <1>1 DEF Exists
  <2>2. Led(g) /\ NotOver(g)
    BY <2>1 DEF Orderly
  <2> QED BY <2>1, <2>2, StaysLed, StaysSmall
<1> QED BY <1>1 DEF Orderly, Exists

\* What an order knows of the guild of who gives it.
LEMMA DecreedFacts ==
  ASSUME Orderly, NEW p \in Fellows, NEW least \in 0..3, Decreed(p, least)
  PROVE  /\ p \in here /\ copy[p].guild \in GuildIds /\ copy[p].guild # NoGuild
         /\ Exists(copy[p].guild) /\ copy[p].level >= least
         /\ decrees' \in 0..MaxDecrees /\ falls' \in 0..MaxFalls
<1>1. decrees' \in 0..MaxDecrees /\ falls' \in 0..MaxFalls
  BY GuildsAssumption DEF Decreed, Decree, Orderly, GuildsTypeOK
<1> QED BY <1>1, IdFacts DEF Decreed, Exists

LEMMA InvitesKeep ==
  ASSUME Orderly, NEW p \in Fellows, NEW q \in Fellows, invite(p, q) \/ revoke(p, q)
  PROVE  Orderly'
<1> USE GuildsAssumption
<1>1. PICK g \in GuildIds :
        /\ g = copy[p].guild /\ Exists(g)
        /\ decrees' \in 0..MaxDecrees /\ falls' \in 0..MaxFalls
        /\ InviteHere(p, q, g) \/ InviteAway(p, q, g) \/ RevokeHere(p, q, g) \/ RevokeAway(p, q, g)
  <2>1. Vice \in 0..3 /\ Decreed(p, Vice)
    BY DEF invite, revoke, Vice
  <2>2. copy[p].guild \in GuildIds /\ Exists(copy[p].guild) /\ decrees' \in 0..MaxDecrees
        /\ falls' \in 0..MaxFalls
    BY <2>1, DecreedFacts
  <2> QED BY <2>2 DEF invite, revoke
<1>2. UNCHANGED <<here, rows, ownerid, given, torn, disowned>>
  BY DEF invite, revoke
<1>3. copy[q] \in [guild : GuildIds \cup {NoGuild}, level : 0..3, invites : SUBSET GuildIds]
  BY DEF Orderly, GuildsTypeOK
<1>4. /\ copy' \in [Fellows -> [guild : GuildIds \cup {NoGuild}, level : 0..3, invites : SUBSET GuildIds]]
      /\ guildInvites' \subseteq Fellows \X GuildIds
      /\ \A x \in guildInvites' : x \in guildInvites \/ x[2] = g
  BY <1>1, <1>3 DEF InviteHere, InviteAway, RevokeHere, RevokeAway, Orderly, GuildsTypeOK
<1>5. ASSUME NEW r \in Fellows
      PROVE  /\ copy'[r].guild = copy[r].guild /\ copy'[r].level = copy[r].level
             /\ copy'[r].invites \subseteq copy[r].invites \cup {g}
             /\ r \notin here \/ copy[r].guild # NoGuild => copy'[r] = copy[r]
  BY <1>1, <1>3 DEF InviteHere, InviteAway, RevokeHere, RevokeAway, Orderly, GuildsTypeOK
<1>6. GuildsTypeOK'
  BY <1>1, <1>2, <1>4 DEF Orderly, GuildsTypeOK
<1>7. NothingDangles'
  BY <1>1, <1>2, <1>4, <1>5 DEF Orderly, NothingDangles, Exists
<1>8. \A r \in Fellows, h \in GuildIds : Leads(r, h)' <=> Leads(r, h)
  BY <1>2, <1>5 DEF Leads
<1> QED BY <1>2, <1>5, <1>6, <1>7, <1>8, OrderKeeps

LEMMA LeaveKeeps == ASSUME Orderly, NEW p \in Fellows, leave(p) PROVE Orderly'
<1> USE GuildsAssumption
<1>1. /\ p \in here /\ copy[p].guild # NoGuild
      /\ decrees' \in 0..MaxDecrees /\ falls' \in 0..MaxFalls
  BY DecreedFacts DEF leave, Member
<1>2. copy[p] \in [guild : GuildIds \cup {NoGuild}, level : 0..3, invites : SUBSET GuildIds]
  BY DEF Orderly, GuildsTypeOK
<1>3. /\ copy' = [copy EXCEPT ![p] = leaveGuild(copy[p])] /\ copy[p].level # Leader
      /\ UNCHANGED <<here, rows, guildInvites, ownerid, given, torn, disowned>>
  BY <1>2 DEF leave, Leader
<1>4. GuildsTypeOK'
  BY <1>1, <1>2, <1>3, LeftCopy DEF Orderly, GuildsTypeOK
<1>5. ASSUME NEW q \in Fellows
      PROVE  /\ q # p => copy'[q] = copy[q]
             /\ q = p => copy'[q].guild = NoGuild /\ copy'[q].invites = copy[q].invites
  BY <1>2, <1>3, LeftCopy DEF Orderly, GuildsTypeOK
<1>6. NothingDangles'
  BY <1>3, <1>5 DEF Orderly, NothingDangles, Exists
<1>7. \A q \in Fellows, g \in GuildIds : Leads(q, g)' <=> Leads(q, g)
  BY <1>1, <1>3, <1>5, IdFacts DEF Leads
<1> QED BY <1>1, <1>3, <1>4, <1>5, <1>6, <1>7, OrderKeeps

LEMMA RankOfFacts ==
  ASSUME Orderly, NEW q \in Fellows
  PROVE  /\ RankOf(q) \in RankType
         /\ q \in here => RankOf(q).guild = copy[q].guild /\ RankOf(q).level = copy[q].level
         /\ q \notin here => RankOf(q) = rows[q]
BY DEF Orderly, GuildsTypeOK, RankOf, Of, Rank, RankType

LEMMA Relevelled ==
  ASSUME Orderly, NEW q \in Fellows, NEW l \in 0..3
  PROVE  /\ rows' = [rows EXCEPT ![q].level = l] => rows' \in [Fellows -> RankType]
         /\ copy' = [copy EXCEPT ![q].level = l] => copy' \in
              [Fellows -> [guild : GuildIds \cup {NoGuild}, level : 0..3, invites : SUBSET GuildIds]]
<1>1. rows[q] \in RankType /\ rows \in [Fellows -> RankType]
  BY DEF Orderly, GuildsTypeOK
<1>2. [rows[q] EXCEPT !.level = l] \in RankType
  BY <1>1 DEF RankType
<1>3. [rows EXCEPT ![q].level = l] \in [Fellows -> RankType]
  BY <1>1, <1>2
<1> QED BY <1>3 DEF Orderly, GuildsTypeOK

\* Raising a member, or lowering a vice leader.
LEMMA LevelsKeep ==
  ASSUME Orderly, NEW p \in Fellows, NEW q \in Fellows, promote(p, q) \/ demote(p, q)
  PROVE  Orderly'
<1> USE GuildsAssumption
<1>1. PICK l \in 0..3 : setGuildLevel(q, l) /\ l # Leader /\ RankOf(q).level # Leader
  BY DEF promote, demote, Member, Vice, Leader
<1>2. /\ decrees' \in 0..MaxDecrees /\ falls' \in 0..MaxFalls
      /\ UNCHANGED <<here, guildInvites, ownerid, given, torn, disowned>>
  BY DecreedFacts DEF promote, demote, Leader
<1>3. \/ q \in here /\ copy' = [copy EXCEPT ![q].level = l] /\ rows' = rows
      \/ q \notin here /\ rows' = [rows EXCEPT ![q].level = l] /\ copy' = copy
  BY <1>1 DEF setGuildLevel
<1>4. /\ copy[q] \in [guild : GuildIds \cup {NoGuild}, level : 0..3, invites : SUBSET GuildIds]
      /\ rows[q] \in RankType
  BY DEF Orderly, GuildsTypeOK
<1>5. /\ rows' \in [Fellows -> RankType]
      /\ copy' \in [Fellows -> [guild : GuildIds \cup {NoGuild}, level : 0..3, invites : SUBSET GuildIds]]
  <2>1. CASE q \in here
    <3>1. copy' = [copy EXCEPT ![q].level = l] /\ rows' = rows
      BY <1>3, <2>1
    <3> QED BY <3>1, Relevelled, Zenon DEF Orderly, GuildsTypeOK
  <2>2. CASE q \notin here
    <3>1. rows' = [rows EXCEPT ![q].level = l] /\ copy' = copy
      BY <1>3, <2>2
    <3> QED BY <3>1, Relevelled, Zenon DEF Orderly, GuildsTypeOK
  <2> QED BY <2>1, <2>2
<1>6. ASSUME NEW r \in Fellows
      PROVE  /\ rows'[r].guild = rows[r].guild /\ copy'[r].guild = copy[r].guild
             /\ copy'[r].invites = copy[r].invites
             /\ r # q => rows'[r] = rows[r] /\ copy'[r] = copy[r]
             /\ r \notin here => copy'[r] = copy[r]
  <2>1. CASE q \in here
    BY <1>3, <1>4, <2>1 DEF Orderly, GuildsTypeOK
  <2>2. CASE q \notin here
    BY <1>3, <1>4, <2>2 DEF Orderly, GuildsTypeOK, RankType
  <2> QED BY <2>1, <2>2
<1>7. GuildsTypeOK'
  BY <1>2, <1>5 DEF Orderly, GuildsTypeOK
<1>8. NothingDangles'
  BY <1>2, <1>6 DEF Orderly, NothingDangles, Exists
<1>9. \A g \in GuildIds : ~Leads(q, g) /\ ~Leads(q, g)'
  <2>1. CASE q \in here
    <3>1. copy[q].level # Leader /\ copy'[q].level = l
      BY <1>1, <1>3, <1>4, <2>1, RankOfFacts DEF Orderly, GuildsTypeOK
    <3> QED BY <1>1, <1>2, <2>1, <3>1 DEF Leads
  <2>2. CASE q \notin here
    <3>1. rows[q].level # Leader /\ rows'[q].level = l
      BY <1>1, <1>3, <1>4, <2>2, RankOfFacts DEF Orderly, GuildsTypeOK, RankType
    <3> QED BY <1>1, <1>2, <2>2, <3>1 DEF Leads
  <2> QED BY <2>1, <2>2
<1>10. \A r \in Fellows, g \in GuildIds : Leads(r, g)' <=> Leads(r, g)
  BY <1>2, <1>6, <1>9 DEF Leads
<1> QED BY <1>2, <1>6, <1>7, <1>8, <1>10, OrderKeeps

LEMMA KickKeeps ==
  ASSUME Orderly, NEW p \in Fellows, NEW q \in Fellows, kick(p, q) PROVE Orderly'
<1> USE GuildsAssumption
<1>1. PICK g \in GuildIds : g = copy[p].guild
  BY DecreedFacts DEF kick, Leader
<1>2. /\ p \in here /\ copy[p].level = Leader /\ RankOf(q).guild = g
      /\ decrees' \in 0..MaxDecrees /\ falls' \in 0..MaxFalls
      /\ UNCHANGED <<here, guildInvites, ownerid, given, torn, disowned>>
  BY <1>1, DecreedFacts DEF kick, Leader, InGuildOf, Orderly, GuildsTypeOK
<1>3. \/ /\ q \in here /\ copy[q].level # Leader
         /\ copy' = [copy EXCEPT ![q] = leaveGuild(copy[q])] /\ rows' = rows
      \/ q \notin here /\ rows' = [rows EXCEPT ![q] = NoRank] /\ copy' = copy
  BY <1>2 DEF kick, KickHere, resetGuildInformation, Leader, Orderly, GuildsTypeOK
<1>4. /\ copy[q] \in [guild : GuildIds \cup {NoGuild}, level : 0..3, invites : SUBSET GuildIds]
      /\ NoRank \in RankType /\ NoRank.guild = NoGuild
  BY DEF Orderly, GuildsTypeOK, NoRank, Rank, RankType, NoGuild
<1>5. GuildsTypeOK'
  BY <1>2, <1>3, <1>4, LeftCopy DEF Orderly, GuildsTypeOK
<1>6. ASSUME NEW r \in Fellows
      PROVE  /\ r # q => copy'[r] = copy[r] /\ rows'[r] = rows[r]
             /\ rows'[q].guild = (IF q \in here THEN rows[q].guild ELSE NoGuild)
             /\ copy'[q].guild = NoGuild /\ copy'[q].invites = copy[q].invites
             /\ r \notin here => copy'[r] = copy[r]
  BY <1>3, <1>4, LeftCopy, GuildlessType DEF Orderly, GuildsTypeOK
<1>7. NothingDangles'
  BY <1>2, <1>6 DEF Orderly, NothingDangles, Exists
<1>8. ASSUME NEW h \in GuildIds, Led(h), NEW r \in Fellows PROVE Leads(r, h)' <=> Leads(r, h)
  <2>1. CASE r # q
    BY <1>2, <1>6, <2>1 DEF Leads
  <2>2. CASE r = q
    <3>1. ~Leads(q, h)'
      BY <1>2, <1>6, IdFacts DEF Leads
    <3>2. CASE q \in here
      BY <1>3, <2>2, <3>1, <3>2 DEF Leads
    <3>3. CASE q \notin here
      <4>1. rows[q].guild = g
        BY <1>2, <3>3, RankOfFacts
      <4>2. Leads(p, g) /\ p # q
        BY <1>1, <1>2, <3>3 DEF Leads
      <4>3. ~Leads(q, h)
        BY <1>8, <3>3, <4>1, <4>2 DEF Leads, Led
      <4> QED BY <2>2, <3>1, <4>3
    <3> QED BY <3>2, <3>3
  <2> QED BY <2>1, <2>2
<1>9. \A r \in Fellows, h \in GuildIds : rows'[r].guild = h => rows[r].guild = h
  BY <1>6, IdFacts
<1> QED BY <1>2, <1>5, <1>6, <1>7, <1>8, <1>9, OrderKeeps

\* A leader is not the vice leader he makes leader; whoever led the guild was he.
LEMMA PassKeeps ==
  ASSUME Orderly, NEW p \in Fellows, NEW q \in Fellows, passLeadership(p, q) PROVE Orderly'
<1> USE GuildsAssumption
<1>1. PICK g \in GuildIds : g = copy[p].guild
  BY DecreedFacts DEF passLeadership, Leader
<1>2. /\ p \in here /\ copy[p].level = Leader /\ p # q
      /\ RankOf(q).guild = g /\ RankOf(q).level = Vice
      /\ decrees' \in 0..MaxDecrees /\ falls' \in 0..MaxFalls
      /\ UNCHANGED <<here, guildInvites, given, torn>>
  <2>1. p \in here /\ copy[p].level = Leader /\ decrees' \in 0..MaxDecrees /\ falls' \in 0..MaxFalls
    BY DecreedFacts DEF passLeadership, Leader, Orderly, GuildsTypeOK
  <2>2. RankOf(q).guild = g /\ RankOf(q).level = Vice
    BY <1>1 DEF passLeadership, InGuildOf
  <2>3. p # q
    BY <2>1, <2>2, RankOfFacts DEF Vice, Leader
  <2> QED BY <2>1, <2>2, <2>3 DEF passLeadership
<1>3. /\ copy[q] \in [guild : GuildIds \cup {NoGuild}, level : 0..3, invites : SUBSET GuildIds]
      /\ copy[p] \in [guild : GuildIds \cup {NoGuild}, level : 0..3, invites : SUBSET GuildIds]
      /\ rows[q] \in RankType /\ Vice \in 0..3 /\ Leader \in 0..3 /\ Vice # Leader
      /\ g \in Nat /\ g # NoGuild
  BY IdFacts DEF Orderly, GuildsTypeOK, Vice, Leader
<1>4. IF q \in here THEN copy[q].guild = g ELSE rows[q].guild = g
  BY <1>2, RankOfFacts
<1>5. \/ /\ q \in here /\ rows' = rows
         /\ copy' = [copy EXCEPT ![q].level = Leader, ![p].level = Vice]
         /\ ownerid' = [ownerid EXCEPT ![g] = q] /\ disowned' = disowned \ {g}
      \/ /\ q \notin here /\ rows' = [rows EXCEPT ![q].level = Leader]
         /\ copy' = [copy EXCEPT ![p].level = Vice]
         /\ ownerid' = ownerid /\ disowned' = disowned \cup {g}
  BY <1>4 DEF passLeadership, PassHere, PassAway
<1>6. ASSUME NEW r \in Fellows
      PROVE  /\ rows'[r].guild = rows[r].guild /\ copy'[r].guild = copy[r].guild
             /\ copy'[r].invites = copy[r].invites
             /\ r \notin {p, q} => rows'[r] = rows[r] /\ copy'[r] = copy[r]
             /\ r \notin here => copy'[r] = copy[r]
  <2>1. CASE q \in here
    BY <1>2, <1>3, <1>5, <2>1 DEF Orderly, GuildsTypeOK
  <2>2. CASE q \notin here
    BY <1>2, <1>3, <1>5, <2>2 DEF Orderly, GuildsTypeOK, RankType
  <2> QED BY <2>1, <2>2
<1>7. /\ copy'[p].level = Vice
      /\ q \in here => copy'[q].level = Leader
      /\ q \notin here => rows'[q].level = Leader
  <2>1. CASE q \in here
    BY <1>2, <1>3, <1>5, <2>1 DEF Orderly, GuildsTypeOK
  <2>2. CASE q \notin here
    BY <1>2, <1>3, <1>5, <2>2 DEF Orderly, GuildsTypeOK, RankType
  <2> QED BY <2>1, <2>2
<1>8. GuildsTypeOK'
  <2>1. CASE q \in here
    <3>1. /\ copy' = [copy EXCEPT ![q].level = Leader, ![p].level = Vice] /\ rows' = rows
          /\ ownerid' = [ownerid EXCEPT ![g] = q] /\ disowned' = disowned \ {g}
      BY <1>5, <2>1
    <3>2. copy' \in [Fellows -> [guild : GuildIds \cup {NoGuild}, level : 0..3, invites : SUBSET GuildIds]]
      <4>1. copy \in [Fellows -> [guild : GuildIds \cup {NoGuild}, level : 0..3, invites : SUBSET GuildIds]]
        BY DEF Orderly, GuildsTypeOK
      <4>2. [copy EXCEPT ![q].level = Leader] \in
              [Fellows -> [guild : GuildIds \cup {NoGuild}, level : 0..3, invites : SUBSET GuildIds]]
        BY <1>3, <4>1
      <4>3. copy' = [[copy EXCEPT ![q].level = Leader] EXCEPT ![p].level = Vice]
        BY <3>1
      <4> QED BY <1>3, <4>2, <4>3
    <3> QED BY <1>2, <3>1, <3>2 DEF Orderly, GuildsTypeOK
  <2>2. CASE q \notin here
    <3>1. /\ copy' \in [Fellows -> [guild : GuildIds \cup {NoGuild}, level : 0..3, invites : SUBSET GuildIds]]
          /\ rows' \in [Fellows -> RankType]
      <4>1. copy' = [copy EXCEPT ![p].level = Vice] /\ rows' = [rows EXCEPT ![q].level = Leader]
        BY <1>5, <2>2
      <4> QED BY <1>3, <4>1, Relevelled, Zenon
    <3> QED BY <1>2, <1>5, <2>2, <3>1 DEF Orderly, GuildsTypeOK
  <2> QED BY <2>1, <2>2
<1>9. \A h \in GuildIds : Exists(h)' <=> Exists(h)
  <2>1. Exists(g)
    BY <1>1, DecreedFacts DEF passLeadership, Leader
  <2> QED BY <1>5, <2>1 DEF Exists, Orderly, GuildsTypeOK
<1>10. NothingDangles'
  BY <1>2, <1>6, <1>9 DEF Orderly, NothingDangles, GuildsTypeOK
<1>11. ASSUME NEW h \in GuildIds, Exists(h)', h \notin torn' PROVE Led(h)' /\ NotOver(h)'
  <2>1. Led(h) /\ NotOver(h)
    BY <1>2, <1>9, <1>11 DEF Orderly
  <2>2. NotOver(h)'
    BY <1>6, <2>1, StaysSmall
  <2>3. CASE h = g
    <3>1. Leads(p, g)
      BY <1>1, <1>2 DEF Leads
    <3>2. \A r \in Fellows : Leads(r, g) => r = p
      BY <2>1, <2>3, <3>1 DEF Led
    <3>3. \A r \in Fellows : Leads(r, g)' <=> r = q
      BY <1>2, <1>3, <1>4, <1>6, <1>7, <3>2 DEF Leads
    <3>4. g \in disowned' \/ ownerid'[g] = q
      BY <1>5 DEF Orderly, GuildsTypeOK
    <3> QED BY <2>2, <2>3, <3>3, <3>4 DEF Led
  <2>4. CASE h # g
    <3>1. \A r \in Fellows : Leads(r, h)' <=> Leads(r, h)
      <4>1. copy[p].guild # h /\ (q \in here => copy[q].guild # h) /\ (q \notin here => rows[q].guild # h)
        BY <1>1, <1>4, <2>4
      <4> QED BY <1>2, <1>6, <4>1 DEF Leads
    <3>2. ownerid'[h] = ownerid[h] /\ (h \in disowned => h \in disowned')
      BY <1>5, <2>4 DEF Orderly, GuildsTypeOK
    <3> QED BY <2>1, <2>2, <3>1, <3>2, StaysLed
  <2> QED BY <2>3, <2>4
<1>12. g <= given
  <2>1. Exists(g)
    BY <1>1, DecreedFacts DEF passLeadership, Leader
  <2> QED BY <2>1 DEF Orderly
<1> QED BY <1>2, <1>5, <1>6, <1>8, <1>9, <1>10, <1>11, <1>12 DEF Orderly

-----------------------------------------------------------------------------
LEMMA OrderlyStep == Orderly /\ [GuildsNext]_guildVars => Orderly'
<1> SUFFICES ASSUME Orderly, [GuildsNext]_guildVars PROVE Orderly'
  OBVIOUS
<1>1. ASSUME NEW p \in Fellows,
             Enters(p) \/ Leaves(p) \/ IsSaved(p) \/ guildCreate(p) \/ disband(p) \/ leave(p)
      PROVE  Orderly'
  BY <1>1, EntersKeeps, SavingKeeps, CreateKeeps, DisbandKeeps, LeaveKeeps
<1>2. ASSUME NEW p \in Fellows, NEW q \in Fellows,
             \/ invite(p, q) \/ revoke(p, q) \/ promote(p, q) \/ demote(p, q)
             \/ passLeadership(p, q) \/ kick(p, q)
      PROVE  Orderly'
  BY <1>2, InvitesKeep, LevelsKeep, PassKeeps, KickKeeps
<1>3. CASE UNCHANGED guildVars
  <2>1. GuildsTypeOK' /\ NothingDangles'
    BY <1>3 DEF guildVars, Orderly, GuildsTypeOK, NothingDangles, Exists
  <2>2. \A p \in Fellows, g \in GuildIds : Leads(p, g)' <=> Leads(p, g)
    BY <1>3 DEF guildVars, Leads
  <2> QED BY <1>3, <2>1, <2>2, OrderKeeps DEF guildVars
<1> QED BY <1>1, <1>2, <1>3, JoinKeeps, CrashKeeps DEF GuildsNext

\* What the ranks say of a guild follows from what its leader and the table say.
LEMMA OrderlyIsSound == Orderly => GuildsSound
<1> SUFFICES ASSUME Orderly PROVE GuildsSound
  OBVIOUS
<1>1. ASSUME NEW g \in GuildIds, Exists(g), g \notin torn
      PROVE  /\ Cardinality(Leaders(g)) = 1
             /\ g \in disowned \/ Leaders(g) = {ownerid[g]}
             /\ Cardinality({p \in Fellows : RankOf(p).guild = g}) <= GuildMaxPlayer
  <2>1. Led(g) /\ NotOver(g)
    BY <1>1 DEF Orderly
  <2>2. \A p \in Fellows : RankOf(p) = Rank(g, Leader) <=> Leads(p, g)
    BY RankOfFacts DEF Leads, Rank, RankType
  <2>3. PICK p \in Fellows : Leaders(g) = {p} /\ (g \in disowned \/ ownerid[g] = p)
    BY <2>1, <2>2 DEF Led, Leaders
  <2>4. Cardinality(Leaders(g)) = 1
    BY <2>3, FS_Singleton
  <2>5. {q \in Fellows : RankOf(q).guild = g} \in SUBSET Members(g)
    BY RankOfFacts, IdFacts DEF Members, Orderly, NothingDangles
  <2>6. Cardinality({q \in Fellows : RankOf(q).guild = g}) <= Cardinality(Members(g))
    BY <2>5, MembersFinite, FS_Subset
  <2>7. Cardinality({q \in Fellows : RankOf(q).guild = g}) \in Nat
    BY <2>5, MembersFinite, FS_Subset, FS_CardinalityType
  <2> QED BY <2>1, <2>3, <2>4, <2>6, <2>7, MembersFinite, GuildsAssumption DEF NotOver
<1> QED BY <1>1 DEF GuildsSound, OneLeader, Orderly

(* Nobody is in a guild that is no more, or is invited to one; a guild has  *)
(* one leader and no more members than it may, whoever comes and goes       *)
(* between the orders, and after crashes that no copy was lost in.          *)
THEOREM GuildsStaySound == GuildsSpec => []GuildsSound
BY OrderlyInit, OrderlyStep, OrderlyIsSound, PTL DEF GuildsSpec

-----------------------------------------------------------------------------
(* The wars.                                                                *)

\* What became of an invitation that was accepted.
Fought == On \cup {"over"}
Begun == {w \in DOMAIN wars : wars[w].status \in Fought}
Paid == {w \in DOMAIN wars : wars[w].paid > 0}
Total(s) == balance[s] + balance[Other(s)]

(* The bounds of the types: every kill that is counted, every end that is   *)
(* to come and every payment stands for a kill of its own.                  *)
Bounded ==
  /\ Len(ending) <= frags
  /\ \A w \in DOMAIN wars : /\ wars[w].paid + Len(ending) <= frags
                            /\ \A s \in Sides : wars[w].kills[s] <= frags
  /\ \A i \in DOMAIN ending : \A s \in Sides : ending[i].kills[s] <= frags
  /\ \A s \in Sides : balance[s] + 2 * Len(ending) <= Purse0 + 2 * frags

\* A war somebody goes on with was accepted, and has not been paid.
KnownIsUnpaid ==
  /\ \A p \in Soldiers : warMap[p] # NoWar =>
       /\ p \in inGame /\ warMap[p] \in DOMAIN wars
       /\ wars[warMap[p]].status \in Fought /\ wars[warMap[p]].paid = 0
  /\ \A w \in DOMAIN wars :
       /\ wars[w].paid > 0 => wars[w].status = "over"
       /\ wars[w].paid = 0 => \A s \in Sides : wars[w].kills[s] < FragLimit

\* An end that is to come is the only one of its war, and will be paid first.
EndsOnce ==
  \A i \in DOMAIN ending :
    /\ ending[i].war \in DOMAIN wars /\ wars[ending[i].war].status \in Fought
    /\ ending[i].war \notin late =>
         /\ wars[ending[i].war].paid = 0 /\ ending[i].kills[ending[i].side] = FragLimit
         /\ \A j \in DOMAIN ending : ending[j].war = ending[i].war => j = i

PaidRight ==
  \A w \in DOMAIN wars : w \notin late =>
    /\ wars[w].paid <= 1
    /\ wars[w].paid = 1 => \E s \in Sides : wars[w].kills[s] = FragLimit

\* Until wars cross there is one at a time, and no end is to come of another.
OneAtATime ==
  crossed \/ /\ \A v, w \in Active : v = w
             /\ \A i \in DOMAIN ending : Active \subseteq {ending[i].war}
             /\ EnemiesKnown

\* Each declared war has taken one stake, each that began another, and who is paid gets two.
StakesCounted ==
  late = {} => \A s \in Sides :
    Total(s) <= 2 * Purse0 - Len(wars) - Cardinality(Begun) + 2 * Cardinality(Paid)

Fair ==
  /\ WarsTypeOK /\ Bounded /\ KnownIsUnpaid /\ EndsOnce /\ PaidRight /\ OneAtATime
  /\ StakesCounted

-----------------------------------------------------------------------------
LEMMA SidesFacts ==
  ASSUME NEW s \in Sides
  PROVE  Other(s) \in Sides /\ Other(s) # s /\ \A t \in Sides : t = s \/ t = Other(s)
<1>1. IsFiniteSet(Sides \ {s}) /\ Cardinality(Sides \ {s}) = 1
  BY WarsAssumption, FS_RemoveElement
<1>2. PICK t : Sides \ {s} = {t}
  BY <1>1, FS_Singleton
<1> QED BY <1>2 DEF Other

LEMMA WarIdFacts == WarIds \subseteq Nat /\ NoWar \notin WarIds /\ IsFiniteSet(WarIds)
<1>1. Cardinality(WarIds) \in Nat
  BY WarsAssumption, FS_CardinalityType
<1> QED BY <1>1, WarsAssumption DEF NoWar

\* Of the intervals down from the last war, one holds no other.
LEMMA LatestIsOne == ASSUME NEW S \in SUBSET WarIds, S # {} PROVE Max(S) \in S
<1> DEFINE n == Cardinality(WarIds)
           R == StrictSubsetOrdering(Nat)
           T == {x..n : x \in S}
<1>0. n \in Nat /\ WarIds = 1..n
  BY WarsAssumption, FS_CardinalityType
<1> HIDE DEF n
<1>1. T \subseteq FiniteSubsetsOf(Nat) /\ T # {}
  <2>1. \A x \in S : x..n \in SUBSET Nat /\ IsFiniteSet(x..n)
    BY <1>0, FS_Interval
  <2> QED BY <2>1 DEF FiniteSubsetsOf
<1>2. PICK i \in T : \A j \in T : ~ (<<j, i>> \in R)
  <2> HIDE DEF T, R
  <2> QED BY <1>1, FS_StrictSubsetOrderingWellFounded, WFMin DEF R
<1>3. PICK x \in S : i = x..n
  OBVIOUS
<1>4. ASSUME NEW y \in S, x < y PROVE FALSE
  <2>1. y..n \subseteq x..n /\ y..n # x..n /\ y..n \in T
    <3>1. x \in x..n /\ x \notin y..n
      BY <1>0, <1>4
    <3> QED BY <1>0, <1>4, <3>1
  <2>2. y..n \in SUBSET Nat /\ x..n \in SUBSET Nat
    BY <1>0
  <2>3. <<y..n, x..n>> \in R
    BY <2>1, <2>2 DEF StrictSubsetOrdering
  <2> QED BY <1>2, <1>3, <2>1, <2>3
<1>5. \A y \in S : x >= y
  BY <1>0, <1>4
<1> QED BY <1>5 DEF Max

LEMMA RowFacts ==
  ASSUME WarsTypeOK
  PROVE  /\ Len(wars) \in Nat /\ DOMAIN wars = 1..Len(wars) /\ DOMAIN wars \subseteq WarIds
         /\ \A w \in DOMAIN wars :
              /\ wars[w] \in WarType
              /\ wars[w].kills \in [Sides -> 0..(FragLimit + MaxFrags)] /\ wars[w].paid \in Nat
         /\ Len(ending) \in Nat /\ DOMAIN ending = 1..Len(ending)
         /\ \A i \in DOMAIN ending :
              /\ ending[i] \in EndType /\ ending[i].war \in WarIds /\ ending[i].side \in Sides
              /\ ending[i].kills \in [Sides -> 0..(FragLimit + MaxFrags)]
<1>1. wars \in Seq(WarType) /\ ending \in Seq(EndType) /\ DOMAIN wars \subseteq WarIds
  BY DEF WarsTypeOK
<1>2. \A w \in DOMAIN wars : wars[w] \in WarType
  BY <1>1, LenProperties, ElementOfSeq
<1>3. \A i \in DOMAIN ending : ending[i] \in EndType
  BY <1>1, LenProperties, ElementOfSeq
<1>4. Len(wars) \in Nat /\ DOMAIN wars = 1..Len(wars) /\ Len(ending) \in Nat /\ DOMAIN ending = 1..Len(ending)
  BY <1>1, LenProperties
<1>5. \A w \in DOMAIN wars :
        wars[w].kills \in [Sides -> 0..(FragLimit + MaxFrags)] /\ wars[w].paid \in Nat
  BY <1>2, WarsAssumption DEF WarType
<1>6. \A i \in DOMAIN ending :
        /\ ending[i].war \in WarIds /\ ending[i].side \in Sides
        /\ ending[i].kills \in [Sides -> 0..(FragLimit + MaxFrags)]
  BY <1>3 DEF EndType
<1> QED BY <1>1, <1>2, <1>3, <1>4, <1>5, <1>6

LEMMA RowSet ==
  ASSUME WarsTypeOK, NEW w \in DOMAIN wars, NEW r \in WarType, wars' = [wars EXCEPT ![w] = r]
  PROVE  /\ wars' \in Seq(WarType) /\ Len(wars') = Len(wars) /\ DOMAIN wars' = DOMAIN wars
         /\ wars'[w] = r /\ \A v \in DOMAIN wars : v # w => wars'[v] = wars[v]
<1>1. wars \in Seq(WarType) /\ w \in 1..Len(wars)
  BY LenProperties DEF WarsTypeOK
<1>2. wars' \in Seq(WarType)
  BY <1>1, ExceptSeq
<1> QED BY <1>1, <1>2, LenProperties

LEMMA BegunFacts ==
  ASSUME WarsTypeOK
  PROVE  /\ IsFiniteSet(Begun) /\ Cardinality(Begun) \in Nat /\ Cardinality(Begun) <= Len(wars)
         /\ IsFiniteSet(Paid) /\ Cardinality(Paid) \in Nat
         /\ Paid \subseteq Begun => Cardinality(Paid) <= Cardinality(Begun)
<1>1. IsFiniteSet(DOMAIN wars) /\ Cardinality(DOMAIN wars) = Len(wars)
  <2>1. Len(wars) \in Nat /\ DOMAIN wars = 1..Len(wars)
    BY RowFacts
  <2> DEFINE n == Len(wars)
  <2>2. 1 \in Int /\ n \in Int
    BY <2>1
  <2>3. IsFiniteSet(1..n) /\ Cardinality(1..n) = IF 1 > n THEN 0 ELSE n - 1 + 1
    <3> HIDE DEF n
    <3> QED BY <2>2, FS_Interval
  <2> QED BY <2>1, <2>3
<1>2. Begun \in SUBSET DOMAIN wars /\ Paid \in SUBSET DOMAIN wars
  BY DEF Begun, Paid
<1>3. /\ IsFiniteSet(Begun) /\ Cardinality(Begun) <= Cardinality(DOMAIN wars)
      /\ IsFiniteSet(Paid)
  BY <1>1, <1>2, FS_Subset
<1>4. Paid \subseteq Begun => Cardinality(Paid) <= Cardinality(Begun)
  BY <1>3, FS_Subset
<1> QED BY <1>1, <1>3, <1>4, FS_CardinalityType

-----------------------------------------------------------------------------
LEMMA FairInit == WarsInit => Fair
<1> SUFFICES ASSUME WarsInit PROVE Fair
  OBVIOUS
<1> USE WarsAssumption DEF WarsInit
<1>1. wars \in Seq(WarType) /\ ending \in Seq(EndType) /\ DOMAIN wars = {} /\ DOMAIN ending = {}
      /\ Len(wars) = 0 /\ Len(ending) = 0
  BY EmptySeq
<1>2. WarsTypeOK
  <2>1. balance \in [Sides -> 0..(2 * Purse0 + 2 * MaxFrags)]
    OBVIOUS
  <2>2. warMap \in [Soldiers -> WarIds \cup {NoWar}]
    OBVIOUS
  <2>3. inGame \subseteq Soldiers /\ recruits \subseteq inGame /\ late \subseteq WarIds
    OBVIOUS
  <2>4. crossed \in BOOLEAN
    BY Zenon
  <2>5. frags \in 0..MaxFrags
    OBVIOUS
  <2> HIDE DEF WarsInit
  <2> QED BY <1>1, <2>1, <2>2, <2>3, <2>4, <2>5 DEF WarsTypeOK
<1>3. Begun = {} /\ Paid = {} /\ Active = {}
  BY <1>1 DEF Begun, Paid, Active
<1>4. StakesCounted
  BY <1>1, <1>3, FS_EmptySet, SidesFacts DEF StakesCounted, Total
<1> QED BY <1>1, <1>2, <1>3, <1>4 DEF Fair, Bounded, KnownIsUnpaid, EndsOnce, PaidRight,
        OneAtATime, EnemiesKnown

-----------------------------------------------------------------------------
(* A row that keeps its kills and its payments, and an end that stays one,  *)
(* disturb nothing that was counted, whoever forgets his enemies meanwhile. *)
LEMMA StatusKeeps ==
  ASSUME Fair, NEW w \in DOMAIN wars, NEW r \in WarType, wars' = [wars EXCEPT ![w] = r],
         r.kills = wars[w].kills, r.paid = wars[w].paid,
         r.status \in Fought <=> wars[w].status \in Fought,
         wars[w].status = "over" => r.status = "over",
         warMap' \in [Soldiers -> WarIds \cup {NoWar}],
         \A p \in Soldiers : warMap'[p] = warMap[p] \/ warMap'[p] = NoWar,
         crossed' \in BOOLEAN, Unmoved, UNCHANGED balance
  PROVE  WarsTypeOK' /\ Bounded' /\ KnownIsUnpaid' /\ EndsOnce' /\ PaidRight' /\ StakesCounted'
<1> USE WarsAssumption, WarIdFacts
<1>1. /\ WarsTypeOK /\ Bounded /\ KnownIsUnpaid /\ EndsOnce /\ PaidRight /\ StakesCounted
      /\ UNCHANGED <<inGame, recruits, late, frags, ending, balance>>
  BY DEF Fair, Unmoved
<1>2. /\ wars' \in Seq(WarType) /\ Len(wars') = Len(wars) /\ DOMAIN wars' = DOMAIN wars
      /\ wars'[w] = r /\ \A v \in DOMAIN wars : v # w => wars'[v] = wars[v]
  BY <1>1, RowSet
<1>3. \A v \in DOMAIN wars :
        /\ wars'[v].kills = wars[v].kills /\ wars'[v].paid = wars[v].paid
        /\ wars'[v].status \in Fought <=> wars[v].status \in Fought
        /\ wars[v].status = "over" => wars'[v].status = "over"
  BY <1>2
<1>4. WarsTypeOK'
  BY <1>1, <1>2 DEF WarsTypeOK
<1>5. Bounded'
  BY <1>1, <1>2, <1>3 DEF Bounded
<1>6. KnownIsUnpaid'
  BY <1>1, <1>2, <1>3 DEF KnownIsUnpaid
<1>7. EndsOnce'
  BY <1>1, <1>2, <1>3 DEF EndsOnce
<1>8. PaidRight'
  BY <1>1, <1>2, <1>3 DEF PaidRight
<1>9. StakesCounted'
  <2>1. Begun' = Begun /\ Paid' = Paid
    BY <1>2, <1>3 DEF Begun, Paid
  <2> QED BY <1>1, <1>2, <2>1 DEF StakesCounted, Total
<1> QED BY <1>4, <1>5, <1>6, <1>7, <1>8, <1>9

LEMMA RefuseKeeps ==
  ASSUME Fair, NEW w \in DOMAIN wars, NEW how \in {"rejected", "cancelled"}, Refuse(w, how)
  PROVE  Fair'
<1> DEFINE r == [wars[w] EXCEPT !.status = how]
<1>1. wars[w] \in WarType /\ WarsTypeOK /\ OneAtATime
  BY RowFacts DEF Fair
<1>2. /\ r \in WarType /\ r.kills = wars[w].kills /\ r.paid = wars[w].paid /\ r.status = how
      /\ wars' = [wars EXCEPT ![w] = r]
  BY <1>1 DEF Refuse, WarType
<1> HIDE DEF r
<1>3. /\ wars[w].status = "invited" /\ UNCHANGED <<balance, warMap, crossed>> /\ Unmoved
  BY DEF Refuse
<1>4. WarsTypeOK' /\ Bounded' /\ KnownIsUnpaid' /\ EndsOnce' /\ PaidRight' /\ StakesCounted'
  BY <1>1, <1>2, <1>3, StatusKeeps DEF Fought, On, WarsTypeOK
<1>5. OneAtATime'
  <2>1. /\ DOMAIN wars' = DOMAIN wars /\ wars'[w] = r
        /\ \A v \in DOMAIN wars : v # w => wars'[v] = wars[v]
    BY <1>1, <1>2, RowSet
  <2>2. Active' = Active /\ w \notin Active
    BY <1>2, <1>3, <2>1 DEF Active, On
  <2>3. \A v \in DOMAIN wars : wars'[v].status \in On <=> wars[v].status \in On
    BY <1>2, <1>3, <2>1 DEF On
  <2>4. \A p \in Soldiers : warMap[p] # NoWar => warMap[p] \in DOMAIN wars
    BY DEF Fair, KnownIsUnpaid
  <2>5. inGame \subseteq Soldiers
    BY <1>1 DEF WarsTypeOK
  <2> QED BY <1>1, <1>3, <2>1, <2>2, <2>3, <2>4, <2>5 DEF OneAtATime, EnemiesKnown, Unmoved
<1> QED BY <1>4, <1>5 DEF Fair

\* Everybody who is there forgets the war, and until wars cross there is no other.
LEMMA EndsKeeps ==
  ASSUME Fair, NEW w \in DOMAIN wars, NEW from \in SUBSET On, Ends(w, from) PROVE Fair'
<1> DEFINE r == [wars[w] EXCEPT !.status = "over"]
<1>1. wars[w] \in WarType /\ WarsTypeOK /\ OneAtATime
  BY RowFacts DEF Fair
<1>2. /\ r \in WarType /\ r.kills = wars[w].kills /\ r.paid = wars[w].paid /\ r.status = "over"
      /\ wars' = [wars EXCEPT ![w] = r]
  BY <1>1 DEF Ends, WarType
<1> HIDE DEF r
<1>3. /\ wars[w].status \in On /\ UNCHANGED <<balance, crossed>> /\ Unmoved
      /\ warMap' = removeEnemy(warMap, inGame)
  BY DEF Ends
<1>4. /\ warMap' \in [Soldiers -> WarIds \cup {NoWar}]
      /\ \A p \in Soldiers : warMap'[p] = IF p \in inGame THEN NoWar ELSE warMap[p]
  BY <1>1, <1>3 DEF removeEnemy, WarsTypeOK
<1>5. WarsTypeOK' /\ Bounded' /\ KnownIsUnpaid' /\ EndsOnce' /\ PaidRight' /\ StakesCounted'
  BY <1>1, <1>2, <1>3, <1>4, StatusKeeps DEF Fought, WarsTypeOK
<1>6. OneAtATime'
  <2>1. /\ DOMAIN wars' = DOMAIN wars /\ wars'[w] = r
        /\ \A v \in DOMAIN wars : v # w => wars'[v] = wars[v]
    BY <1>1, <1>2, RowSet
  <2>2. Active' = Active \ {w} /\ w \in Active
    BY <1>2, <1>3, <2>1 DEF Active, On
  <2>3. inGame' = inGame /\ ending' = ending /\ crossed' = crossed /\ inGame \subseteq Soldiers
    BY <1>1, <1>3 DEF Unmoved, WarsTypeOK
  <2>4. CASE crossed
    BY <2>3, <2>4 DEF OneAtATime
  <2>5. CASE ~crossed
    <3>1. \A u, v \in Active : u = v
      BY <1>1, <2>5 DEF OneAtATime
    <3>2. Active' = {}
      BY <2>2, <3>1
    <3>3. EnemiesKnown'
      BY <1>4, <2>3, <3>2 DEF EnemiesKnown
    <3> QED BY <3>2, <3>3 DEF OneAtATime
  <2> QED BY <2>4, <2>5
<1> QED BY <1>5, <1>6 DEF Fair

LEMMA TruceKeeps ==
  ASSUME Fair, NEW w \in DOMAIN wars, signTruce(w) PROVE Fair'
<1> DEFINE r == [wars[w] EXCEPT !.status = "truce", !.ends = TRUE]
<1>1. wars[w] \in WarType /\ WarsTypeOK /\ OneAtATime
  BY RowFacts DEF Fair
<1>2. /\ r \in WarType /\ r.kills = wars[w].kills /\ r.paid = wars[w].paid /\ r.status = "truce"
      /\ wars' = [wars EXCEPT ![w] = r]
  BY <1>1 DEF signTruce, WarType, On
<1> HIDE DEF r
<1>3. /\ wars[w].status = "begun" /\ UNCHANGED <<balance, warMap, crossed>> /\ Unmoved
  BY DEF signTruce
<1>4. WarsTypeOK' /\ Bounded' /\ KnownIsUnpaid' /\ EndsOnce' /\ PaidRight' /\ StakesCounted'
  BY <1>1, <1>2, <1>3, StatusKeeps DEF Fought, On, WarsTypeOK
<1>5. OneAtATime'
  <2>1. /\ DOMAIN wars' = DOMAIN wars /\ wars'[w] = r
        /\ \A v \in DOMAIN wars : v # w => wars'[v] = wars[v]
    BY <1>1, <1>2, RowSet
  <2>2. \A v \in DOMAIN wars : wars'[v].status \in On <=> wars[v].status \in On
    BY <1>2, <1>3, <2>1 DEF On
  <2>3. Active' = Active
    BY <2>1, <2>2 DEF Active
  <2>4. \A p \in Soldiers : warMap[p] # NoWar => warMap[p] \in DOMAIN wars
    BY DEF Fair, KnownIsUnpaid
  <2>5. inGame \subseteq Soldiers
    BY <1>1 DEF WarsTypeOK
  <2> QED BY <1>1, <1>3, <2>1, <2>2, <2>3, <2>4, <2>5 DEF OneAtATime, EnemiesKnown, Unmoved
<1> QED BY <1>4, <1>5 DEF Fair

LEMMA DeclareKeeps == ASSUME Fair, NEW s \in Sides, declare(s) PROVE Fair'
<1> USE WarsAssumption, WarIdFacts
<1> DEFINE n == Len(wars)
<1>1. /\ WarsTypeOK /\ Bounded /\ KnownIsUnpaid /\ EndsOnce /\ PaidRight /\ OneAtATime /\ StakesCounted
      /\ UNCHANGED <<inGame, recruits, late, frags, ending, warMap, crossed>>
  BY DEF Fair, declare, Unmoved
<1>2. PICK ends \in BOOLEAN :
        wars' = Append(wars, [guild |-> s, status |-> "invited", ends |-> ends,
                              kills |-> [t \in Sides |-> 0], paid |-> 0])
  BY DEF declare
<1> DEFINE r == [guild |-> s, status |-> "invited", ends |-> ends,
                 kills |-> [t \in Sides |-> 0], paid |-> 0]
<1>3. r \in WarType /\ r.status = "invited" /\ r.paid = 0 /\ \A t \in Sides : r.kills[t] = 0
  BY DEF WarType
<1>4. n \in Nat /\ DOMAIN wars = 1..n /\ wars \in Seq(WarType) /\ n + 1 \in WarIds
  BY <1>1, RowFacts DEF declare, WarsTypeOK
<1> HIDE DEF r
<1>5. /\ wars' \in Seq(WarType) /\ Len(wars') = n + 1 /\ DOMAIN wars' = DOMAIN wars \cup {n + 1}
      /\ wars'[n + 1] = r /\ \A w \in DOMAIN wars : wars'[w] = wars[w]
  <2>1. wars' = Append(wars, r)
    BY <1>2 DEF r
  <2>2. wars' \in Seq(WarType) /\ Len(wars') = n + 1
    BY <1>3, <1>4, <2>1, AppendProperties
  <2> QED BY <1>3, <1>4, <2>1, <2>2, AppendProperties, LenProperties
<1>6. n + 1 \notin DOMAIN wars
  BY <1>4
<1>7. /\ balance[s] > 0 /\ balance' = [balance EXCEPT ![s] = @ - 1]
      /\ balance' \in [Sides -> 0..(2 * Purse0 + 2 * MaxFrags)]
      /\ balance'[s] = balance[s] - 1 /\ \A t \in Sides : t # s => balance'[t] = balance[t]
  BY <1>1 DEF declare, WarsTypeOK
<1>8. WarsTypeOK'
  BY <1>1, <1>4, <1>5, <1>7 DEF WarsTypeOK
<1>9. Bounded'
  <2>1. Len(ending) \in Nat /\ frags \in Nat /\ \A t \in Sides : balance[t] \in Nat
    BY <1>1, RowFacts DEF WarsTypeOK
  <2>2. \A t \in Sides : balance'[t] \in Int /\ balance'[t] <= balance[t]
    BY <1>7, <2>1
  <2>3. \A t \in Sides : balance'[t] + 2 * Len(ending) <= Purse0 + 2 * frags
    <3> TAKE t \in Sides
    <3>1. balance[t] + 2 * Len(ending) <= Purse0 + 2 * frags
      BY <1>1 DEF Bounded
    <3> QED BY <2>1, <2>2, <3>1
  <2> QED BY <1>1, <1>3, <1>5, <2>1, <2>3 DEF Bounded
<1>10. KnownIsUnpaid'
  BY <1>1, <1>3, <1>5, <1>6 DEF KnownIsUnpaid
<1>11. EndsOnce' /\ PaidRight'
  BY <1>1, <1>3, <1>5, <1>6 DEF EndsOnce, PaidRight
<1>12. Active' = Active /\ Begun' = Begun /\ Paid' = Paid
  BY <1>3, <1>5, <1>6 DEF Active, Begun, Paid, Fought, On
<1>13. OneAtATime'
  <2>1. \A p \in inGame : warMap[p] # NoWar => warMap[p] \in DOMAIN wars
    BY <1>1 DEF KnownIsUnpaid, WarsTypeOK
  <2> QED BY <1>1, <1>5, <1>12, <2>1 DEF OneAtATime, EnemiesKnown
<1>14. StakesCounted'
  <2>1. \A t \in Sides : Total(t)' = Total(t) - 1
    BY <1>1, <1>7, SidesFacts DEF Total, WarsTypeOK
  <2>2. \A t \in Sides : Total(t) \in Int
    BY <1>1, SidesFacts DEF Total, WarsTypeOK
  <2>3. ASSUME late = {}, NEW t \in Sides
        PROVE  Total(t)' <= 2 * Purse0 - Len(wars') - Cardinality(Begun)' + 2 * Cardinality(Paid)'
    <3>1. Total(t) <= 2 * Purse0 - Len(wars) - Cardinality(Begun) + 2 * Cardinality(Paid)
      BY <1>1, <2>3 DEF StakesCounted
    <3>2. /\ Len(wars) \in Nat /\ Len(wars') = Len(wars) + 1
          /\ Cardinality(Begun) \in Nat /\ Cardinality(Paid) \in Nat
          /\ Cardinality(Begun)' = Cardinality(Begun) /\ Cardinality(Paid)' = Cardinality(Paid)
      BY <1>1, <1>4, <1>5, <1>12, BegunFacts
    <3>3. Total(t)' = Total(t) - 1 /\ Total(t) \in Int
      BY <2>1, <2>2
    <3> QED BY <3>1, <3>2, <3>3
  <2> QED BY <1>1, <2>3 DEF StakesCounted
<1> QED BY <1>8, <1>9, <1>10, <1>11, <1>13, <1>14 DEF Fair

LEMMA AcceptKeeps == ASSUME Fair, NEW w \in DOMAIN wars, accept(w) PROVE Fair'
<1> USE WarsAssumption, WarIdFacts
<1> DEFINE r == [wars[w] EXCEPT !.status = "begun"]
<1>1. /\ WarsTypeOK /\ Bounded /\ KnownIsUnpaid /\ EndsOnce /\ PaidRight /\ OneAtATime /\ StakesCounted
      /\ UNCHANGED <<inGame, recruits, late, frags, ending>>
  BY DEF Fair, accept, Unmoved
<1>2. wars[w] \in WarType /\ w \in WarIds
  BY <1>1, RowFacts
<1>3. PICK o \in Sides : o = Other(wars[w].guild)
  BY <1>2, SidesFacts DEF WarType
<1>4. /\ r \in WarType /\ r.kills = wars[w].kills /\ r.paid = wars[w].paid /\ r.status = "begun"
      /\ wars' = [wars EXCEPT ![w] = r] /\ wars[w].status = "invited"
  BY <1>2 DEF accept, WarType, On
<1> HIDE DEF r
<1>5. /\ DOMAIN wars' = DOMAIN wars /\ wars'[w] = r /\ wars' \in Seq(WarType) /\ Len(wars') = Len(wars)
      /\ \A v \in DOMAIN wars : v # w => wars'[v] = wars[v]
  BY <1>1, <1>4, RowSet
<1>6. /\ warMap' \in [Soldiers -> WarIds \cup {NoWar}]
      /\ \A p \in Soldiers : warMap'[p] = IF p \in inGame THEN w ELSE warMap[p]
  BY <1>1, <1>2 DEF accept, WarsTypeOK
<1>7. /\ balance[o] > 0 /\ balance' \in [Sides -> 0..(2 * Purse0 + 2 * MaxFrags)]
      /\ balance'[o] = balance[o] - 1 /\ \A t \in Sides : t # o => balance'[t] = balance[t]
  <2>1. balance[o] > 0 /\ balance' = [balance EXCEPT ![o] = @ - 1]
    BY <1>3 DEF accept
  <2> QED BY <1>1, <1>3, <2>1 DEF WarsTypeOK
<1>8. crossed' \in BOOLEAN /\ (~crossed' => ~crossed /\ Active = {} /\ ending = <<>>)
  BY <1>1, Zenon DEF accept, WarsTypeOK
<1>9. \A v \in DOMAIN wars : wars'[v].kills = wars[v].kills /\ wars'[v].paid = wars[v].paid
  BY <1>4, <1>5
<1>10. WarsTypeOK'
  BY <1>1, <1>5, <1>6, <1>7, <1>8 DEF WarsTypeOK
<1>11. Bounded'
  <2>1. Len(ending) \in Nat /\ frags \in Nat /\ \A t \in Sides : balance[t] \in Nat
    BY <1>1, RowFacts DEF WarsTypeOK
  <2>2. \A t \in Sides : balance'[t] \in Int /\ balance'[t] <= balance[t]
    BY <1>3, <1>7, <2>1
  <2>3. \A t \in Sides : balance'[t] + 2 * Len(ending) <= Purse0 + 2 * frags
    <3> TAKE t \in Sides
    <3>1. balance[t] + 2 * Len(ending) <= Purse0 + 2 * frags
      BY <1>1 DEF Bounded
    <3> QED BY <2>1, <2>2, <3>1
  <2> QED BY <1>1, <1>5, <1>9, <2>3 DEF Bounded
<1>12. wars[w].paid = 0
  BY <1>1, <1>4, RowFacts DEF KnownIsUnpaid
<1>13. KnownIsUnpaid'
  BY <1>1, <1>4, <1>5, <1>6, <1>9, <1>12 DEF KnownIsUnpaid, Fought, On
<1>14. EndsOnce' /\ PaidRight'
  BY <1>1, <1>4, <1>5, <1>9 DEF EndsOnce, PaidRight, Fought, On
<1>15. OneAtATime'
  <2>1. CASE crossed'
    BY <2>1 DEF OneAtATime
  <2>2. CASE ~crossed'
    <3>1. Active' = {w}
      BY <1>4, <1>5, <1>8, <2>2 DEF Active, On
    <3>2. Max(Active)' = w
      <4>1. Max(Active)' = Max(Active')
        BY DEF Max
      <4> QED BY <1>2, <3>1, <4>1, LatestIsOne
    <3>3. DOMAIN ending' = {}
      BY <1>1, <1>8, <2>2
    <3>4. \A p \in inGame : warMap'[p] = w
      BY <1>1, <1>6 DEF WarsTypeOK
    <3>5. EnemiesKnown'
      BY <1>1, <1>4, <1>5, <3>2, <3>4 DEF EnemiesKnown, On
    <3> QED BY <3>1, <3>3, <3>5 DEF OneAtATime
  <2> QED BY <2>1, <2>2
<1>16. StakesCounted'
  <2>1. Begun' = Begun \cup {w} /\ w \notin Begun /\ Paid' = Paid
    BY <1>4, <1>5, <1>9 DEF Begun, Paid, Fought, On
  <2>2. Cardinality(Begun') = Cardinality(Begun) + 1
    <3>1. IsFiniteSet(Begun)
      BY <1>1, BegunFacts
    <3> QED BY <2>1, <3>1, FS_AddElement
  <2>3. \A t \in Sides : Total(t)' = Total(t) - 1 /\ Total(t) \in Int
    <3> TAKE t \in Sides
    <3>1. Other(t) \in Sides /\ t # Other(t) /\ (o = t \/ o = Other(t))
      BY <1>3, SidesFacts
    <3>2. balance[t] \in Int /\ balance[Other(t)] \in Int
      BY <1>1, <3>1 DEF WarsTypeOK
    <3>3. CASE o = t
      <4>1. balance'[t] = balance[t] - 1 /\ balance'[Other(t)] = balance[Other(t)]
        BY <1>7, <3>1, <3>3
      <4> QED BY <3>2, <4>1 DEF Total
    <3>4. CASE o = Other(t)
      <4>1. balance'[Other(t)] = balance[Other(t)] - 1 /\ balance'[t] = balance[t]
        BY <1>7, <3>1, <3>4
      <4> QED BY <3>2, <4>1 DEF Total
    <3> QED BY <3>1, <3>3, <3>4
  <2>4. Cardinality(Begun)' = Cardinality(Begun') /\ Cardinality(Paid)' = Cardinality(Paid)
    BY <2>1
  <2>5. ASSUME late = {}, NEW t \in Sides
        PROVE  Total(t)' <= 2 * Purse0 - Len(wars') - Cardinality(Begun)' + 2 * Cardinality(Paid)'
    <3>1. Total(t) <= 2 * Purse0 - Len(wars) - Cardinality(Begun) + 2 * Cardinality(Paid)
      BY <1>1, <2>5 DEF StakesCounted
    <3>2. /\ Len(wars) \in Nat /\ Len(wars') = Len(wars)
          /\ Cardinality(Begun) \in Nat /\ Cardinality(Paid) \in Nat
      BY <1>1, <1>5, BegunFacts, RowFacts
    <3>3. Total(t)' = Total(t) - 1 /\ Total(t) \in Int
      BY <2>3
    <3> QED BY <2>2, <2>4, <3>1, <3>2, <3>3
  <2> QED BY <1>1, <2>5 DEF StakesCounted
<1> QED BY <1>10, <1>11, <1>13, <1>14, <1>15, <1>16 DEF Fair

-----------------------------------------------------------------------------
LEMMA ActiveFacts ==
  ASSUME WarsTypeOK PROVE Active \in SUBSET WarIds /\ Active \subseteq DOMAIN wars /\ Active \subseteq Begun
BY RowFacts DEF Active, Begun, Fought

\* Of the rows and the ends nothing is changed by who comes and goes.
LEMMA ComingsKeep ==
  ASSUME Fair, UNCHANGED <<wars, balance, late, crossed, frags, ending>>, WarsTypeOK',
         KnownIsUnpaid', ~crossed => EnemiesKnown'
  PROVE  Fair'
<1>1. Active' = Active /\ Begun' = Begun /\ Paid' = Paid
  BY DEF Active, Begun, Paid
<1>2. Bounded' /\ EndsOnce' /\ PaidRight'
  BY DEF Fair, Bounded, EndsOnce, PaidRight
<1>3. StakesCounted'
  BY <1>1 DEF Fair, StakesCounted, Total
<1>4. OneAtATime'
  BY <1>1 DEF Fair, OneAtATime
<1> QED BY <1>2, <1>3, <1>4 DEF Fair

LEMMA FighterEnters == ASSUME Fair, NEW p \in Soldiers, enters(p) PROVE Fair'
<1> USE WarIdFacts
<1>1. WarsTypeOK /\ KnownIsUnpaid /\ OneAtATime
  BY DEF Fair
<1>2. /\ p \notin inGame /\ inGame' = inGame \cup {p}
      /\ UNCHANGED <<wars, balance, ending, late, crossed, frags>>
      /\ recruits' \subseteq recruits \cup {p} /\ recruits \subseteq recruits'
      /\ warMap' = [warMap EXCEPT ![p] = loadWars(p)] \/ (warMap' = warMap /\ p \in recruits')
  BY DEF enters
<1>3. loadWars(p) \in Active \/ (loadWars(p) = NoWar /\ Active = {})
  <2>1. CASE Active = {}
    BY <2>1 DEF loadWars
  <2>2. CASE Active # {}
    <3>1. Max(Active) \in Active
      BY <1>1, <2>2, ActiveFacts, LatestIsOne
    <3> QED BY <2>2, <3>1 DEF loadWars
  <2> QED BY <2>1, <2>2
<1>4. loadWars(p) \in WarIds \cup {NoWar}
  BY <1>1, <1>3, ActiveFacts
<1>5. /\ warMap' \in [Soldiers -> WarIds \cup {NoWar}]
      /\ \A q \in Soldiers : q # p => warMap'[q] = warMap[q]
      /\ warMap'[p] = loadWars(p) \/ (warMap'[p] = NoWar /\ p \in recruits')
  <2>1. warMap[p] = NoWar
    BY <1>1, <1>2 DEF KnownIsUnpaid
  <2> QED BY <1>1, <1>2, <1>4, <2>1 DEF WarsTypeOK
<1>6. WarsTypeOK'
  BY <1>1, <1>2, <1>5 DEF WarsTypeOK
<1>7. \A w \in Active : wars[w].paid = 0 /\ wars[w].status \in Fought
  BY <1>1, RowFacts DEF Active, KnownIsUnpaid, Fought, On
<1>8. KnownIsUnpaid'
  <2>1. ASSUME NEW q \in Soldiers, warMap'[q] # NoWar
        PROVE  /\ q \in inGame' /\ warMap'[q] \in DOMAIN wars
               /\ wars[warMap'[q]].status \in Fought /\ wars[warMap'[q]].paid = 0
    <3>1. CASE q = p
      BY <1>1, <1>2, <1>3, <1>5, <1>7, <2>1, <3>1, ActiveFacts
    <3>2. CASE q # p
      BY <1>1, <1>2, <1>5, <2>1, <3>2 DEF KnownIsUnpaid
    <3> QED BY <3>1, <3>2
  <2> QED BY <1>1, <1>2, <2>1 DEF KnownIsUnpaid
<1>9. ASSUME ~crossed PROVE EnemiesKnown'
  <2>1. EnemiesKnown
    BY <1>1, <1>9 DEF OneAtATime
  <2>2. Active' = Active /\ Max(Active)' = Max(Active)
    BY <1>2 DEF Active, Max
  <2>3. ASSUME NEW q \in inGame'
        PROVE  /\ warMap'[q] # NoWar => wars[warMap'[q]].status \in On
               /\ Active # {} /\ q \notin recruits' => warMap'[q] = Max(Active)
    <3>1. CASE q = p
      BY <1>3, <1>5, <3>1 DEF Active, loadWars
    <3>2. CASE q # p
      BY <1>1, <1>2, <1>5, <1>9, <2>1, <2>3, <3>2 DEF EnemiesKnown, WarsTypeOK
    <3> QED BY <3>1, <3>2
  <2> QED BY <1>2, <2>2, <2>3 DEF EnemiesKnown
<1> QED BY <1>2, <1>6, <1>8, <1>9, ComingsKeep

LEMMA LeavesKeeps == ASSUME Fair, NEW p \in Soldiers, leaves(p) PROVE Fair'
<1> USE WarIdFacts
<1>1. WarsTypeOK /\ KnownIsUnpaid /\ OneAtATime
  BY DEF Fair
<1>2. /\ inGame' = inGame \ {p} /\ recruits' = recruits \ {p}
      /\ UNCHANGED <<wars, balance, ending, late, crossed, frags>>
      /\ warMap' = [warMap EXCEPT ![p] = NoWar]
  BY DEF leaves
<1>3. /\ warMap' \in [Soldiers -> WarIds \cup {NoWar}]
      /\ warMap'[p] = NoWar /\ \A q \in Soldiers : q # p => warMap'[q] = warMap[q]
  BY <1>1, <1>2 DEF WarsTypeOK
<1>4. WarsTypeOK'
  BY <1>1, <1>2, <1>3 DEF WarsTypeOK
<1>5. KnownIsUnpaid'
  BY <1>1, <1>2, <1>3 DEF KnownIsUnpaid
<1>6. ASSUME ~crossed PROVE EnemiesKnown'
  <2>1. Active' = Active /\ Max(Active)' = Max(Active)
    BY <1>2 DEF Active, Max
  <2> QED BY <1>1, <1>2, <1>3, <1>6, <2>1 DEF OneAtATime, EnemiesKnown, WarsTypeOK
<1> QED BY <1>2, <1>4, <1>5, <1>6, ComingsKeep

LEMMA RestartKeeps == ASSUME Fair, restart PROVE Fair'
<1> USE WarIdFacts, WarsAssumption
<1>1. WarsTypeOK /\ Bounded /\ KnownIsUnpaid /\ PaidRight /\ OneAtATime /\ StakesCounted
  BY DEF Fair
<1>2. /\ inGame' = {} /\ warMap' = [p \in Soldiers |-> NoWar] /\ recruits' = {} /\ ending' = <<>>
      /\ UNCHANGED <<wars, balance, late, crossed, frags>>
  BY DEF restart
<1>3. ending' \in Seq(EndType) /\ DOMAIN ending' = {} /\ Len(ending') = 0 /\ Len(ending) \in Nat
  BY <1>1, <1>2, EmptySeq, RowFacts
<1>4. warMap' \in [Soldiers -> WarIds \cup {NoWar}] /\ \A p \in Soldiers : warMap'[p] = NoWar
  BY <1>2
<1>5. WarsTypeOK'
  BY <1>1, <1>2, <1>3, <1>4 DEF WarsTypeOK
<1>6. Bounded'
  <2>1. frags \in Nat /\ \A s \in Sides : balance[s] \in Nat
    BY <1>1 DEF WarsTypeOK
  <2>2. \A w \in DOMAIN wars : wars[w].paid \in Nat
    BY <1>1, RowFacts
  <2>3. \A s \in Sides : balance[s] + 2 * Len(ending') <= Purse0 + 2 * frags
    <3> TAKE s \in Sides
    <3>1. balance[s] + 2 * Len(ending) <= Purse0 + 2 * frags
      BY <1>1 DEF Bounded
    <3> QED BY <1>3, <2>1, <3>1
  <2>4. \A w \in DOMAIN wars : wars[w].paid + Len(ending') <= frags
    BY <1>1, <1>3, <2>1, <2>2 DEF Bounded
  <2> QED BY <1>1, <1>2, <1>3, <2>1, <2>3, <2>4 DEF Bounded
<1>7. KnownIsUnpaid'
  BY <1>1, <1>2, <1>4 DEF KnownIsUnpaid
<1>8. EndsOnce' /\ PaidRight'
  BY <1>1, <1>2, <1>3 DEF EndsOnce, PaidRight
<1>9. Active' = Active /\ Begun' = Begun /\ Paid' = Paid
  BY <1>2 DEF Active, Begun, Paid
<1>10. OneAtATime' /\ StakesCounted'
  BY <1>1, <1>2, <1>3, <1>9 DEF OneAtATime, EnemiesKnown, StakesCounted, Total
<1> QED BY <1>5, <1>6, <1>7, <1>8, <1>10 DEF Fair

-----------------------------------------------------------------------------
\* What a kill finds: the war is accepted, unpaid and undecided.
Killed(w, s, kills) ==
  /\ w \in DOMAIN wars /\ w \in WarIds /\ s \in Sides
  /\ wars[w] \in WarType /\ wars[w].status \in Fought /\ wars[w].paid = 0
  /\ kills \in [Sides -> 0..(FragLimit + MaxFrags)]
  /\ \A t \in Sides : wars[w].kills[t] < FragLimit /\ kills[t] <= frags + 1
  /\ \A t \in Sides : kills[t] >= FragLimit => t = s /\ kills[s] = FragLimit
  /\ late' \subseteq WarIds /\ late \subseteq late'
  /\ \A v : v \in late' <=> v \in late \/ (v = w /\ \E i \in DOMAIN ending : ending[i].war = w)
  /\ frags \in Nat /\ frags' = frags + 1 /\ frags' \in 0..MaxFrags
  /\ UNCHANGED <<balance, inGame, warMap, recruits, crossed>>

LEMMA KillFacts ==
  ASSUME Fair, NEW p \in Soldiers, NEW q \in Soldiers, onKilledCreature(p, q)
  PROVE  \E w, s, kills : /\ w = warMap[q] /\ s = SideOf[p] /\ kills = [wars[w].kills EXCEPT ![s] = @ + 1]
                          /\ Killed(w, s, kills)
<1>0. SUFFICES ASSUME NEW w, w = warMap[q], NEW s, s = SideOf[p],
                      NEW kills, kills = [wars[w].kills EXCEPT ![s] = @ + 1]
               PROVE  Killed(w, s, kills)
  OBVIOUS
<1> USE WarsAssumption
<1>1. WarsTypeOK /\ Bounded /\ KnownIsUnpaid
  BY DEF Fair
<1>2. w # NoWar /\ frags < MaxFrags /\ frags' = frags + 1 /\ UNCHANGED <<balance, inGame, warMap, recruits, crossed>>
  BY <1>0 DEF onKilledCreature
<1>3. w \in DOMAIN wars /\ wars[w].status \in Fought /\ wars[w].paid = 0
  BY <1>0, <1>1, <1>2 DEF KnownIsUnpaid
<1>4. /\ w \in WarIds /\ wars[w] \in WarType
      /\ wars[w].kills \in [Sides -> 0..(FragLimit + MaxFrags)] /\ s \in Sides
  BY <1>0, <1>1, <1>3, RowFacts
<1>5. \A t \in Sides : wars[w].kills[t] < FragLimit /\ wars[w].kills[t] <= frags
  BY <1>1, <1>3 DEF KnownIsUnpaid, Bounded
<1>6. frags \in Nat /\ frags' \in 0..MaxFrags
  BY <1>1, <1>2 DEF WarsTypeOK
<1>7. \A t \in Sides : /\ wars[w].kills[t] \in Nat
                       /\ kills[t] = IF t = s THEN wars[w].kills[t] + 1 ELSE wars[w].kills[t]
  <2> DEFINE k == wars[w].kills
  <2>1. k \in [Sides -> 0..(FragLimit + MaxFrags)] /\ kills = [k EXCEPT ![s] = @ + 1]
    BY <1>0, <1>4
  <2> HIDE DEF k
  <2>2. \A t \in Sides : k[t] \in 0..(FragLimit + MaxFrags) /\ kills[t] = IF t = s THEN k[t] + 1 ELSE k[t]
    BY <1>4, <2>1
  <2>3. \A t \in Sides : k[t] \in Nat
    BY <2>2
  <2> QED BY <2>2, <2>3 DEF k
<1>8. \A t \in Sides : kills[t] \in 0..(FragLimit + MaxFrags)
  <2> TAKE t \in Sides
  <2>1. kills[t] <= frags + 1 /\ kills[t] \in Nat
    BY <1>5, <1>6, <1>7
  <2>2. frags + 1 <= MaxFrags /\ MaxFrags \in Nat /\ FragLimit \in Nat
    BY <1>2, <1>6
  <2>3. frags \in Nat
    BY <1>6
  <2> HIDE WarsAssumption
  <2> DEFINE n == kills[t]
  <2>4. n \in Nat /\ n <= MaxFrags
    BY <2>1, <2>2, <2>3
  <2> HIDE DEF n
  <2>5. n \in 0..(FragLimit + MaxFrags)
    BY ONLY <2>2, <2>4
  <2> QED BY <2>5 DEF n
<1>9. kills \in [Sides -> 0..(FragLimit + MaxFrags)]
  BY <1>0, <1>4, <1>8
<1>10. \A v : v \in late' <=> v \in late \/ (v = w /\ \E i \in DOMAIN ending : ending[i].war = w)
  BY <1>0 DEF onKilledCreature, ToSet
<1>11. late' \subseteq WarIds
  BY <1>1, <1>4, <1>10 DEF WarsTypeOK
<1>12. ASSUME NEW t \in Sides
       PROVE  /\ kills[t] <= frags + 1
              /\ kills[t] >= FragLimit => t = s /\ kills[s] = FragLimit
  <2>1. /\ wars[w].kills[t] \in Nat /\ wars[w].kills[t] <= frags /\ wars[w].kills[t] < FragLimit
        /\ FragLimit \in Nat
    BY <1>5, <1>7
  <2>2. CASE t = s
    <3>1. kills[t] = wars[w].kills[t] + 1
      BY <1>7, <2>2
    <3> QED BY <1>6, <2>1, <2>2, <3>1
  <2>3. CASE t # s
    <3>1. kills[t] = wars[w].kills[t]
      BY <1>7, <2>3
    <3> QED BY <1>6, <2>1, <2>3, <3>1
  <2> QED BY <2>2, <2>3
<1> QED BY <1>2, <1>3, <1>4, <1>5, <1>6, <1>9, <1>10, <1>11, <1>12 DEF Killed

LEMMA KillKeeps ==
  ASSUME Fair, NEW p \in Soldiers, NEW q \in Soldiers, onKilledCreature(p, q) PROVE Fair'
<1> USE WarsAssumption, WarIdFacts
<1>0. PICK w, s, kills : /\ w = warMap[q] /\ s = SideOf[p] /\ kills = [wars[w].kills EXCEPT ![s] = @ + 1]
                         /\ Killed(w, s, kills)
  BY ZenonT(60), KillFacts
<1>1. /\ w \in DOMAIN wars /\ w \in WarIds /\ s \in Sides
      /\ wars[w] \in WarType /\ wars[w].status \in Fought /\ wars[w].paid = 0
      /\ kills \in [Sides -> 0..(FragLimit + MaxFrags)]
      /\ \A t \in Sides : wars[w].kills[t] < FragLimit /\ kills[t] <= frags + 1
      /\ \A t \in Sides : kills[t] >= FragLimit => t = s /\ kills[s] = FragLimit
      /\ late' \subseteq WarIds /\ late \subseteq late'
      /\ \A v : v \in late' <=> v \in late \/ (v = w /\ \E i \in DOMAIN ending : ending[i].war = w)
      /\ frags \in Nat /\ frags' = frags + 1 /\ frags' \in 0..MaxFrags
      /\ UNCHANGED <<balance, inGame, warMap, recruits, crossed>>
  BY <1>0 DEF Killed
<1>2. /\ WarsTypeOK /\ Bounded /\ KnownIsUnpaid /\ EndsOnce /\ PaidRight /\ OneAtATime /\ StakesCounted
  BY DEF Fair
<1>3. updateWar(w, s, kills)
  BY <1>0 DEF onKilledCreature
<1>4. /\ Len(ending) \in Nat /\ \A t \in Sides : balance[t] \in Nat
      /\ \A v \in DOMAIN wars : wars[v].paid \in Nat
      /\ \A v \in DOMAIN wars : wars[v].kills \in [Sides -> 0..(FragLimit + MaxFrags)]
      /\ \A i \in DOMAIN ending : ending[i].kills \in [Sides -> 0..(FragLimit + MaxFrags)]
  <2>1. \A t \in Sides : balance[t] \in Nat
    <3>1. balance \in [Sides -> 0..(2 * Purse0 + 2 * MaxFrags)]
      BY <1>2 DEF WarsTypeOK
    <3> QED BY <3>1
  <2> QED BY <1>2, <2>1, RowFacts
<1>5. CASE \A t \in Sides : ~ kills[t] >= FragLimit
  <2> DEFINE r == [wars[w] EXCEPT !.kills = kills]
  <2>1. /\ r \in WarType /\ r.kills = kills /\ r.paid = 0 /\ r.status = wars[w].status
        /\ wars' = [wars EXCEPT ![w] = r] /\ ending' = ending
    <3>1. wars' = [wars EXCEPT ![w].kills = kills] /\ ending' = ending
      BY <1>3, <1>5 DEF updateWar
    <3> QED BY <1>1, <3>1 DEF WarType
  <2> HIDE DEF r
  <2>2. /\ wars' \in Seq(WarType) /\ Len(wars') = Len(wars) /\ DOMAIN wars' = DOMAIN wars
        /\ wars'[w] = r /\ \A v \in DOMAIN wars : v # w => wars'[v] = wars[v]
    BY <1>1, <1>2, <2>1, RowSet
  <2>3. \A v \in DOMAIN wars : wars'[v].paid = wars[v].paid /\ wars'[v].status = wars[v].status
    BY <1>1, <2>1, <2>2
  <2>4. WarsTypeOK'
    BY <1>1, <1>2, <2>1, <2>2 DEF WarsTypeOK
  <2>5. Bounded'
    <3>1. \A v \in DOMAIN wars : \A t \in Sides : wars'[v].kills[t] <= frags + 1
      <4> TAKE v \in DOMAIN wars
      <4> TAKE t \in Sides
      <4>1. wars[v].kills[t] <= frags /\ wars[v].kills[t] \in Nat
        BY <1>2, <1>4 DEF Bounded
      <4>2. CASE v = w
        <5>1. wars'[v].kills = kills
          BY <2>1, <2>2, <4>2
        <5> QED BY <1>1, <5>1
      <4>3. CASE v # w
        <5>1. wars'[v].kills = wars[v].kills /\ frags \in Nat
          BY <1>1, <2>2, <4>3
        <5> QED BY <4>1, <5>1
      <4> QED BY <4>2, <4>3
    <3>2. \A i \in DOMAIN ending : \A t \in Sides : ending[i].kills[t] <= frags + 1
      <4> TAKE i \in DOMAIN ending
      <4> TAKE t \in Sides
      <4>1. ending[i].kills[t] <= frags /\ ending[i].kills[t] \in Nat
        BY <1>2, <1>4 DEF Bounded
      <4> QED BY <1>1, <4>1
    <3>3. \A v \in DOMAIN wars : wars'[v].paid + Len(ending) <= frags + 1
      <4> TAKE v \in DOMAIN wars
      <4>1. wars[v].paid + Len(ending) <= frags /\ wars[v].paid \in Nat
        BY <1>2, <1>4 DEF Bounded
      <4> QED BY <1>1, <1>4, <2>3, <4>1
    <3>4. \A t \in Sides : balance[t] + 2 * Len(ending) <= Purse0 + 2 * (frags + 1)
      <4> TAKE t \in Sides
      <4>1. balance[t] + 2 * Len(ending) <= Purse0 + 2 * frags
        BY <1>2 DEF Bounded
      <4>2. balance[t] \in Nat /\ Len(ending) \in Nat /\ frags \in Nat
        BY <1>1, <1>4
      <4> QED BY <4>1, <4>2
    <3>5. Len(ending) <= frags + 1
      BY <1>1, <1>2, <1>4 DEF Bounded
    <3> QED BY <1>1, <2>1, <2>2, <3>1, <3>2, <3>3, <3>4, <3>5 DEF Bounded
  <2>6. KnownIsUnpaid'
    <3>1. \A t \in Sides : kills[t] < FragLimit
      BY <1>1, <1>5
    <3>2. ASSUME NEW x \in Soldiers, warMap'[x] # NoWar
          PROVE  /\ x \in inGame' /\ warMap'[x] \in DOMAIN wars'
                 /\ wars'[warMap'[x]].status \in Fought /\ wars'[warMap'[x]].paid = 0
      <4>1. /\ x \in inGame /\ warMap[x] \in DOMAIN wars
            /\ wars[warMap[x]].status \in Fought /\ wars[warMap[x]].paid = 0
        BY <1>1, <1>2, <3>2 DEF KnownIsUnpaid
      <4> QED BY <1>1, <2>2, <2>3, <4>1
    <3>3. ASSUME NEW v \in DOMAIN wars'
          PROVE  /\ wars'[v].paid > 0 => wars'[v].status = "over"
                 /\ wars'[v].paid = 0 => \A t \in Sides : wars'[v].kills[t] < FragLimit
      <4>1. /\ v \in DOMAIN wars /\ wars'[v].paid = wars[v].paid /\ wars'[v].status = wars[v].status
            /\ wars'[v].kills = IF v = w THEN kills ELSE wars[v].kills
        BY <2>1, <2>2, <2>3
      <4>2. /\ wars[v].paid > 0 => wars[v].status = "over"
            /\ wars[v].paid = 0 => \A t \in Sides : wars[v].kills[t] < FragLimit
        BY <1>2, <4>1 DEF KnownIsUnpaid
      <4> QED BY <3>1, <4>1, <4>2
    <3> QED BY <3>2, <3>3 DEF KnownIsUnpaid
  <2>7. EndsOnce'
    BY <1>1, <1>2, <2>1, <2>2, <2>3 DEF EndsOnce
  <2>8. PaidRight'
    BY <1>1, <1>2, <2>1, <2>2, <2>3 DEF PaidRight
  <2>9. Active' = Active /\ Begun' = Begun /\ Paid' = Paid
    BY <2>2, <2>3 DEF Active, Begun, Paid
  <2>10. OneAtATime'
    <3>1. inGame \subseteq Soldiers /\ \A x \in Soldiers : warMap[x] # NoWar => warMap[x] \in DOMAIN wars
      BY <1>2 DEF KnownIsUnpaid, WarsTypeOK
    <3> QED BY <1>1, <1>2, <2>1, <2>2, <2>3, <2>9, <3>1 DEF OneAtATime, EnemiesKnown
  <2>11. StakesCounted'
    BY <1>1, <1>2, <2>2, <2>9 DEF StakesCounted, Total
  <2> QED BY <2>4, <2>5, <2>6, <2>7, <2>8, <2>10, <2>11 DEF Fair
<1>6. CASE \E t \in Sides : kills[t] >= FragLimit
  <2> DEFINE e == [war |-> w, side |-> s, kills |-> kills]
             n == Len(ending)
  <2>1. ending' = Append(ending, e) /\ wars' = wars /\ kills[s] = FragLimit
    BY <1>1, <1>3, <1>6 DEF updateWar
  <2>2. e \in EndType /\ e.war = w /\ e.side = s /\ e.kills = kills
    BY <1>1 DEF EndType
  <2> HIDE DEF e
  <2>3. n \in Nat /\ DOMAIN ending = 1..n /\ ending \in Seq(EndType)
    BY <1>2, RowFacts DEF WarsTypeOK
  <2>4. /\ ending' \in Seq(EndType) /\ Len(ending') = n + 1 /\ DOMAIN ending' = DOMAIN ending \cup {n + 1}
        /\ ending'[n + 1] = e /\ \A i \in DOMAIN ending : ending'[i] = ending[i]
    <3>1. ending' \in Seq(EndType) /\ Len(ending') = n + 1
      BY <2>1, <2>2, <2>3, AppendProperties
    <3> QED BY <2>1, <2>2, <2>3, <3>1, AppendProperties, LenProperties
  <2>5. n + 1 \notin DOMAIN ending
    BY <2>3
  <2>6. WarsTypeOK'
    BY <1>1, <1>2, <2>1, <2>4 DEF WarsTypeOK
  <2>7. Bounded'
    <3>1. \A v \in DOMAIN wars : \A t \in Sides : wars[v].kills[t] <= frags + 1
      <4> TAKE v \in DOMAIN wars
      <4> TAKE t \in Sides
      <4>1. wars[v].kills[t] <= frags /\ wars[v].kills[t] \in Nat
        BY <1>2, <1>4 DEF Bounded
      <4> QED BY <1>1, <4>1
    <3>2. \A i \in DOMAIN ending' : \A t \in Sides : ending'[i].kills[t] <= frags + 1
      <4> TAKE i \in DOMAIN ending'
      <4> TAKE t \in Sides
      <4>1. CASE i = n + 1
        BY <1>1, <2>2, <2>4, <4>1
      <4>2. CASE i \in DOMAIN ending
        <5>1. ending[i].kills[t] <= frags /\ ending[i].kills[t] \in Nat
          BY <1>2, <1>4, <4>2 DEF Bounded
        <5> QED BY <1>1, <2>4, <4>2, <5>1
      <4> QED BY <2>4, <4>1, <4>2
    <3>3. \A v \in DOMAIN wars : wars[v].paid + (n + 1) <= frags + 1
      <4> TAKE v \in DOMAIN wars
      <4>1. wars[v].paid + n <= frags
        BY <1>2 DEF Bounded
      <4>2. wars[v].paid \in Nat /\ n \in Nat /\ frags \in Nat
        BY <1>1, <1>4, <2>3
      <4> QED BY <4>1, <4>2
    <3>4. \A t \in Sides : balance[t] + 2 * (n + 1) <= Purse0 + 2 * (frags + 1)
      <4> TAKE t \in Sides
      <4>1. balance[t] + 2 * n <= Purse0 + 2 * frags
        BY <1>2 DEF Bounded
      <4>2. balance[t] \in Nat /\ n \in Nat /\ frags \in Nat
        BY <1>1, <1>4, <2>3
      <4> QED BY <4>1, <4>2
    <3>5. n + 1 <= frags + 1
      BY <1>1, <1>2, <2>3 DEF Bounded
    <3> QED BY <1>1, <2>1, <2>4, <3>1, <3>2, <3>3, <3>4, <3>5 DEF Bounded
  <2>8. KnownIsUnpaid' /\ PaidRight'
    BY <1>1, <1>2, <2>1 DEF KnownIsUnpaid, PaidRight
  <2>9. EndsOnce'
    <3>1. ASSUME NEW i \in DOMAIN ending'
          PROVE  /\ ending'[i].war \in DOMAIN wars /\ wars[ending'[i].war].status \in Fought
                 /\ ending'[i].war \notin late' =>
                      /\ wars[ending'[i].war].paid = 0 /\ ending'[i].kills[ending'[i].side] = FragLimit
                      /\ \A j \in DOMAIN ending' : ending'[j].war = ending'[i].war => j = i
      <4>1. CASE i = n + 1
        BY <1>1, <2>1, <2>2, <2>4, <4>1
      <4>2. CASE i \in DOMAIN ending
        <5>1. ending[i].war = w => w \in late'
          BY <1>1, <4>2
        <5> QED BY <1>1, <1>2, <2>2, <2>4, <4>2, <5>1 DEF EndsOnce
      <4> QED BY <2>4, <4>1, <4>2
    <3> QED BY <2>1, <3>1 DEF EndsOnce
  <2>10. Active' = Active /\ Begun' = Begun /\ Paid' = Paid
    BY <2>1 DEF Active, Begun, Paid
  <2>11. OneAtATime'
    <3>1. CASE crossed
      BY <1>1, <3>1 DEF OneAtATime
    <3>2. CASE ~crossed
      <4>1. /\ \A v, u \in Active : v = u
            /\ \A i \in DOMAIN ending : Active \subseteq {ending[i].war}
            /\ EnemiesKnown
        BY <1>2, <3>2 DEF OneAtATime
      <4>2. q \in inGame /\ w # NoWar /\ w = warMap[q]
        BY <1>0 DEF onKilledCreature
      <4>3. w \in Active
        BY <1>1, <3>2, <4>1, <4>2 DEF EnemiesKnown, Active
      <4>4. Active = {w}
        BY <4>1, <4>3
      <4>5. \A i \in DOMAIN ending' : Active' \subseteq {ending'[i].war}
        BY <2>2, <2>4, <2>10, <4>1, <4>4
      <4>6. EnemiesKnown'
        BY <1>1, <2>1, <2>10, <4>1 DEF EnemiesKnown
      <4> QED BY <2>10, <4>1, <4>5, <4>6 DEF OneAtATime
    <3> QED BY <3>1, <3>2
  <2>12. StakesCounted'
    BY <1>1, <1>2, <2>1, <2>10 DEF StakesCounted, Total
  <2> QED BY <2>6, <2>7, <2>8, <2>9, <2>11, <2>12 DEF Fair
<1> QED BY <1>5, <1>6

-----------------------------------------------------------------------------
\* The war that is paid is nobody's any more, and was not paid before.
LEMMA FinishKeeps == ASSUME Fair, finishWar PROVE Fair'
<1> USE WarsAssumption, WarIdFacts
<1> DEFINE n == Len(ending)
<1>1. /\ WarsTypeOK /\ Bounded /\ KnownIsUnpaid /\ EndsOnce /\ PaidRight /\ OneAtATime /\ StakesCounted
      /\ UNCHANGED <<inGame, recruits, late, crossed, frags>>
  BY DEF Fair, finishWar
<1>2. ending \in Seq(EndType) /\ ending # <<>> /\ ending' = Tail(ending) /\ n \in Nat /\ DOMAIN ending = 1..n
  BY <1>1, RowFacts DEF finishWar, WarsTypeOK
<1>3. /\ ending' \in Seq(EndType) /\ Len(ending') = n - 1 /\ n >= 1 /\ 1 \in DOMAIN ending
      /\ DOMAIN ending' = 1..(n - 1)
      /\ \A i \in DOMAIN ending' : i + 1 \in DOMAIN ending /\ i + 1 # 1 /\ ending'[i] = ending[i + 1]
  <2>1. n \in Nat \ {0}
    BY <1>2, EmptySeq
  <2>2. ending' \in Seq(EndType) /\ Len(ending') = n - 1
    BY <1>2, HeadTailProperties
  <2>3. DOMAIN ending' = 1..(n - 1)
    BY <2>2, LenProperties
  <2>4. \A i \in 1..(n - 1) : ending'[i] = ending[i + 1]
    BY <1>2, <2>2, HeadTailProperties
  <2> QED BY <1>2, <2>1, <2>2, <2>3, <2>4
<1>4. PICK e \in EndType : e = ending[1] /\ e = Head(ending)
  BY <1>2, <1>3, HeadTailProperties
<1> DEFINE w == e.war
           r == [wars[w] EXCEPT !.status = "over", !.paid = @ + 1, !.kills = e.kills]
<1>5. /\ w \in DOMAIN wars /\ w \in WarIds /\ wars[w].status \in Fought
      /\ w \notin late => /\ wars[w].paid = 0 /\ e.kills[e.side] = FragLimit
                          /\ \A j \in DOMAIN ending : ending[j].war = w => j = 1
      /\ e.side \in Sides /\ e.kills \in [Sides -> 0..(FragLimit + MaxFrags)]
      /\ \A s \in Sides : e.kills[s] <= frags
  BY <1>1, <1>3, <1>4, RowFacts DEF EndsOnce, Bounded
<1>6. /\ frags \in Nat /\ frags <= MaxFrags /\ wars[w] \in WarType /\ wars[w].paid \in Nat
      /\ wars[w].paid + n <= frags /\ n <= frags
  <2>1. frags \in Nat /\ frags <= MaxFrags
    BY <1>1 DEF WarsTypeOK
  <2>2. wars[w] \in WarType /\ wars[w].paid \in Nat
    BY <1>1, <1>5, RowFacts
  <2>3. wars[w].paid + n <= frags /\ n <= frags
    BY <1>1, <1>5 DEF Bounded
  <2> QED BY <2>1, <2>2, <2>3
<1>7. /\ r \in WarType /\ r.status = "over" /\ r.paid = wars[w].paid + 1 /\ r.kills = e.kills
      /\ wars' = [wars EXCEPT ![w] = r]
  <2>1. wars[w].paid + 1 \in 0..MaxFrags
    BY <1>2, <1>3, <1>6
  <2>2. "over" \in {"invited", "rejected", "cancelled", "over"} \cup On
    OBVIOUS
  <2>3. wars' = [wars EXCEPT ![e.war] =
                    [wars[e.war] EXCEPT !.status = "over", !.paid = @ + 1, !.kills = e.kills]]
    BY <1>4 DEF finishWar
  <2>4. wars' = [wars EXCEPT ![w] = r]
    BY <2>3, Zenon
  <2> QED BY <1>5, <1>6, <2>1, <2>2, <2>4 DEF WarType
<1> HIDE DEF r
<1>8. /\ wars' \in Seq(WarType) /\ Len(wars') = Len(wars) /\ DOMAIN wars' = DOMAIN wars
      /\ wars'[w] = r /\ \A v \in DOMAIN wars : v # w => wars'[v] = wars[v]
  BY <1>1, <1>5, <1>7, RowSet
<1>9. /\ warMap' \in [Soldiers -> WarIds \cup {NoWar}] /\ \A p \in Soldiers : warMap'[p] = NoWar
  <2>1. warMap' = removeEnemy(warMap, inGame)
    BY DEF finishWar
  <2>2. \A p \in Soldiers : p \notin inGame => warMap[p] = NoWar
    BY <1>1 DEF KnownIsUnpaid
  <2> QED BY <2>1, <2>2 DEF removeEnemy
<1>10. /\ \A s \in Sides : balance[s] \in Nat
       /\ balance' = [balance EXCEPT ![e.side] = @ + 2]
       /\ balance'[e.side] = balance[e.side] + 2
       /\ \A s \in Sides : s # e.side => balance'[s] = balance[s]
  BY <1>1, <1>4, <1>5 DEF finishWar, WarsTypeOK
<1>11. \A s \in Sides : balance'[s] \in Nat /\ balance'[s] + 2 * (n - 1) <= Purse0 + 2 * frags
  <2> TAKE s \in Sides
  <2>1. balance[s] + 2 * n <= Purse0 + 2 * frags
    BY <1>1 DEF Bounded
  <2>2. balance'[s] \in Nat /\ balance'[s] <= balance[s] + 2
    BY <1>5, <1>10
  <2> QED BY <1>2, <1>6, <1>10, <2>1, <2>2
<1>12. balance' \in [Sides -> 0..(2 * Purse0 + 2 * MaxFrags)]
  <2>1. \A s \in Sides : balance'[s] \in 0..(2 * Purse0 + 2 * MaxFrags)
    <3> TAKE s \in Sides
    <3>1. balance'[s] <= Purse0 + 2 * frags
      BY <1>2, <1>3, <1>6, <1>11
    <3> QED BY <1>6, <1>11, <3>1
  <2> QED BY <1>1, <1>10, <2>1 DEF WarsTypeOK
<1>13. WarsTypeOK'
  BY <1>1, <1>3, <1>8, <1>9, <1>12 DEF WarsTypeOK
<1>14. Bounded'
  <2>1. \A v \in DOMAIN wars : wars'[v].paid + (n - 1) <= frags
    <3> TAKE v \in DOMAIN wars
    <3>1. wars[v].paid + n <= frags /\ wars[v].paid \in Nat
      BY <1>1, RowFacts DEF Bounded
    <3>2. wars'[v].paid = wars[v].paid \/ wars'[v].paid = wars[v].paid + 1
      BY <1>7, <1>8
    <3> QED BY <1>2, <1>6, <3>1, <3>2
  <2>2. \A v \in DOMAIN wars : \A s \in Sides : wars'[v].kills[s] <= frags
    BY <1>1, <1>5, <1>7, <1>8 DEF Bounded
  <2>3. \A i \in DOMAIN ending' : \A s \in Sides : ending'[i].kills[s] <= frags
    BY <1>1, <1>3 DEF Bounded
  <2>4. n - 1 <= frags
    BY <1>2, <1>6
  <2> QED BY <1>1, <1>3, <1>8, <1>11, <2>1, <2>2, <2>3, <2>4 DEF Bounded
<1>15. KnownIsUnpaid'
  <2>1. wars'[w].paid > 0 /\ wars'[w].status = "over"
    BY <1>6, <1>7, <1>8
  <2> QED BY <1>1, <1>8, <1>9, <2>1 DEF KnownIsUnpaid
<1>16. EndsOnce'
  <2>1. ASSUME NEW i \in DOMAIN ending'
        PROVE  /\ ending'[i].war \in DOMAIN wars' /\ wars'[ending'[i].war].status \in Fought
               /\ ending'[i].war \notin late' =>
                    /\ wars'[ending'[i].war].paid = 0 /\ ending'[i].kills[ending'[i].side] = FragLimit
                    /\ \A j \in DOMAIN ending' : ending'[j].war = ending'[i].war => j = i
    <3> DEFINE k == i + 1
    <3>1. k \in DOMAIN ending /\ k # 1 /\ ending'[i] = ending[k]
      BY <1>3
    <3>2. /\ ending[k].war \in DOMAIN wars /\ wars[ending[k].war].status \in Fought
          /\ ending[k].war \notin late =>
               /\ wars[ending[k].war].paid = 0 /\ ending[k].kills[ending[k].side] = FragLimit
               /\ \A j \in DOMAIN ending : ending[j].war = ending[k].war => j = k
      BY <1>1, <3>1 DEF EndsOnce
    <3>3. wars'[ending[k].war].status \in Fought
      BY <1>7, <1>8, <3>2 DEF Fought
    <3>4. ending[k].war \notin late => ending[k].war # w
      BY <1>3, <1>4, <3>1, <3>2
    <3>5. ASSUME ending[k].war \notin late, NEW j \in DOMAIN ending', ending'[j].war = ending'[i].war
          PROVE  j = i
      <4>1. j + 1 = k
        BY <1>3, <3>1, <3>2, <3>5
      <4> QED BY <1>3, <4>1
    <3> HIDE DEF k
    <3> QED BY <1>1, <1>8, <3>1, <3>2, <3>3, <3>4, <3>5
  <2> QED BY <2>1 DEF EndsOnce
<1>17. PaidRight'
  BY <1>1, <1>5, <1>7, <1>8 DEF PaidRight
<1>18. OneAtATime'
  <2>1. CASE crossed
    BY <1>1, <2>1 DEF OneAtATime
  <2>2. CASE ~crossed
    <3>1. Active \subseteq {w}
      BY <1>1, <1>3, <1>4, <2>2 DEF OneAtATime
    <3>2. Active' = {}
      BY <1>5, <1>7, <1>8, <3>1 DEF Active, On
    <3>3. EnemiesKnown'
      BY <1>1, <1>9, <3>2 DEF EnemiesKnown, WarsTypeOK
    <3> QED BY <3>2, <3>3 DEF OneAtATime
  <2> QED BY <2>1, <2>2
<1>19. StakesCounted'
  <2> SUFFICES ASSUME late = {}, NEW s \in Sides
               PROVE  Total(s)' <= 2 * Purse0 - Len(wars) - Cardinality(Begun') + 2 * Cardinality(Paid')
    BY <1>1, <1>8 DEF StakesCounted
  <2>1. Begun' = Begun /\ Paid' = Paid \cup {w} /\ w \notin Paid
    BY <1>5, <1>6, <1>7, <1>8 DEF Begun, Paid, Fought
  <2>2. Cardinality(Paid') = Cardinality(Paid) + 1
    <3>1. IsFiniteSet(Paid)
      BY <1>1, BegunFacts
    <3> QED BY <2>1, <3>1, FS_AddElement
  <2>3. Total(s)' = Total(s) + 2 /\ Total(s) \in Nat
    <3>1. Other(s) \in Sides /\ s # Other(s) /\ (e.side = s \/ e.side = Other(s))
      BY <1>5, SidesFacts
    <3> QED BY <1>10, <3>1 DEF Total
  <2>4. Total(s) <= 2 * Purse0 - Len(wars) - Cardinality(Begun) + 2 * Cardinality(Paid)
    BY <1>1 DEF StakesCounted
  <2> QED BY <1>1, <2>1, <2>2, <2>3, <2>4, BegunFacts, RowFacts
<1> QED BY <1>13, <1>14, <1>15, <1>16, <1>17, <1>18, <1>19 DEF Fair

-----------------------------------------------------------------------------
LEMMA FairStep == Fair /\ [WarsNext]_warVars => Fair'
<1> SUFFICES ASSUME Fair, [WarsNext]_warVars PROVE Fair'
  OBVIOUS
<1>1. ASSUME NEW w \in DOMAIN wars,
             \/ accept(w) \/ Refuse(w, "rejected") \/ Refuse(w, "cancelled")
             \/ finish(w) \/ signTruce(w) \/ checkWars(w)
      PROVE  Fair'
  <2>1. CASE finish(w) \/ checkWars(w)
    <3>1. PICK from \in SUBSET On : Ends(w, from)
      BY <2>1 DEF finish, checkWars, On
    <3> QED BY <3>1, EndsKeeps
  <2> QED BY <1>1, <2>1, AcceptKeeps, RefuseKeeps, TruceKeeps
<1>2. ASSUME NEW p \in Soldiers, enters(p) \/ leaves(p) PROVE Fair'
  BY <1>2, FighterEnters, LeavesKeeps
<1>3. CASE UNCHANGED warVars
  <2>1. WarsTypeOK' /\ KnownIsUnpaid'
    BY <1>3 DEF warVars, Fair, WarsTypeOK, KnownIsUnpaid
  <2>2. ~crossed => EnemiesKnown'
    BY <1>3 DEF warVars, Fair, OneAtATime, EnemiesKnown, Active
  <2> QED BY <1>3, <2>1, <2>2, ComingsKeep DEF warVars
<1> QED BY <1>1, <1>2, <1>3, DeclareKeeps, KillKeeps, FinishKeeps, RestartKeeps DEF WarsNext

LEMMA FairSettles == Fair => WarsSettle
<1> SUFFICES ASSUME Fair PROVE WarsSettle
  OBVIOUS
<1>1. WarsTypeOK
  BY DEF Fair
<1>2. EnemiesKnown
  BY DEF Fair, OneAtATime, EnemiesKnown
<1>3. PaidOnce
  <2>1. ASSUME NEW w \in DOMAIN wars, w \notin late
        PROVE  /\ wars[w].paid <= 1
               /\ wars[w].paid = 1 => wars[w].status = "over" /\ \E s \in Sides : wars[w].kills[s] = FragLimit
               /\ \A e \in ToSet(ending) : e.war = w => e.kills[e.side] = FragLimit
    <3>1. \A e \in ToSet(ending) : \E i \in DOMAIN ending : e = ending[i]
      BY DEF ToSet
    <3> QED BY <2>1, <3>1 DEF Fair, PaidRight, EndsOnce, KnownIsUnpaid
  <2> QED BY <2>1 DEF PaidOnce
<1>4. StakesSuffice
  <2> SUFFICES ASSUME late = {}, NEW s \in Sides PROVE Total(s) <= 2 * Purse0
    BY DEF StakesSuffice, Total
  <2>1. Total(s) <= 2 * Purse0 - Len(wars) - Cardinality(Begun) + 2 * Cardinality(Paid)
    BY DEF Fair, StakesCounted
  <2>2. Paid \subseteq Begun
    BY DEF Fair, KnownIsUnpaid, Paid, Begun, Fought
  <2>3. Total(s) \in Nat
    BY <1>1, SidesFacts DEF WarsTypeOK, Total
  <2> QED BY <1>1, <2>1, <2>2, <2>3, BegunFacts, RowFacts, WarsAssumption
<1> QED BY <1>1, <1>2, <1>3, <1>4 DEF WarsSettle

(* Whatever the leaders order and whoever comes, goes and is killed, until  *)
(* wars cross the soldiers know the war there is; a war nobody was killed   *)
(* late in is paid once, and the stakes that were put in are what is paid.  *)
THEOREM WarsAlwaysSettle == WarsSpec => []WarsSettle
BY FairInit, FairStep, FairSettles, PTL DEF WarsSpec

-----------------------------------------------------------------------------
(* The state of the game.                                                  *)

GameStates == {"normal", "maintain", "closed", "closing", "shutdown"}

Tasks == {<<"set", s>> : s \in GameStates} \cup {<<"save">>, <<"shutdown">>, <<"prepare">>}
           \cup {<<"login", p>> : p \in Everyone}

Games == [state : GameStates, online : SUBSET Everyone, tasks : Seq(Tasks), stopped : BOOLEAN]

\* A closed game has Nobles only.
Kept(gs) == gs \in Games /\ (gs.state = "closed" => gs.online \subseteq Nobles)

PreparesIn(tasks) == {k \in DOMAIN tasks : tasks[k][1] = "prepare"}

(* The inductive invariant: the properties, and what waits in the queue is  *)
(* a task.                                                                  *)
Guarded ==
  /\ WorldIsClosed
  /\ gameTasks \in Seq(Tasks)

-----------------------------------------------------------------------------
LEMMA GameTaskFacts ==
  /\ \A t \in Tasks : /\ t[1] = "set" => t[2] \in GameStates
                      /\ t[1] = "login" => t[2] \in Everyone
  /\ \A s \in GameStates : <<"set", s>> \in Tasks /\ <<"set", s>>[1] # "prepare"
  /\ \A p \in Everyone : <<"login", p>> \in Tasks /\ <<"login", p>>[1] # "prepare"
  /\ \A t \in {<<"save">>, <<"shutdown">>} : t \in Tasks /\ t[1] # "prepare"
  /\ <<"prepare">> \in Tasks
BY DEF Tasks, GameStates

LEMMA GameFacts ==
  ASSUME Guarded
  PROVE  Kept(Game) /\ Game.tasks = gameTasks /\ Game.state = gameState
BY DEF Guarded, WorldIsClosed, GlobalSaveTypeOK, Kept, Games, Game, GameStates

LEMMA AddTask ==
  ASSUME NEW gs, Kept(gs), NEW t \in Tasks
  PROVE  /\ Kept(addGameTask(gs, t))
         /\ t[1] # "prepare" => PreparesIn(addGameTask(gs, t).tasks) = PreparesIn(gs.tasks)
         /\ PreparesIn(gs.tasks) = {} =>
              \A j, k \in PreparesIn(addGameTask(gs, t).tasks) : j = k
<1> DEFINE new == Append(gs.tasks, t)
<1>1. /\ gs.tasks \in Seq(Tasks) /\ new \in Seq(Tasks) /\ Len(gs.tasks) \in Nat
      /\ DOMAIN gs.tasks = 1..Len(gs.tasks) /\ DOMAIN new = 1..(Len(gs.tasks) + 1)
      /\ \A k \in 1..Len(gs.tasks) : new[k] = gs.tasks[k]
      /\ new[Len(gs.tasks) + 1] = t
  <2>1. gs.tasks \in Seq(Tasks)
    BY DEF Kept, Games
  <2> QED BY <2>1, AppendProperties, LenProperties
<1>2. addGameTask(gs, t) = gs \/ addGameTask(gs, t) = [gs EXCEPT !.tasks = new]
  BY DEF addGameTask
<1>3. /\ [gs EXCEPT !.tasks = new].tasks = new
      /\ Kept([gs EXCEPT !.tasks = new])
  <2> HIDE DEF new
  <2> QED BY <1>1 DEF Kept, Games
<1>4. /\ t[1] # "prepare" => PreparesIn(new) = PreparesIn(gs.tasks)
      /\ PreparesIn(gs.tasks) = {} => \A j, k \in PreparesIn(new) : j = k
  <2> HIDE DEF new
  <2> DEFINE n == Len(gs.tasks)
  <2>1. /\ n \in Nat /\ DOMAIN gs.tasks = 1..n /\ DOMAIN new = 1..(n + 1)
        /\ \A k \in 1..n : new[k] = gs.tasks[k]
        /\ new[n + 1] = t
    BY <1>1
  <2> HIDE DEF n
  <2>2. \A k \in DOMAIN new : k \in DOMAIN gs.tasks \/ k = n + 1
    BY <2>1
  <2>3. \A k \in DOMAIN gs.tasks : k \in DOMAIN new /\ new[k] = gs.tasks[k]
    BY <2>1
  <2>4. n + 1 \in DOMAIN new
    BY <2>1
  <2>5. ASSUME t[1] # "prepare" PROVE PreparesIn(new) = PreparesIn(gs.tasks)
    BY <2>1, <2>2, <2>3, <2>5 DEF PreparesIn
  <2>6. ASSUME PreparesIn(gs.tasks) = {} PROVE \A j \in PreparesIn(new) : j = n + 1
    BY <2>2, <2>3, <2>6 DEF PreparesIn
  <2> QED BY <2>5, <2>6
<1> HIDE DEF new
<1> QED BY <1>2, <1>3, <1>4

LEMMA SetState ==
  ASSUME NEW gs, Kept(gs), NEW s \in GameStates
  PROVE  /\ Kept(enterState(gs, s)) /\ Kept(setGameState(gs, s))
         /\ PreparesIn(enterState(gs, s).tasks) = PreparesIn(gs.tasks)
         /\ PreparesIn(setGameState(gs, s).tasks) = PreparesIn(gs.tasks)
<1>1. /\ Kept(enterState(gs, s))
      /\ PreparesIn(enterState(gs, s).tasks) = PreparesIn(gs.tasks)
  <2>1. CASE s = "shutdown"
    <3> DEFINE a == addGameTask(gs, <<"shutdown">>)
    <3>1. Kept(a) /\ PreparesIn(a.tasks) = PreparesIn(gs.tasks)
      BY AddTask, GameTaskFacts
    <3>2. enterState(gs, s) = [a EXCEPT !.state = s, !.online = {}, !.stopped = TRUE]
      BY <2>1 DEF enterState
    <3> HIDE DEF a
    <3> QED BY <2>1, <3>1, <3>2 DEF Kept, Games
  <2>2. CASE s = "closed"
    <3>1. enterState(gs, s) = [gs EXCEPT !.state = s, !.online = @ \cap Nobles]
      BY <2>2 DEF enterState
    <3>2. /\ enterState(gs, s).tasks = gs.tasks /\ enterState(gs, s).state = "closed"
          /\ enterState(gs, s).online = gs.online \cap Nobles
          /\ enterState(gs, s) \in Games
      BY <2>2, <3>1 DEF Kept, Games
    <3> QED BY <3>2 DEF Kept
  <2>3. CASE s \notin {"shutdown", "closed"}
    <3>1. enterState(gs, s) = [gs EXCEPT !.state = s]
      BY <2>3 DEF enterState
    <3> QED BY <2>3, <3>1 DEF Kept, Games
  <2> QED BY <2>1, <2>2, <2>3
<1> QED BY <1>1 DEF setGameState

LEMMA Others ==
  ASSUME NEW gs, Kept(gs)
  PROVE  /\ Kept(saveGameState(gs)) /\ Kept(globalSave(gs))
         /\ PreparesIn(saveGameState(gs).tasks) = PreparesIn(gs.tasks)
         /\ PreparesIn(globalSave(gs).tasks) = PreparesIn(gs.tasks)
<1>1. Kept(saveGameState(gs)) /\ PreparesIn(saveGameState(gs).tasks) = PreparesIn(gs.tasks)
  BY SetState DEF saveGameState, GameStates
<1>2. Kept(globalSave(gs)) /\ PreparesIn(globalSave(gs).tasks) = PreparesIn(gs.tasks)
  <2>1. {"closing", "closed", "normal", "shutdown"} \subseteq GameStates
    BY DEF GameStates
  <2>2. CASE shutsDown
    <3> DEFINE a == setGameState(gs, "closing")
    <3>1. Kept(a) /\ PreparesIn(a.tasks) = PreparesIn(gs.tasks)
      BY <2>1, SetState
    <3>2. globalSave(gs) = addGameTask(a, <<"set", "shutdown">>)
      BY <2>2 DEF globalSave
    <3> HIDE DEF a
    <3> QED BY <2>1, <3>1, <3>2, AddTask, GameTaskFacts
  <2>3. CASE ~ shutsDown
    <3> DEFINE a == addGameTask(gs, <<"set", "closed">>)
    <3>1. Kept(a) /\ PreparesIn(a.tasks) = PreparesIn(gs.tasks)
      BY <2>1, AddTask, GameTaskFacts
    <3>2. globalSave(gs) = addGameTask(a, <<"set", "normal">>)
      BY <2>3 DEF globalSave
    <3> HIDE DEF a
    <3> QED BY <2>1, <3>1, <3>2, AddTask, GameTaskFacts
  <2> QED BY <2>2, <2>3
<1> QED BY <1>1, <1>2

\* The next task is taken: of the saves on their way none is left if it was one.
LEMMA TakeTask ==
  ASSUME Guarded, gameTasks # <<>>
  PROVE  /\ Head(gameTasks) \in Tasks
         /\ Kept([Game EXCEPT !.tasks = Tail(@)])
         /\ [Game EXCEPT !.tasks = Tail(@)].tasks = Tail(gameTasks)
         /\ \A j, k \in PreparesIn(Tail(gameTasks)) : j = k
         /\ PreparesIn(gameTasks) = {} => PreparesIn(Tail(gameTasks)) = {}
         /\ Head(gameTasks)[1] = "prepare" => PreparesIn(Tail(gameTasks)) = {} /\ saveTimer = {}
<1>1. /\ gameTasks \in Seq(Tasks) /\ Len(gameTasks) \in Nat \ {0}
      /\ DOMAIN gameTasks = 1..Len(gameTasks)
  BY EmptySeq, LenProperties DEF Guarded
<1>2. Head(gameTasks) = gameTasks[1] /\ gameTasks[1] \in Tasks
  BY <1>1, ElementOfSeq
<1>3. /\ Tail(gameTasks) \in Seq(Tasks) /\ DOMAIN Tail(gameTasks) = 1..(Len(gameTasks) - 1)
      /\ \A k \in 1..(Len(gameTasks) - 1) : Tail(gameTasks)[k] = gameTasks[k + 1]
  BY <1>1, HeadTailProperties, LenProperties
<1>4. \A k \in PreparesIn(Tail(gameTasks)) : k \in Nat /\ k + 1 \in PreparesIn(gameTasks) /\ k + 1 # 1
  BY <1>1, <1>3 DEF PreparesIn
<1>5. /\ \A j, k \in PreparesIn(gameTasks) : j = k
      /\ \A minutes \in saveTimer : PreparesIn(gameTasks) = {}
  BY DEF Guarded, WorldIsClosed, Prepares, PreparesIn
<1>6. \A j, k \in PreparesIn(Tail(gameTasks)) : j = k
  BY <1>4, <1>5
<1>7. Head(gameTasks)[1] = "prepare" => 1 \in PreparesIn(gameTasks)
  BY <1>1, <1>2 DEF PreparesIn
<1>8. Head(gameTasks)[1] = "prepare" => PreparesIn(Tail(gameTasks)) = {} /\ saveTimer = {}
  BY <1>4, <1>5, <1>7
<1>9. /\ Kept([Game EXCEPT !.tasks = Tail(@)])
      /\ [Game EXCEPT !.tasks = Tail(@)].tasks = Tail(gameTasks)
  BY <1>3, GameFacts DEF Kept, Games
<1> QED BY <1>2, <1>4, <1>6, <1>8, <1>9

-----------------------------------------------------------------------------
(* The parts of the state that are not of the game.                        *)

SaveTyped ==
  /\ globalSaveMessage \in Seq(BOOLEAN) /\ Len(globalSaveMessage) = 3
  /\ saveTimer \subseteq Nat
  /\ over \in BOOLEAN /\ shutsDown \in BOOLEAN
  /\ otherThread \in {Idle, "open", "clean", "cleaned"}
  /\ orders \in 0..MaxOrders

AtMostOneSave ==
  /\ \A j, k \in PreparesIn(gameTasks) : j = k
  /\ \A minutes \in saveTimer : saveTimer = {minutes} /\ PreparesIn(gameTasks) = {}

GameTyped ==
  /\ gameState \in GameStates /\ online \subseteq Everyone /\ stopped \in BOOLEAN
  /\ gameTasks \in Seq(Tasks)
  /\ gameState = "closed" => online \subseteq Nobles

LEMMA GuardedParts == Guarded <=> SaveTyped /\ AtMostOneSave /\ GameTyped
<1>1. {stopped, over, shutsDown} \subseteq BOOLEAN
        <=> stopped \in BOOLEAN /\ over \in BOOLEAN /\ shutsDown \in BOOLEAN
  BY Zenon
<1>2. GlobalSaveTypeOK <=> /\ SaveTyped /\ gameState \in GameStates
                           /\ online \subseteq Everyone /\ stopped \in BOOLEAN
  <2>1. GlobalSaveTypeOK => /\ SaveTyped /\ gameState \in GameStates
                            /\ online \subseteq Everyone /\ stopped \in BOOLEAN
    BY <1>1, Zenon DEF GlobalSaveTypeOK, SaveTyped, GameStates
  <2>2. /\ SaveTyped /\ gameState \in GameStates
        /\ online \subseteq Everyone /\ stopped \in BOOLEAN
        => GlobalSaveTypeOK
    BY <1>1, Zenon DEF GlobalSaveTypeOK, SaveTyped, GameStates
  <2> QED BY <2>1, <2>2, Zenon
<1> QED BY <1>2, Zenon DEF Guarded, WorldIsClosed, AtMostOneSave, GameTyped, Prepares, PreparesIn

LEMMA Settled ==
  ASSUME NEW gs, Kept(gs), SetGame(gs), SaveTyped', AtMostOneSave'
  PROVE  Guarded'
<1>1. GameTyped'
  BY DEF Kept, Games, SetGame, GameTyped
<1> QED BY <1>1, GuardedParts, PTL

LEMMA RunGameTaskKeeps == ASSUME Guarded, RunGameTask PROVE Guarded'
<1> DEFINE gs == [Game EXCEPT !.tasks = Tail(@)]
           t == Head(gameTasks)
<1>1. /\ t \in Tasks /\ Kept(gs) /\ gs.tasks = Tail(gameTasks)
      /\ \A j, k \in PreparesIn(gs.tasks) : j = k
      /\ PreparesIn(gameTasks) = {} => PreparesIn(gs.tasks) = {}
      /\ t[1] = "prepare" => PreparesIn(gs.tasks) = {} /\ saveTimer = {}
  BY TakeTask DEF RunGameTask
<1>2. SaveTyped /\ AtMostOneSave
  BY GuardedParts
<1>3. UNCHANGED <<otherThread, shutsDown, timeOfDay, orders>>
  BY DEF RunGameTask
<1>4. \/ /\ t[1] = "set" /\ SetGame(setGameState(gs, t[2]))
         /\ UNCHANGED <<globalSaveMessage, saveTimer, over>>
      \/ /\ t[1] = "save" /\ SetGame(saveGameState(gs))
         /\ UNCHANGED <<globalSaveMessage, saveTimer, over>>
      \/ /\ t[1] = "login" /\ SetGame(enterWorld(gs, t[2]))
         /\ UNCHANGED <<globalSaveMessage, saveTimer, over>>
      \/ t[1] = "prepare" /\ prepareGlobalSave(gs) /\ UNCHANGED over
      \/ /\ t[1] = "shutdown" /\ over' = TRUE /\ SetGame(gs)
         /\ UNCHANGED <<globalSaveMessage, saveTimer>>
  BY DEF RunGameTask
<1>5. ASSUME NEW new, Kept(new), SetGame(new), PreparesIn(new.tasks) = PreparesIn(gs.tasks),
             UNCHANGED <<globalSaveMessage, saveTimer>>, over' \in BOOLEAN
      PROVE  Guarded'
  <2>1. SaveTyped'
    BY <1>2, <1>3, <1>5, Zenon DEF SaveTyped
  <2>2. AtMostOneSave'
    BY <1>1, <1>2, <1>5 DEF AtMostOneSave, SetGame, PreparesIn
  <2> QED BY <1>5, <2>1, <2>2, Settled
<1>6. over \in BOOLEAN
  BY <1>2 DEF SaveTyped
<1> HIDE DEF gs, t
<1>7. CASE t[1] = "set" /\ SetGame(setGameState(gs, t[2])) /\ UNCHANGED <<globalSaveMessage, saveTimer, over>>
  BY <1>1, <1>5, <1>6, <1>7, SetState, GameTaskFacts
<1>8. CASE t[1] = "save" /\ SetGame(saveGameState(gs)) /\ UNCHANGED <<globalSaveMessage, saveTimer, over>>
  BY <1>1, <1>5, <1>6, <1>8, Others
<1>9. CASE t[1] = "login" /\ SetGame(enterWorld(gs, t[2])) /\ UNCHANGED <<globalSaveMessage, saveTimer, over>>
  <2>1. enterWorld(gs, t[2]).tasks = gs.tasks
    BY <1>1 DEF enterWorld, Kept, Games
  <2>2. Kept(enterWorld(gs, t[2]))
    <3>1. t[2] \in Everyone /\ gs.state = gameState
      BY <1>1, <1>9, GameTaskFacts, GameFacts DEF gs, Kept, Games
    <3>2. gameState = "closed" /\ mayEnter(t[2]) => t[2] \in Nobles
      BY DEF mayEnter
    <3> QED BY <1>1, <3>1, <3>2 DEF enterWorld, Kept, Games
  <2> QED BY <1>5, <1>6, <1>9, <2>1, <2>2
<1>10. CASE t[1] = "shutdown" /\ over' = TRUE /\ SetGame(gs) /\ UNCHANGED <<globalSaveMessage, saveTimer>>
  BY <1>1, <1>5, <1>10
<1>11. CASE t[1] = "prepare" /\ prepareGlobalSave(gs) /\ UNCHANGED over
  <2>1. PICK new : /\ Kept(new) /\ SetGame(new) /\ PreparesIn(new.tasks) = {}
    <3>1. /\ PreparesIn(gs.tasks) = {} /\ "closing" \in GameStates
      BY <1>1, <1>11 DEF GameStates
    <3>2. \/ SetGame(setGameState(gs, "closing")) \/ SetGame(gs) \/ SetGame(globalSave(gs))
      BY <1>11 DEF prepareGlobalSave
    <3>3. /\ Kept(setGameState(gs, "closing")) /\ Kept(globalSave(gs))
          /\ PreparesIn(setGameState(gs, "closing").tasks) = {}
          /\ PreparesIn(globalSave(gs).tasks) = {}
      BY <1>1, <3>1, SetState, Others
    <3> QED BY <1>1, <3>1, <3>2, <3>3, Zenon
  <2>2. PreparesIn(gameTasks)' = {}
    BY <2>1 DEF SetGame, PreparesIn
  <2>3. saveTimer' = {} \/ \E minutes \in {1, 2, 1435} : saveTimer' = {minutes}
    <3>1. saveTimer = {}
      BY <1>1, <1>11
    <3>2. UNCHANGED saveTimer \/ \E minutes \in {1, 2, 1435} : Arm(minutes, gs)
      <4>1. CASE ~ globalSaveMessage[1]
        BY <1>11, <4>1, SMT DEF prepareGlobalSave
      <4>2. CASE globalSaveMessage[1] /\ ~ globalSaveMessage[2]
        BY <1>11, <4>2, SMT DEF prepareGlobalSave
      <4>3. CASE globalSaveMessage[1] /\ globalSaveMessage[2] /\ ~ globalSaveMessage[3]
        BY <1>11, <4>3, SMT DEF prepareGlobalSave
      <4>4. CASE globalSaveMessage[1] /\ globalSaveMessage[2] /\ globalSaveMessage[3]
        <5>1. CASE shutsDown
          BY <1>11, <4>4, <5>1, SMT DEF prepareGlobalSave
        <5>2. CASE ~ shutsDown
          BY <1>11, <4>4, <5>2, SMT DEF prepareGlobalSave
        <5> QED BY <5>1, <5>2
      <4> QED BY <4>1, <4>2, <4>3, <4>4
    <3>3. \A minutes \in {1, 2, 1435} : Arm(minutes, gs) => saveTimer' = {} \/ saveTimer' = {minutes}
      BY DEF Arm
    <3> QED BY <3>1, <3>2, <3>3
  <2>4. globalSaveMessage' \in Seq(BOOLEAN) /\ Len(globalSaveMessage') = 3
    <3>1. globalSaveMessage \in Seq(BOOLEAN) /\ Len(globalSaveMessage) = 3
      BY <1>2 DEF SaveTyped
    <3>2. \A k \in {1, 2, 3} : LET m == [globalSaveMessage EXCEPT ![k] = TRUE]
                               IN  m \in Seq(BOOLEAN) /\ Len(m) = 3
      BY <3>1, ExceptSeq
    <3>3. <<FALSE, FALSE, FALSE>> \in Seq(BOOLEAN) /\ Len(<<FALSE, FALSE, FALSE>>) = 3
      OBVIOUS
    <3>4. \/ globalSaveMessage' = globalSaveMessage
          \/ \E k \in {1, 2, 3} : globalSaveMessage' = [globalSaveMessage EXCEPT ![k] = TRUE]
          \/ globalSaveMessage' = <<FALSE, FALSE, FALSE>>
      BY <1>11 DEF prepareGlobalSave
    <3> QED BY <3>1, <3>2, <3>3, <3>4
  <2>5. SaveTyped'
    <3>1. saveTimer' \subseteq Nat
      BY <2>3
    <3> QED BY <1>2, <1>3, <1>11, <2>4, <3>1, Zenon DEF SaveTyped
  <2>6. AtMostOneSave'
    BY <2>2, <2>3 DEF AtMostOneSave
  <2> QED BY <2>1, <2>5, <2>6, Settled
<1> QED BY <1>4, <1>7, <1>8, <1>9, <1>10, <1>11 DEF t

LEMMA SaveTimerFiresKeeps == ASSUME Guarded, SaveTimerFires PROVE Guarded'
<1>1. SaveTyped /\ AtMostOneSave /\ Kept(Game) /\ Game.tasks = gameTasks
  BY GuardedParts, GameFacts
<1>2. PICK minutes \in saveTimer : saveTimer' = saveTimer \ {minutes}
  BY DEF SaveTimerFires
<1>3. saveTimer' = {} /\ PreparesIn(gameTasks) = {}
  BY <1>1, <1>2 DEF AtMostOneSave
<1> DEFINE new == addGameTask(Game, <<"prepare">>)
<1>4. Kept(new) /\ \A j, k \in PreparesIn(new.tasks) : j = k
  BY <1>1, <1>3, AddTask, GameTaskFacts
<1>5. SetGame(new) /\ UNCHANGED <<globalSaveMessage, over, otherThread, shutsDown, timeOfDay, orders>>
  BY DEF SaveTimerFires
<1> HIDE DEF new
<1>6. SaveTyped'
  BY <1>1, <1>3, <1>5 DEF SaveTyped
<1>7. AtMostOneSave'
  BY <1>3, <1>4, <1>5 DEF AtMostOneSave, SetGame, PreparesIn
<1> QED BY <1>4, <1>5, <1>6, <1>7, Settled

\* Orders and the other thread change nothing of the save.
LEMMA GameOrderKeeps ==
  ASSUME Guarded, NEW gs, Kept(gs), PreparesIn(gs.tasks) = PreparesIn(gameTasks), SetGame(gs),
         NoneOfTheSave, orders' \in 0..MaxOrders, otherThread' \in {Idle, "open", "clean", "cleaned"}
  PROVE  Guarded'
<1>1. SaveTyped /\ AtMostOneSave
  BY GuardedParts
<1>2. SaveTyped'
  BY <1>1 DEF SaveTyped, NoneOfTheSave
<1>3. AtMostOneSave'
  BY <1>1 DEF AtMostOneSave, NoneOfTheSave, SetGame, PreparesIn
<1> QED BY <1>2, <1>3, Settled

LEMMA NextKeeps == ASSUME Guarded, [GlobalSaveNext]_saveVars PROVE Guarded'
<1>0. SaveTyped
  BY GuardedParts
<1>1. /\ SaveTyped /\ Kept(Game) /\ Game.tasks = gameTasks
      /\ orders \in 0..MaxOrders /\ MaxOrders \in Nat
  BY <1>0, GameFacts, GlobalSaveAssumption DEF SaveTyped
<1>2. otherThread \in {Idle, "open", "clean", "cleaned"}
  BY <1>1 DEF SaveTyped
<1>3. Ordered => orders' \in 0..MaxOrders
  BY <1>1 DEF Ordered
<1>4. States \subseteq GameStates /\ {"normal", "maintain"} \subseteq GameStates
  BY GlobalSaveAssumption DEF GameStates
<1>5. CASE RunGameTask
  BY <1>5, RunGameTaskKeeps
<1>6. CASE SaveTimerFires
  BY <1>6, SaveTimerFiresKeeps
<1>7. CASE OrderTask
  <2>1. PICK t \in {<<"set", s>> : s \in States} \cup {<<"save">>, <<"shutdown">>} :
            SetGame(addGameTask(Game, t))
    BY <1>7 DEF OrderTask
  <2>2. Ordered /\ NoneOfTheSave /\ UNCHANGED otherThread
    BY <1>7 DEF OrderTask
  <2>3. t \in Tasks /\ t[1] # "prepare"
    BY <1>4, GameTaskFacts
  <2>4. Kept(addGameTask(Game, t)) /\ PreparesIn(addGameTask(Game, t).tasks) = PreparesIn(gameTasks)
    BY <1>1, <2>3, AddTask
  <2> QED BY <1>2, <1>3, <2>1, <2>2, <2>4, GameOrderKeeps
<1>8. ASSUME NEW p \in Everyone, AskToLogin(p) PROVE Guarded'
  <2>1. /\ SetGame(addGameTask(Game, <<"login", p>>))
        /\ Ordered /\ NoneOfTheSave /\ UNCHANGED otherThread
    BY <1>8 DEF AskToLogin
  <2>2. /\ Kept(addGameTask(Game, <<"login", p>>))
        /\ PreparesIn(addGameTask(Game, <<"login", p>>).tasks) = PreparesIn(gameTasks)
    BY <1>1, AddTask, GameTaskFacts
  <2> QED BY <1>2, <1>3, <2>1, <2>2, GameOrderKeeps
<1>9. ASSUME NEW what \in {"open", "clean"}, OrderHere(what) PROVE Guarded'
  BY <1>1, <1>3, <1>9, GameOrderKeeps DEF OrderHere
<1>10. CASE OtherThreadSets
  <2>1. NoneOfTheSave /\ orders' \in 0..MaxOrders
    BY <1>1, <1>10 DEF OtherThreadSets
  <2>2. otherThread' \in {Idle, "open", "clean", "cleaned"}
    BY <1>10 DEF OtherThreadSets, Idle
  <2>3. PICK gs : Kept(gs) /\ PreparesIn(gs.tasks) = PreparesIn(gameTasks) /\ SetGame(gs)
    <3>1. \/ SetGame(enterState(Game, "normal")) \/ SetGame(enterState(Game, "maintain"))
          \/ SetGame(Game)
      BY <1>10 DEF OtherThreadSets
    <3> QED BY <1>1, <1>4, <3>1, SetState
  <2> QED BY <2>1, <2>2, <2>3, GameOrderKeeps
<1>11. CASE UNCHANGED saveVars
  BY <1>11 DEF saveVars, Guarded, WorldIsClosed, GlobalSaveTypeOK, Prepares
<1> QED BY <1>5, <1>6, <1>7, <1>8, <1>9, <1>10, <1>11 DEF GlobalSaveNext

LEMMA StartsInADay ==
  ASSUME NEW c \in [hour : 0..23, minute : 0..59, saveHour : (0..23) \ {0}, saveMinute : 0..59]
  PROVE  start(c) = NoTimer \/ start(c) \in Nat
<1>1. PICK h \in -23..22 : h = c.hour - c.saveHour
  OBVIOUS
<1>2. PICK m \in -54..64 : m = c.minute - (c.saveMinute - 5)
  OBVIOUS
<1>3. PICK left \in -4..59 : left = IF m > 0 THEN 60 - m ELSE - m
  OBVIOUS
<1>4. PICK hours \in 0..23 :
        hours = CASE h > 0 -> (IF m > 0 THEN 22 ELSE 23) - h
                  [] h = 0 -> IF m > 0 THEN 23 ELSE 0
                  [] h < 0 -> IF m > 0 THEN - h - 1 ELSE - h
  OBVIOUS
<1>5. start(c) = IF h = 0 /\ m > -1 /\ m < 6 THEN 0
                 ELSE IF hours = 0 \/ left = 0 THEN NoTimer
                 ELSE hours * 60 + left
  BY <1>1, <1>2, <1>3, <1>4, SMT DEF start
<1>6. hours # 0 => hours * 60 + left \in Nat
  OBVIOUS
<1> QED BY <1>5, <1>6

LEMMA InitGuarded == GlobalSaveInit => Guarded
<1> SUFFICES ASSUME GlobalSaveInit PROVE Guarded
  OBVIOUS
<1>1. timeOfDay \in [hour : 0..23, minute : 0..59, saveHour : (0..23) \ {0}, saveMinute : 0..59]
  BY GlobalSaveAssumption DEF GlobalSaveInit
<1>2. saveTimer = {} \/ \E minutes \in Nat : saveTimer = {minutes}
  <2>1. armedAtStart(timeOfDay) = {} \/ \E minutes \in Nat : armedAtStart(timeOfDay) = {minutes}
    BY <1>1, StartsInADay DEF armedAtStart
  <2> QED BY <2>1 DEF GlobalSaveInit
<1>3. globalSaveMessage \in Seq(BOOLEAN) /\ Len(globalSaveMessage) = 3
  <2>1. \A b, c \in BOOLEAN : <<TRUE, b, c>> \in Seq(BOOLEAN) /\ Len(<<TRUE, b, c>>) = 3
    OBVIOUS
  <2>2. <<FALSE, FALSE, FALSE>> \in Seq(BOOLEAN) /\ Len(<<FALSE, FALSE, FALSE>>) = 3
    OBVIOUS
  <2>3. \/ globalSaveMessage = <<FALSE, FALSE, FALSE>>
        \/ \E b, c \in BOOLEAN : globalSaveMessage = <<TRUE, b, c>>
    <3> DEFINE m == timeOfDay.minute - (timeOfDay.saveMinute - 5)
    <3>1. (m > 1) \in BOOLEAN /\ (m > 3) \in BOOLEAN
      OBVIOUS
    <3>2. \/ sentAtStart(timeOfDay) = <<FALSE, FALSE, FALSE>>
          \/ sentAtStart(timeOfDay) = <<TRUE, m > 1, m > 3>>
      BY DEF sentAtStart
    <3>3. globalSaveMessage = sentAtStart(timeOfDay)
      BY DEF GlobalSaveInit
    <3> HIDE DEF m
    <3> QED BY <3>1, <3>2, <3>3, Zenon
  <2> QED BY <2>1, <2>2, <2>3
<1>4. gameTasks = <<>> /\ online = {} /\ stopped = FALSE /\ gameState \in GameStates
  BY DEF GlobalSaveInit, GameStates
<1>5. over = FALSE /\ shutsDown \in BOOLEAN /\ otherThread = Idle /\ orders \in 0..MaxOrders
  BY GlobalSaveAssumption DEF GlobalSaveInit
<1>6. SaveTyped
  <2>1. saveTimer \subseteq Nat
    BY <1>2
  <2> QED BY <1>3, <1>5, <2>1, Zenon DEF SaveTyped
<1>7. AtMostOneSave
  BY <1>2, <1>4 DEF AtMostOneSave, PreparesIn
<1>8. GameTyped
  <2>1. <<>> \in Seq(Tasks) /\ {} \subseteq Everyone /\ FALSE \in BOOLEAN
    BY EmptySeq
  <2>2. {} \subseteq Nobles
    OBVIOUS
  <2> QED BY <1>4, <2>1, <2>2, Zenon DEF GameTyped
<1> QED BY <1>6, <1>7, <1>8, GuardedParts

\* Through saves, orders and the other thread, nobody plays in a closed world who may not,
\* and two saves are never on their way (game.cpp, prepareGlobalSave and setGameState).
THEOREM WorldStaysClosed == GlobalSaveSpec => []WorldIsClosed
<1>1. Guarded => WorldIsClosed
  BY DEF Guarded
<1> QED BY <1>1, InitGuarded, NextKeeps, PTL DEF GlobalSaveSpec

-----------------------------------------------------------------------------
(* Scripts.                                                                *)

Calls == [kind : {"event", "buffer", "timer"}, timer : TimerIds \cup {Timerless},
          makes : SUBSET MadeItems]
Depth == Len(callStack)

EnvTyped ==
  /\ made \in [MadeItems -> ThingType]
  /\ m_scriptEnvIndex \in -1..(Envs - 1)
  /\ m_localMap \in [0..(Envs - 1) -> SUBSET MadeItems] /\ m_tempItems \subseteq MadeItems
  /\ overflown \in BOOLEAN /\ sharedItems \subseteq MadeItems

\* There are no more environments in use than calls; only the first call is of a timer.
CallsTidy ==
  /\ callStack \in Seq(Calls)
  /\ \A k \in 1..Depth : callStack[k].kind = "timer" => k = 1 /\ callStack[k].timer \in TimerIds
  /\ m_scriptEnvIndex <= Depth - 1
  /\ m_scriptEnvIndex = -1 => m_tempItems = {}
  /\ overflown \/ m_scriptEnvIndex = Depth - 1
  /\ overflown \/ \A k \in 1..Depth : callStack[k].makes \subseteq m_localMap[k - 1]

Absent(x) == \A e \in 0..(Envs - 1) : x \notin m_localMap[e]

(* What was not made leaves no trace; what was made and not placed is in    *)
(* the list of all environments as long as any script can place it, and if  *)
(* the running call made it, in no other environment than its own.          *)
ItemsTidy ==
  /\ \A x \in MadeItems : made[x].parent = "none" =>
       /\ made[x].released = 0 /\ ~ made[x].deleted /\ x \notin m_tempItems
       /\ Absent(x)
       /\ \A k \in 1..Depth : x \notin callStack[k].makes
  /\ \A x \in m_tempItems : made[x].parent = Virtual => made[x].released = 0 /\ ~ made[x].deleted
  /\ \A x \in MadeItems : made[x].parent # TakenAway => made[x].released <= 1
  /\ \A x \in MadeItems \ sharedItems :
       /\ made[x].parent = Virtual /\ x \notin m_tempItems => Absent(x)
       /\ made[x].parent = InWorld => made[x].released = 0 /\ ~ made[x].deleted
       /\ made[x].parent = TakenAway \/ (made[x].parent = Virtual /\ x \notin m_tempItems) =>
            \/ made[x].released = 1 /\ ~ made[x].deleted
            \/ made[x].released = 0 /\ made[x].deleted
  /\ callStack # <<>> =>
       \A x \in Top.makes : x \in m_tempItems /\ made[x].parent = Virtual =>
         \A e \in 0..(Envs - 1) : x \in m_localMap[e] => e = m_scriptEnvIndex

Running == IF callStack # <<>> /\ callStack[1].kind = "timer" THEN {callStack[1].timer} ELSE {}

TimerTyped ==
  /\ m_timerEvents \subseteq TimerIds /\ m_lastTimer \in 0..MaxTimers
  /\ scheduled \subseteq TimerIds /\ queued \subseteq TimerIds
  /\ timersRan \subseteq TimerIds /\ timersStopped \subseteq TimerIds /\ selfStopped \subseteq TimerIds
  /\ unrefs \in [TimerIds -> 0..2]

(* A timer has one task, here or there, until it runs; and what ran and is  *)
(* still registered is what runs.                                           *)
TimersTidy ==
  /\ Running \subseteq timersRan /\ Running \subseteq m_timerEvents \cup selfStopped
  /\ \A i \in TimerIds : i > m_lastTimer =>
       /\ i \notin m_timerEvents \cup scheduled \cup queued \cup timersRan \cup timersStopped \cup selfStopped
       /\ unrefs[i] = 0
  /\ \A i \in scheduled : i \notin queued
  /\ \A i \in timersRan : i \notin scheduled /\ i \notin queued /\ i \notin timersStopped
  /\ \A i \in m_timerEvents : /\ i \in timersRan => i \in Running
                              /\ i \notin timersStopped /\ i \notin selfStopped
                              /\ unrefs[i] = 0
  /\ \A i \in selfStopped : unrefs[i] \in 1..2 /\ (i \in Running => unrefs[i] = 1)
  /\ \A i \in TimerIds \ (m_timerEvents \cup selfStopped) : i <= m_lastTimer => unrefs[i] = 1

EnvTidy == EnvTyped /\ CallsTidy /\ ItemsTidy
Tidy == EnvTidy /\ TimerTyped /\ TimersTidy /\ scriptSteps \in 0..MaxSteps

-----------------------------------------------------------------------------
LEMMA EnvNumbers == /\ Envs \in Nat \ {0} /\ MaxTimers \in Nat /\ MaxSteps \in Nat
                    /\ Timerless \notin TimerIds /\ TimerIds \subseteq Nat
BY ScriptsAssumption DEF TimerIds, Timerless

LEMMA TopFacts ==
  ASSUME NEW s \in Seq(Calls), s # <<>>
  PROVE  /\ Len(s) \in Nat \ {0} /\ Last(s) = s[Len(s)] /\ Last(s) \in Calls /\ s[1] \in Calls
         /\ Front(s) \in Seq(Calls) /\ Len(Front(s)) = Len(s) - 1
         /\ \A k \in 1..(Len(s) - 1) : Front(s)[k] = s[k]
<1>1. Len(s) \in Nat \ {0}
  BY EmptySeq
<1>2. \A k \in 1..Len(s) : s[k] \in Calls
  BY ElementOfSeq
<1>3. PICK n \in Nat : n = Len(s) - 1
  BY <1>1
<1>4. Front(s) = SubSeq(s, 1, n)
  BY <1>3 DEF Front
<1>5. /\ SubSeq(s, 1, n) \in Seq(Calls) /\ Len(SubSeq(s, 1, n)) = IF 1 <= n THEN n - 1 + 1 ELSE 0
      /\ \A k \in 1..(n - 1 + 1) : SubSeq(s, 1, n)[k] = s[1 + k - 1]
  <2>1. \A k \in 1..n : s[k] \in Calls
    BY <1>1, <1>2, <1>3
  <2> QED BY <2>1, SubSeqProperties
<1>6. \A k \in 1..n : SubSeq(s, 1, n)[k] = s[k]
  <2> TAKE k \in 1..n
  <2>1. 1 + k - 1 = k /\ k \in 1..(n - 1 + 1)
    OBVIOUS
  <2> QED BY <1>5, <2>1
<1>7. Len(SubSeq(s, 1, n)) = n
  BY <1>5
<1> QED BY <1>1, <1>2, <1>3, <1>4, <1>5, <1>6, <1>7 DEF Last

LEMMA PushFacts ==
  ASSUME CallsTidy, NEW c \in Calls, callStack' = Append(callStack, c)
  PROVE  /\ callStack' \in Seq(Calls) /\ Depth \in Nat /\ Depth' = Depth + 1
         /\ \A k \in 1..Depth : callStack'[k] = callStack[k]
         /\ callStack'[Depth + 1] = c /\ callStack' # <<>> /\ Top' = c
<1>1. callStack \in Seq(Calls)
  BY DEF CallsTidy
<1>2. /\ callStack' \in Seq(Calls) /\ Depth \in Nat /\ Depth' = Depth + 1
      /\ \A k \in 1..Depth : callStack'[k] = callStack[k]
      /\ callStack'[Depth + 1] = c
  BY <1>1, AppendProperties, LenProperties DEF Depth
<1>3. callStack' # <<>>
  <2>1. Len(callStack') # 0
    BY <1>2 DEF Depth
  <2> QED BY <1>2, <2>1, EmptySeq
<1>4. Top' = callStack'[Len(callStack')]
  BY DEF Top, Last
<1> QED BY <1>2, <1>3, <1>4 DEF Depth

LEMMA PushRuns ==
  ASSUME CallsTidy, NEW c \in Calls, callStack' = Append(callStack, c),
         c.kind = "timer" => callStack = <<>>
  PROVE  IF c.kind = "timer" THEN Running' = {c.timer} ELSE Running' = Running
<1>1. /\ callStack' # <<>> /\ Depth \in Nat /\ callStack'[Depth + 1] = c
      /\ \A k \in 1..Depth : callStack'[k] = callStack[k]
  BY PushFacts
<1>2. CASE callStack = <<>>
  <2>1. Depth = 0
    BY <1>2 DEF Depth
  <2> QED BY <1>1, <1>2, <2>1 DEF Running
<1>3. CASE callStack # <<>>
  <2>1. 1 \in 1..Depth
    BY <1>3, TopFacts DEF CallsTidy, Depth
  <2> QED BY <1>1, <1>3, <2>1 DEF Running
<1> QED BY <1>2, <1>3

-----------------------------------------------------------------------------
(* Environments and items.                                                 *)

LEMMA ReserveKeeps ==
  ASSUME EnvTidy, NEW kind \in {"event", "buffer", "timer"}, NEW timer \in TimerIds \cup {Timerless},
         kind = "timer" => callStack = <<>> /\ timer \in TimerIds,
         NEW X \in SUBSET MadeItems, \A x \in X : made[x].parent = InWorld,
         reserveEnv(kind, timer, X), UNCHANGED <<made, m_tempItems, sharedItems, overflown>>
  PROVE  EnvTidy'
<1> DEFINE c == Call(kind, timer)
<1>1. c \in Calls /\ c.makes = {} /\ c.kind = kind /\ c.timer = timer
  BY DEF Call, Calls
<1>2. /\ m_scriptEnvIndex + 1 < Envs /\ m_scriptEnvIndex' = m_scriptEnvIndex + 1
      /\ m_localMap' = [m_localMap EXCEPT ![m_scriptEnvIndex + 1] = X]
      /\ callStack' = Append(callStack, c)
  BY DEF reserveEnv
<1> HIDE DEF c
<1>3. /\ callStack' \in Seq(Calls) /\ Depth \in Nat /\ Depth' = Depth + 1
      /\ \A k \in 1..Depth : callStack'[k] = callStack[k]
      /\ callStack'[Depth + 1] = c /\ callStack' # <<>> /\ Top' = c
  BY <1>1, <1>2, PushFacts DEF EnvTidy
<1>4. EnvTyped /\ CallsTidy /\ ItemsTidy
  BY DEF EnvTidy
<1>5. m_scriptEnvIndex + 1 \in 0..(Envs - 1)
  BY <1>2, <1>4, EnvNumbers DEF EnvTyped
<1>6. /\ m_localMap'[m_scriptEnvIndex + 1] = X
      /\ \A e \in 0..(Envs - 1) : e # m_scriptEnvIndex + 1 => m_localMap'[e] = m_localMap[e]
  BY <1>2, <1>4, <1>5 DEF EnvTyped
<1>7. EnvTyped'
  BY <1>2, <1>4, <1>5 DEF EnvTyped
<1>8. CallsTidy'
  <2>1. \A k \in 1..Depth' : callStack'[k].kind = "timer" => k = 1 /\ callStack'[k].timer \in TimerIds
    <3> TAKE k \in 1..Depth'
    <3>1. CASE k \in 1..Depth
      BY <1>3, <1>4, <3>1 DEF CallsTidy
    <3>2. CASE k = Depth + 1
      <4>1. kind = "timer" => Depth = 0
        BY DEF Depth
      <4> QED BY <1>1, <1>3, <3>2, <4>1
    <3> QED BY <1>3, <3>1, <3>2
  <2>2. overflown' \/ m_scriptEnvIndex' = Depth' - 1
    BY <1>2, <1>3, <1>4 DEF CallsTidy
  <2>3. m_scriptEnvIndex' <= Depth' - 1 /\ m_scriptEnvIndex' # -1
    <3>1. m_scriptEnvIndex <= Depth - 1 /\ m_scriptEnvIndex \in Int
      BY <1>4, EnvNumbers DEF CallsTidy, EnvTyped
    <3> QED BY <1>2, <1>3, <1>5, <3>1
  <2>4. ASSUME ~ overflown PROVE \A k \in 1..Depth' : callStack'[k].makes \subseteq m_localMap'[k - 1]
    <3> TAKE k \in 1..Depth'
    <3>1. CASE k \in 1..Depth
      <4>1. /\ m_scriptEnvIndex = Depth - 1 /\ callStack[k].makes \subseteq m_localMap[k - 1]
        BY <1>4, <2>4, <3>1 DEF CallsTidy
      <4>2. k - 1 \in 0..(Envs - 1) /\ k - 1 # m_scriptEnvIndex + 1
        BY <1>3, <1>5, <3>1, <4>1, EnvNumbers
      <4> QED BY <1>3, <1>6, <3>1, <4>1, <4>2
    <3>2. CASE k = Depth + 1
      BY <1>1, <1>3, <3>2
    <3> QED BY <1>3, <3>1, <3>2
  <2> QED BY <1>3, <2>1, <2>2, <2>3, <2>4 DEF CallsTidy
<1>9. ItemsTidy'
  <2>1. \A x \in MadeItems : Absent(x) /\ made[x].parent # InWorld => Absent(x)'
    BY <1>6 DEF Absent
  <2>2. ASSUME NEW x \in MadeItems, made[x].parent = "none"
        PROVE  Absent(x)' /\ \A k \in 1..Depth' : x \notin callStack'[k].makes
    <3>1. Absent(x) /\ \A k \in 1..Depth : x \notin callStack[k].makes
      BY <1>4, <2>2 DEF ItemsTidy
    <3>2. Absent(x)'
      BY <2>1, <2>2, <3>1 DEF InWorld
    <3>3. \A k \in 1..Depth' : x \notin callStack'[k].makes
      BY <1>1, <1>3, <3>1
    <3> QED BY <3>2, <3>3
  <2>3. ASSUME NEW x \in MadeItems \ sharedItems, made[x].parent = Virtual, x \notin m_tempItems
        PROVE  Absent(x)'
    BY <1>4, <2>1, <2>3 DEF ItemsTidy, Virtual, InWorld
  <2> QED BY <1>1, <1>3, <1>4, <2>2, <2>3 DEF ItemsTidy
<1> QED BY <1>7, <1>8, <1>9 DEF EnvTidy

\* A buffer that found no environment.
LEMMA OverflowKeeps ==
  ASSUME EnvTidy, Runs, callStack' = Append(callStack, Call("buffer", Timerless)), overflown',
         UNCHANGED <<made, m_tempItems, sharedItems, m_scriptEnvIndex, m_localMap>>
  PROVE  EnvTidy'
<1> DEFINE c == Call("buffer", Timerless)
<1>1. c \in Calls /\ c.makes = {} /\ c.kind = "buffer"
  BY DEF Call, Calls
<1>2. callStack' = Append(callStack, c)
  OBVIOUS
<1> HIDE DEF c
<1>3. /\ callStack' \in Seq(Calls) /\ Depth \in Nat /\ Depth' = Depth + 1
      /\ \A k \in 1..Depth : callStack'[k] = callStack[k]
      /\ callStack'[Depth + 1] = c /\ callStack' # <<>> /\ Top' = c
  BY <1>1, <1>2, PushFacts DEF EnvTidy
<1>4. EnvTyped /\ CallsTidy /\ ItemsTidy
  BY DEF EnvTidy
<1>5. EnvTyped'
  <2>1. overflown' \in BOOLEAN
    OBVIOUS
  <2> QED BY <1>4, <2>1, Zenon DEF EnvTyped
<1>6. CallsTidy'
  <2>1. \A k \in 1..Depth' : callStack'[k].kind = "timer" => k = 1 /\ callStack'[k].timer \in TimerIds
    <3> TAKE k \in 1..Depth'
    <3>1. k \in 1..Depth \/ k = Depth + 1
      BY <1>3
    <3> QED BY <1>1, <1>3, <1>4, <3>1 DEF CallsTidy
  <2>2. m_scriptEnvIndex <= Depth - 1 /\ m_scriptEnvIndex >= 0 /\ m_scriptEnvIndex \in Int
    BY <1>4, EnvNumbers DEF CallsTidy, EnvTyped, Runs
  <2>3. m_scriptEnvIndex' <= Depth' - 1 /\ m_scriptEnvIndex' # -1
    BY <1>3, <2>2
  <2> QED BY <1>3, <2>1, <2>3 DEF CallsTidy
<1>7. ItemsTidy'
  <2>1. \A x \in MadeItems : Absent(x)' <=> Absent(x)
    BY DEF Absent
  <2>2. \A x \in MadeItems : made[x].parent = "none" => \A k \in 1..Depth' : x \notin callStack'[k].makes
    <3> TAKE x \in MadeItems
    <3> HAVE made[x].parent = "none"
    <3> TAKE k \in 1..Depth'
    <3>1. k \in 1..Depth \/ k = Depth + 1
      BY <1>3
    <3> QED BY <1>1, <1>3, <1>4, <3>1 DEF ItemsTidy
  <2>3. Top'.makes = {}
    BY <1>1, <1>3
  <2> QED BY <1>4, <2>1, <2>2, <2>3 DEF ItemsTidy
<1> QED BY <1>5, <1>6, <1>7 DEF EnvTidy

\* What the world and scripts do with one item, calls and environments being as they were.
LEMMA ItemKeeps ==
  ASSUME EnvTidy, UNCHANGED <<envVars>>, NEW x \in MadeItems, NEW t \in ThingType,
         made' = [made EXCEPT ![x] = t],
         \/ /\ made[x].parent = Virtual /\ (x \in m_tempItems \/ x \in sharedItems)
            /\ t = [made[x] EXCEPT !.parent = InWorld]
         \/ /\ made[x].parent = InWorld
            /\ t = [made[x] EXCEPT !.parent = TakenAway, !.released = @ + 1]
  PROVE  EnvTidy'
<1>1. EnvTyped /\ CallsTidy /\ ItemsTidy
  BY DEF EnvTidy
<1>2. UNCHANGED <<callStack, m_scriptEnvIndex, m_localMap, m_tempItems, sharedItems, overflown>>
  BY DEF envVars
<1>3. made'[x] = t /\ \A y \in MadeItems : y # x => made'[y] = made[y]
  BY <1>1 DEF EnvTyped
<1>4. EnvTyped'
  <2>1. made' \in [MadeItems -> ThingType]
    BY <1>1 DEF EnvTyped
  <2> QED BY <1>1, <1>2, <2>1, Zenon DEF EnvTyped
<1>5. CallsTidy'
  BY <1>1, <1>2 DEF CallsTidy, Depth
<1>6. ItemsTidy'
  <2>1. made[x] \in ThingType
    BY <1>1 DEF EnvTyped
  <2>2. /\ t.parent \in {InWorld, TakenAway} /\ t.parent # "none" /\ t.parent # Virtual
        /\ made[x].parent # TakenAway
        /\ t.parent = InWorld => t.released = made[x].released /\ t.deleted = made[x].deleted /\ made[x].parent = Virtual
        /\ t.parent = TakenAway => t.released = made[x].released + 1 /\ t.deleted = made[x].deleted /\ made[x].parent = InWorld
    BY <2>1 DEF ThingType, InWorld, TakenAway, Virtual
  <2>3. \A y \in MadeItems : Absent(y)' <=> Absent(y)
    BY <1>2 DEF Absent
  <2>4. Depth' = Depth /\ Top' = Top
    BY <1>2 DEF Depth, Top
  <2>5. \A y \in MadeItems : made'[y].parent = "none" =>
          /\ made'[y].released = 0 /\ ~ made'[y].deleted /\ y \notin m_tempItems'
          /\ Absent(y)'
          /\ \A k \in 1..Depth' : y \notin callStack'[k].makes
    BY <1>1, <1>2, <1>3, <2>2, <2>3, <2>4 DEF ItemsTidy
  <2>6. \A y \in m_tempItems' : made'[y].parent = Virtual => made'[y].released = 0 /\ ~ made'[y].deleted
    BY <1>1, <1>2, <1>3, <2>2 DEF ItemsTidy, EnvTyped
  <2>7. \A y \in MadeItems : made'[y].parent # TakenAway => made'[y].released <= 1
    BY <1>1, <1>2, <1>3, <2>2 DEF ItemsTidy
  <2>8. \A y \in MadeItems \ sharedItems' :
          /\ made'[y].parent = Virtual /\ y \notin m_tempItems' => Absent(y)'
          /\ made'[y].parent = InWorld => made'[y].released = 0 /\ ~ made'[y].deleted
          /\ made'[y].parent = TakenAway \/ (made'[y].parent = Virtual /\ y \notin m_tempItems') =>
               \/ made'[y].released = 1 /\ ~ made'[y].deleted
               \/ made'[y].released = 0 /\ made'[y].deleted
    <3> TAKE y \in MadeItems \ sharedItems'
    <3>1. CASE y = x
      <4>1. made[x].parent = Virtual => x \in m_tempItems /\ made[x].released = 0 /\ ~ made[x].deleted
        BY <1>1, <1>2, <3>1 DEF ItemsTidy, Virtual, InWorld
      <4>2. made[x].parent = InWorld => made[x].released = 0 /\ ~ made[x].deleted
        BY <1>1, <1>2, <3>1 DEF ItemsTidy
      <4> QED BY <1>3, <2>2, <3>1, <4>1, <4>2
    <3>2. CASE y # x
      <4>1. made'[y] = made[y] /\ y \in MadeItems \ sharedItems
        BY <1>2, <1>3, <3>2
      <4> QED BY <1>1, <1>2, <2>3, <4>1 DEF ItemsTidy
    <3> QED BY <3>1, <3>2
  <2>9. callStack' # <<>> =>
          \A y \in Top'.makes : y \in m_tempItems' /\ made'[y].parent = Virtual =>
            \A e \in 0..(Envs - 1) : y \in m_localMap'[e] => e = m_scriptEnvIndex'
    BY <1>1, <1>2, <1>3, <2>2, <2>4 DEF ItemsTidy, EnvTyped
  <2> QED BY <2>5, <2>6, <2>7, <2>8, <2>9 DEF ItemsTidy
<1> QED BY <1>4, <1>5, <1>6 DEF EnvTidy

LEMMA ScriptCreateKeeps ==
  ASSUME EnvTidy, NEW x \in MadeItems, doCreateItemEx(x)
  PROVE  EnvTidy'
<1>1. EnvTyped /\ CallsTidy /\ ItemsTidy
  BY DEF EnvTidy
<1>2. /\ callStack # <<>> /\ m_scriptEnvIndex >= 0 /\ made[x].parent = "none"
      /\ made' = [made EXCEPT ![x].parent = Virtual]
      /\ m_tempItems' = m_tempItems \cup {x}
      /\ m_localMap' = [m_localMap EXCEPT ![m_scriptEnvIndex] = @ \cup {x}]
      /\ callStack' = [callStack EXCEPT ![Len(callStack)].makes = @ \cup {x}]
      /\ UNCHANGED <<m_scriptEnvIndex, sharedItems, overflown>>
  BY DEF doCreateItemEx, Runs
<1>3. /\ Depth \in Nat \ {0} /\ callStack[Depth] \in Calls /\ Top = callStack[Depth]
      /\ callStack \in Seq(Calls)
  BY <1>1, <1>2, TopFacts DEF CallsTidy, Depth, Top
<1> DEFINE c == [callStack[Depth] EXCEPT !.makes = @ \cup {x}]
<1>4. /\ c \in Calls /\ c.kind = callStack[Depth].kind /\ c.timer = callStack[Depth].timer
      /\ c.makes = callStack[Depth].makes \cup {x}
  BY <1>3 DEF Calls
<1>5. callStack' = [callStack EXCEPT ![Depth] = c]
  BY <1>2 DEF Depth
<1> HIDE DEF c
<1>6. /\ callStack' \in Seq(Calls) /\ Depth' = Depth /\ callStack' # <<>>
      /\ \A k \in 1..Depth : k # Depth => callStack'[k] = callStack[k]
      /\ callStack'[Depth] = c /\ Top' = c
  <2>1. /\ callStack' \in Seq(Calls) /\ Len(callStack') = Depth
        /\ \A k \in 1..Depth : callStack'[k] = IF k = Depth THEN c ELSE callStack[k]
    BY <1>3, <1>4, <1>5, ExceptSeq DEF Depth
  <2>2. callStack' # <<>>
    BY <1>3, <2>1, EmptySeq
  <2>3. Top' = callStack'[Len(callStack')]
    BY DEF Top, Last
  <2> QED BY <1>3, <2>1, <2>2, <2>3 DEF Depth
<1>7. m_scriptEnvIndex \in 0..(Envs - 1)
  BY <1>1, <1>2, EnvNumbers DEF EnvTyped
<1>8. /\ made'[x] = [made[x] EXCEPT !.parent = Virtual] /\ made[x] \in ThingType
      /\ \A y \in MadeItems : y # x => made'[y] = made[y]
      /\ m_localMap'[m_scriptEnvIndex] = m_localMap[m_scriptEnvIndex] \cup {x}
      /\ \A e \in 0..(Envs - 1) : e # m_scriptEnvIndex => m_localMap'[e] = m_localMap[e]
  BY <1>1, <1>2, <1>7 DEF EnvTyped
<1>9. /\ made'[x].parent = Virtual /\ made'[x].released = made[x].released
      /\ made'[x].deleted = made[x].deleted /\ made'[x] \in ThingType
  BY <1>8 DEF ThingType, Virtual
<1>10. EnvTyped'
  <2>1. made' \in [MadeItems -> ThingType]
    BY <1>1, <1>2, <1>9, <1>8 DEF EnvTyped
  <2>2. m_localMap' \in [0..(Envs - 1) -> SUBSET MadeItems] /\ m_tempItems' \subseteq MadeItems
    BY <1>1, <1>2, <1>7 DEF EnvTyped
  <2> QED BY <1>1, <1>2, <2>1, <2>2, Zenon DEF EnvTyped
<1>11. CallsTidy'
  <2>1. \A k \in 1..Depth' : callStack'[k].kind = "timer" => k = 1 /\ callStack'[k].timer \in TimerIds
    BY <1>1, <1>4, <1>6 DEF CallsTidy
  <2>2. m_scriptEnvIndex' <= Depth' - 1 /\ m_scriptEnvIndex' # -1
    BY <1>1, <1>2, <1>6, <1>7 DEF CallsTidy
  <2>3. overflown' \/ m_scriptEnvIndex' = Depth' - 1
    BY <1>1, <1>2, <1>6 DEF CallsTidy
  <2>4. ASSUME ~ overflown PROVE \A k \in 1..Depth' : callStack'[k].makes \subseteq m_localMap'[k - 1]
    <3> TAKE k \in 1..Depth'
    <3>1. m_scriptEnvIndex = Depth - 1 /\ callStack[k].makes \subseteq m_localMap[k - 1]
      BY <1>1, <1>6, <2>4 DEF CallsTidy
    <3>2. k \in 1..Depth /\ k - 1 \in 0..(Envs - 1)
      BY <1>3, <1>6, <1>7, <3>1, EnvNumbers
    <3>3. CASE k = Depth
      BY <1>4, <1>6, <1>8, <3>1, <3>3
    <3>4. CASE k # Depth
      BY <1>3, <1>6, <1>8, <3>1, <3>2, <3>4
    <3> QED BY <3>3, <3>4
  <2> QED BY <1>2, <1>6, <2>1, <2>2, <2>3, <2>4 DEF CallsTidy
<1>12. ItemsTidy'
  <2>0. /\ made[x].released = 0 /\ ~ made[x].deleted /\ x \notin m_tempItems /\ Absent(x)
        /\ \A k \in 1..Depth : x \notin callStack[k].makes
    BY <1>1, <1>2 DEF ItemsTidy
  <2>1. \A y \in MadeItems : y # x /\ Absent(y) => Absent(y)'
    BY <1>7, <1>8 DEF Absent
  <2>2. \A y \in MadeItems : made'[y].parent = "none" =>
          /\ made'[y].released = 0 /\ ~ made'[y].deleted /\ y \notin m_tempItems'
          /\ Absent(y)'
          /\ \A k \in 1..Depth' : y \notin callStack'[k].makes
    <3> TAKE y \in MadeItems
    <3> HAVE made'[y].parent = "none"
    <3>1. y # x
      BY <1>9 DEF Virtual
    <3>2. /\ made'[y] = made[y] /\ y \notin m_tempItems' /\ Absent(y)'
          /\ made[y].released = 0 /\ ~ made[y].deleted
      BY <1>1, <1>2, <1>8, <2>1, <3>1 DEF ItemsTidy
    <3>3. \A k \in 1..Depth' : y \notin callStack'[k].makes
      BY <1>1, <1>3, <1>4, <1>6, <1>8, <3>1 DEF ItemsTidy
    <3> QED BY <3>2, <3>3
  <2>3. \A y \in m_tempItems' : made'[y].parent = Virtual => made'[y].released = 0 /\ ~ made'[y].deleted
    BY <1>1, <1>2, <1>8, <1>9, <2>0 DEF ItemsTidy, EnvTyped
  <2>4. \A y \in MadeItems : made'[y].parent # TakenAway => made'[y].released <= 1
    <3> TAKE y \in MadeItems
    <3>1. y # x => made'[y] = made[y]
      BY <1>8
    <3> QED BY <1>1, <1>9, <2>0, <3>1 DEF ItemsTidy
  <2>5. \A y \in MadeItems \ sharedItems' :
          /\ made'[y].parent = Virtual /\ y \notin m_tempItems' => Absent(y)'
          /\ made'[y].parent = InWorld => made'[y].released = 0 /\ ~ made'[y].deleted
          /\ made'[y].parent = TakenAway \/ (made'[y].parent = Virtual /\ y \notin m_tempItems') =>
               \/ made'[y].released = 1 /\ ~ made'[y].deleted
               \/ made'[y].released = 0 /\ made'[y].deleted
    <3> TAKE y \in MadeItems \ sharedItems'
    <3>1. CASE y = x
      BY <1>2, <1>9, <3>1 DEF Virtual, InWorld, TakenAway
    <3>2. CASE y # x
      <4>1. made'[y] = made[y] /\ y \in MadeItems \ sharedItems /\ (y \notin m_tempItems' => y \notin m_tempItems)
        BY <1>2, <1>8, <3>2
      <4> QED BY <1>1, <2>1, <3>2, <4>1 DEF ItemsTidy
    <3> QED BY <3>1, <3>2
  <2>6. \A y \in Top'.makes : y \in m_tempItems' /\ made'[y].parent = Virtual =>
            \A e \in 0..(Envs - 1) : y \in m_localMap'[e] => e = m_scriptEnvIndex'
    <3> TAKE y \in Top'.makes
    <3> HAVE y \in m_tempItems' /\ made'[y].parent = Virtual
    <3> TAKE e \in 0..(Envs - 1)
    <3> HAVE y \in m_localMap'[e]
    <3>1. CASE y = x
      BY <1>2, <1>8, <2>0, <3>1 DEF Absent
    <3>2. CASE y # x
      <4>1. y \in Top.makes /\ y \in m_tempItems /\ made[y].parent = Virtual
        BY <1>1, <1>2, <1>3, <1>4, <1>6, <1>8, <3>2 DEF EnvTyped
      <4>2. y \in m_localMap[e]
        BY <1>8, <3>2
      <4> QED BY <1>1, <1>2, <4>1, <4>2 DEF ItemsTidy
    <3> QED BY <3>1, <3>2
  <2> QED BY <2>2, <2>3, <2>4, <2>5, <2>6 DEF ItemsTidy
<1> QED BY <1>10, <1>11, <1>12 DEF EnvTidy

\* What cleanup() makes of the items.
Cleaned ==
  /\ made' \in [MadeItems -> ThingType]
  /\ \A x \in MadeItems : /\ made'[x].parent = made[x].parent /\ made'[x].released = 0
                          /\ made'[x].deleted <=> made[x].deleted \/ made[x].released > 0

LEMMA CleanupCleans ==
  ASSUME made \in [MadeItems -> ThingType], cleanupItems
  PROVE  Cleaned
<1>1. made' = [x \in MadeItems |-> [made[x] EXCEPT !.released = 0,
                                                   !.deleted = @ \/ made[x].released > 0]]
  BY Zenon DEF cleanupItems
<1>2. ASSUME NEW x \in MadeItems
      PROVE  /\ made'[x] \in ThingType
             /\ made'[x].parent = made[x].parent /\ made'[x].released = 0
             /\ made'[x].deleted <=> made[x].deleted \/ made[x].released > 0
  <2> DEFINE b == made[x].deleted \/ made[x].released > 0
             u == made'[x]
  <2>1. b \in BOOLEAN /\ u = [made[x] EXCEPT !.released = 0, !.deleted = b]
    BY <1>1, Zenon
  <2>2. made[x] \in ThingType
    OBVIOUS
  <2> HIDE DEF b, u
  <2>3. u.parent = made[x].parent /\ u.released = 0
    BY <2>1, <2>2 DEF ThingType
  <2>4. u.deleted = b
    BY <2>1, <2>2 DEF ThingType
  <2>5. u \in ThingType
    <3>1. u = [parent |-> made[x].parent, released |-> 0, deleted |-> b]
      BY <2>1, <2>2, Zenon DEF ThingType
    <3>2. made[x].parent \in {"none", Virtual, InWorld, TakenAway} /\ 0 \in 0..2
      BY <2>2 DEF ThingType
    <3> QED BY <2>1, <3>1, <3>2, Zenon DEF ThingType
  <2> QED BY <2>3, <2>4, <2>5, Zenon DEF b, u
<1>3. made' \in [MadeItems -> ThingType]
  BY <1>1, <1>2, Zenon
<1> QED BY <1>2, <1>3, Zenon DEF Cleaned

LEMMA CleanupKeeps ==
  ASSUME EnvTidy, callStack = <<>>, UNCHANGED <<envVars>>, Cleaned
  PROVE  EnvTidy'
<1>1. EnvTyped /\ CallsTidy /\ ItemsTidy
  BY DEF EnvTidy
<1>2. UNCHANGED <<callStack, m_scriptEnvIndex, m_localMap, m_tempItems, sharedItems, overflown>>
  BY DEF envVars
<1>4. \A x \in MadeItems : /\ made'[x].parent = made[x].parent /\ made'[x].released = 0
                           /\ made'[x].deleted <=> made[x].deleted \/ made[x].released > 0
  BY DEF Cleaned
<1>5. EnvTyped'
  <2>1. made' \in [MadeItems -> ThingType]
    BY DEF Cleaned
  <2> QED BY <1>1, <1>2, <2>1, Zenon DEF EnvTyped
<1>6. CallsTidy' /\ m_tempItems' = {}
  <2>1. Depth = 0
    BY DEF Depth
  <2>2. m_scriptEnvIndex = -1
    <3>1. m_scriptEnvIndex <= Depth - 1 /\ m_scriptEnvIndex \in -1..(Envs - 1)
      BY <1>1 DEF CallsTidy, EnvTyped
    <3> QED BY <2>1, <3>1, EnvNumbers
  <2> QED BY <1>1, <1>2, <2>2 DEF CallsTidy, Depth
<1>7. ItemsTidy'
  <2>1. \A y \in MadeItems : Absent(y)' <=> Absent(y)
    BY <1>2 DEF Absent
  <2>2. Depth' = Depth /\ callStack' = <<>>
    BY <1>2 DEF Depth
  <2>3. \A y \in MadeItems : made'[y].parent = "none" =>
          /\ made'[y].released = 0 /\ ~ made'[y].deleted /\ y \notin m_tempItems'
          /\ Absent(y)'
          /\ \A k \in 1..Depth' : y \notin callStack'[k].makes
    BY <1>1, <1>2, <1>4, <2>1, <2>2 DEF ItemsTidy
  <2>4. \A y \in MadeItems : made'[y].parent # TakenAway => made'[y].released <= 1
    BY <1>4
  <2>5. \A y \in MadeItems \ sharedItems' :
          /\ made'[y].parent = Virtual /\ y \notin m_tempItems' => Absent(y)'
          /\ made'[y].parent = InWorld => made'[y].released = 0 /\ ~ made'[y].deleted
          /\ made'[y].parent = TakenAway \/ (made'[y].parent = Virtual /\ y \notin m_tempItems') =>
               \/ made'[y].released = 1 /\ ~ made'[y].deleted
               \/ made'[y].released = 0 /\ made'[y].deleted
    BY <1>1, <1>2, <1>4, <2>1 DEF ItemsTidy
  <2> QED BY <1>6, <2>2, <2>3, <2>4, <2>5 DEF ItemsTidy
<1> QED BY <1>5, <1>6, <1>7 DEF EnvTidy

\* A call returns; what it made and left without a place is gone from all environments.
LEMMA ReturnKeeps ==
  ASSUME EnvTidy, callStack # <<>>, releaseEnv, callStack' = Front(callStack), UNCHANGED overflown
  PROVE  EnvTidy'
<1>1. EnvTyped /\ CallsTidy /\ ItemsTidy
  BY DEF EnvTidy
<1>2. /\ callStack' \in Seq(Calls) /\ Depth \in Nat \ {0} /\ Depth' = Depth - 1
      /\ \A k \in 1..Depth' : k \in 1..Depth /\ k # Depth /\ callStack'[k] = callStack[k]
      /\ Top \in Calls /\ Top = callStack[Depth]
  <2>1. /\ Depth \in Nat \ {0} /\ Top = callStack[Depth] /\ Top \in Calls
        /\ callStack' \in Seq(Calls) /\ Len(callStack') = Depth - 1
        /\ \A k \in 1..(Depth - 1) : callStack'[k] = callStack[k]
    BY <1>1, TopFacts DEF CallsTidy, Depth, Top
  <2>2. Depth' = Depth - 1
    BY <2>1 DEF Depth
  <2> QED BY <2>1, <2>2
<1>3. \A k \in 1..Depth' : callStack'[k].kind = "timer" => k = 1 /\ callStack'[k].timer \in TimerIds
  BY <1>1, <1>2 DEF CallsTidy
<1>4. m_scriptEnvIndex \in -1..(Envs - 1) /\ m_scriptEnvIndex <= Depth - 1
  BY <1>1 DEF EnvTyped, CallsTidy
<1>5. \A x \in MadeItems : made[x].parent = "none" => \A k \in 1..Depth' : x \notin callStack'[k].makes
  BY <1>1, <1>2 DEF ItemsTidy
<1>6. CASE m_scriptEnvIndex < 0
  <2>1. UNCHANGED <<made, m_scriptEnvIndex, m_localMap, m_tempItems, sharedItems>>
    BY <1>6 DEF releaseEnv
  <2>2. m_scriptEnvIndex = -1 /\ m_tempItems = {} /\ overflown
    BY <1>1, <1>2, <1>4, <1>6, EnvNumbers DEF CallsTidy
  <2>3. EnvTyped'
    BY <1>1, <2>1, Zenon DEF EnvTyped
  <2>4. CallsTidy'
    <3>1. m_scriptEnvIndex' <= Depth' - 1
      BY <1>2, <2>1, <2>2
    <3>2. overflown'
      BY <2>2
    <3> QED BY <1>2, <1>3, <2>1, <2>2, <3>1, <3>2 DEF CallsTidy
  <2>5. ItemsTidy'
    <3>1. \A x \in MadeItems : Absent(x)' <=> Absent(x)
      BY <2>1 DEF Absent
    <3> QED BY <1>1, <1>5, <2>1, <2>2, <3>1 DEF ItemsTidy
  <2> QED BY <2>3, <2>4, <2>5 DEF EnvTidy
<1>7. CASE m_scriptEnvIndex >= 0
  <2>1. /\ made' = [x \in MadeItems |-> IF x \in Homeless THEN [made[x] EXCEPT !.released = @ + 1] ELSE made[x]]
        /\ sharedItems' = sharedItems \cup (Homeless \ Top.makes)
        /\ m_tempItems' = {}
        /\ m_localMap' = [m_localMap EXCEPT ![m_scriptEnvIndex] = {}]
        /\ m_scriptEnvIndex' = m_scriptEnvIndex - 1
    BY <1>4, <1>7, EnvNumbers DEF releaseEnv
  <2>2. /\ Homeless \subseteq MadeItems
        /\ \A x \in MadeItems : x \in Homeless <=> x \in m_tempItems /\ made[x].parent = Virtual
    BY <1>1 DEF Homeless, EnvTyped
  <2>3. \A x \in MadeItems : made[x] \in ThingType
    BY <1>1 DEF EnvTyped
  <2>4. \A x \in MadeItems :
          /\ x \in Homeless => /\ made[x].parent = Virtual /\ made[x].released = 0 /\ ~ made[x].deleted
                               /\ made'[x] = [made[x] EXCEPT !.released = @ + 1]
          /\ x \notin Homeless => made'[x] = made[x]
    BY <1>1, <2>1, <2>2 DEF ItemsTidy
  <2>5. \A x \in MadeItems :
          /\ made'[x].parent = made[x].parent /\ made'[x].deleted = made[x].deleted
          /\ x \in Homeless => made'[x].released = 1
          /\ made'[x] \in ThingType
    <3> TAKE x \in MadeItems
    <3>1. CASE x \in Homeless
      <4> DEFINE t == made[x]
      <4>1. t \in ThingType /\ t.released = 0 /\ made'[x] = [t EXCEPT !.released = @ + 1]
        BY <2>3, <2>4, <3>1
      <4> HIDE DEF t
      <4>2. /\ made'[x].parent = t.parent /\ made'[x].deleted = t.deleted /\ made'[x].released = 1
            /\ made'[x] \in ThingType
        BY <4>1 DEF ThingType
      <4> QED BY <3>1, <4>2 DEF t
    <3>2. CASE x \notin Homeless
      BY <2>3, <2>4, <3>2
    <3> QED BY <3>1, <3>2
  <2>6. m_scriptEnvIndex \in 0..(Envs - 1)
    BY <1>4, <1>7, EnvNumbers
  <2>7. /\ m_localMap'[m_scriptEnvIndex] = {}
        /\ \A e \in 0..(Envs - 1) : e # m_scriptEnvIndex => m_localMap'[e] = m_localMap[e]
    BY <1>1, <2>1, <2>6 DEF EnvTyped
  <2>8. EnvTyped'
    <3>1. made' \in [MadeItems -> ThingType]
      BY <2>1, <2>5
    <3>2. m_scriptEnvIndex' \in -1..(Envs - 1)
      BY <2>1, <2>6, EnvNumbers
    <3>3. /\ m_localMap' \in [0..(Envs - 1) -> SUBSET MadeItems] /\ m_tempItems' \subseteq MadeItems
          /\ sharedItems' \subseteq MadeItems
      BY <1>1, <2>1, <2>2, <2>6 DEF EnvTyped
    <3> QED BY <1>1, <3>1, <3>2, <3>3, Zenon DEF EnvTyped
  <2>9. CallsTidy'
    <3>1. m_scriptEnvIndex' <= Depth' - 1 /\ m_tempItems' = {}
      BY <1>2, <1>4, <2>1, <2>6
    <3>2. overflown' \/ m_scriptEnvIndex' = Depth' - 1
      BY <1>1, <1>2, <2>1 DEF CallsTidy
    <3>3. ASSUME ~ overflown PROVE \A k \in 1..Depth' : callStack'[k].makes \subseteq m_localMap'[k - 1]
      <4> TAKE k \in 1..Depth'
      <4>1. m_scriptEnvIndex = Depth - 1 /\ callStack[k].makes \subseteq m_localMap[k - 1]
        BY <1>1, <1>2, <3>3 DEF CallsTidy
      <4>2. k - 1 \in 0..(Envs - 1) /\ k - 1 # m_scriptEnvIndex
        BY <1>2, <1>4, <4>1, EnvNumbers
      <4> QED BY <1>2, <2>7, <4>1, <4>2
    <3> QED BY <1>2, <1>3, <3>1, <3>2, <3>3 DEF CallsTidy
  <2>10. ItemsTidy'
    <3>1. \A x \in MadeItems : Absent(x) => Absent(x)'
      BY <2>7 DEF Absent
    <3>2. ASSUME NEW x \in MadeItems \ sharedItems', made'[x].parent = Virtual
          PROVE  /\ Absent(x)'
                 /\ \/ made'[x].released = 1 /\ ~ made'[x].deleted
                    \/ made'[x].released = 0 /\ made'[x].deleted
      <4>1. x \in MadeItems \ sharedItems /\ made[x].parent = Virtual /\ (x \in Homeless => x \in Top.makes)
        BY <2>1, <2>5, <3>2
      <4>2. CASE x \in Homeless
        <5>1. x \in Top.makes /\ x \in m_tempItems
          BY <2>2, <4>1, <4>2
        <5>2. \A e \in 0..(Envs - 1) : x \in m_localMap[e] => e = m_scriptEnvIndex
          BY <1>1, <4>1, <5>1 DEF ItemsTidy
        <5>3. Absent(x)'
          BY <2>7, <5>2 DEF Absent
        <5>4. made'[x].released = 1 /\ ~ made'[x].deleted
          BY <2>4, <2>5, <4>2
        <5> QED BY <5>3, <5>4
      <4>3. CASE x \notin Homeless
        <5>1. x \notin m_tempItems /\ made'[x] = made[x]
          BY <2>2, <2>4, <4>1, <4>3
        <5> QED BY <1>1, <3>1, <4>1, <5>1 DEF ItemsTidy
      <4> QED BY <4>2, <4>3
    <3>3. \A x \in MadeItems : made'[x].parent = "none" =>
            /\ made'[x].released = 0 /\ ~ made'[x].deleted /\ x \notin m_tempItems'
            /\ Absent(x)'
            /\ \A k \in 1..Depth' : x \notin callStack'[k].makes
      <4> TAKE x \in MadeItems
      <4> HAVE made'[x].parent = "none"
      <4>1. made[x].parent = "none" /\ x \notin Homeless
        BY <2>4, <2>5 DEF Virtual
      <4> QED BY <1>1, <1>5, <2>1, <2>4, <3>1, <4>1 DEF ItemsTidy
    <3>4. \A x \in MadeItems : made'[x].parent # TakenAway => made'[x].released <= 1
      <4> TAKE x \in MadeItems
      <4>1. made'[x].parent = made[x].parent /\ (x \notin Homeless => made'[x] = made[x])
        BY <2>4, <2>5
      <4>2. x \in Homeless => made'[x].released = 1
        BY <2>5
      <4> QED BY <1>1, <4>1, <4>2 DEF ItemsTidy
    <3>5. \A x \in MadeItems \ sharedItems' : made'[x].parent \in {InWorld, TakenAway} =>
            x \in MadeItems \ sharedItems /\ made'[x] = made[x]
      BY <2>1, <2>4, <2>5 DEF InWorld, TakenAway, Virtual
    <3>6. \A x \in MadeItems \ sharedItems' :
            /\ made'[x].parent = InWorld => made'[x].released = 0 /\ ~ made'[x].deleted
            /\ made'[x].parent = TakenAway =>
                 \/ made'[x].released = 1 /\ ~ made'[x].deleted
                 \/ made'[x].released = 0 /\ made'[x].deleted
      BY <1>1, <3>5 DEF ItemsTidy
    <3>7. m_tempItems' = {}
      BY <2>1
    <3> QED BY <3>2, <3>3, <3>4, <3>6, <3>7 DEF ItemsTidy
  <2> QED BY <2>8, <2>9, <2>10 DEF EnvTidy
<1> QED BY <1>4, <1>6, <1>7, EnvNumbers

LEMMA ReturnRuns ==
  ASSUME CallsTidy, callStack # <<>>, callStack' = Front(callStack),
         NEW T, T = IF Top.kind = "timer" THEN {Top.timer} ELSE {}
  PROVE  T \subseteq Running /\ Running' = Running \ T /\ T \subseteq TimerIds
<1>1. /\ callStack' \in Seq(Calls) /\ Depth \in Nat \ {0} /\ Len(callStack') = Depth - 1
      /\ \A k \in 1..(Depth - 1) : callStack'[k] = callStack[k]
      /\ Top = callStack[Depth]
  BY TopFacts DEF CallsTidy, Depth, Top
<1>2. CASE Depth = 1
  <2>1. callStack' = <<>>
    BY <1>1, <1>2, EmptySeq
  <2>2. Running = T /\ Running' = {}
    BY <1>1, <1>2, <2>1 DEF Running
  <2>3. T \subseteq TimerIds
    BY <1>1, <1>2 DEF CallsTidy
  <2> QED BY <2>2, <2>3
<1>3. CASE Depth # 1
  <2>1. T = {}
    BY <1>1, <1>3 DEF CallsTidy
  <2>2. callStack' # <<>> /\ callStack'[1] = callStack[1]
    BY <1>1, <1>3, EmptySeq
  <2> QED BY <2>1, <2>2 DEF Running
<1> QED BY <1>2, <1>3

-----------------------------------------------------------------------------
(* Timers.                                                                 *)

LEMMA UnrefFacts ==
  ASSUME TimerTyped, NEW T \in SUBSET TimerIds, Unref(T)
  PROVE  \A i \in TimerIds : /\ i \in T => unrefs'[i] = unrefs[i] + 1
                             /\ i \notin T => unrefs'[i] = unrefs[i]
BY DEF Unref, TimerTyped

\* unrefs' has the right type as soon as no timer is given back a third time.
LEMMA UnrefTyped ==
  ASSUME TimerTyped, NEW T \in SUBSET TimerIds, Unref(T), \A i \in T : unrefs[i] <= 1
  PROVE  unrefs' \in [TimerIds -> 0..2]
BY DEF Unref, TimerTyped

LEMMA AddEventKeeps ==
  ASSUME TimerTyped, TimersTidy, AddEvent, Running' = Running
  PROVE  TimerTyped' /\ TimersTidy'
<1> DEFINE i == m_lastTimer + 1
<1>1. /\ i \in TimerIds /\ m_lastTimer' = i /\ scheduled' = scheduled \cup {i}
      /\ m_timerEvents' = m_timerEvents \cup {i} /\ i \in 1..MaxTimers
      /\ UNCHANGED <<queued, unrefs, timersRan, timersStopped, selfStopped>>
  BY DEF AddEvent, TimerIds
<1>2. /\ i > m_lastTimer /\ m_lastTimer \in Nat /\ i \in Nat
      /\ \A j \in TimerIds : j <= i <=> j <= m_lastTimer \/ j = i
  BY EnvNumbers DEF TimerTyped, TimerIds
<1>3. /\ i \notin m_timerEvents \cup scheduled \cup queued \cup timersRan \cup timersStopped \cup selfStopped
      /\ unrefs[i] = 0
  BY <1>1, <1>2 DEF TimersTidy
<1>4. i \notin Running
  BY <1>3 DEF TimersTidy
<1> HIDE DEF i
<1>5. TimerTyped'
  BY <1>1 DEF TimerTyped
<1>6. \A j \in TimerIds : j > m_lastTimer' => j > m_lastTimer /\ j # i
  BY <1>1, <1>2 DEF TimerIds
<1>7. TimersTidy'
  BY <1>1, <1>2, <1>3, <1>4, <1>6 DEF TimersTidy, TimerTyped
<1> QED BY <1>5, <1>7

LEMMA StopEventKeeps ==
  ASSUME TimerTyped, TimersTidy, NEW i \in TimerIds, StopEvent(i), Running' = Running
  PROVE  TimerTyped' /\ TimersTidy'
<1>1. /\ i \in m_timerEvents /\ scheduled' = scheduled \ {i} /\ m_timerEvents' = m_timerEvents \ {i}
      /\ Unref({i})
      /\ timersStopped' = IF i \in timersRan THEN timersStopped ELSE timersStopped \cup {i}
      /\ selfStopped' = IF i \in timersRan THEN selfStopped \cup {i} ELSE selfStopped
      /\ UNCHANGED <<m_lastTimer, queued, timersRan>>
  BY DEF StopEvent
<1>2. unrefs[i] = 0 /\ unrefs'[i] = 1 /\ \A j \in TimerIds : j # i => unrefs'[j] = unrefs[j]
  BY <1>1, UnrefFacts DEF TimersTidy
<1>3. TimerTyped'
  <2>1. unrefs' \in [TimerIds -> 0..2]
    BY <1>1, <1>2, UnrefTyped
  <2> QED BY <1>1, <2>1 DEF TimerTyped
<1>4. ~ (i > m_lastTimer)
  BY <1>1 DEF TimersTidy
<1>5. TimersTidy'
  BY <1>1, <1>2, <1>4 DEF TimersTidy, TimerTyped
<1> QED BY <1>3, <1>5

LEMMA TimerDueKeeps ==
  ASSUME TimerTyped, TimersTidy, NEW i \in TimerIds, TimerDue(i), Running' = Running
  PROVE  TimerTyped' /\ TimersTidy'
<1>1. /\ i \in scheduled /\ scheduled' = scheduled \ {i} /\ queued' = queued \cup {i}
      /\ UNCHANGED <<m_timerEvents, m_lastTimer, unrefs, timersRan, timersStopped, selfStopped>>
  BY DEF TimerDue
<1> QED BY <1>1 DEF TimersTidy, TimerTyped

\* The timer runs, or is found no more.
LEMMA executeTimerKeeps ==
  ASSUME TimerTyped, TimersTidy, NEW i \in TimerIds, i \in queued, queued' = queued \ {i},
         UNCHANGED <<m_timerEvents, m_lastTimer, scheduled, unrefs, timersStopped, selfStopped>>,
         \/ i \in m_timerEvents /\ Running' = {i} /\ timersRan' = timersRan \cup {i}
         \/ Running' = {} /\ timersRan' = timersRan,
         Running = {}
  PROVE  TimerTyped' /\ TimersTidy'
<1>1. TimerTyped'
  BY DEF TimerTyped
<1>2. CASE i \in m_timerEvents /\ Running' = {i} /\ timersRan' = timersRan \cup {i}
  <2>1. i \notin scheduled /\ i \notin timersStopped /\ i \notin selfStopped /\ ~ (i > m_lastTimer)
    BY <1>2 DEF TimersTidy
  <2>2. TimersTidy'
    BY <1>2, <2>1 DEF TimersTidy, TimerTyped
  <2> QED BY <1>1, <2>2
<1>3. CASE Running' = {} /\ timersRan' = timersRan
  BY <1>1, <1>3 DEF TimersTidy, TimerTyped
<1> QED BY <1>2, <1>3

LEMMA TimerReturns ==
  ASSUME TimerTyped, TimersTidy, NEW T \in SUBSET TimerIds, T \subseteq Running, Running' = Running \ T,
         Unref(T), m_timerEvents' = m_timerEvents \ T,
         UNCHANGED <<m_lastTimer, scheduled, queued, timersRan, timersStopped, selfStopped>>
  PROVE  TimerTyped' /\ TimersTidy'
<1>1. \A i \in TimerIds : /\ i \in T => unrefs'[i] = unrefs[i] + 1
                          /\ i \notin T => unrefs'[i] = unrefs[i]
  BY UnrefFacts
<1>2. \A i \in T : \/ i \in m_timerEvents /\ i \notin selfStopped /\ unrefs[i] = 0
                   \/ i \in selfStopped /\ i \notin m_timerEvents /\ unrefs[i] = 1
  BY DEF TimersTidy
<1>3. unrefs' \in [TimerIds -> 0..2]
  BY <1>2, UnrefTyped
<1>4. TimerTyped'
  BY <1>3 DEF TimerTyped
<1>5. \A i \in T : ~ (i > m_lastTimer)
  BY DEF TimersTidy
<1>6. TimersTidy'
  BY <1>1, <1>2, <1>5 DEF TimersTidy, TimerTyped
<1> QED BY <1>4, <1>6

LEMMA ReloadKeeps ==
  ASSUME TimerTyped, TimersTidy, Reload, Running' = Running, Running = {}
  PROVE  TimerTyped' /\ TimersTidy'
<1>1. /\ Unref(m_timerEvents) /\ m_timerEvents' = {}
      /\ timersStopped' = timersStopped \cup m_timerEvents
      /\ UNCHANGED <<m_lastTimer, scheduled, queued, timersRan, selfStopped>>
  BY DEF Reload
<1>2. m_timerEvents \in SUBSET TimerIds
  BY DEF TimerTyped
<1>3. \A i \in TimerIds : /\ i \in m_timerEvents => unrefs'[i] = unrefs[i] + 1
                          /\ i \notin m_timerEvents => unrefs'[i] = unrefs[i]
  BY <1>1, <1>2, UnrefFacts
<1>4. \A i \in m_timerEvents : unrefs[i] = 0 /\ i \notin timersRan /\ i \notin selfStopped /\ ~ (i > m_lastTimer)
  BY <1>2 DEF TimersTidy
<1>5. unrefs' \in [TimerIds -> 0..2]
  BY <1>1, <1>2, <1>4, UnrefTyped
<1>6. TimerTyped'
  BY <1>1, <1>5 DEF TimerTyped
<1>7. TimersTidy'
  BY <1>1, <1>2, <1>3, <1>4 DEF TimersTidy, TimerTyped
<1> QED BY <1>6, <1>7

-----------------------------------------------------------------------------
LEMMA Step ==
  ASSUME ScriptStep, scriptSteps \in 0..MaxSteps
  PROVE  scriptSteps' \in 0..MaxSteps
BY EnvNumbers DEF ScriptStep

LEMMA SameRuns == ASSUME UNCHANGED callStack PROVE Running' = Running
BY DEF Running

LEMMA SameTimers ==
  ASSUME TimerTyped, TimersTidy, UNCHANGED timerVars, Running' = Running
  PROVE  TimerTyped' /\ TimersTidy'
BY DEF timerVars, TimerTyped, TimersTidy

LEMMA SameEnvs ==
  ASSUME EnvTidy, UNCHANGED <<made, envVars>>
  PROVE  EnvTidy' /\ Running' = Running
<1>1. UNCHANGED <<made, callStack, m_scriptEnvIndex, m_localMap, m_tempItems, sharedItems, overflown>>
  BY DEF envVars
<1>2. EnvTyped'
  BY <1>1, Zenon DEF EnvTidy, EnvTyped
<1>3. CallsTidy' /\ ItemsTidy' /\ Running' = Running
  BY <1>1 DEF EnvTidy, CallsTidy, ItemsTidy, Absent, Depth, Top, Running
<1> QED BY <1>2, <1>3 DEF EnvTidy

LEMMA ScriptsNextKeeps == ASSUME Tidy, [ScriptsNext]_scriptVars PROVE Tidy'
<1>1. EnvTidy /\ EnvTyped /\ CallsTidy /\ ItemsTidy /\ TimerTyped /\ TimersTidy /\ scriptSteps \in 0..MaxSteps
  BY DEF Tidy, EnvTidy
<1>2. callStack = <<>> => Running = {}
  BY DEF Running
<1>3. CASE ExecuteEvent
  <2>1. PICK X \in {{}} \cup {{x} : x \in {y \in MadeItems : made[y].parent = InWorld}} :
            reserveEnv("event", Timerless, X)
    BY <1>3 DEF ExecuteEvent
  <2>2. ScriptStep /\ UNCHANGED <<made, m_tempItems, sharedItems, overflown, timerVars>>
    BY <1>3 DEF ExecuteEvent
  <2>3. X \in SUBSET MadeItems /\ \A x \in X : made[x].parent = InWorld
    OBVIOUS
  <2>4. EnvTidy'
    BY <1>1, <2>1, <2>2, <2>3, ReserveKeeps
  <2>5. Running' = Running
    <3>1. Call("event", Timerless) \in Calls /\ Call("event", Timerless).kind # "timer"
      BY DEF Call, Calls
    <3>2. callStack' = Append(callStack, Call("event", Timerless))
      BY <2>1 DEF reserveEnv
    <3> QED BY <1>1, <3>1, <3>2, PushRuns
  <2> QED BY <1>1, <2>2, <2>4, <2>5, SameTimers, Step DEF Tidy
<1>4. CASE loadBuffer
  <2>1. /\ Runs /\ ScriptStep /\ UNCHANGED <<made, m_tempItems, sharedItems, timerVars>>
        /\ callStack' = Append(callStack, Call("buffer", Timerless))
        /\ \/ reserveEnv("buffer", Timerless, {}) /\ UNCHANGED overflown
           \/ overflown' = TRUE /\ UNCHANGED <<m_scriptEnvIndex, m_localMap>>
    BY <1>4, Zenon DEF loadBuffer, reserveEnv
  <2>2. EnvTidy'
    <3>1. CASE reserveEnv("buffer", Timerless, {}) /\ UNCHANGED overflown
      <4>1. {} \in SUBSET MadeItems /\ \A x \in {} : made[x].parent = InWorld
        OBVIOUS
      <4>2. "buffer" \in {"event", "buffer", "timer"} /\ "buffer" # "timer"
        OBVIOUS
      <4>3. UNCHANGED <<made, m_tempItems, sharedItems>>
        BY <2>1
      <4>4. UNCHANGED overflown /\ Timerless \in TimerIds \cup {Timerless}
        BY <3>1
      <4> QED BY <1>1, <3>1, <4>1, <4>2, <4>3, <4>4, ReserveKeeps
    <3>2. CASE overflown' = TRUE /\ UNCHANGED <<m_scriptEnvIndex, m_localMap>>
      BY <1>1, <2>1, <3>2, OverflowKeeps
    <3> QED BY <2>1, <3>1, <3>2
  <2>3. Running' = Running
    <3>1. Call("buffer", Timerless) \in Calls /\ Call("buffer", Timerless).kind # "timer"
      BY DEF Call, Calls
    <3> QED BY <1>1, <2>1, <3>1, PushRuns
  <2> QED BY <1>1, <2>1, <2>2, <2>3, SameTimers, Step DEF Tidy
<1>5. CASE CallReturns
  <2> DEFINE T == IF Top.kind = "timer" THEN {Top.timer} ELSE {}
  <2>1. /\ callStack # <<>> /\ releaseEnv /\ callStack' = Front(callStack)
        /\ Unref(T) /\ m_timerEvents' = m_timerEvents \ T
        /\ UNCHANGED <<overflown, m_lastTimer, scheduled, queued, timersRan, timersStopped, selfStopped, scriptSteps>>
    BY <1>5, Zenon DEF CallReturns
  <2>2. EnvTidy'
    BY <1>1, <2>1, ReturnKeeps
  <2>3. T \subseteq Running /\ Running' = Running \ T /\ T \in SUBSET TimerIds
    BY <1>1, <2>1, ReturnRuns
  <2> HIDE DEF T
  <2>4. TimerTyped' /\ TimersTidy'
    BY <1>1, <2>1, <2>3, TimerReturns
  <2> QED BY <1>1, <2>1, <2>2, <2>4 DEF Tidy
<1>6. CASE cleanupItems
  <2>1. callStack = <<>> /\ UNCHANGED <<envVars, timerVars, scriptSteps>>
    BY <1>6, Zenon DEF cleanupItems
  <2>2. EnvTidy'
    BY <1>1, <1>6, <2>1, CleanupCleans, CleanupKeeps DEF EnvTyped
  <2>3. Running' = Running
    BY <2>1, SameRuns DEF envVars
  <2> QED BY <1>1, <2>1, <2>2, <2>3, SameTimers DEF Tidy
<1>7. ASSUME NEW x \in MadeItems, doCreateItemEx(x) PROVE Tidy'
  <2>1. EnvTidy'
    BY <1>1, <1>7, ScriptCreateKeeps
  <2>2. ScriptStep /\ UNCHANGED timerVars
    BY <1>7 DEF doCreateItemEx
  <2>3. Running' = Running
    <3> DEFINE c == [callStack[Depth] EXCEPT !.makes = @ \cup {x}]
    <3>1. callStack # <<>> /\ callStack' = [callStack EXCEPT ![Depth] = c]
      BY <1>7 DEF doCreateItemEx, Runs, Depth
    <3>2. /\ callStack \in Seq(Calls) /\ Depth \in Nat \ {0} /\ callStack[Depth] \in Calls
      BY <1>1, <3>1, TopFacts DEF CallsTidy, Depth
    <3>3. c \in Calls /\ c.kind = callStack[Depth].kind /\ c.timer = callStack[Depth].timer
      BY <3>2 DEF Calls
    <3> HIDE DEF c
    <3>4. /\ callStack' \in Seq(Calls) /\ Len(callStack') = Depth
          /\ \A k \in 1..Depth : callStack'[k] = IF k = Depth THEN c ELSE callStack[k]
      BY <3>1, <3>2, <3>3, ExceptSeq DEF Depth
    <3>5. callStack' # <<>>
      BY <3>2, <3>4, EmptySeq
    <3>6. callStack'[1].kind = callStack[1].kind /\ callStack'[1].timer = callStack[1].timer
      <4>1. 1 \in 1..Depth
        BY <3>2
      <4>2. CASE Depth = 1
        BY <3>3, <3>4, <4>1, <4>2
      <4>3. CASE Depth # 1
        BY <3>4, <4>1, <4>3
      <4> QED BY <4>2, <4>3
    <3> QED BY <3>1, <3>5, <3>6 DEF Running
  <2> QED BY <1>1, <2>1, <2>2, <2>3, SameTimers, Step DEF Tidy
<1>8. ASSUME NEW x \in MadeItems, doAddItemEx(x) PROVE Tidy'
  <2>1. /\ Runs /\ x \in m_localMap[m_scriptEnvIndex] /\ made[x].parent = Virtual /\ ScriptStep
        /\ made' = [made EXCEPT ![x].parent = InWorld]
        /\ UNCHANGED <<envVars, timerVars>>
    BY <1>8 DEF doAddItemEx, getThingByUID
  <2> DEFINE t == [made[x] EXCEPT !.parent = InWorld]
  <2>2. t \in ThingType /\ made' = [made EXCEPT ![x] = t]
    <3>1. made[x] \in ThingType
      BY <1>1 DEF EnvTyped
    <3> QED BY <2>1, <3>1 DEF ThingType
  <2>3. x \in m_tempItems \/ x \in sharedItems
    <3>1. m_scriptEnvIndex \in 0..(Envs - 1)
      BY <1>1, <2>1, EnvNumbers DEF EnvTyped, Runs
    <3>2. ~ Absent(x)
      BY <2>1, <3>1 DEF Absent
    <3> QED BY <1>1, <2>1, <3>2 DEF ItemsTidy
  <2>4. EnvTidy'
    BY <1>1, <2>1, <2>2, <2>3, ItemKeeps
  <2>5. Running' = Running
    BY <2>1, SameRuns DEF envVars
  <2> QED BY <1>1, <2>1, <2>4, <2>5, SameTimers, Step DEF Tidy
<1>9. ASSUME NEW x \in MadeItems, luaDoRemoveItem(x) PROVE Tidy'
  <2>1. /\ made[x].parent = InWorld /\ ScriptStep
        /\ made' = releaseThing([made EXCEPT ![x].parent = TakenAway], x)
        /\ UNCHANGED <<envVars, timerVars>>
    BY <1>9 DEF luaDoRemoveItem, Removed
  <2> DEFINE t == [made[x] EXCEPT !.parent = TakenAway, !.released = @ + 1]
  <2>2. made[x] \in ThingType /\ made[x].released <= 1
    BY <1>1, <2>1 DEF EnvTyped, ItemsTidy, InWorld, TakenAway
  <2>3. t \in ThingType
    <3>1. PICK n \in 0..1 : n = made[x].released
      BY <2>2 DEF ThingType
    <3>2. n + 1 \in 0..2
      OBVIOUS
    <3>3. t = [made[x] EXCEPT !.parent = TakenAway, !.released = n + 1]
      BY <3>1
    <3> HIDE DEF t
    <3> QED BY <2>2, <3>2, <3>3 DEF ThingType
  <2>4. made' = [made EXCEPT ![x] = t]
    <3>1. made \in [MadeItems -> ThingType]
      BY <1>1 DEF EnvTyped
    <3>2. [[made EXCEPT ![x].parent = TakenAway] EXCEPT ![x].released = @ + 1] = [made EXCEPT ![x] = t]
      BY <2>2, <3>1 DEF ThingType
    <3> QED BY <2>1, <3>2 DEF releaseThing
  <2>5. EnvTidy'
    BY <1>1, <2>1, <2>3, <2>4, ItemKeeps
  <2>6. Running' = Running
    BY <2>1, SameRuns DEF envVars
  <2> QED BY <1>1, <2>1, <2>5, <2>6, SameTimers, Step DEF Tidy
<1>10. CASE AddEvent
  <2>1. ScriptStep /\ UNCHANGED <<made, envVars>>
    BY <1>10 DEF AddEvent
  <2>2. EnvTidy' /\ Running' = Running
    BY <1>1, <2>1, SameEnvs
  <2> QED BY <1>1, <1>10, <2>1, <2>2, AddEventKeeps, Step DEF Tidy
<1>11. ASSUME NEW i \in TimerIds, StopEvent(i) PROVE Tidy'
  <2>1. ScriptStep /\ UNCHANGED <<made, envVars>>
    BY <1>11 DEF StopEvent
  <2>2. EnvTidy' /\ Running' = Running
    BY <1>1, <2>1, SameEnvs
  <2> QED BY <1>1, <1>11, <2>1, <2>2, StopEventKeeps, Step DEF Tidy
<1>12. ASSUME NEW i \in TimerIds, TimerDue(i) PROVE Tidy'
  <2>1. UNCHANGED <<made, envVars, scriptSteps>>
    BY <1>12 DEF TimerDue
  <2>2. EnvTidy' /\ Running' = Running
    BY <1>1, <2>1, SameEnvs
  <2> QED BY <1>1, <1>12, <2>1, <2>2, TimerDueKeeps DEF Tidy
<1>13. ASSUME NEW i \in TimerIds, executeTimer(i) PROVE Tidy'
  <2>1. /\ callStack = <<>> /\ i \in queued /\ queued' = queued \ {i}
        /\ IF i \in m_timerEvents
           THEN reserveEnv("timer", i, {}) /\ timersRan' = timersRan \cup {i}
           ELSE UNCHANGED <<callStack, m_scriptEnvIndex, m_localMap, timersRan>>
        /\ UNCHANGED <<made, m_tempItems, sharedItems, overflown, m_timerEvents, m_lastTimer, scheduled,
                       unrefs, timersStopped, selfStopped, scriptSteps>>
    BY <1>13, Zenon DEF executeTimer
  <2>2. CASE i \in m_timerEvents
    <3>1. reserveEnv("timer", i, {}) /\ timersRan' = timersRan \cup {i}
      BY <2>1, <2>2
    <3>2. EnvTidy'
      <4>1. {} \in SUBSET MadeItems /\ \A x \in {} : made[x].parent = InWorld
        OBVIOUS
      <4>2. "timer" \in {"event", "buffer", "timer"} /\ i \in TimerIds \cup {Timerless}
        OBVIOUS
      <4>3. UNCHANGED <<made, m_tempItems, sharedItems, overflown>>
        BY <2>1
      <4> QED BY <1>1, <2>1, <3>1, <4>1, <4>2, <4>3, ReserveKeeps
    <3>3. Running' = {i}
      <4>1. Call("timer", i) \in Calls /\ Call("timer", i).kind = "timer" /\ Call("timer", i).timer = i
        BY DEF Call, Calls
      <4>2. callStack' = Append(callStack, Call("timer", i))
        BY <3>1 DEF reserveEnv
      <4> QED BY <1>1, <2>1, <4>1, <4>2, PushRuns
    <3>4. TimerTyped' /\ TimersTidy'
      BY <1>1, <1>2, <2>1, <2>2, <3>1, <3>3, executeTimerKeeps
    <3> QED BY <1>1, <2>1, <3>2, <3>4 DEF Tidy
  <2>3. CASE i \notin m_timerEvents
    <3>1. UNCHANGED <<made, envVars>> /\ timersRan' = timersRan
      BY <2>1, <2>3 DEF envVars
    <3>2. EnvTidy' /\ Running' = Running
      BY <1>1, <3>1, SameEnvs
    <3>3. TimerTyped' /\ TimersTidy'
      BY <1>1, <1>2, <2>1, <3>1, <3>2, executeTimerKeeps
    <3> QED BY <1>1, <2>1, <3>2, <3>3 DEF Tidy
  <2> QED BY <2>2, <2>3
<1>14. CASE Reload
  <2>1. callStack = <<>> /\ ScriptStep /\ UNCHANGED <<made, envVars>>
    BY <1>14 DEF Reload
  <2>2. EnvTidy' /\ Running' = Running
    BY <1>1, <2>1, SameEnvs
  <2> QED BY <1>1, <1>2, <1>14, <2>1, <2>2, ReloadKeeps, Step DEF Tidy
<1>15. CASE UNCHANGED scriptVars
  <2>1. UNCHANGED <<made, envVars>> /\ UNCHANGED timerVars /\ UNCHANGED scriptSteps
    BY <1>15 DEF scriptVars
  <2> QED BY <1>1, <2>1, SameEnvs, SameTimers DEF Tidy
<1> QED BY <1>3, <1>4, <1>5, <1>6, <1>7, <1>8, <1>9, <1>10, <1>11, <1>12, <1>13, <1>14, <1>15 DEF ScriptsNext

LEMMA ScriptsInitTidy == ScriptsInit => Tidy
<1> SUFFICES ASSUME ScriptsInit PROVE Tidy
  OBVIOUS
<1>1. /\ made = [x \in MadeItems |-> [parent |-> "none", released |-> 0, deleted |-> FALSE]]
      /\ callStack = <<>> /\ m_scriptEnvIndex = -1
      /\ m_localMap = [e \in 0..(Envs - 1) |-> {}] /\ m_tempItems = {}
      /\ sharedItems = {} /\ overflown = FALSE
  BY DEF ScriptsInit
<1>2. [parent |-> "none", released |-> 0, deleted |-> FALSE] \in ThingType
  BY DEF ThingType
<1>3. EnvTyped
  <2>1. made \in [MadeItems -> ThingType]
    BY <1>1, <1>2
  <2>2. m_scriptEnvIndex \in -1..(Envs - 1)
    BY <1>1, EnvNumbers
  <2>3. /\ m_localMap \in [0..(Envs - 1) -> SUBSET MadeItems] /\ m_tempItems \subseteq MadeItems
        /\ sharedItems \subseteq MadeItems
    BY <1>1
  <2>4. overflown \in BOOLEAN
    BY <1>1
  <2> QED BY <2>1, <2>2, <2>3, <2>4, Zenon DEF EnvTyped
<1>4. callStack \in Seq(Calls) /\ Depth = 0
  BY <1>1, EmptySeq DEF Depth
<1>5. CallsTidy
  <2>1. m_scriptEnvIndex = Depth - 1 /\ m_scriptEnvIndex <= Depth - 1
    BY <1>1, <1>4
  <2>2. \A k \in 1..Depth : FALSE
    BY <1>4
  <2> QED BY <1>1, <1>4, <2>1, <2>2 DEF CallsTidy
<1>6. ItemsTidy
  <2>1. \A x \in MadeItems : /\ made[x].parent = "none" /\ made[x].released = 0 /\ ~ made[x].deleted
                             /\ Absent(x)
    BY <1>1 DEF Absent
  <2>2. \A k \in 1..Depth : FALSE
    BY <1>4
  <2> QED BY <1>1, <2>1, <2>2 DEF ItemsTidy, Virtual, InWorld, TakenAway
<1>7. TimerTyped /\ TimersTidy /\ scriptSteps \in 0..MaxSteps
  <2>1. /\ m_timerEvents = {} /\ m_lastTimer = 0 /\ scheduled = {} /\ queued = {}
        /\ unrefs = [i \in TimerIds |-> 0]
        /\ timersRan = {} /\ timersStopped = {} /\ selfStopped = {} /\ scriptSteps = 0
    BY DEF ScriptsInit
  <2>2. Running = {}
    BY <1>1 DEF Running
  <2>3. \A i \in TimerIds : unrefs[i] = 0 /\ ~ (i <= 0)
    BY <2>1 DEF TimerIds
  <2> QED BY <2>1, <2>2, <2>3, EnvNumbers DEF TimerTyped, TimersTidy
<1> QED BY <1>3, <1>5, <1>6, <1>7 DEF Tidy, EnvTidy

LEMMA TidyIsSound == Tidy => ScriptsSound
<1> SUFFICES ASSUME Tidy PROVE ScriptsSound
  OBVIOUS
<1>1. EnvTyped /\ CallsTidy /\ ItemsTidy /\ TimerTyped /\ TimersTidy /\ scriptSteps \in 0..MaxSteps
  BY DEF Tidy, EnvTidy
<1>2. callStack \in Seq(Calls) /\ DOMAIN callStack = 1..Depth /\ Depth \in Nat
  BY <1>1, LenProperties DEF CallsTidy, Depth
<1>3. ScriptsTypeOK
  <2>1. \A k \in DOMAIN callStack : /\ callStack[k].kind \in {"event", "buffer", "timer"}
                                    /\ callStack[k].timer \in TimerIds \cup {Timerless}
                                    /\ callStack[k].makes \subseteq MadeItems
    <3> TAKE k \in DOMAIN callStack
    <3>1. callStack[k] \in Calls
      BY <1>2, ElementOfSeq DEF Depth
    <3> QED BY <3>1 DEF Calls
  <2>2. scheduled \cup queued \cup timersRan \cup timersStopped \cup selfStopped \subseteq TimerIds
    BY <1>1 DEF TimerTyped
  <2> QED BY <1>1, <2>1, <2>2, Zenon DEF ScriptsTypeOK, EnvTyped, TimerTyped
<1>4. ItemsOfScripts
  <2>1. callStack = <<>> => m_tempItems = {}
    <3> HAVE callStack = <<>>
    <3>1. Depth = 0
      BY DEF Depth
    <3>2. m_scriptEnvIndex <= Depth - 1 /\ m_scriptEnvIndex \in -1..(Envs - 1)
      BY <1>1 DEF CallsTidy, EnvTyped
    <3>3. m_scriptEnvIndex = -1
      BY <3>1, <3>2, EnvNumbers
    <3> QED BY <1>1, <3>3 DEF CallsTidy
  <2>2. ASSUME NEW x \in MadeItems \ sharedItems
        PROVE  /\ made[x].released <= 1
               /\ made[x].parent = InWorld => made[x].released = 0 /\ ~ made[x].deleted
               /\ made[x].deleted => made[x].released = 0
               /\ callStack = <<>> /\ made[x].parent \notin {"none", InWorld} =>
                    made[x].released = 1 \/ made[x].deleted
    <3>1. made[x] \in ThingType
      BY <1>1 DEF EnvTyped
    <3>2. made[x].parent \in {"none", Virtual, InWorld, TakenAway}
      BY <3>1 DEF ThingType
    <3>3. CASE made[x].parent = "none"
      BY <1>1, <3>3 DEF ItemsTidy, InWorld
    <3>4. CASE made[x].parent = InWorld
      BY <1>1, <3>4 DEF ItemsTidy
    <3>5. CASE made[x].parent = TakenAway
      BY <1>1, <3>5 DEF ItemsTidy, InWorld, TakenAway
    <3>6. CASE made[x].parent = Virtual /\ x \in m_tempItems
      BY <1>1, <2>1, <3>6 DEF ItemsTidy, InWorld, Virtual
    <3>7. CASE made[x].parent = Virtual /\ x \notin m_tempItems
      BY <1>1, <3>7 DEF ItemsTidy, InWorld, Virtual
    <3> QED BY <3>2, <3>3, <3>4, <3>5, <3>6, <3>7
  <2>3. overflown \/ /\ m_scriptEnvIndex = Len(callStack) - 1
                     /\ \A k \in DOMAIN callStack : callStack[k].makes \subseteq m_localMap[k - 1]
    BY <1>1, <1>2 DEF CallsTidy, Depth
  <2> QED BY <2>2, <2>3 DEF ItemsOfScripts
<1>5. TimersRunOnce
  <2>1. timersRan \cap timersStopped = {}
    BY <1>1 DEF TimersTidy
  <2>2. \A i \in TimerIds \ selfStopped : /\ unrefs[i] <= 1
                                          /\ i \in 1..m_lastTimer => (unrefs[i] = 0 <=> i \in m_timerEvents)
    <3> TAKE i \in TimerIds \ selfStopped
    <3>1. i \in Nat /\ m_lastTimer \in Nat
      BY <1>1, EnvNumbers DEF TimerTyped
    <3>2. CASE i > m_lastTimer
      BY <1>1, <3>1, <3>2 DEF TimersTidy
    <3>3. CASE i <= m_lastTimer /\ i \in m_timerEvents
      BY <1>1, <3>3 DEF TimersTidy
    <3>4. CASE i <= m_lastTimer /\ i \notin m_timerEvents
      <4>1. unrefs[i] = 1
        BY <1>1, <3>4 DEF TimersTidy
      <4> QED BY <3>4, <4>1
    <3> QED BY <3>1, <3>2, <3>3, <3>4
  <2> QED BY <2>1, <2>2 DEF TimersRunOnce
<1> QED BY <1>3, <1>4, <1>5 DEF ScriptsSound

\* However scripts call each other, stop timers and are reloaded, what they make is freed
\* once, and a timer runs once at most (luascript.cpp, releaseEnv, executeTimer).
THEOREM ScriptsStaySound == ScriptsSpec => []ScriptsSound
BY ScriptsInitTidy, ScriptsNextKeeps, TidyIsSound, PTL DEF ScriptsSpec

-----------------------------------------------------------------------------
(* The trades.                                                              *)

Holders == Players \cup Bags \cup {Ground, Nowhere}
Holdings == [Items -> Holders]

-----------------------------------------------------------------------------
(* What an item is in, under any holders.                                  *)

\* BagsAround is closed,
LEMMA IsClosed ==
  ASSUME NEW h, NEW i, NEW c \in BagsAround(h, i) \cup {i}, h[c] \in Bags
  PROVE  h[c] \in BagsAround(h, i)
<1> SUFFICES ASSUME NEW S \in SUBSET Bags, {h[d] : d \in S \cup {i}} \cap Bags \subseteq S
             PROVE  h[c] \in S
  BY DEF BagsAround
<1>1. c \in S \cup {i}
  BY DEF BagsAround
<1> QED BY <1>1

\* and it is the least closed set: this is how anything about it is shown.
LEMMA IsLeast ==
  ASSUME NEW h, NEW i, NEW S \in SUBSET Bags,
         \A c \in S \cup {i} : h[c] \in Bags => h[c] \in S
  PROVE  BagsAround(h, i) \subseteq S
BY DEF BagsAround

LEMMA AreBags == \A h, i : BagsAround(h, i) \subseteq Bags
BY DEF BagsAround

LEMMA Outermost ==
  ASSUME NEW h, NEW i, h[i] \notin Bags
  PROVE  BagsAround(h, i) = {} /\ Around(h, i) = {h[i]}
<1>1. \A c \in {} \cup {i} : h[c] \in Bags => h[c] \in {}
  OBVIOUS
<1>2. {} \in SUBSET Bags
  OBVIOUS
<1>3. BagsAround(h, i) \subseteq {}
  BY <1>1, <1>2, IsLeast
<1> QED BY <1>3 DEF Around

\* Where nothing is moved.
LEMMA SameAround ==
  ASSUME NEW h, NEW g, NEW i, \A c \in BagsAround(h, i) \cup {i} : g[c] = h[c]
  PROVE  BagsAround(g, i) = BagsAround(h, i) /\ Around(g, i) = Around(h, i)
<1>1. BagsAround(g, i) \subseteq BagsAround(h, i)
  <2>1. \A c \in BagsAround(h, i) \cup {i} : g[c] \in Bags => g[c] \in BagsAround(h, i)
    BY IsClosed
  <2> QED BY <2>1, IsLeast, AreBags
<1>2. BagsAround(h, i) \subseteq BagsAround(g, i)
  <2>1. \A c \in BagsAround(g, i) \cup {i} : h[c] \in Bags => h[c] \in BagsAround(g, i)
    BY <1>1, IsClosed
  <2> QED BY <2>1, IsLeast, AreBags
<1> QED BY <1>1, <1>2 DEF Around

LEMMA Further ==
  ASSUME NEW h, NEW i, NEW b \in BagsAround(h, i)
  PROVE  BagsAround(h, b) \subseteq BagsAround(h, i) /\ Around(h, b) \subseteq Around(h, i)
<1>1. BagsAround(h, b) \subseteq BagsAround(h, i)
  <2>1. \A c \in BagsAround(h, i) \cup {b} : h[c] \in Bags => h[c] \in BagsAround(h, i)
    BY IsClosed
  <2> QED BY <2>1, IsLeast, AreBags
<1> QED BY <1>1 DEF Around

LEMMA FirstStep ==
  ASSUME NEW h, NEW i, NEW b \in BagsAround(h, i)
  PROVE  h[i] \in Bags /\ (b = h[i] \/ b \in BagsAround(h, h[i]))
<1>1. h[i] \in Bags
  BY Outermost
<1> DEFINE S == {h[i]} \cup BagsAround(h, h[i])
<1>2. \A c \in S \cup {i} : h[c] \in Bags => h[c] \in S
  BY IsClosed
<1>3. S \in SUBSET Bags
  BY <1>1, AreBags
<1>4. BagsAround(h, i) \subseteq S
  <2> HIDE DEF S
  <2> QED BY <1>2, <1>3, IsLeast
<1> QED BY <1>1, <1>4

LEMMA BagsOfAround ==
  ASSUME NEW h, NEW i
  PROVE  BagsAround(h, i) = Around(h, i) \cap Bags
<1> DEFINE S == {h[c] : c \in BagsAround(h, i) \cup {i}} \cap Bags
<1>1. S \subseteq BagsAround(h, i)
  BY IsClosed
<1>2. BagsAround(h, i) \subseteq S
  <2>1. S \in SUBSET Bags
    OBVIOUS
  <2>2. \A c \in S \cup {i} : h[c] \in Bags => h[c] \in S
    BY <1>1
  <2> HIDE DEF S
  <2> QED BY <2>1, <2>2, IsLeast
<1> QED BY <1>1, <1>2 DEF Around

\* From every bag around i the last one is reached, and so would be i were it in itself.
LEMMA AllReach ==
  ASSUME NEW h, NEW i, NEW a \in BagsAround(h, i), a = i \/ h[a] \notin Bags
  PROVE  \A c \in BagsAround(h, i) : c = a \/ a \in BagsAround(h, c)
<1> DEFINE S == {c \in BagsAround(h, i) : c = a \/ a \in BagsAround(h, c)}
<1>1. S \in SUBSET Bags
  BY AreBags
<1>2. ASSUME NEW c \in S \cup {i}, h[c] \in Bags PROVE h[c] \in S
  <2>1. h[c] \in BagsAround(h, i)
    BY <1>2, IsClosed
  <2>2. a \in BagsAround(h, c)
    BY <1>2
  <2>3. a = h[c] \/ a \in BagsAround(h, h[c])
    BY <2>2, FirstStep
  <2> QED BY <2>1, <2>3
<1>3. BagsAround(h, i) \subseteq S
  <2> HIDE DEF S
  <2> QED BY <1>1, <1>2, IsLeast
<1> QED BY <1>3

\* The chain of holders has one end, and what has an end is not in itself.
LEMMA OneTop ==
  ASSUME NEW h, NEW i, NEW x \in Around(h, i) \ Bags
  PROVE  /\ \A y \in Around(h, i) \ Bags : y = x
         /\ i \notin BagsAround(h, i)
         /\ \A b \in BagsAround(h, i) : x \in Around(h, b)
<1>1. PICK a \in BagsAround(h, i) \cup {i} : x = h[a]
  BY DEF Around
<1>2. CASE a = i
  BY <1>1, <1>2, Outermost
<1>3. CASE a # i
  <2>1. \A c \in BagsAround(h, i) : c = a \/ a \in BagsAround(h, c)
    BY <1>1, <1>3, AllReach
  <2>2. ASSUME NEW y \in Around(h, i) \ Bags PROVE y = x
    <3>1. PICK c \in BagsAround(h, i) \cup {i} : y = h[c]
      BY DEF Around
    <3>2. BagsAround(h, c) = {}
      BY <3>1, Outermost
    <3>3. c # i
      BY <1>1, <1>3, <3>2
    <3> QED BY <1>1, <2>1, <3>1, <3>2, <3>3
  <2>3. ASSUME i \in BagsAround(h, i) PROVE FALSE
    <3>1. \A c \in BagsAround(h, i) : c = i \/ i \in BagsAround(h, c)
      BY <2>3, AllReach
    <3>2. BagsAround(h, a) = {}
      BY <1>1, Outermost
    <3> QED BY <1>1, <1>3, <3>1, <3>2
  <2>4. ASSUME NEW b \in BagsAround(h, i) PROVE x \in Around(h, b)
    <3>1. b = a \/ a \in BagsAround(h, b)
      BY <2>1
    <3> QED BY <1>1, <3>1 DEF Around
  <2> QED BY <2>2, <2>3, <2>4
<1> QED BY <1>2, <1>3

-----------------------------------------------------------------------------
(* The inductive invariant.                                                *)

\* A document that is offered is for a house.
DeedsNamed == \A p \in Players : tradeItem[p] \in Deeds => deedOf[tradeItem[p]] \in Houses

Story ==
  TypeOK /\ PartnersAgree /\ RegistryExact /\ NotNested /\ OfferStaysAtHand /\ DeedsNamed

\* What is offered is in the registry, and no two offer the same.
LEMMA OffersDiffer ==
  ASSUME Story, NEW p \in Players, tradeItem[p] # NoItem
  PROVE  /\ tradeItem[p] \in Items /\ tradeItems[tradeItem[p]] = p
         /\ \A q \in Players : tradeItem[q] = tradeItem[p] => q = p
         /\ tradeState[p] # "NONE" /\ p \in around
<1>1. tradeItem[p] \in Items
  BY DEF Story, TypeOK
<1>2. \A q \in Players : tradeItem[q] = tradeItem[p] => tradeItems[tradeItem[p]] = q
  BY <1>1 DEF Story, RegistryExact
<1> QED BY <1>1, <1>2 DEF Story, PartnersAgree

\* The player or tile an offer is with.
LEMMA OfferIsWith ==
  ASSUME Story, NEW p \in Players, tradeItem[p] # NoItem,
         NEW x \in Around(holder, tradeItem[p]) \ Bags
  PROVE  x = p \/ x = Ground
BY OneTop DEF Story, OfferStaysAtHand, IsTopParent

\* Who trades with one whose trade is not closed is not closed either.
LEMMA PairsRemain ==
  ASSUME Story, NEW C \in SUBSET Players, NEW r \in Players \ WithPartners(C),
         tradeState[r] # "NONE"
  PROVE  tradePartner[r] \in Players \ WithPartners(C)
<1>1. tradePartner[r] \in Players /\ tradePartner[tradePartner[r]] = r
  BY DEF Story, TypeOK, PartnersAgree
<1>2. ASSUME tradePartner[r] \in C PROVE FALSE
  BY <1>1, <1>2, TradeAssumption DEF WithPartners
<1>3. ASSUME NEW c \in C, tradePartner[c] = tradePartner[r] PROVE FALSE
  <2>1. tradeState[c] # "NONE"
    BY <1>1, <1>3, TradeAssumption DEF Story, PartnersAgree
  <2>2. tradePartner[tradePartner[c]] = c
    BY <2>1 DEF Story, PartnersAgree
  <2> QED BY <1>1, <1>3, <2>2 DEF WithPartners
<1> QED BY <1>1, <1>2, <1>3 DEF WithPartners

\* Bags and the things of those who go on are not documents of a closed trade.
LEMMA OffersRemain ==
  ASSUME Story, NEW C \in SUBSET Players, NEW r \in Players \ C, tradeItem[r] # NoItem
  PROVE  tradeItem[r] \in Items \ Traded(C)
BY OffersDiffer DEF Traded

-----------------------------------------------------------------------------
(* Closing trades keeps the story, as long as those who leave do not trade *)
(* any more and the things of the others are held as before.               *)

LEMMA CloseKeepsTypes ==
  ASSUME Story, NEW C \in SUBSET Players, NEW h \in Holdings, CloseTrades(C, h),
         around' \subseteq around, UNCHANGED deedOf,
         owner' \in [Houses -> Players \cup {NoPlayer}]
  PROVE  TypeOK'
<1> DEFINE both == WithPartners(C)
<1>1. ResetTraders(both)
      /\ tradeItems' = Unregistered(Traded(both)) /\ refs' = Released(Traded(both))
      /\ DocumentsCancelled(both, h)
  BY DEF CloseTrades
<1>2. both \subseteq Players
  BY DEF WithPartners, Story, TypeOK
<1> HIDE DEF both
<1>3. tradeState' \in [Players -> {"NONE", "INITIATED", "ACCEPT", "ACKNOWLEDGE"}]
  BY <1>1 DEF Story, TypeOK, ResetTraders
<1>4. tradePartner' \in [Players -> Players \cup {NoPlayer}]
  BY <1>1 DEF Story, TypeOK, ResetTraders
<1>5. tradeItem' \in [Players -> Items \cup {NoItem}]
  BY <1>1 DEF Story, TypeOK, ResetTraders
<1>6. tradeItems' \in [Items -> Players \cup {NoPlayer}]
  BY <1>1 DEF Story, TypeOK, Unregistered
<1>7. refs' \in [Items -> 0..2]
  <2>1. ASSUME NEW i \in Traded(both) PROVE i \in Items /\ tradeItems[i] # NoPlayer
    <3>1. PICK p \in both : i = tradeItem[p] /\ tradeItem[p] # NoItem
      BY <2>1 DEF Traded
    <3> QED BY <1>2, <3>1, OffersDiffer, TradeAssumption
  <2>2. ASSUME NEW i \in Items PROVE Released(Traded(both))[i] \in 0..2
    <3>1. CASE i \notin Traded(both)
      BY <3>1 DEF Released, Story, TypeOK
    <3>2. CASE i \in Traded(both) /\ i \in Deeds
      <4>1. refs[i] = 2
        BY <2>1, <3>2 DEF Story, RegistryExact
      <4> QED BY <3>2, <4>1 DEF Released
    <3>3. CASE i \in Traded(both) /\ i \notin Deeds
      <4>1. refs[i] \in 1..2
        BY <2>1, <3>3 DEF Story, RegistryExact
      <4> QED BY <3>3, <4>1 DEF Released
    <3> QED BY <3>1, <3>2, <3>3
  <2> QED BY <1>1, <2>2 DEF Released
<1>8. holder' \in Holdings
  BY <1>1 DEF DocumentsCancelled, Holdings, Holders
<1>9. around' \subseteq Players /\ attached' \subseteq Players
  BY <1>1 DEF Story, TypeOK, DocumentsCancelled
<1>10. deedOf' \in [Deeds -> Houses \cup {NoHouse}]
  BY DEF Story, TypeOK
<1> QED BY <1>3, <1>4, <1>5, <1>6, <1>7, <1>8, <1>9, <1>10 DEF TypeOK, Holdings, Holders

LEMMA CloseKeepsPartners ==
  ASSUME Story, NEW C \in SUBSET Players, NEW h, CloseTrades(C, h),
         around' \subseteq around,
         \A r \in around \ around' : r \in WithPartners(C) \/ tradeState[r] = "NONE"
  PROVE  PartnersAgree'
<1> DEFINE both == WithPartners(C)
<1>1. ResetTraders(both)
  BY DEF CloseTrades
<1>2. \A r \in Players \ both : tradeState[r] # "NONE" => tradePartner[r] \in Players \ both
  BY PairsRemain
<1>3. \A r \in around \ around' : r \in both \/ tradeState[r] = "NONE"
  OBVIOUS
<1> HIDE DEF both
<1>4. SUFFICES ASSUME NEW p \in Players
               PROVE  IF tradeState'[p] = "NONE"
                      THEN tradePartner'[p] = NoPlayer /\ tradeItem'[p] = NoItem
                      ELSE /\ tradePartner'[p] \in around' \ {p} /\ p \in around'
                           /\ tradePartner'[tradePartner'[p]] = p
                           /\ \/ tradeItem'[p] # NoItem
                              \/ tradeItem'[tradePartner'[p]] # NoItem
                           /\ tradeState'[p] = "INITIATED" => tradeItem'[p] # NoItem
                           /\ tradeState'[p] = "ACKNOWLEDGE" => tradeItem'[p] = NoItem
  BY DEF PartnersAgree
<1>5. CASE p \in both
  BY <1>1, <1>5 DEF ResetTraders
<1>6. CASE p \notin both /\ tradeState[p] = "NONE"
  BY <1>1, <1>6 DEF ResetTraders, Story, PartnersAgree
<1>7. CASE p \notin both /\ tradeState[p] # "NONE"
  <2> DEFINE q == tradePartner[p]
  <2>1. q \in Players \ both
    BY <1>2, <1>7
  <2>2. /\ q \in around \ {p} /\ p \in around /\ tradePartner[q] = p
        /\ tradeItem[p] # NoItem \/ tradeItem[q] # NoItem
        /\ tradeState[p] = "INITIATED" => tradeItem[p] # NoItem
        /\ tradeState[p] = "ACKNOWLEDGE" => tradeItem[p] = NoItem
    BY <1>7 DEF Story, PartnersAgree
  <2>3. /\ tradeState'[p] = tradeState[p] /\ tradePartner'[p] = q
        /\ tradePartner'[q] = tradePartner[q]
        /\ tradeItem'[p] = tradeItem[p] /\ tradeItem'[q] = tradeItem[q]
    BY <1>1, <1>7, <2>1 DEF ResetTraders
  <2>4. q \in around' /\ p \in around'
    <3>1. tradeState[q] # "NONE"
      BY <2>1, <2>2, TradeAssumption DEF Story, PartnersAgree
    <3> QED BY <1>3, <1>7, <2>1, <2>2, <3>1
  <2> HIDE DEF q
  <2> QED BY <1>7, <2>2, <2>3, <2>4
<1> QED BY <1>5, <1>6, <1>7

LEMMA CloseKeepsRegistry ==
  ASSUME Story, NEW C \in SUBSET Players, NEW h \in Holdings, CloseTrades(C, h),
         \A i \in Items : h[i] = Nowhere <=> holder[i] = Nowhere
  PROVE  RegistryExact'
<1> DEFINE both == WithPartners(C)
           X == Traded(both)
<1>1. ResetTraders(both) /\ tradeItems' = Unregistered(X) /\ refs' = Released(X)
      /\ DocumentsCancelled(both, h)
  BY DEF CloseTrades
<1>2. both \subseteq Players
  BY DEF WithPartners, Story, TypeOK
<1>3. \A i \in X : i \in Items /\ tradeItems[i] \in both
  <2>1. ASSUME NEW i \in X PROVE i \in Items /\ tradeItems[i] \in both
    <3>1. PICK p \in both : i = tradeItem[p] /\ tradeItem[p] # NoItem
      BY <2>1 DEF Traded
    <3> QED BY <1>2, <3>1, OffersDiffer
  <2> QED BY <2>1
<1>4. \A i \in Items : tradeItems[i] \in both => i \in X
  BY <1>2, TradeAssumption DEF Story, RegistryExact, Traded
<1>5. NoPlayer \notin both
  BY <1>2, TradeAssumption
<1>6. holder' = [i \in Items |-> IF i \in Deeds \cap X THEN Nowhere ELSE h[i]]
  BY <1>1 DEF DocumentsCancelled
<1> HIDE DEF both, X
<1>7. \A i \in Items, p \in Players : tradeItems'[i] = p <=> tradeItem'[p] = i
  <2> SUFFICES ASSUME NEW i \in Items, NEW p \in Players
               PROVE  tradeItems'[i] = p <=> tradeItem'[p] = i
    OBVIOUS
  <2>1. tradeItems[i] = p <=> tradeItem[p] = i
    BY DEF Story, RegistryExact
  <2>2. tradeItems'[i] = IF i \in X THEN NoPlayer ELSE tradeItems[i]
    BY <1>1 DEF Unregistered
  <2>3. tradeItem'[p] = IF p \in both THEN NoItem ELSE tradeItem[p]
    BY <1>1 DEF ResetTraders
  <2> QED BY <1>3, <1>4, <2>1, <2>2, <2>3, TradeAssumption
<1>8. \A i \in Items : refs'[i] = (IF holder'[i] = Nowhere THEN 0 ELSE 1)
                                + (IF tradeItems'[i] = NoPlayer THEN 0 ELSE 1)
  <2> SUFFICES ASSUME NEW i \in Items
               PROVE  refs'[i] = (IF holder'[i] = Nowhere THEN 0 ELSE 1)
                               + (IF tradeItems'[i] = NoPlayer THEN 0 ELSE 1)
    OBVIOUS
  <2>1. refs[i] = (IF holder[i] = Nowhere THEN 0 ELSE 1)
                + (IF tradeItems[i] = NoPlayer THEN 0 ELSE 1)
    BY DEF Story, RegistryExact
  <2>2. tradeItems'[i] = IF i \in X THEN NoPlayer ELSE tradeItems[i]
    BY <1>1 DEF Unregistered
  <2>3. refs'[i] = IF i \notin X THEN refs[i]
                   ELSE IF i \in Deeds THEN refs[i] - 2 ELSE refs[i] - 1
    BY <1>1 DEF Released
  <2>4. i \in X => tradeItems[i] # NoPlayer
    BY <1>3, <1>5
  <2>5. i \in Deeds => (holder[i] # Nowhere <=> tradeItems[i] # NoPlayer)
    BY DEF Story, RegistryExact
  <2>6. holder'[i] = IF i \in Deeds \cap X THEN Nowhere ELSE h[i]
    BY <1>6
  <2> QED BY <2>1, <2>2, <2>3, <2>4, <2>5, <2>6
<1>9. \A d \in Deeds : holder'[d] # Nowhere <=> tradeItems'[d] # NoPlayer
  <2> SUFFICES ASSUME NEW d \in Deeds
               PROVE  holder'[d] # Nowhere <=> tradeItems'[d] # NoPlayer
    OBVIOUS
  <2>1. d \in Items /\ (holder[d] # Nowhere <=> tradeItems[d] # NoPlayer)
    BY DEF Story, RegistryExact, Items
  <2>2. tradeItems'[d] = IF d \in X THEN NoPlayer ELSE tradeItems[d]
    BY <1>1, <2>1 DEF Unregistered
  <2>3. holder'[d] = IF d \in X THEN Nowhere ELSE h[d]
    BY <1>6, <2>1
  <2> QED BY <2>1, <2>2, <2>3
<1> QED BY <1>7, <1>8, <1>9 DEF RegistryExact

LEMMA CloseKeepsOffers ==
  ASSUME Story, NEW C \in SUBSET Players, NEW h \in Holdings, CloseTrades(C, h),
         UNCHANGED deedOf,
         \A r \in Players \ WithPartners(C) : tradeItem[r] # NoItem =>
           \A c \in BagsAround(holder, tradeItem[r]) \cup {tradeItem[r]} : h[c] = holder[c]
  PROVE  NotNested' /\ OfferStaysAtHand' /\ DeedsNamed'
<1> DEFINE both == WithPartners(C)
<1>1. ResetTraders(both) /\ tradeItems' = Unregistered(Traded(both))
      /\ DocumentsCancelled(both, h)
  BY DEF CloseTrades
<1>2. both \subseteq Players
  BY DEF WithPartners, Story, TypeOK
<1>3. \A r \in Players \ both : tradeItem[r] # NoItem =>
        Around(holder', tradeItem[r]) = Around(holder, tradeItem[r])
  <2> SUFFICES ASSUME NEW r \in Players \ both, tradeItem[r] # NoItem
               PROVE  Around(holder', tradeItem[r]) = Around(holder, tradeItem[r])
    OBVIOUS
  <2> DEFINE k == tradeItem[r]
  <2>1. k \in Items \ Traded(both)
    BY <1>2, OffersRemain
  <2>2. \A c \in BagsAround(holder, k) \cup {k} : h[c] = holder[c]
    OBVIOUS
  <2>3. \A c \in BagsAround(holder, k) \cup {k} : c \in Items \ (Deeds \cap Traded(both))
    BY <2>1, AreBags, TradeAssumption DEF Items, Wares
  <2>4. holder' = [i \in Items |-> IF i \in Deeds \cap Traded(both) THEN Nowhere ELSE h[i]]
    BY <1>1 DEF DocumentsCancelled
  <2> HIDE DEF k, both
  <2>5. \A c \in BagsAround(holder, k) \cup {k} : holder'[c] = holder[c]
    BY <2>2, <2>3, <2>4
  <2>6. Around(holder', k) = Around(holder, k)
    BY <2>5, SameAround
  <2> QED BY <2>6 DEF k
<1> HIDE DEF both
<1>4. \A p \in Players : tradeItem'[p] # NoItem => p \notin both /\ tradeItem'[p] = tradeItem[p]
  BY <1>1 DEF ResetTraders
<1>5. ASSUME NEW j \in Items, tradeItems'[j] # NoPlayer
      PROVE  /\ tradeItems[j] # NoPlayer
             /\ Around(holder', j) = Around(holder, j)
  <2>1. j \notin Traded(both) /\ tradeItems[j] # NoPlayer
    BY <1>1, <1>5 DEF Unregistered
  <2>2. tradeItems[j] \in Players /\ tradeItem[tradeItems[j]] = j
    BY <2>1 DEF Story, TypeOK, RegistryExact
  <2>3. tradeItems[j] \notin both /\ tradeItem[tradeItems[j]] # NoItem
    BY <2>1, <2>2, TradeAssumption DEF Traded
  <2> QED BY <1>3, <2>1, <2>2, <2>3
<1>6. NotNested'
  BY <1>5 DEF Story, NotNested, isHoldingItem
<1>7. OfferStaysAtHand'
  <2>1. ASSUME NEW p \in Players, tradeItem'[p] # NoItem
        PROVE  (IsTopParent(tradeItem[p], p) \/ IsTopParent(tradeItem[p], Ground))'
    <3>1. p \notin both /\ tradeItem'[p] = tradeItem[p]
      BY <1>4, <2>1
    <3>2. Around(holder', tradeItem[p]) = Around(holder, tradeItem[p])
      BY <1>3, <2>1, <3>1
    <3>3. IsTopParent(tradeItem[p], p) \/ IsTopParent(tradeItem[p], Ground)
      BY <2>1, <3>1 DEF Story, OfferStaysAtHand
    <3> QED BY <3>1, <3>2, <3>3 DEF IsTopParent
  <2> QED BY <2>1 DEF OfferStaysAtHand
<1>8. DeedsNamed'
  <2>1. ASSUME NEW p \in Players, tradeItem'[p] \in Deeds PROVE deedOf[tradeItem'[p]] \in Houses
    <3>1. tradeItem'[p] # NoItem
      BY <2>1, TradeAssumption DEF Items
    <3> QED BY <1>4, <2>1, <3>1 DEF Story, DeedsNamed
  <2> QED BY <2>1 DEF DeedsNamed
<1> QED BY <1>6, <1>7, <1>8

LEMMA CloseKeeps ==
  ASSUME Story, NEW C \in SUBSET Players, NEW h \in Holdings, CloseTrades(C, h),
         around' \subseteq around,
         \A r \in around \ around' : r \in WithPartners(C) \/ tradeState[r] = "NONE",
         UNCHANGED deedOf, owner' \in [Houses -> Players \cup {NoPlayer}],
         \A i \in Items : h[i] = Nowhere <=> holder[i] = Nowhere,
         \A r \in Players \ WithPartners(C) : tradeItem[r] # NoItem =>
           \A c \in BagsAround(holder, tradeItem[r]) \cup {tradeItem[r]} : h[c] = holder[c]
  PROVE  Story'
<1>1. TypeOK'
  BY CloseKeepsTypes
<1>2. PartnersAgree'
  BY CloseKeepsPartners
<1>3. RegistryExact'
  BY CloseKeepsRegistry
<1>4. NotNested' /\ OfferStaysAtHand' /\ DeedsNamed'
  BY CloseKeepsOffers
<1> QED BY <1>1, <1>2, <1>3, <1>4 DEF Story

-----------------------------------------------------------------------------
(* Actions.                                                                *)

LEMMA InitIsStory == Init => Story
<1> SUFFICES ASSUME Init PROVE Story
  OBVIOUS
<1>1. TypeOK
  <2>1. refs \in [Items -> 0..2]
    BY DEF Init
  <2>2. tradeItems \in [Items -> Players \cup {NoPlayer}]
    BY DEF Init
  <2> QED BY <2>1, <2>2 DEF Init, TypeOK
<1>2. PartnersAgree /\ DeedsNamed
  BY TradeAssumption DEF Init, PartnersAgree, DeedsNamed, Items
<1>3. RegistryExact
  <2>1. \A i \in Items : holder[i] = Nowhere <=> i \notin Wares
    BY TradeAssumption DEF Init, Items, Wares
  <2>2. \A i \in Items, p \in Players : tradeItems[i] # p /\ tradeItem[p] # i
    BY TradeAssumption DEF Init
  <2>3. \A i \in Items : refs[i] = (IF holder[i] = Nowhere THEN 0 ELSE 1)
                                 + (IF tradeItems[i] = NoPlayer THEN 0 ELSE 1)
    BY <2>1 DEF Init
  <2>4. \A d \in Deeds : holder[d] # Nowhere <=> tradeItems[d] # NoPlayer
    BY <2>1, TradeAssumption DEF Init, Items, Wares
  <2> QED BY <2>2, <2>3, <2>4 DEF RegistryExact
<1>4. NotNested /\ OfferStaysAtHand
  BY DEF Init, NotNested, OfferStaysAtHand
<1> QED BY <1>1, <1>2, <1>3, <1>4 DEF Story

\* Starting with a thing that is not traded, nor in or around one that is, and that p
\* has or that lies on the tile; g is where the things are then.
LEMMA StartKeeps ==
  ASSUME Story, NEW p \in Players, NEW q \in Players, NEW i \in Items,
         {p, q} \subseteq around, p # q, Started(p, q, i),
         tradeItems[i] = NoPlayer, UNCHANGED around
  PROVE  /\ PartnersAgree'
         /\ \A j \in Items, r \in Players : tradeItems'[j] = r <=> tradeItem'[r] = j
         /\ tradeState' \in [Players -> {"NONE", "INITIATED", "ACCEPT", "ACKNOWLEDGE"}]
         /\ tradePartner' \in [Players -> Players \cup {NoPlayer}]
<1>1. /\ tradeState[p] = "NONE" \/ (tradeState[p] = "ACKNOWLEDGE" /\ tradePartner[p] = q)
      /\ tradeState[q] = "NONE" \/ tradePartner[q] = p
      /\ tradeItem' = [tradeItem EXCEPT ![p] = i]
      /\ tradeItems' = [tradeItems EXCEPT ![i] = p]
  BY DEF Started, MayOffer, MayBeAsked
<1>2. tradeItem[p] = NoItem
  BY <1>1 DEF Story, PartnersAgree
<1>3. NoPlayer \notin Players /\ NoItem \notin Items
  BY TradeAssumption
<1>t. /\ tradeState \in [Players -> {"NONE", "INITIATED", "ACCEPT", "ACKNOWLEDGE"}]
      /\ tradePartner \in [Players -> Players \cup {NoPlayer}]
      /\ tradeItem \in [Players -> Items \cup {NoItem}]
      /\ tradeItems \in [Items -> Players \cup {NoPlayer}]
  BY DEF Story, TypeOK
<1>4. \A j \in Items, r \in Players : tradeItems'[j] = r <=> tradeItem'[r] = j
  <2>1. \A j \in Items, r \in Players : tradeItems[j] = r <=> tradeItem[r] = j
    BY DEF Story, RegistryExact
  <2> QED BY <1>1, <1>2, <1>3, <1>t, <2>1
<1>5. \/ /\ tradeState[p] = "NONE" /\ tradeState[q] = "NONE"
         /\ tradeState' = [tradeState EXCEPT ![p] = "INITIATED", ![q] = "ACKNOWLEDGE"]
         /\ tradePartner' = [tradePartner EXCEPT ![p] = q, ![q] = p]
      \/ /\ tradeState[p] = "ACKNOWLEDGE" /\ tradePartner[p] = q /\ tradePartner[q] = p
         /\ tradeState[q] # "NONE"
         /\ tradeState' = [tradeState EXCEPT ![p] = "INITIATED"]
         /\ tradePartner' = tradePartner
  <2>1. tradeState[p] = "NONE" => tradePartner[p] = NoPlayer
    BY DEF Story, PartnersAgree
  <2>2. tradeState[q] = "NONE" => tradePartner[q] = NoPlayer
    BY DEF Story, PartnersAgree
  <2>3. tradeState[p] # "NONE" => tradePartner[tradePartner[p]] = p
    BY DEF Story, PartnersAgree
  <2>4. tradeState[q] # "NONE" => tradePartner[tradePartner[q]] = q
    BY DEF Story, PartnersAgree
  <2>5. CASE tradeState[q] = "NONE"
    <3>1. tradeState[p] = "NONE"
      BY <1>1, <1>3, <2>2, <2>3, <2>5
    <3> QED BY <2>5, <3>1 DEF Started
  <2>6. CASE tradeState[q] # "NONE"
    <3>1. tradePartner[q] = p /\ tradePartner[p] = q
      BY <1>1, <2>4, <2>6
    <3>2. tradeState[p] = "ACKNOWLEDGE"
      BY <1>1, <1>3, <2>1, <3>1
    <3>3. /\ tradeState' = [tradeState EXCEPT ![p] = "INITIATED"]
          /\ tradePartner' = [tradePartner EXCEPT ![p] = q]
      BY <2>6 DEF Started
    <3>4. tradePartner' = tradePartner
      BY <1>t, <3>1, <3>3
    <3> QED BY <2>6, <3>1, <3>2, <3>3, <3>4
  <2> QED BY <2>5, <2>6
<1>6. PartnersAgree'
  <2> SUFFICES ASSUME NEW r \in Players
               PROVE  IF tradeState'[r] = "NONE"
                      THEN tradePartner'[r] = NoPlayer /\ tradeItem'[r] = NoItem
                      ELSE /\ tradePartner'[r] \in around \ {r} /\ r \in around
                           /\ tradePartner'[tradePartner'[r]] = r
                           /\ \/ tradeItem'[r] # NoItem
                              \/ tradeItem'[tradePartner'[r]] # NoItem
                           /\ tradeState'[r] = "INITIATED" => tradeItem'[r] # NoItem
                           /\ tradeState'[r] = "ACKNOWLEDGE" => tradeItem'[r] = NoItem
    BY DEF PartnersAgree
  <2>1. IF tradeState[r] = "NONE"
        THEN tradePartner[r] = NoPlayer /\ tradeItem[r] = NoItem
        ELSE /\ tradePartner[r] \in around \ {r} /\ r \in around
             /\ tradePartner[tradePartner[r]] = r
             /\ tradeItem[r] # NoItem \/ tradeItem[tradePartner[r]] # NoItem
             /\ tradeState[r] = "INITIATED" => tradeItem[r] # NoItem
             /\ tradeState[r] = "ACKNOWLEDGE" => tradeItem[r] = NoItem
    BY DEF Story, PartnersAgree
  <2>2. tradePartner[r] \in Players => tradeState[tradePartner[r]] # "NONE"
    <3>1. ASSUME tradePartner[r] \in Players, tradeState[tradePartner[r]] = "NONE" PROVE FALSE
      <4>1. tradePartner[tradePartner[r]] = NoPlayer
        BY <3>1 DEF Story, PartnersAgree
      <4> QED BY <1>3, <2>1, <3>1, <4>1
    <3> QED BY <3>1
  <2>3. tradeItem'[r] = IF r = p THEN i ELSE tradeItem[r]
    BY <1>1, <1>t
  <2>3a. \A s \in Players : tradeItem'[s] = IF s = p THEN i ELSE tradeItem[s]
    BY <1>1, <1>t
  <2>3b. around \subseteq Players
    BY DEF Story, TypeOK
  <2>4. CASE /\ tradeState[p] = "NONE" /\ tradeState[q] = "NONE"
             /\ tradeState' = [tradeState EXCEPT ![p] = "INITIATED", ![q] = "ACKNOWLEDGE"]
             /\ tradePartner' = [tradePartner EXCEPT ![p] = q, ![q] = p]
    <3>1. tradeItem[q] = NoItem
      BY <2>4 DEF Story, PartnersAgree
    <3>2. \A s \in Players : /\ tradeState'[s] = IF s = q THEN "ACKNOWLEDGE"
                                                ELSE IF s = p THEN "INITIATED" ELSE tradeState[s]
                             /\ tradePartner'[s] = IF s = q THEN p
                                                  ELSE IF s = p THEN q ELSE tradePartner[s]
      BY <1>t, <2>4
    <3>3. CASE r = p
      BY <1>3, <2>3a, <3>2, <3>3
    <3>4. CASE r = q
      BY <1>3, <2>3a, <3>1, <3>2, <3>4
    <3>5. CASE r \notin {p, q} /\ tradeState[r] = "NONE"
      BY <2>1, <2>3a, <3>2, <3>5
    <3>6. CASE r \notin {p, q} /\ tradeState[r] # "NONE"
      <4>1. tradePartner[r] \in Players \ {p, q}
        BY <2>1, <2>2, <2>3b, <2>4, <3>6
      <4>2. /\ tradeState'[r] = tradeState[r] /\ tradePartner'[r] = tradePartner[r]
            /\ tradeItem'[r] = tradeItem[r]
            /\ tradePartner'[tradePartner[r]] = tradePartner[tradePartner[r]]
            /\ tradeItem'[tradePartner[r]] = tradeItem[tradePartner[r]]
        BY <2>3a, <3>2, <3>6, <4>1
      <4> QED BY <2>1, <3>6, <4>2
    <3> QED BY <3>3, <3>4, <3>5, <3>6
  <2>5. CASE /\ tradeState[p] = "ACKNOWLEDGE" /\ tradePartner[p] = q /\ tradePartner[q] = p
             /\ tradeState[q] # "NONE"
             /\ tradeState' = [tradeState EXCEPT ![p] = "INITIATED"]
             /\ tradePartner' = tradePartner
    <3>1. \A s \in Players : tradeState'[s] = IF s = p THEN "INITIATED" ELSE tradeState[s]
      BY <1>t, <2>5
    <3>2. CASE r = p
      BY <1>3, <2>1, <2>3, <2>5, <3>1, <3>2
    <3>3. CASE r # p /\ tradeState[r] = "NONE"
      BY <2>1, <2>3, <2>5, <3>1, <3>3
    <3>4. CASE r # p /\ tradeState[r] # "NONE"
      BY <1>3, <2>1, <2>3a, <2>3b, <2>5, <3>1, <3>4
    <3> QED BY <3>2, <3>3, <3>4
  <2> QED BY <1>5, <2>4, <2>5
<1>7. tradeState' \in [Players -> {"NONE", "INITIATED", "ACCEPT", "ACKNOWLEDGE"}]
  BY <1>5, <1>t
<1>8. tradePartner' \in [Players -> Players \cup {NoPlayer}]
  BY <1>5, <1>t
<1> QED BY <1>4, <1>6, <1>7, <1>8

LEMMA RequestKeeps ==
  ASSUME Story, NEW p \in Players, NEW q \in Players, NEW i \in Wares, RequestTrade(p, q, i)
  PROVE  Story'
<1>1. i \in Items
  BY DEF Items
<1>2. /\ {p, q} \subseteq around /\ p # q /\ Started(p, q, i) /\ NotTraded(i)
      /\ IsTopParent(i, p) \/ IsTopParent(i, Ground)
      /\ refs' = [refs EXCEPT ![i] = @ + 1]
      /\ UNCHANGED <<holder, around, attached, owner, deedOf>>
  BY DEF RequestTrade
<1>3. tradeItems[i] = NoPlayer
  BY <1>1, <1>2 DEF NotTraded
<1>4. /\ PartnersAgree'
      /\ \A j \in Items, r \in Players : tradeItems'[j] = r <=> tradeItem'[r] = j
      /\ tradeState' \in [Players -> {"NONE", "INITIATED", "ACCEPT", "ACKNOWLEDGE"}]
      /\ tradePartner' \in [Players -> Players \cup {NoPlayer}]
  BY <1>1, <1>2, <1>3, StartKeeps
<1>5. /\ tradeItem' = [tradeItem EXCEPT ![p] = i]
      /\ tradeItems' = [tradeItems EXCEPT ![i] = p]
  BY <1>2 DEF Started
<1>t. /\ tradeItem \in [Players -> Items \cup {NoItem}]
      /\ tradeItems \in [Items -> Players \cup {NoPlayer}]
      /\ refs \in [Items -> 0..2]
  BY DEF Story, TypeOK
<1>h. holder' = holder /\ deedOf' = deedOf
  BY <1>2
<1>6. PICK x \in {p, Ground} : x \in Around(holder, i) \ Bags
  BY <1>2 DEF IsTopParent
<1>7. \A j \in Items : refs'[j] = (IF holder'[j] = Nowhere THEN 0 ELSE 1)
                                + (IF tradeItems'[j] = NoPlayer THEN 0 ELSE 1)
  BY <1>1, <1>2, <1>3, <1>5, <1>h, <1>t, TradeAssumption DEF Story, RegistryExact
<1>8. TypeOK'
  <2>1. refs' \in [Items -> 0..2]
    <3>1. refs[i] \in 0..1
      BY <1>1, <1>3 DEF Story, RegistryExact
    <3> QED BY <1>1, <1>2, <1>t, <3>1
  <2>2. tradeItem' \in [Players -> Items \cup {NoItem}]
    BY <1>1, <1>5, <1>t
  <2>3. tradeItems' \in [Items -> Players \cup {NoPlayer}]
    BY <1>5, <1>t
  <2> QED BY <1>2, <1>4, <2>1, <2>2, <2>3 DEF Story, TypeOK
<1>9. RegistryExact'
  <2>1. \A d \in Deeds : holder'[d] # Nowhere <=> tradeItems'[d] # NoPlayer
    <3>1. \A d \in Deeds : d # i
      BY TradeAssumption DEF Wares
    <3> QED BY <1>5, <1>h, <3>1 DEF Story, RegistryExact
  <2> QED BY <1>4, <1>7, <2>1 DEF RegistryExact
<1>10. NotNested'
  <2>1. i \notin Around(holder, i)
    <3>1. i \notin BagsAround(holder, i)
      BY <1>6, OneTop
    <3>2. i \in Around(holder, i) => i \in Bags
      <4>1. ASSUME i \in Around(holder, i), i \notin Bags PROVE FALSE
        <5>1. i = x
          BY <1>6, <4>1, OneTop
        <5> QED BY <1>1, <1>6, <5>1, TradeAssumption
      <4> QED BY <4>1
    <3> QED BY <3>1, <3>2, BagsOfAround
  <2>2. \A j \in Items : tradeItems[j] # NoPlayer =>
           i \notin Around(holder, j) /\ j \notin Around(holder, i)
    BY <1>2 DEF NotTraded, isHoldingItem
  <2>3. \A j, k \in Items : tradeItems[j] # NoPlayer /\ tradeItems[k] # NoPlayer =>
           j \notin Around(holder, k)
    BY DEF Story, NotNested, isHoldingItem
  <2>4. \A j \in Items : tradeItems'[j] # NoPlayer => j = i \/ tradeItems[j] # NoPlayer
    BY <1>5, <1>t
  <2> QED BY <1>h, <2>1, <2>2, <2>3, <2>4 DEF NotNested, isHoldingItem
<1>11. OfferStaysAtHand'
  <2>1. \A r \in Players : tradeItem'[r] = IF r = p THEN i ELSE tradeItem[r]
    BY <1>5, <1>t
  <2> QED BY <1>2, <1>h, <2>1 DEF Story, OfferStaysAtHand, IsTopParent
<1>12. DeedsNamed'
  <2>1. \A r \in Players : tradeItem'[r] = IF r = p THEN i ELSE tradeItem[r]
    BY <1>5, <1>t
  <2>2. i \notin Deeds
    BY TradeAssumption DEF Wares
  <2> QED BY <1>h, <2>1, <2>2 DEF Story, DeedsNamed
<1> QED BY <1>4, <1>8, <1>9, <1>10, <1>11, <1>12 DEF Story

\* A document is in nothing but the transferContainer, and nothing is in it.
LEMMA NothingInDeeds ==
  ASSUME holder \in Holdings, NEW d \in Deeds
  PROVE  \A j \in Items : d \notin Around(holder, j) /\ d \notin BagsAround(holder, j)
<1> SUFFICES ASSUME NEW j \in Items
             PROVE  d \notin Around(holder, j) /\ d \notin BagsAround(holder, j)
  OBVIOUS
<1>1. \A c \in BagsAround(holder, j) \cup {j} : holder[c] \in Holders
  BY AreBags DEF Holdings, Items, Wares
<1>2. d \notin Holders
  BY TradeAssumption DEF Holders, Items
<1> QED BY <1>1, <1>2, AreBags, TradeAssumption DEF Around

LEMMA HouseSellKeeps ==
  ASSUME Story, NEW p \in Players, NEW q \in Players, NEW h \in Houses, NEW d \in Deeds,
         HouseSell(p, q, h, d)
  PROVE  Story'
<1>1. d \in Items /\ d \notin Bags
  BY TradeAssumption DEF Items
<1>2. /\ {p, q} \subseteq around /\ p # q /\ refs[d] = 0
      /\ UNCHANGED <<around, owner>>
  BY DEF HouseSell
<1>t. /\ tradeItem \in [Players -> Items \cup {NoItem}]
      /\ tradeItems \in [Items -> Players \cup {NoPlayer}]
      /\ refs \in [Items -> 0..2]
      /\ holder \in Holdings /\ attached \subseteq Players
      /\ deedOf \in [Deeds -> Houses \cup {NoHouse}]
  BY DEF Story, TypeOK, Holdings, Holders
<1>3. tradeItems[d] = NoPlayer /\ holder[d] = Nowhere
  BY <1>1, <1>2 DEF Story, RegistryExact
<1>4. CASE ~(MayOffer(p, q) /\ MayBeAsked(p, q))
  <2>1. attached' = attached \ {p}
        /\ UNCHANGED <<trade, holder, deedOf, around, owner>>
    BY <1>2, <1>4 DEF HouseSell
  <2>2. attached' \subseteq Players
    BY <1>t, <2>1
  <2> QED BY <2>1, <2>2 DEF Story, TypeOK, PartnersAgree, RegistryExact, NotNested,
                  OfferStaysAtHand, DeedsNamed, isHoldingItem, IsTopParent, trade
<1>5. CASE MayOffer(p, q) /\ MayBeAsked(p, q)
  <2>1. /\ Started(p, q, d)
        /\ refs' = [refs EXCEPT ![d] = 2]
        /\ holder' = [holder EXCEPT ![d] = p]
        /\ attached' = attached \cup {p}
        /\ deedOf' = [deedOf EXCEPT ![d] = h]
    BY <1>5 DEF HouseSell
  <2>2. /\ PartnersAgree'
        /\ \A j \in Items, r \in Players : tradeItems'[j] = r <=> tradeItem'[r] = j
        /\ tradeState' \in [Players -> {"NONE", "INITIATED", "ACCEPT", "ACKNOWLEDGE"}]
        /\ tradePartner' \in [Players -> Players \cup {NoPlayer}]
    BY <1>1, <1>2, <1>3, <2>1, StartKeeps
  <2>3. /\ tradeItem' = [tradeItem EXCEPT ![p] = d]
        /\ tradeItems' = [tradeItems EXCEPT ![d] = p]
    BY <2>1 DEF Started
  <2>4. TypeOK'
    <3>1. refs' \in [Items -> 0..2]
      <4>1. 2 \in 0..2
        OBVIOUS
      <4> QED BY <1>t, <2>1, <4>1
    <3>2. holder' \in [Items -> Players \cup Bags \cup {Ground, Nowhere}]
      BY <1>t, <2>1 DEF Holdings, Holders
    <3>3. tradeItem' \in [Players -> Items \cup {NoItem}]
      BY <1>1, <1>t, <2>3
    <3>4. tradeItems' \in [Items -> Players \cup {NoPlayer}]
      BY <1>t, <2>3
    <3>5. attached' \subseteq Players
      BY <1>t, <2>1
    <3>6. deedOf' \in [Deeds -> Houses \cup {NoHouse}]
      BY <1>t, <2>1
    <3> QED BY <1>2, <2>2, <3>1, <3>2, <3>3, <3>4, <3>5, <3>6 DEF Story, TypeOK
  <2>5. RegistryExact'
    <3>1. p # Nowhere /\ p # NoPlayer
      BY TradeAssumption
    <3>2. \A j \in Items : /\ refs'[j] = IF j = d THEN 2 ELSE refs[j]
                           /\ holder'[j] = IF j = d THEN p ELSE holder[j]
                           /\ tradeItems'[j] = IF j = d THEN p ELSE tradeItems[j]
      BY <1>t, <2>1, <2>3 DEF Holdings
    <3>3. \A j \in Items : refs'[j] = (IF holder'[j] = Nowhere THEN 0 ELSE 1)
                                    + (IF tradeItems'[j] = NoPlayer THEN 0 ELSE 1)
      BY <3>1, <3>2 DEF Story, RegistryExact
    <3>4. \A e \in Deeds : holder'[e] # Nowhere <=> tradeItems'[e] # NoPlayer
      BY <3>1, <3>2 DEF Story, RegistryExact, Items
    <3> QED BY <2>2, <3>3, <3>4 DEF RegistryExact
  <2>6. \A j \in Items : j # d => Around(holder', j) = Around(holder, j)
    <3>1. \A j \in Items : d \notin BagsAround(holder, j)
      BY <1>t, NothingInDeeds
    <3>2. \A j \in Items : j # d => holder'[j] = holder[j]
      BY <1>t, <2>1 DEF Holdings
    <3>3. \A j \in Items : BagsAround(holder, j) \cup {j} \subseteq Items
      BY AreBags DEF Items, Wares
    <3>4. ASSUME NEW j \in Items, j # d PROVE Around(holder', j) = Around(holder, j)
      <4>1. \A c \in BagsAround(holder, j) \cup {j} : holder'[c] = holder[c]
        BY <3>1, <3>2, <3>3, <3>4
      <4> QED BY <4>1, SameAround
    <3> QED BY <3>4
  <2>7. Around(holder', d) = {p}
    <3>1. holder'[d] = p /\ p \notin Bags
      BY <1>1, <1>t, <2>1, TradeAssumption DEF Holdings, Items, Wares
    <3> QED BY <3>1, Outermost
  <2>8. NotNested'
    <3>1. \A j \in Items : tradeItems'[j] # NoPlayer => j = d \/ tradeItems[j] # NoPlayer
      BY <1>t, <2>3
    <3>2. \A j \in Items : d \notin Around(holder, j)
      BY <1>t, NothingInDeeds
    <3>3. p \notin Items
      BY TradeAssumption
    <3> QED BY <2>6, <2>7, <3>1, <3>2, <3>3 DEF Story, NotNested, isHoldingItem
  <2>9. OfferStaysAtHand'
    <3>1. \A r \in Players : tradeItem'[r] = IF r = p THEN d ELSE tradeItem[r]
      BY <1>t, <2>3
    <3>2. \A r \in Players : tradeItem[r] # NoItem => tradeItem[r] \in Items /\ tradeItem[r] # d
      BY <1>3, OffersDiffer, TradeAssumption
    <3>3. p \notin Bags
      BY TradeAssumption DEF Items, Wares
    <3> QED BY <2>6, <2>7, <3>1, <3>2, <3>3 DEF Story, OfferStaysAtHand, IsTopParent
  <2>10. DeedsNamed'
    <3>1. \A r \in Players : tradeItem'[r] = IF r = p THEN d ELSE tradeItem[r]
      BY <1>t, <2>3
    <3>2. \A e \in Deeds : deedOf'[e] = IF e = d THEN h ELSE deedOf[e]
      BY <1>t, <2>1
    <3> QED BY <3>1, <3>2 DEF Story, DeedsNamed
  <2> QED BY <2>2, <2>4, <2>5, <2>8, <2>9, <2>10 DEF Story
<1> QED BY <1>4, <1>5

LEMMA TradeAcceptKeeps ==
  ASSUME Story, NEW p \in Players, Accept(p) \/ AcceptDenied(p)
  PROVE  Story'
<1>1. /\ tradeState[p] \in {"ACKNOWLEDGE", "INITIATED"}
      /\ tradeState' = [tradeState EXCEPT ![p] = "ACCEPT"]
      /\ UNCHANGED <<tradePartner, tradeItem, tradeItems, refs,
                     holder, around, attached, owner, deedOf>>
  BY DEF Accept, AcceptDenied
<1>2. tradeState' \in [Players -> {"NONE", "INITIATED", "ACCEPT", "ACKNOWLEDGE"}]
  BY <1>1 DEF Story, TypeOK
<1>3. \A r \in Players : tradeState'[r] = IF r = p THEN "ACCEPT" ELSE tradeState[r]
  BY <1>1 DEF Story, TypeOK
<1>4. PartnersAgree'
  <2>1. PartnersAgree
    BY DEF Story
  <2> QED BY <1>1, <1>3, <2>1 DEF PartnersAgree
<1>5. TypeOK'
  BY <1>1, <1>2 DEF Story, TypeOK
<1>6. RegistryExact' /\ DeedsNamed'
  BY <1>1 DEF Story, RegistryExact, DeedsNamed
<1>7. NotNested' /\ OfferStaysAtHand'
  BY <1>1 DEF Story, NotNested, OfferStaysAtHand, isHoldingItem, IsTopParent
<1> QED BY <1>4, <1>5, <1>6, <1>7 DEF Story

\* A trade is closed where nothing moves: refused, ended, or left by walking away,
\* logging out or dying.
LEMMA ClosedKeeps ==
  ASSUME Story, NEW p \in Players,
         AcceptFails(p) \/ PlayerClose(p) \/ (\E away \in BOOLEAN : Walk(p, away)) \/ Disappear(p)
  PROVE  Story'
<1>1. PICK C \in {{}, {p}} :
        /\ CloseTrades(C, holder)
        /\ UNCHANGED <<owner, deedOf>>
        /\ \/ around' = around
           \/ around' = around \ {p} /\ (C = {p} \/ tradePartner[p] = NoPlayer)
  <2>1. CASE AcceptFails(p)
    BY <2>1 DEF AcceptFails
  <2>2. CASE PlayerClose(p)
    BY <2>2 DEF PlayerClose
  <2>3. CASE \E away \in BOOLEAN : Walk(p, away)
    <3>1. PICK away \in BOOLEAN : Walk(p, away)
      BY <2>3
    <3>2. CASE TooFar(p, away)
      BY <3>1, <3>2 DEF Walk
    <3>3. CASE ~TooFar(p, away)
      BY <3>1, <3>3 DEF Walk, TooFar
    <3> QED BY <3>2, <3>3
  <2>4. CASE Disappear(p)
    <3>1. CASE tradePartner[p] # NoPlayer
      BY <2>4, <3>1 DEF Disappear
    <3>2. CASE tradePartner[p] = NoPlayer
      BY <2>4, <3>2 DEF Disappear
    <3> QED BY <3>1, <3>2
  <2> QED BY <2>1, <2>2, <2>3, <2>4
<1>2. C \in SUBSET Players /\ C \subseteq WithPartners(C)
  BY DEF WithPartners
<1>3. around' \subseteq around
  BY <1>1
<1>4. \A r \in around \ around' : r \in WithPartners(C) \/ tradeState[r] = "NONE"
  <2>1. tradePartner[p] = NoPlayer => tradeState[p] = "NONE"
    BY TradeAssumption DEF Story, TypeOK, PartnersAgree
  <2> QED BY <1>1, <1>2, <2>1
<1>5. holder \in Holdings /\ owner' \in [Houses -> Players \cup {NoPlayer}]
  BY <1>1 DEF Story, TypeOK, Holdings, Holders
<1>6. CloseTrades(C, holder) /\ UNCHANGED deedOf
  BY <1>1
<1> HIDE DEF Story
<1> QED BY <1>2, <1>3, <1>4, <1>5, <1>6, CloseKeeps

\* What is offered by one who is not told that i goes is neither i nor inside it.
LEMMA Undisturbed ==
  ASSUME Story, NEW r \in Players, tradeItem[r] # NoItem, NEW i \in Items, NEW h,
         r \notin Disturbed(i, h)
  PROVE  i \notin BagsAround(holder, tradeItem[r]) \cup {tradeItem[r]}
<1> DEFINE k == tradeItem[r]
<1> SUFFICES ASSUME i \in BagsAround(holder, k) \cup {k} PROVE FALSE
  OBVIOUS
<1>1. r \in around
  BY OffersDiffer
<1>2. RemovalDisturbs(r, i)
  BY BagsOfAround DEF RemovalDisturbs, isHoldingItem
<1>3. PICK x \in {r, Ground} : x \in Around(holder, k) \ Bags
  BY DEF Story, OfferStaysAtHand, IsTopParent
<1>4. holder[i] \in Players => holder[i] = r
  <2>1. ASSUME holder[i] \in Players PROVE holder[i] = r
    <3>1. holder[i] \notin Bags
      BY <2>1, TradeAssumption DEF Items, Wares
    <3>2. Around(holder, i) = {holder[i]}
      BY <3>1, Outermost
    <3>3. x \in Around(holder, i)
      BY <1>3, OneTop
    <3> QED BY <1>3, <2>1, <3>2, <3>3, TradeAssumption
  <2> QED BY <2>1
<1> QED BY <1>1, <1>2, <1>4 DEF Disturbed, Told

LEMMA MoveKeeps ==
  ASSUME Story, NEW p \in Players, NEW i \in Wares, NEW to \in {p, Ground} \cup Bags,
         MoveItem(p, i, to)
  PROVE  Story'
<1> DEFINE h == [holder EXCEPT ![i] = to]
           C == Disturbed(i, h)
<1>0. i \in Items
  BY DEF Items
<1>1. CloseTrades(C, h) /\ UNCHANGED <<around, owner, deedOf>>
  BY DEF MoveItem
<1>2. C \in SUBSET Players /\ C \subseteq WithPartners(C)
  BY DEF Disturbed, WithPartners
<1>t. holder \in Holdings /\ owner' \in [Houses -> Players \cup {NoPlayer}]
  BY <1>1 DEF Story, TypeOK, Holdings, Holders
<1>3. h \in Holdings
  BY <1>t DEF Holdings, Holders
<1>4. \A j \in Items : h[j] = Nowhere <=> holder[j] = Nowhere
  <2>1. holder[i] # Nowhere
    <3>1. ASSUME holder[i] = Nowhere PROVE FALSE
      <4>1. Nowhere \notin Bags
        BY TradeAssumption DEF Items, Wares
      <4>2. Around(holder, i) = {Nowhere}
        BY <3>1, <4>1, Outermost
      <4> QED BY <4>2, TradeAssumption DEF MoveItem, IsTopParent
    <3> QED BY <3>1
  <2>2. to # Nowhere
    BY TradeAssumption DEF Items, Wares
  <2> QED BY <1>t, <2>1, <2>2 DEF Holdings
<1>5. ASSUME NEW r \in Players \ WithPartners(C), tradeItem[r] # NoItem
      PROVE  \A c \in BagsAround(holder, tradeItem[r]) \cup {tradeItem[r]} : h[c] = holder[c]
  <2>1. r \notin C
    BY <1>2
  <2>2. i \notin BagsAround(holder, tradeItem[r]) \cup {tradeItem[r]}
    BY <1>0, <1>5, <2>1, Undisturbed
  <2>3. BagsAround(holder, tradeItem[r]) \cup {tradeItem[r]} \subseteq Items
    BY <1>5, AreBags, OffersDiffer DEF Items, Wares
  <2> QED BY <1>t, <2>2, <2>3 DEF Holdings
<1>6. around' \subseteq around /\ (\A r \in around \ around' : FALSE) /\ UNCHANGED deedOf
  BY <1>1
<1> HIDE DEF Story, h, C
<1> QED BY <1>1, <1>2, <1>t, <1>3, <1>4, <1>5, <1>6, CloseKeeps

\* The two who exchange, and where their things go.
LEMMA TheTwo ==
  ASSUME Story, NEW p \in Players, NEW toP, NEW toQ, AcceptDone(p, toP, toQ)
  PROVE  LET q == tradePartner[p]
             one == tradeItem[p]
             two == tradeItem[q]
         IN  /\ q \in Players /\ q # p /\ tradePartner[q] = p
             /\ one \in Items /\ two \in Items /\ one # two
             /\ one # NoItem /\ two # NoItem
             /\ tradeItems[one] = p /\ tradeItems[two] = q
             /\ one \notin Around(holder, two) /\ two \notin Around(holder, one)
             /\ holder[one] # Nowhere /\ holder[two] # Nowhere
             /\ toP \in Destinations(p) /\ toQ \in Destinations(q)
             /\ "ACCEPT" = tradeState[q]
<1> DEFINE q == tradePartner[p]
           one == tradeItem[p]
           two == tradeItem[q]
<1>1. /\ NoItem \notin {one, two} /\ toP \in Destinations(p) /\ toQ \in Destinations(q)
      /\ tradeState[q] = "ACCEPT" /\ tradeState[p] # "NONE"
  BY DEF AcceptDone
<1>2. q \in Players /\ q # p /\ tradePartner[q] = p
  BY <1>1 DEF Story, TypeOK, PartnersAgree
<1>3. /\ one \in Items /\ tradeItems[one] = p
      /\ two \in Items /\ tradeItems[two] = q
  BY <1>1, <1>2, OffersDiffer
<1>4. one # two
  BY <1>2, <1>3
<1>5. one \notin Around(holder, two) /\ two \notin Around(holder, one)
  BY <1>2, <1>3, TradeAssumption DEF Story, NotNested, isHoldingItem
<1>6. ASSUME NEW r \in Players, tradeItem[r] # NoItem, holder[tradeItem[r]] = Nowhere
      PROVE  FALSE
  <2>1. Nowhere \notin Bags
    BY TradeAssumption DEF Items, Wares
  <2>2. Around(holder, tradeItem[r]) = {Nowhere}
    BY <1>6, <2>1, Outermost
  <2> QED BY <1>6, <2>2, TradeAssumption DEF Story, OfferStaysAtHand, IsTopParent
<1>7. holder[one] # Nowhere /\ holder[two] # Nowhere
  BY <1>1, <1>2, <1>6
<1> QED BY <1>1, <1>2, <1>3, <1>4, <1>5, <1>7

LEMMA ExchangeKeeps ==
  ASSUME Story, NEW p \in Players, NEW toP, NEW toQ, AcceptDone(p, toP, toQ)
  PROVE  Story'
<1> DEFINE q == tradePartner[p]
           one == tradeItem[p]
           two == tradeItem[q]
           h == [holder EXCEPT ![one] = toQ, ![two] = toP]
           others == (Disturbed(one, h) \cup Disturbed(two, h)) \ {p, q}
           C == {p} \cup others
<1>1. /\ q \in Players /\ q # p /\ tradePartner[q] = p
      /\ one \in Items /\ two \in Items /\ one # two
      /\ one # NoItem /\ two # NoItem
      /\ tradeItems[one] = p /\ tradeItems[two] = q
      /\ one \notin Around(holder, two) /\ two \notin Around(holder, one)
      /\ holder[one] # Nowhere /\ holder[two] # Nowhere
      /\ toP \in Destinations(p) /\ toQ \in Destinations(q)
  BY TheTwo
<1>2. CloseTrades(C, h) /\ owner' = HouseTo(HouseTo(owner, one, q), two, p)
      /\ UNCHANGED <<around, deedOf>>
  BY DEF AcceptDone, Exchange
<1>3. C \in SUBSET Players /\ C \cup {q} \subseteq WithPartners(C)
  <2>1. C \in SUBSET Players
    BY DEF Disturbed
  <2>2. tradePartner[p] = q /\ p \in C /\ q # NoPlayer
    BY <1>1, TradeAssumption
  <2> HIDE DEF q, C
  <2> QED BY <2>1, <2>2 DEF WithPartners
<1>t. holder \in Holdings
  BY DEF Story, TypeOK, Holdings, Holders
<1>4. {toP, toQ} \subseteq Players \cup Bags
  BY <1>1 DEF Destinations
<1>5. h \in Holdings
  BY <1>t, <1>4 DEF Holdings, Holders
<1>6. \A j \in Items : h[j] = Nowhere <=> holder[j] = Nowhere
  <2>1. toP # Nowhere /\ toQ # Nowhere
    BY <1>4, TradeAssumption DEF Items, Wares
  <2> QED BY <1>1, <1>t, <2>1 DEF Holdings
<1>7. owner' \in [Houses -> Players \cup {NoPlayer}]
  <2>1. owner \in [Houses -> Players \cup {NoPlayer}]
    BY DEF Story, TypeOK
  <2>2. \A o \in [Houses -> Players \cup {NoPlayer}], k \in Items, r \in Players :
           HouseTo(o, k, r) \in [Houses -> Players \cup {NoPlayer}]
    BY DEF HouseTo
  <2> QED BY <1>1, <1>2, <2>1, <2>2
<1>8. ASSUME NEW r \in Players \ WithPartners(C), tradeItem[r] # NoItem
      PROVE  \A c \in BagsAround(holder, tradeItem[r]) \cup {tradeItem[r]} : h[c] = holder[c]
  <2> DEFINE k == tradeItem[r]
  <2>1. r # p /\ r # q
    BY <1>3
  <2>2. k \in Items /\ tradeItems[k] = r
    BY <1>8, OffersDiffer
  <2>3. k # one /\ k # two
    BY <1>1, <2>1, <2>2
  <2>4. one \notin BagsAround(holder, k) /\ two \notin BagsAround(holder, k)
    <3>1. \A j \in {one, two} : j \notin Around(holder, k)
      BY <1>1, <2>2, TradeAssumption DEF Story, NotNested, isHoldingItem
    <3> QED BY <3>1, BagsOfAround
  <2>5. BagsAround(holder, k) \cup {k} \subseteq Items
    BY <2>2, AreBags DEF Items, Wares
  <2> HIDE DEF k, one, two
  <2> QED BY <1>t, <2>3, <2>4, <2>5 DEF Holdings, k
<1>9. around' \subseteq around /\ (\A r \in around \ around' : FALSE) /\ UNCHANGED deedOf
  BY <1>2
<1>10. CloseTrades(C, h)
  BY <1>2
<1> HIDE DEF Story, h, C
<1> QED BY <1>10, <1>3, <1>5, <1>6, <1>7, <1>8, <1>9, CloseKeeps

LEMMA RestKeeps ==
  ASSUME Story,
         \/ \E p \in Players : Come(p) \/ (\E h \in Houses : HouseBuy(p, h))
         \/ \E h \in Houses : HouseLeft(h)
  PROVE  Story'
<1>1. UNCHANGED <<trade, holder, attached, deedOf>>
  BY DEF Come, HouseBuy, HouseLeft
<1>2. around \subseteq around' /\ around' \subseteq Players
  BY DEF Come, HouseBuy, HouseLeft, Story, TypeOK
<1>3. owner' \in [Houses -> Players \cup {NoPlayer}]
  BY DEF Come, HouseBuy, HouseLeft, Story, TypeOK
<1>4. TypeOK'
  BY <1>1, <1>2, <1>3 DEF Story, TypeOK, trade
<1>5. PartnersAgree'
  <2>1. PartnersAgree
    BY DEF Story
  <2> QED BY <1>1, <1>2, <2>1 DEF PartnersAgree, trade
<1>6. RegistryExact' /\ DeedsNamed'
  BY <1>1 DEF Story, RegistryExact, DeedsNamed, trade
<1>7. NotNested' /\ OfferStaysAtHand'
  BY <1>1 DEF Story, NotNested, OfferStaysAtHand, isHoldingItem, IsTopParent, trade
<1> QED BY <1>4, <1>5, <1>6, <1>7 DEF Story

LEMMA StutterKeeps ==
  ASSUME Story, UNCHANGED vars
  PROVE  Story'
<1>1. UNCHANGED trade /\ UNCHANGED <<holder, around, attached, owner, deedOf>>
  BY DEF vars
<1>2. TypeOK' /\ PartnersAgree'
  BY <1>1 DEF Story, TypeOK, PartnersAgree, trade
<1>3. RegistryExact' /\ DeedsNamed'
  BY <1>1 DEF Story, RegistryExact, DeedsNamed, trade
<1>4. NotNested' /\ OfferStaysAtHand'
  BY <1>1 DEF Story, NotNested, OfferStaysAtHand, isHoldingItem, IsTopParent, trade
<1> QED BY <1>2, <1>3, <1>4 DEF Story

LEMMA NextIsStory == Story /\ [Next]_vars => Story'
<1> SUFFICES ASSUME Story, [Next]_vars PROVE Story'
  OBVIOUS
<1>1. ASSUME NEW p \in Players, NEW q \in Players, NEW i \in Wares, RequestTrade(p, q, i)
      PROVE  Story'
  BY <1>1, RequestKeeps
<1>2. ASSUME NEW p \in Players, NEW q \in Players, NEW h \in Houses, NEW d \in Deeds,
             HouseSell(p, q, h, d)
      PROVE  Story'
  BY <1>2, HouseSellKeeps
<1>3. ASSUME NEW p \in Players, Accept(p) \/ AcceptDenied(p)
      PROVE  Story'
  BY <1>3, TradeAcceptKeeps
<1>4. ASSUME NEW p \in Players,
             AcceptFails(p) \/ PlayerClose(p) \/ (\E away \in BOOLEAN : Walk(p, away)) \/ Disappear(p)
      PROVE  Story'
  BY <1>4, ClosedKeeps
<1>5. ASSUME NEW p \in Players, NEW toP, NEW toQ, AcceptDone(p, toP, toQ)
      PROVE  Story'
  BY <1>5, ExchangeKeeps
<1>6. ASSUME NEW p \in Players, NEW i \in Wares, NEW to \in {p, Ground} \cup Bags,
             MoveItem(p, i, to)
      PROVE  Story'
  BY <1>6, MoveKeeps
<1>7. ASSUME \/ \E p \in Players : Come(p) \/ (\E h \in Houses : HouseBuy(p, h))
             \/ \E h \in Houses : HouseLeft(h)
      PROVE  Story'
  BY <1>7, RestKeeps
<1>8. ASSUME UNCHANGED vars PROVE Story'
  BY <1>8, StutterKeeps
<1> HIDE DEF Story
<1> QED BY <1>1, <1>2, <1>3, <1>4, <1>5, <1>6, <1>7, <1>8 DEF Next

LEMMA AlwaysStory == Spec => []Story
<1>1. Init => Story
  BY InitIsStory
<1>2. Story /\ [Next]_vars => Story'
  BY NextIsStory
<1> QED BY <1>1, <1>2, PTL DEF Spec

\* Partners, offers, the registry and the references agree in every order of requests,
\* answers, moves, sales and logouts: no trade points at a player who trades with
\* another, none at an item that was freed (Game::playerRequestTrade,
\* internalStartTrade, playerAcceptTrade, internalCloseTrade).
THEOREM TradesStayAgreed == Spec => []TradesAgree
<1>1. Story => TradesAgree
  BY DEF Story, TradesAgree
<1> QED BY <1>1, AlwaysStory, PTL

\* What is offered stays with who offers it or on the tile
\* (Player::onRemoveContainerItem, checkTradeState and the like).
THEOREM OffersStayAtHand == Spec => []OfferStaysAtHand
<1>1. Story => OfferStaysAtHand
  BY DEF Story
<1> QED BY <1>1, AlwaysStory, PTL

-----------------------------------------------------------------------------
(* Things pass only by an exchange.                                        *)

\* Where x alone is moved, what i then ends with it ended with before, or x is put there.
LEMMA MovedTo ==
  ASSUME NEW h, NEW g, NEW i, NEW x, NEW to, g[x] = to,
         \A c \in BagsAround(h, i) \cup {i} : c = x \/ g[c] = h[c],
         to \in Bags => \A c \in BagsAround(h, to) \cup {to} : c = x \/ g[c] = h[c]
  PROVE  \A y \in Around(g, i) : \/ y \in Around(h, i) \/ y = to
                                 \/ to \in Bags /\ y \in Around(h, to)
<1> DEFINE T == IF to \in Bags THEN {to} \cup BagsAround(h, to) ELSE {}
           S == BagsAround(h, i) \cup T
<1>1. S \in SUBSET Bags
  BY AreBags
<1>2. \A c \in T : c = x \/ (g[c] = h[c] /\ (h[c] \in Bags => h[c] \in T))
  BY IsClosed
<1>3. \A c \in BagsAround(h, i) \cup {i} :
        c = x \/ (g[c] = h[c] /\ (h[c] \in Bags => h[c] \in BagsAround(h, i)))
  BY IsClosed
<1>4. \A c \in S \cup {i} : g[c] \in Bags => g[c] \in S
  BY <1>2, <1>3
<1>5. BagsAround(g, i) \subseteq S
  <2> HIDE DEF S
  <2> QED BY <1>1, <1>4, IsLeast
<1>6. ASSUME NEW y \in Around(g, i)
      PROVE  \/ y \in Around(h, i) \/ y = to
             \/ to \in Bags /\ y \in Around(h, to)
  <2>1. PICK c \in S \cup {i} : y = g[c]
    BY <1>5 DEF Around
  <2>2. CASE c = x
    BY <2>1, <2>2
  <2>3. CASE c # x /\ c \in BagsAround(h, i) \cup {i}
    BY <1>3, <2>1, <2>3 DEF Around
  <2>4. CASE c # x /\ c \in T
    <3>1. to \in Bags /\ c \in BagsAround(h, to) \cup {to} /\ y = h[c]
      BY <1>2, <2>1, <2>4
    <3> QED BY <3>1 DEF Around
  <2> QED BY <2>1, <2>2, <2>3, <2>4
<1> QED BY <1>6

\* After a trade is closed only its documents are held otherwise than h says.
LEMMA AfterClose ==
  ASSUME NEW C, NEW h, CloseTrades(C, h), NEW i \in Items,
         NEW q \in Players, q \in Around(holder', i)
  PROVE  /\ \A c \in Bags \cup {i} : holder'[c] = h[c]
         /\ i \notin Deeds \cap Traded(WithPartners(C))
<1> DEFINE X == Deeds \cap Traded(WithPartners(C))
<1>1. holder' = [j \in Items |-> IF j \in X THEN Nowhere ELSE h[j]]
  BY DEF CloseTrades, DocumentsCancelled
<1>2. \A b \in Bags : b \in Items \ X
  BY TradeAssumption DEF Items, Wares
<1>3. ASSUME i \in X PROVE FALSE
  <2>1. holder'[i] = Nowhere /\ Nowhere \notin Bags
    BY <1>1, <1>3, TradeAssumption DEF Items, Wares
  <2>2. Around(holder', i) = {Nowhere}
    BY <2>1, Outermost
  <2> QED BY <2>2, TradeAssumption
<1> HIDE DEF X
<1>4. \A c \in Bags \cup {i} : holder'[c] = h[c]
  BY <1>1, <1>2, <1>3
<1> QED BY <1>3, <1>4 DEF X

\* What stays in the same bags stays with the same player.
LEMMA StaysWith ==
  ASSUME NEW p \in Players, NEW q \in Players, NEW i, IsTopParent(i, p),
         q \in Around(holder', i),
         \A c \in BagsAround(holder, i) \cup {i} : holder'[c] = holder[c]
  PROVE  p = q
<1>1. Around(holder', i) = Around(holder, i)
  BY SameAround
<1>2. q \notin Bags
  BY TradeAssumption DEF Items, Wares
<1> QED BY <1>1, <1>2, OneTop DEF IsTopParent

\* A player who moves a thing takes it from himself or from the tile.
LEMMA MovesHisOwn ==
  ASSUME Story, NEW r \in Players, NEW j \in Wares, NEW to \in {r, Ground} \cup Bags,
         MoveItem(r, j, to),
         NEW p \in Players, NEW q \in Players, NEW i \in Items, IsTopParent(i, p),
         q \in Around(holder', i)
  PROVE  p = q
<1> DEFINE h == [holder EXCEPT ![j] = to]
<1>1. /\ CloseTrades(Disturbed(j, h), h)
      /\ IsTopParent(j, r) \/ IsTopParent(j, Ground)
      /\ to \in Bags => IsTopParent(to, r) \/ IsTopParent(to, Ground)
  BY DEF MoveItem
<1>2. \A c \in Bags \cup {i} : holder'[c] = h[c]
  BY <1>1, AfterClose
<1>3. holder \in Holdings /\ j \in Items /\ Bags \subseteq Items
  BY DEF Story, TypeOK, Holdings, Holders, Items, Wares
<1>4. \A c \in Items : h[c] = IF c = j THEN to ELSE holder[c]
  BY <1>3 DEF Holdings
<1>5. BagsAround(holder, i) \cup {i} \subseteq Bags \cup {i}
  BY AreBags
<1>6. p \notin Bags /\ q \notin Bags /\ p # Ground /\ q # Ground
  BY TradeAssumption DEF Items, Wares
<1>7. CASE j \notin BagsAround(holder, i) \cup {i}
  <2>1. \A c \in BagsAround(holder, i) \cup {i} : holder'[c] = holder[c]
    BY <1>2, <1>3, <1>4, <1>5, <1>7
  <2> QED BY <2>1, StaysWith
<1>8. CASE j \in BagsAround(holder, i) \cup {i}
  <2>1. p \in Around(holder, j)
    BY <1>8, OneTop DEF IsTopParent
  <2>2. p = r
    BY <1>1, <1>6, <2>1, OneTop DEF IsTopParent
  <2>3. holder'[j] = to
    BY <1>2, <1>3, <1>4, <1>5, <1>8
  <2>4. \A c \in BagsAround(holder, i) \cup {i} : c = j \/ holder'[c] = holder[c]
    BY <1>2, <1>3, <1>4, <1>5
  <2>5. to \in Bags => \A c \in BagsAround(holder, to) \cup {to} : c = j \/ holder'[c] = holder[c]
    BY <1>2, <1>3, <1>4, AreBags
  <2>6. \A y \in Around(holder', i) : \/ y \in Around(holder, i) \/ y = to
                                      \/ to \in Bags /\ y \in Around(holder, to)
    BY <2>3, <2>4, <2>5, MovedTo
  <2>7. q \in Around(holder, i) => q = p
    BY <1>6, OneTop DEF IsTopParent
  <2>8. q = to => q = r
    BY <1>6
  <2>9. to \in Bags /\ q \in Around(holder, to) => q = r
    BY <1>1, <1>6, OneTop DEF IsTopParent
  <2> QED BY <2>2, <2>6, <2>7, <2>8, <2>9
<1> QED BY <1>7, <1>8

\* In an exchange of a's thing for b's, what goes with a's comes to b, and b's to a.
LEMMA Crosses ==
  ASSUME Story, NEW a \in Players, NEW b \in Players, a # b,
         tradeItem[a] # NoItem, tradeItem[b] # NoItem,
         NEW ta \in Destinations(a), NEW tb \in Destinations(b),
         NEW i \in Items, IsTopParent(i, a), tradeItem[a] \in BagsAround(holder, i) \cup {i},
         \A c \in Bags \cup {i} : holder'[c] = IF c = tradeItem[a] THEN tb
                                              ELSE IF c = tradeItem[b] THEN ta ELSE holder[c],
         NEW q \in Players, q # a, q \in Around(holder', i)
  PROVE  /\ q = b
         /\ tradeItem[a] = i \/ isHoldingItem(tradeItem[a], i)
         /\ holder'[tradeItem[b]] = ta => a \in Around(holder', tradeItem[b])
<1> DEFINE one == tradeItem[a]
           two == tradeItem[b]
<1>1. \A r \in Players : r \notin Bags /\ r # Ground
  BY TradeAssumption DEF Items, Wares
<1>2. \A j : IsTopParent(j, a) => two \notin BagsAround(holder, j) \cup {j}
  <2>1. ASSUME NEW j, IsTopParent(j, a), two \in BagsAround(holder, j) \cup {j} PROVE FALSE
    <3>1. a \in Around(holder, two) \ Bags
      BY <1>1, <2>1, OneTop DEF IsTopParent
    <3> QED BY <1>1, <3>1, OfferIsWith
  <2> QED BY <2>1
<1>3. \A c \in BagsAround(holder, i) \cup {i} : c = one \/ holder'[c] = holder[c]
  BY <1>2, AreBags
<1>4. holder'[one] = tb
  BY AreBags
<1>5. tb \in Bags => \A c \in BagsAround(holder, tb) \cup {tb} : c = one \/ holder'[c] = holder[c]
  <2>1. tb \in Bags => two \notin BagsAround(holder, tb) \cup {tb}
    BY <1>1, AreBags, BagsOfAround DEF Destinations, isHoldingItem
  <2> QED BY <2>1, AreBags
<1>6. \A y \in Around(holder', i) : \/ y \in Around(holder, i) \/ y = tb
                                    \/ tb \in Bags /\ y \in Around(holder, tb)
  <2> HIDE DEF one, two
  <2> QED BY <1>3, <1>4, <1>5, MovedTo
<1>7. q = b
  <2>1. q \notin Around(holder, i)
    BY <1>1, OneTop DEF IsTopParent
  <2>2. q = tb => q = b
    BY <1>1 DEF Destinations
  <2>3. tb \in Bags => IsTopParent(tb, b)
    BY <1>1 DEF Destinations
  <2>4. tb \in Bags /\ q \in Around(holder, tb) => q = b
    BY <1>1, <2>3, OneTop DEF IsTopParent
  <2> QED BY <1>6, <2>1, <2>2, <2>4
<1>8. one = i \/ isHoldingItem(one, i)
  BY BagsOfAround DEF isHoldingItem
<1>9. ASSUME holder'[two] = ta PROVE a \in Around(holder', two)
  <2>1. CASE ta = a
    BY <1>9, <2>1 DEF Around
  <2>2. CASE ta # a
    <3>1. ta \in Bags /\ IsTopParent(ta, a) /\ ta # one
          /\ one \notin BagsAround(holder, ta)
      BY <1>1, <2>2, AreBags, BagsOfAround DEF Destinations, isHoldingItem
    <3>2. \A c \in BagsAround(holder, ta) \cup {ta} : holder'[c] = holder[c]
      BY <1>2, <3>1, AreBags
    <3>3. a \in Around(holder', ta)
      BY <3>1, <3>2, SameAround DEF IsTopParent
    <3>4. ta \in BagsAround(holder', two)
      BY <1>9, <3>1, IsClosed
    <3> QED BY <3>3, <3>4, Further
  <2> QED BY <2>1, <2>2
<1> QED BY <1>7, <1>8, <1>9

LEMMA ExchangePasses ==
  ASSUME Story, NEW r \in Players, NEW toP, NEW toQ, AcceptDone(r, toP, toQ),
         NEW p \in Players, NEW q \in Players, p # q,
         NEW i \in Items, IsTopParent(i, p), q \in Around(holder', i)
  PROVE  /\ tradePartner[p] = q
         /\ tradeItem[p] = i \/ isHoldingItem(tradeItem[p], i)
         /\ "ACCEPT" \in {tradeState[p], tradeState[q]}
         /\ tradeItem[q] \in Wares => p \in Around(holder', tradeItem[q])
         /\ tradeItem[q] \in Deeds => owner'[deedOf[tradeItem[q]]] = p
<1> DEFINE s == tradePartner[r]
           one == tradeItem[r]
           two == tradeItem[s]
           h == [holder EXCEPT ![one] = toQ, ![two] = toP]
           C == {r} \cup ((Disturbed(one, h) \cup Disturbed(two, h)) \ {r, s})
<1>1. /\ s \in Players /\ s # r /\ tradePartner[s] = r
      /\ one \in Items /\ two \in Items /\ one # two
      /\ one # NoItem /\ two # NoItem
      /\ toP \in Destinations(r) /\ toQ \in Destinations(s)
      /\ "ACCEPT" = tradeState[s]
  BY TheTwo
<1>2. CloseTrades(C, h) /\ owner' = HouseTo(HouseTo(owner, one, s), two, r)
  BY DEF AcceptDone, Exchange
<1>3. {r, s} \subseteq WithPartners(C)
  <2>1. tradePartner[r] = s /\ r \in C /\ s # NoPlayer
    BY <1>1, TradeAssumption
  <2> HIDE DEF s, C
  <2> QED BY <2>1 DEF WithPartners
<1>4. one \in Traded(WithPartners(C)) /\ two \in Traded(WithPartners(C))
  BY <1>1, <1>3 DEF Traded
<1>5. /\ \A c \in Bags \cup {i} : holder'[c] = h[c]
      /\ i \notin Deeds \cap Traded(WithPartners(C))
  <2> HIDE DEF C, h
  <2> QED BY <1>2, AfterClose
<1>6. holder \in Holdings /\ Bags \subseteq Items
  BY DEF Story, TypeOK, Holdings, Holders, Items, Wares
<1>7. \A c \in Items : h[c] = IF c = one THEN toQ ELSE IF c = two THEN toP ELSE holder[c]
  BY <1>1, <1>6 DEF Holdings
<1>8. \A j \in Wares : holder'[j] = h[j]
  <2>1. holder' = [j \in Items |-> IF j \in Deeds \cap Traded(WithPartners(C))
                                   THEN Nowhere ELSE h[j]]
    BY <1>2 DEF CloseTrades, DocumentsCancelled
  <2>2. \A j \in Wares : j \in Items /\ j \notin Deeds
    BY TradeAssumption DEF Items, Wares
  <2> HIDE DEF C, h
  <2> QED BY <2>1, <2>2
<1>9. BagsAround(holder, i) \cup {i} \subseteq Bags \cup {i} /\ Bags \cup {i} \subseteq Items
  BY <1>6, AreBags
<1>10. owner \in [Houses -> Players \cup {NoPlayer}]
  BY DEF Story, TypeOK
<1>11. /\ one \in Deeds => deedOf[one] \in Houses
       /\ two \in Deeds => deedOf[two] \in Houses
  BY <1>1 DEF Story, DeedsNamed
<1> HIDE DEF h, C
<1>12. CASE one \in BagsAround(holder, i) \cup {i}
  <2>1. p = r
    <3>1. p \in Around(holder, one) \ Bags /\ p # Ground
      BY <1>12, OneTop, TradeAssumption DEF IsTopParent
    <3> QED BY <1>1, <3>1, OfferIsWith
  <2>2. \A c \in Bags \cup {i} : holder'[c] = IF c = one THEN toQ
                                             ELSE IF c = two THEN toP ELSE holder[c]
    BY <1>5, <1>7, <1>9
  <2>3. /\ q = s
        /\ one = i \/ isHoldingItem(one, i)
        /\ holder'[two] = toP => p \in Around(holder', two)
    <3> HIDE DEF s
    <3> QED BY <1>1, <1>12, <2>1, <2>2, Crosses
  <2>4. two \in Wares => holder'[two] = toP
    BY <1>1, <1>7, <1>8
  <2>5. two \in Deeds => owner'[deedOf[two]] = r
    <3>1. HouseTo(owner, one, s) \in [Houses -> Players \cup {NoPlayer}]
      BY <1>1, <1>10 DEF HouseTo
    <3> QED BY <1>2, <1>11, <3>1 DEF HouseTo
  <2> QED BY <1>1, <2>1, <2>3, <2>4, <2>5
<1>13. CASE two \in BagsAround(holder, i) \cup {i}
  <2>1. p = s
    <3>1. p \in Around(holder, two) \ Bags /\ p # Ground
      BY <1>13, OneTop, TradeAssumption DEF IsTopParent
    <3> QED BY <1>1, <3>1, OfferIsWith
  <2>2. \A c \in Bags \cup {i} : holder'[c] = IF c = two THEN toP
                                             ELSE IF c = one THEN toQ ELSE holder[c]
    BY <1>1, <1>5, <1>7, <1>9
  <2>3. /\ q = r
        /\ two = i \/ isHoldingItem(two, i)
        /\ holder'[one] = toQ => p \in Around(holder', one)
    <3> HIDE DEF s
    <3> QED BY <1>1, <1>13, <2>1, <2>2, Crosses
  <2>4. one \in Wares => holder'[one] = toQ
    BY <1>1, <1>7, <1>8
  <2>5. two \notin Deeds
    BY <1>4, <1>5, <1>13, AreBags, TradeAssumption DEF Items, Wares
  <2>6. one \in Deeds => owner'[deedOf[one]] = s
    BY <1>2, <1>10, <1>11, <2>5 DEF HouseTo
  <2> QED BY <1>1, <2>1, <2>3, <2>4, <2>6
<1>14. CASE one \notin BagsAround(holder, i) \cup {i} /\ two \notin BagsAround(holder, i) \cup {i}
  <2>1. \A c \in BagsAround(holder, i) \cup {i} : holder'[c] = holder[c]
    BY <1>5, <1>7, <1>9, <1>14
  <2> QED BY <2>1, StaysWith
<1> QED BY <1>12, <1>13, <1>14

\* The steps that move nothing but documents.
LEMMA OthersPassNothing ==
  ASSUME Story, NEW p \in Players, NEW q \in Players, NEW i \in Items, IsTopParent(i, p),
         q \in Around(holder', i),
         \/ UNCHANGED holder
         \/ \E C \in SUBSET Players : CloseTrades(C, holder)
         \/ \E r \in Players, s \in Players, h \in Houses, d \in Deeds : HouseSell(r, s, h, d)
  PROVE  p = q
<1>1. CASE UNCHANGED holder
  BY <1>1, StaysWith
<1>2. CASE \E C \in SUBSET Players : CloseTrades(C, holder)
  <2>1. PICK C \in SUBSET Players : CloseTrades(C, holder)
    BY <1>2
  <2>2. \A c \in Bags \cup {i} : holder'[c] = holder[c]
    BY <2>1, AfterClose
  <2> QED BY <2>2, AreBags, StaysWith
<1>3. ASSUME NEW r \in Players, NEW s \in Players, NEW h \in Houses, NEW d \in Deeds,
             HouseSell(r, s, h, d)
      PROVE  p = q
  <2>1. d \in Items
    BY DEF Items
  <2>2. holder \in Holdings
    BY DEF Story, TypeOK, Holdings, Holders
  <2>3. holder[d] = Nowhere
    BY <1>3, <2>1 DEF HouseSell, Story, RegistryExact
  <2>4. d # i
    <3>1. Nowhere \notin Bags
      BY TradeAssumption DEF Items, Wares
    <3>2. Around(holder, d) = {Nowhere}
      BY <2>3, <3>1, Outermost
    <3> QED BY <3>2, TradeAssumption DEF IsTopParent
  <2>5. d \notin BagsAround(holder, i)
    BY <2>2, NothingInDeeds
  <2>6. \A c \in Items : c # d => holder'[c] = holder[c]
    BY <1>3, <2>2 DEF HouseSell, Holdings
  <2>7. \A c \in BagsAround(holder, i) \cup {i} : holder'[c] = holder[c]
    BY <2>4, <2>5, <2>6, AreBags DEF Items, Wares
  <2> QED BY <2>7, StaysWith
<1> QED BY <1>1, <1>2, <1>3

\* A thing passes from one player to another only in an exchange that he, or the other,
\* had accepted and that gives him what the other offered (Game::playerAcceptTrade;
\* TransferItem::onTradeEvent for a house).
THEOREM PassesOnlyByExchange == Spec => OnlyByExchange
<1> DEFINE Passes(p, q, i) ==
             /\ tradePartner[p] = q
             /\ tradeItem[p] = i \/ isHoldingItem(tradeItem[p], i)
             /\ "ACCEPT" \in {tradeState[p], tradeState[q]}
             /\ tradeItem[q] \in Wares => p \in Around(holder', tradeItem[q])
             /\ tradeItem[q] \in Deeds => owner'[deedOf[tradeItem[q]]] = p
           Fairly == \A p, q \in Players, i \in Items :
                       p # q /\ IsTopParent(i, p) /\ q \in Around(holder', i) => Passes(p, q, i)
<1>1. ASSUME Story, Next PROVE Fairly
  <2> SUFFICES ASSUME NEW p \in Players, NEW q \in Players, NEW i \in Items,
                      p # q, IsTopParent(i, p), q \in Around(holder', i)
               PROVE  Passes(p, q, i)
    OBVIOUS
  <2>1. ASSUME NEW r \in Players, NEW toP, NEW toQ, AcceptDone(r, toP, toQ)
        PROVE  Passes(p, q, i)
    <3> HIDE DEF Story
    <3> QED BY <1>1, <2>1, ExchangePasses
  <2>2. ASSUME NEW r \in Players, NEW j \in Wares, NEW to \in {r, Ground} \cup Bags,
               MoveItem(r, j, to)
        PROVE  FALSE
    BY <1>1, <2>2, MovesHisOwn
  <2>3. ASSUME \/ UNCHANGED holder
               \/ \E C \in SUBSET Players : CloseTrades(C, holder)
               \/ \E r \in Players, s \in Players, h \in Houses, d \in Deeds :
                     HouseSell(r, s, h, d)
        PROVE  FALSE
    BY <1>1, <2>3, OthersPassNothing
  <2>4. ASSUME NEW r \in Players,
               \/ AcceptFails(r) \/ PlayerClose(r) \/ Disappear(r)
               \/ \E away \in BOOLEAN : Walk(r, away)
        PROVE  \E C \in SUBSET Players : CloseTrades(C, holder)
    <3>1. {r} \in SUBSET Players /\ {} \in SUBSET Players
      OBVIOUS
    <3>2. CASE AcceptFails(r) \/ PlayerClose(r)
      BY <3>1, <3>2 DEF AcceptFails, PlayerClose
    <3>3. CASE Disappear(r)
      <4>1. CloseTrades(IF tradePartner[r] # NoPlayer THEN {r} ELSE {}, holder)
        BY <3>3 DEF Disappear
      <4> QED BY <3>1, <4>1
    <3>4. ASSUME NEW away \in BOOLEAN, Walk(r, away)
          PROVE  \E C \in SUBSET Players : CloseTrades(C, holder)
      <4>1. CloseTrades(IF TooFar(r, away) THEN {r} ELSE {}, holder)
        BY <3>4 DEF Walk
      <4> QED BY <3>1, <4>1
    <3> QED BY <2>4, <3>2, <3>3, <3>4
  <2>5. ASSUME \/ \E r \in Players :
                    \/ Accept(r) \/ AcceptDenied(r) \/ Come(r)
                    \/ \E h \in Houses : HouseBuy(r, h)
                    \/ \E s \in Players, j \in Wares : RequestTrade(r, s, j)
               \/ \E h \in Houses : HouseLeft(h)
        PROVE  UNCHANGED holder
    BY <2>5 DEF Accept, AcceptDenied, Come, HouseBuy, RequestTrade, HouseLeft
  <2> HIDE DEF Story, Passes
  <2> QED BY <1>1, <2>1, <2>2, <2>3, <2>4, <2>5 DEF Next
<1>2. ASSUME Story, UNCHANGED vars PROVE [Fairly]_vars
  BY <1>2
<1>3. Story /\ [Next]_vars => [Fairly]_vars
  BY <1>1, <1>2
<1> QED BY <1>3, AlwaysStory, PTL DEF Spec, OnlyByExchange
=============================================================================
