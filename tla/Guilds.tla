-------------------------------- MODULE Guilds --------------------------------
(***************************************************************************)
(* Guilds as their members run them from the guild channel                 *)
(* (source/chat.cpp, talkaction.cpp, ioguild.cpp, player.cpp,              *)
(* iologindata.cpp).                                                       *)
(*                                                                         *)
(* The rank of a player is a column of his row, and a copy of it while he  *)
(* is in the game; an order changes the copy of who is there and the row   *)
(* of who is not.  Rows are written when a player is saved, so a crash     *)
(* takes back what was only in a copy.  Of the database we use that it     *)
(* makes the three ranks of a new guild, and takes them with it.           *)
(*                                                                         *)
(* Left out: names, nicks, the message of the day, premium and levels.     *)
(***************************************************************************)
EXTENDS Naturals, FiniteSets, FiniteSetsExt

CONSTANTS
  Fellows, NoFellow,
  GuildIds,       \* numbers; one that was given is not given again
  GuildMaxPlayer,
  MaxDecrees,      \* BOUND: orders
  MaxFalls        \* BOUND: crashes

ASSUME GuildsAssumption ==
  /\ NoFellow \notin Fellows /\ IsFiniteSet(Fellows) /\ GuildMaxPlayer \in Nat \ {0}
  /\ IsFiniteSet(GuildIds) /\ GuildIds # {} /\ GuildIds = 1..Cardinality(GuildIds)
  /\ MaxDecrees \in Nat /\ MaxFalls \in Nat

VARIABLES
  here,           \* who is in the game
  copy,           \* [guild, level, invites] of them: guildId, guildLevel, invitedToGuildsList
  rows,           \* [guild, level] of all: rank_id
  guildInvites,   \* <<p, g>>
  ownerid,          \* of each guild that exists
  given,          \* the last id that was given
  torn,           \* history: guilds whose copies a crash took, or that were taken for another
  disowned,       \* history: guilds led by one who is not their ownerid
  decrees, falls   \* BOUND

guildVars == <<here, copy, rows, guildInvites, ownerid, given, torn, disowned, decrees, falls>>

NoGuild == 0
Member == 1
Vice == 2
Leader == 3
Exists(g) == g \in GuildIds /\ ownerid[g] # NoFellow
Rank(g, l) == [guild |-> g, level |-> l]
NoRank == Rank(NoGuild, 0)
Of(c) == Rank(c.guild, c.level)
Guildless == [guild |-> NoGuild, level |-> 0, invites |-> {}]
Ranked(c, g, l) == [c EXCEPT !.guild = g, !.level = l]

-----------------------------------------------------------------------------
(* Who comes and goes.                                                     *)

loadRank(p) ==
  IF rows[p].guild # NoGuild
  THEN IF Exists(rows[p].guild) THEN Ranked(Guildless, rows[p].guild, rows[p].level) ELSE Guildless
  ELSE [Guildless EXCEPT !.invites = {g \in GuildIds : <<p, g>> \in guildInvites}]

Mutant_saveRank(p) ==
  /\ rows' = rows
  /\ guildInvites' = {x \in guildInvites : x[1] # p} \cup ({p} \X copy[p].invites)
\* The row gets the rank of that level in that guild, if there is one; all invitations are
\* written anew.
saveRank(p) ==
  /\ rows' = [rows EXCEPT ![p] = IF Exists(copy[p].guild) THEN Of(copy[p]) ELSE NoRank]
  /\ guildInvites' = {x \in guildInvites : x[1] # p} \cup ({p} \X copy[p].invites)

Enters(p) ==
  /\ p \notin here /\ here' = here \cup {p}
  /\ copy' = [copy EXCEPT ![p] = loadRank(p)]
  /\ UNCHANGED <<rows, guildInvites, ownerid, given, torn, disowned, decrees, falls>>

Leaves(p) ==
  /\ p \in here /\ here' = here \ {p}
  /\ saveRank(p) /\ copy' = [copy EXCEPT ![p] = Guildless]
  /\ UNCHANGED <<ownerid, given, torn, disowned, decrees, falls>>

IsSaved(p) ==
  /\ p \in here /\ saveRank(p)
  /\ UNCHANGED <<here, copy, ownerid, given, torn, disowned, decrees, falls>>

ServerCrashes ==
  /\ falls < MaxFalls /\ falls' = falls + 1
  /\ here' = {} /\ copy' = [p \in Fellows |-> Guildless]
  /\ torn' = torn \cup UNION {{copy[p].guild, rows[p].guild} \cap GuildIds :
                              p \in {q \in here : Of(copy[q]) # rows[q]}}
  /\ UNCHANGED <<rows, guildInvites, ownerid, given, disowned, decrees>>

-----------------------------------------------------------------------------
(* Founding and joining.                                                   *)

Decree == decrees < MaxDecrees /\ decrees' = decrees + 1 /\ UNCHANGED falls
Decreed(p, least) == Decree /\ p \in here /\ copy[p].level >= least /\ Exists(copy[p].guild)

\* The only place where the row of a player in the game is written at once.
joinGuild(p, g, l) ==
  /\ rows' = [rows EXCEPT ![p] = Rank(g, l)]
  /\ copy' = [copy EXCEPT ![p] = Ranked(Guildless, g, l)]

\* The new guild is looked up as one that p owns: he may be the ownerid of an older one still.
guildCreate(p) ==
  /\ Decree /\ p \in here /\ copy[p].guild = NoGuild
  /\ given + 1 \in GuildIds /\ given' = given + 1
  /\ ownerid' = [ownerid EXCEPT ![given + 1] = p]
  /\ LET g == Min({h \in GuildIds : ownerid'[h] = p})
     IN  /\ joinGuild(p, g, Leader)
         /\ torn' = IF g = given + 1 THEN torn ELSE torn \cup {g, given + 1}
  /\ UNCHANGED <<here, guildInvites, disowned>>

Members(g) == {p \in Fellows : rows[p].guild = g}

guildJoin(p, g) ==
  /\ Decree /\ p \in here /\ copy[p].guild = NoGuild
  /\ Exists(g) /\ g \in copy[p].invites /\ Cardinality(Members(g)) < GuildMaxPlayer
  /\ joinGuild(p, g, Member)
  /\ UNCHANGED <<here, guildInvites, ownerid, given, torn, disowned>>

Mutant_Forgets(c, g) == [c EXCEPT !.invites = c.invites]
Forgets(c, g) == [c EXCEPT !.invites = @ \ {g}]
leaveGuild(c) == Ranked(c, NoGuild, 0)

disbandGuild(g) ==
  /\ rows' = [p \in Fellows |-> IF rows[p].guild = g THEN NoRank ELSE rows[p]]
  /\ copy' = [p \in Fellows |-> IF p \notin here THEN copy[p]
                             ELSE IF copy[p].guild = g THEN leaveGuild(copy[p])
                             ELSE Forgets(copy[p], g)]
  /\ ownerid' = [ownerid EXCEPT ![g] = NoFellow]
  /\ guildInvites' = {x \in guildInvites : x[2] # g}

disband(p) ==
  /\ Decreed(p, Leader) /\ copy[p].level = Leader
  /\ disbandGuild(copy[p].guild)
  /\ UNCHANGED <<here, given, torn, disowned>>

-----------------------------------------------------------------------------
(* Orders to one who is in the game change his copy.                        *)

InviteHere(p, q, g) ==
  /\ q \in here /\ copy[q].guild = NoGuild /\ g \notin copy[q].invites
  /\ copy' = [copy EXCEPT ![q].invites = @ \cup {g}]
  /\ UNCHANGED guildInvites

RevokeHere(p, q, g) ==
  /\ q \in here /\ copy[q].guild = NoGuild /\ g \in copy[q].invites
  /\ copy' = [copy EXCEPT ![q].invites = @ \ {g}]
  /\ UNCHANGED guildInvites

\* Orders to one who is not change his row.
InviteAway(p, q, g) ==
  /\ q \notin here /\ rows[q].guild = NoGuild /\ <<q, g>> \notin guildInvites
  /\ guildInvites' = guildInvites \cup {<<q, g>>}
  /\ UNCHANGED copy

RevokeAway(p, q, g) ==
  /\ q \notin here /\ <<q, g>> \in guildInvites
  /\ guildInvites' = guildInvites \ {<<q, g>>}
  /\ UNCHANGED copy

invite(p, q) ==
  /\ Decreed(p, Vice)
  /\ InviteHere(p, q, copy[p].guild) \/ InviteAway(p, q, copy[p].guild)
  /\ UNCHANGED <<here, rows, ownerid, given, torn, disowned>>

revoke(p, q) ==
  /\ Decreed(p, Vice)
  /\ RevokeHere(p, q, copy[p].guild) \/ RevokeAway(p, q, copy[p].guild)
  /\ UNCHANGED <<here, rows, ownerid, given, torn, disowned>>

leave(p) ==
  /\ Decreed(p, Member) /\ copy[p].level < Leader
  /\ copy' = [copy EXCEPT ![p] = leaveGuild(@)]
  /\ UNCHANGED <<here, rows, guildInvites, ownerid, given, torn, disowned>>

\* The rank of q in the guild of p, from where it is kept.
RankOf(q) == IF q \in here THEN Of(copy[q]) ELSE rows[q]
InGuildOf(p, q) == RankOf(q).guild = copy[p].guild

setGuildLevel(q, l) ==
  IF q \in here THEN copy' = [copy EXCEPT ![q].level = l] /\ UNCHANGED rows
  ELSE rows' = [rows EXCEPT ![q].level = l] /\ UNCHANGED copy

promote(p, q) ==
  /\ Decreed(p, Leader) /\ InGuildOf(p, q) /\ RankOf(q).level = Member
  /\ setGuildLevel(q, Vice)
  /\ UNCHANGED <<here, guildInvites, ownerid, given, torn, disowned>>

demote(p, q) ==
  /\ Decreed(p, Leader) /\ InGuildOf(p, q) /\ RankOf(q).level = Vice
  /\ setGuildLevel(q, Member)
  /\ UNCHANGED <<here, guildInvites, ownerid, given, torn, disowned>>

Mutant_PassHere(p, q) ==
  /\ q \in here
  /\ copy' = [copy EXCEPT ![q].level = Leader, ![p].level = Vice]
  /\ UNCHANGED <<rows, ownerid, disowned>>
PassHere(p, q) ==
  /\ q \in here
  /\ copy' = [copy EXCEPT ![q].level = Leader, ![p].level = Vice]
  /\ ownerid' = [ownerid EXCEPT ![copy[q].guild] = q]
  /\ disowned' = disowned \ {copy[q].guild}
  /\ UNCHANGED rows

\* The guild keeps its ownerid.
PassAway(p, q) ==
  /\ q \notin here
  /\ rows' = [rows EXCEPT ![q].level = Leader]
  /\ copy' = [copy EXCEPT ![p].level = Vice]
  /\ disowned' = disowned \cup {rows[q].guild}
  /\ UNCHANGED ownerid

passLeadership(p, q) ==
  /\ Decreed(p, Leader) /\ InGuildOf(p, q) /\ RankOf(q).level = Vice
  /\ PassHere(p, q) \/ PassAway(p, q)
  /\ UNCHANGED <<here, guildInvites, given, torn>>

\* Who is not there is kicked whatever his rank.
KickHere(p, q) ==
  /\ q \in here /\ copy[q].level < copy[p].level
  /\ copy' = [copy EXCEPT ![q] = leaveGuild(@)] /\ UNCHANGED rows
resetGuildInformation(q) == q \notin here /\ rows' = [rows EXCEPT ![q] = NoRank] /\ UNCHANGED copy

kick(p, q) ==
  /\ Decreed(p, Leader) /\ InGuildOf(p, q)
  /\ KickHere(p, q) \/ resetGuildInformation(q)
  /\ UNCHANGED <<here, guildInvites, ownerid, given, torn, disowned>>

GuildsNext ==
  \/ \E p \in Fellows : Enters(p) \/ Leaves(p) \/ IsSaved(p) \/ guildCreate(p) \/ disband(p) \/ leave(p)
  \/ \E p \in Fellows, g \in GuildIds : guildJoin(p, g)
  \/ \E p, q \in Fellows : \/ invite(p, q) \/ revoke(p, q) \/ promote(p, q) \/ demote(p, q)
                           \/ passLeadership(p, q) \/ kick(p, q)
  \/ ServerCrashes

\* There may be a guild already, with its ownerid as leader and others of any lower rank.
GuildsInit ==
  /\ here = {} /\ copy = [p \in Fellows |-> Guildless]
  /\ ownerid \in [GuildIds -> Fellows \cup {NoFellow}] /\ \A g \in GuildIds : g > 1 => ownerid[g] = NoFellow
  /\ rows \in [Fellows -> {NoRank, Rank(1, Member), Rank(1, Vice), Rank(1, Leader)}]
  /\ \A p \in Fellows : /\ rows[p].level = Leader <=> ownerid[1] = p
                        /\ ownerid[1] = NoFellow => rows[p] = NoRank
  /\ Cardinality(Members(1)) <= GuildMaxPlayer
  /\ given = (IF ownerid[1] = NoFellow THEN 0 ELSE 1)
  /\ guildInvites = {} /\ torn = {} /\ disowned = {} /\ decrees = 0 /\ falls = 0

GuildsSpec == GuildsInit /\ [][GuildsNext]_guildVars

-----------------------------------------------------------------------------
(* Properties.                                                             *)

RankType == [guild : GuildIds \cup {NoGuild}, level : 0..3]
GuildsTypeOK ==
  /\ here \subseteq Fellows /\ rows \in [Fellows -> RankType]
  /\ copy \in [Fellows -> [guild : GuildIds \cup {NoGuild}, level : 0..3, invites : SUBSET GuildIds]]
  /\ guildInvites \subseteq Fellows \X GuildIds /\ ownerid \in [GuildIds -> Fellows \cup {NoFellow}]
  /\ given \in GuildIds \cup {0} /\ torn \subseteq GuildIds /\ disowned \subseteq GuildIds
  /\ decrees \in 0..MaxDecrees /\ falls \in 0..MaxFalls

\* Nobody is in, or invited to, a guild that is no more: in the game or in the tables.
NothingDangles ==
  /\ \A p \in Fellows :
    /\ {rows[p].guild, copy[p].guild} \subseteq {NoGuild} \cup {g \in GuildIds : Exists(g)}
    /\ \A g \in copy[p].invites : Exists(g)
    /\ copy[p].guild # NoGuild => copy[p].invites = {} /\ rows[p].guild = copy[p].guild
  /\ \A x \in guildInvites : Exists(x[2])

Leaders(g) == {p \in Fellows : RankOf(p) = Rank(g, Leader)}

\* A guild has one leader, who is its ownerid unless leadership was passed to one who was away.
\* It has no more members than it may.
OneLeader ==
  \A g \in GuildIds : Exists(g) /\ g \notin torn =>
    /\ Cardinality(Leaders(g)) = 1
    /\ g \in disowned \/ Leaders(g) = {ownerid[g]}
    /\ Cardinality({p \in Fellows : RankOf(p).guild = g}) <= GuildMaxPlayer

GuildsSound == GuildsTypeOK /\ NothingDangles /\ OneLeader
=============================================================================
