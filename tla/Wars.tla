--------------------------------- MODULE Wars ---------------------------------
(***************************************************************************)
(* Wars between two guilds (source/ioguild.cpp, player.h, iologindata.cpp, *)
(* luascript.cpp, and the orders of data/talkactions/scripts/war.lua).     *)
(*                                                                         *)
(* A war is a row; who is in the game knows his enemies from when he       *)
(* entered it, or the war began.  The kill that decides a war ends it      *)
(* three seconds later, by an event of the scheduler that carries a copy   *)
(* of the war, and both stakes go to the guild that made it.  A war that   *)
(* has an end is found to be over when the server next looks.              *)
(*                                                                         *)
(* The two guilds stay; ranks and other guilds are left out.               *)
(***************************************************************************)
EXTENDS Naturals, FiniteSets, FiniteSetsExt, Sequences, SequencesExt

CONSTANTS
  Sides,          \* the two guilds
  Soldiers, SideOf, \* players, and the guild of each
  WarIds,         \* 1..n
  FragLimit,      \* frags that decide a war
  Purse0,         \* stakes a guild has at first
  MaxFrags        \* BOUND: kills

ASSUME WarsAssumption ==
  /\ IsFiniteSet(Sides) /\ Cardinality(Sides) = 2 /\ SideOf \in [Soldiers -> Sides]
  /\ IsFiniteSet(WarIds) /\ WarIds = 1..Cardinality(WarIds)
  /\ FragLimit \in Nat \ {0} /\ Purse0 \in Nat /\ MaxFrags \in Nat

VARIABLES
  wars,           \* the rows, in the order of their ids; see WarType
  balance,        \* stakes a guild has
  inGame,         \* soldiers
  warMap,         \* of each soldier: the war he knows the other guild from, or NoWar
  ending,         \* events to come, in order: [war, side, kills]
  recruits,       \* history: who joined while in the game
  late,           \* history: wars in which somebody was killed after the kill that decided them
  crossed,        \* history: a war began while another, or its end, was still to come
  frags           \* BOUND

warVars == <<wars, balance, inGame, warMap, ending, recruits, late, crossed, frags>>

NoWar == 0
Other(s) == CHOOSE t \in Sides : t # s
On == {"begun", "truce"}  \* status 1 and 4
WarType == [guild : Sides, status : {"invited", "rejected", "cancelled", "over"} \cup On,
            ends : BOOLEAN, \* an end is set: it passes before the war begins, see accept
            kills : [Sides -> 0..(FragLimit + MaxFrags)], paid : 0..MaxFrags]
EndType == [war : WarIds, side : Sides, kills : [Sides -> 0..(FragLimit + MaxFrags)]]
Active == {w \in DOMAIN wars : wars[w].status \in On}

-----------------------------------------------------------------------------
(* The orders of a leader.                                                 *)

Unmoved == UNCHANGED <<inGame, recruits, late, frags, ending>>

declare(s) ==
  /\ \A w \in DOMAIN wars : wars[w].status \notin {"invited", "begun"}
  /\ Len(wars) + 1 \in WarIds /\ balance[s] > 0
  /\ balance' = [balance EXCEPT ![s] = @ - 1]
  /\ \E ends \in BOOLEAN :
       wars' = Append(wars, [guild |-> s, status |-> "invited", ends |-> ends,
                             kills |-> [t \in Sides |-> 0], paid |-> 0])
  /\ Unmoved /\ UNCHANGED <<warMap, crossed>>

\* The end is counted from the wrong side, and so has passed when the war begins.
accept(w) ==
  /\ wars[w].status = "invited" /\ balance[Other(wars[w].guild)] > 0
  /\ balance' = [balance EXCEPT ![Other(wars[w].guild)] = @ - 1]
  /\ wars' = [wars EXCEPT ![w].status = "begun"]
  /\ warMap' = [p \in Soldiers |-> IF p \in inGame THEN w ELSE warMap[p]]
  /\ crossed' = (crossed \/ Active # {} \/ ending # <<>>)
  /\ Unmoved

\* What was staked is not given back.
Refuse(w, how) ==
  /\ wars[w].status = "invited"
  /\ wars' = [wars EXCEPT ![w].status = how]
  /\ Unmoved /\ UNCHANGED <<balance, warMap, crossed>>

removeEnemy(known, who) == [p \in Soldiers |-> IF p \in who THEN NoWar ELSE known[p]]

Mutant_Ends(w, from) ==
  /\ wars[w].status \in from
  /\ wars' = [wars EXCEPT ![w].status = "over"]
  /\ Unmoved /\ UNCHANGED <<balance, warMap, crossed>>
\* Who has declared the war may end it, or accept a truce; and so does the clock.
Ends(w, from) ==
  /\ wars[w].status \in from
  /\ wars' = [wars EXCEPT ![w].status = "over"]
  /\ warMap' = removeEnemy(warMap, inGame)
  /\ Unmoved /\ UNCHANGED <<balance, crossed>>

finish(w) == Ends(w, {"begun"}) \/ Ends(w, {"truce"})
checkWars(w) == wars[w].ends /\ Ends(w, On)

\* The other guild can ask for it, if the war has no end of its own.
signTruce(w) ==
  /\ wars[w].status = "begun" /\ ~ wars[w].ends
  /\ wars' = [wars EXCEPT ![w] = [@ EXCEPT !.status = "truce", !.ends = TRUE]]
  /\ Unmoved /\ UNCHANGED <<balance, warMap, crossed>>

-----------------------------------------------------------------------------
(* Soldiers.                                                               *)

Mutant_loadWars(p) == IF wars = <<>> THEN NoWar ELSE Len(wars)
\* Of several wars with one guild the last is kept.
loadWars(p) == IF Active = {} THEN NoWar ELSE Max(Active)

enters(p) ==
  /\ p \notin inGame /\ inGame' = inGame \cup {p}
  /\ \/ warMap' = [warMap EXCEPT ![p] = loadWars(p)] /\ UNCHANGED recruits
     \/ recruits' = recruits \cup {p} /\ UNCHANGED warMap  \* he joins the guild later
  /\ UNCHANGED <<wars, balance, ending, late, crossed, frags>>

leaves(p) ==
  /\ p \in inGame /\ inGame' = inGame \ {p}
  /\ warMap' = [warMap EXCEPT ![p] = NoWar] /\ recruits' = recruits \ {p}
  /\ UNCHANGED <<wars, balance, ending, late, crossed, frags>>

\* The row is counted up by all kills but those that reach the limit.
updateWar(w, s, kills) ==
  IF \E t \in Sides : kills[t] >= FragLimit
  THEN ending' = Append(ending, [war |-> w, side |-> s, kills |-> kills]) /\ UNCHANGED wars
  ELSE wars' = [wars EXCEPT ![w].kills = kills] /\ UNCHANGED ending

\* The one who is killed must know who killed him for an enemy.
onKilledCreature(p, q) ==
  /\ frags < MaxFrags /\ frags' = frags + 1
  /\ {p, q} \subseteq inGame /\ SideOf[p] # SideOf[q] /\ warMap[q] # NoWar
  /\ LET w == warMap[q] IN
       /\ updateWar(w, SideOf[p], [wars[w].kills EXCEPT ![SideOf[p]] = @ + 1])
       /\ late' = late \cup ({w} \cap {e.war : e \in ToSet(ending)})
  /\ UNCHANGED <<balance, inGame, warMap, recruits, crossed>>

\* Whatever has become of the war since.
finishWar ==
  /\ ending # <<>> /\ ending' = Tail(ending)
  /\ LET e == Head(ending) IN
       /\ balance' = [balance EXCEPT ![e.side] = @ + 2]
       /\ wars' = [wars EXCEPT ![e.war] =
                      [wars[e.war] EXCEPT !.status = "over", !.paid = @ + 1, !.kills = e.kills]]
  /\ warMap' = removeEnemy(warMap, inGame)
  /\ UNCHANGED <<inGame, recruits, late, crossed, frags>>

\* The decisive kill is lost with the scheduler.
restart ==
  /\ inGame # {} \/ ending # <<>>
  /\ inGame' = {} /\ warMap' = [p \in Soldiers |-> NoWar] /\ recruits' = {} /\ ending' = <<>>
  /\ UNCHANGED <<wars, balance, late, crossed, frags>>

WarsNext ==
  \/ \E s \in Sides : declare(s)
  \/ \E w \in DOMAIN wars : \/ accept(w) \/ Refuse(w, "rejected") \/ Refuse(w, "cancelled")
                            \/ finish(w) \/ signTruce(w) \/ checkWars(w)
  \/ \E p \in Soldiers : enters(p) \/ leaves(p)
  \/ \E p, q \in Soldiers : onKilledCreature(p, q)
  \/ finishWar
  \/ restart

WarsInit ==
  /\ wars = <<>> /\ balance = [s \in Sides |-> Purse0]
  /\ inGame = {} /\ warMap = [p \in Soldiers |-> NoWar] /\ ending = <<>>
  /\ recruits = {} /\ late = {} /\ crossed = FALSE /\ frags = 0

WarsSpec == WarsInit /\ [][WarsNext]_warVars

-----------------------------------------------------------------------------
(* Properties.                                                             *)

WarsTypeOK ==
  /\ wars \in Seq(WarType) /\ DOMAIN wars \subseteq WarIds
  /\ balance \in [Sides -> 0..(2 * Purse0 + 2 * MaxFrags)]
  /\ inGame \subseteq Soldiers /\ warMap \in [Soldiers -> WarIds \cup {NoWar}]
  /\ ending \in Seq(EndType) /\ recruits \subseteq inGame /\ late \subseteq WarIds
  /\ crossed \in BOOLEAN /\ frags \in 0..MaxFrags

\* Nobody goes on with a war that is over, and who was there when it began, or came later,
\* takes part.
EnemiesKnown ==
  crossed \/ \A p \in inGame : /\ warMap[p] # NoWar => wars[warMap[p]].status \in On
                               /\ Active # {} /\ p \notin recruits => warMap[p] = Max(Active)

\* A war is paid once, to the side that reached the limit, unless somebody was killed in the
\* seconds between.
PaidOnce ==
  \A w \in DOMAIN wars : w \notin late =>
    /\ wars[w].paid <= 1
    /\ wars[w].paid = 1 => wars[w].status = "over" /\ \E s \in Sides : wars[w].kills[s] = FragLimit
    /\ \A e \in ToSet(ending) : e.war = w => e.kills[e.side] = FragLimit

\* No more is paid than was staked, but for those.
StakesSuffice ==
  late = {} => \A s \in Sides : balance[s] + balance[Other(s)] <= 2 * Purse0

WarsSettle == WarsTypeOK /\ EnemiesKnown /\ PaidOnce /\ StakesSuffice
=============================================================================
