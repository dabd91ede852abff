------------------------------ MODULE Abilities ------------------------------
(***************************************************************************)
(* What a player gains from what is worn, from the outfit and from         *)
(* conditions (source/movement.cpp, outfit.cpp, condition.cpp,             *)
(* creature.cpp, player.cpp, game.cpp).                                    *)
(*                                                                         *)
(* The gains are kept as sums, to which each source adds when it begins    *)
(* and from which it subtracts when it ends.  Items are equipped and       *)
(* de-equipped by the notifications of moves, which also arrive from       *)
(* within a transformation, for part of a stack, and for one item while    *)
(* another has its place already.                                          *)
(*                                                                         *)
(* Abstractions.  One skill, and one stat, of the same default value, that *)
(* grows with the level.  Conditions give a skill, a speed or hide; their  *)
(* times are left out.  An item that is made another when it is put on     *)
(* gives nothing before, and asks for nothing of its own after.            *)
(***************************************************************************)
EXTENDS Integers, Sequences, FiniteSets, SequencesExt, FiniteSetsExt

CONSTANTS
  BodySlots,
  Attires,        \* outfits
  Kinds,          \* of items
  Gives,          \* what kinds and attires give: see GivesNothing
  AtLevel,        \* the level each kind asks for
  Eventful,       \* kinds with a movement event for both
  InStacks,      \* kinds that lie in stacks
  WornAs,         \* what a kind is made when it is put on, itself as a rule
  TakenAs,        \* and when it is taken off
  TurnsTo,        \* the kinds it may turn into while worn
  Replaced,       \* the pairs of kinds of different classes: the item is another then
  Ailments,       \* the conditions that may befall the player: see Ailment
  MaxLevel,       \* BOUND
  MaxEvents       \* BOUND: what happens to the player

GivesNothing == [flat |-> 0, percent |-> 0, speed |-> 0, suppresses |-> {}, hides |-> FALSE]

ASSUME AbilitiesAssumption ==
  /\ Gives \in [Kinds \cup Attires -> [flat : Int, percent : Nat, speed : Int,
                                      suppresses : SUBSET {"haste", "paralyze"}, hides : BOOLEAN]]
  /\ \A k \in Kinds : WornAs[k] # k => {k, WornAs[k]} \subseteq Eventful /\ Gives[k] = GivesNothing
                                       /\ WornAs[WornAs[k]] = WornAs[k] /\ AtLevel[WornAs[k]] = AtLevel[k]

VARIABLES
  hero,           \* see HeroType
  events          \* BOUND

abilityVars == <<hero, events>>

Bare == "bare"
Outfit == "outfit"         \* CONDITIONID_OUTFIT; the id of what an item gives is its slot
Sources == BodySlots \cup {Outfit}
Ungiven == [of |-> Bare, skill |-> 0, stat |-> 0]

AilmentType == [type : {"attributes", "haste", "paralyze", "invisible"}, id : {"default", "combat"} \cup Sources,
                skill : Int, speed : Int]

(* given, and the marks after it, are history: what a place gave when it   *)
(* began to give; drifted, that it took another amount; unmasked, that one *)
(* of two that suppress the same has ended; overlapped, that haste and     *)
(* paralysis met while one was suppressed; mistaken, that an item was       *)
(* de-equipped for what its successor had begun to give.                   *)
HeroType ==
  [worn : [BodySlots -> {Bare} \cup Kinds], count : [BodySlots -> 0..2], inventoryAbilities : [BodySlots -> BOOLEAN],
   attire : Attires, outfitAttributes : BOOLEAN, level : 1..MaxLevel,
   varSkill : Int, varStat : Int, varSpeed : Int, suppressed : SUBSET {"haste", "paralyze"},
   conditions : Seq(AilmentType), hidden : BOOLEAN,
   given : [Sources -> [of : {Bare} \cup Kinds \cup Attires, skill : Int, stat : Int]],
   drifted : BOOLEAN, unmasked : BOOLEAN, overlapped : BOOLEAN, mistaken : BOOLEAN]

-----------------------------------------------------------------------------
(* Conditions.                                                             *)

isSuppress(h, t) == t \in h.suppressed
HasAny(h, t) == \E k \in DOMAIN h.conditions : h.conditions[k].type = t
hasCondition(h, t) == ~ isSuppress(h, t) /\ HasAny(h, t)

onEndCondition(h, t) ==
  IF t = "invisible" /\ ~ hasCondition(h, t) THEN [h EXCEPT !.hidden = FALSE] ELSE h

\* Erased first, ended then.
Mutant_Ended(h, c) == [h EXCEPT !.varSkill = @ - c.skill]       \* the speed is left behind
Ended(h, c) == [h EXCEPT !.varSkill = @ - c.skill, !.varSpeed = @ - c.speed]
removeConditions(h, Gone(_)) ==
  LET kept == [h EXCEPT !.conditions = SelectSeq(@, LAMBDA c : ~ Gone(c))]
  IN  FoldLeft(LAMBDA g, c : onEndCondition(Ended(g, c), c.type), kept, SelectSeq(h.conditions, Gone))

\* Haste and paralysis drive each other out.
onAddCondition(h, t, hadCondition) ==
  LET other == IF t = "haste" THEN "paralyze" ELSE "haste"
  IN  CASE t = "invisible" -> [h EXCEPT !.hidden = @ \/ ~ hadCondition]
        [] t = "attributes" -> h
        [] OTHER -> IF hasCondition(h, other)
                    THEN removeConditions(h, LAMBDA c : c.type = other)
                    ELSE [h EXCEPT !.overlapped = @ \/ HasAny(h, other)]

\* One of the same kind takes over the values of the new one.
addCondition(h, c) ==
  LET same == {k \in DOMAIN h.conditions : h.conditions[k].type = c.type /\ h.conditions[k].id = c.id}
      had  == hasCondition(h, c.type)
      Started(g) == [g EXCEPT !.varSkill = @ + c.skill, !.varSpeed = @ + c.speed]
  IN  IF same = {}
      THEN onAddCondition(Started([h EXCEPT !.conditions = Append(@, c)]), c.type, had)
      ELSE LET k == CHOOSE n \in same : TRUE
           IN  Started([Ended(h, h.conditions[k]) EXCEPT !.conditions[k] = c])

-----------------------------------------------------------------------------
(* What a place gives.                                                     *)

AtLeast0(n) == IF n < 0 THEN 0 ELSE n
Default(h) == 4 * h.level
getSkill(h) == AtLeast0(Default(h) + h.varSkill)
Share(n, percent) == (n * percent) \div 100

Giving(h) == {s \in BodySlots : h.inventoryAbilities[s]} \cup (IF h.outfitAttributes THEN {Outfit} ELSE {})
Suppressing(h, P) == UNION {Gives[h.given[p].of].suppresses : p \in P}

Grant(h, p, of) ==
  LET g  == Gives[of]
      h1 == IF g.hides THEN addCondition(h, [type |-> "invisible", id |-> p, skill |-> 0, speed |-> 0])
            ELSE h
      h2 == [h1 EXCEPT !.varSpeed = @ + g.speed, !.suppressed = @ \cup g.suppresses,
                       !.varSkill = @ + g.flat]
      more == Share(getSkill(h2), g.percent)
      stat == g.flat + Share(Default(h2), g.percent)
  IN  [h2 EXCEPT !.varSkill = @ + more, !.varStat = @ + stat,
                 !.given[p] = [of |-> of, skill |-> g.flat + more, stat |-> stat]]

\* The shares are those of today, and for a skill of what it is with them.
Revoke(h, p, of) ==
  LET g  == Gives[of]
      h1 == IF g.hides THEN removeConditions(h, LAMBDA c : c.type = "invisible" /\ c.id = p) ELSE h
      h2 == [h1 EXCEPT !.varSpeed = @ - g.speed, !.suppressed = @ \ g.suppresses,
                       !.varSkill = @ - g.flat]
      more == Share(getSkill(h2), g.percent)
      stat == g.flat + Share(Default(h2), g.percent)
  IN  [h2 EXCEPT !.varSkill = @ - more, !.varStat = @ - stat, !.given[p] = Ungiven,
                 !.drifted = @ \/ (g.percent # 0 /\ h.given[p] # [of |-> of, skill |-> g.flat + more,
                                                                  stat |-> stat]),
                 !.unmasked = @ \/ g.suppresses \cap Suppressing(h, Giving(h) \ {p}) # {}]

\* The item is made what it is worn as, which is equipped from within that.
Equip(h, s) ==
  LET k == WornAs[h.worn[s]]
  IN  IF k \notin Eventful \/ h.inventoryAbilities[s] \/ h.level < AtLevel[k] THEN h
      ELSE Grant([h EXCEPT !.worn[s] = k, !.inventoryAbilities[s] = TRUE], s, k)

\* k is what is taken off, or what it was.
Mutant_DeEquip(h, s, k) == Revoke([h EXCEPT !.inventoryAbilities[s] = FALSE], s, k)
DeEquip(h, s, k) ==
  IF k \in Eventful /\ h.inventoryAbilities[s]
  THEN Revoke([h EXCEPT !.inventoryAbilities[s] = FALSE], s, k) ELSE h

-----------------------------------------------------------------------------
(* Items.                                                                  *)

Befalls(h) == events < MaxEvents /\ events' = events + 1 /\ hero' = h

\* queryAdd asks whether it may be equipped; what it would replace has gone before.
PutOn(s, k, n) ==
  /\ hero.worn[s] = Bare /\ hero.level >= AtLevel[k]
  /\ Befalls(Equip([hero EXCEPT !.worn[s] = k, !.count[s] = n], s))

\* By its owner or by anyone, or it is destroyed.
TakeOff(s) ==
  /\ hero.worn[s] # Bare
  /\ Befalls(DeEquip([hero EXCEPT !.worn[s] = Bare, !.count[s] = 0], s, hero.worn[s]))

\* A part of a stack is removed, and the whole de-equipped; one more, and it is equipped.
RemoveOne(s) ==
  /\ hero.count[s] > 1
  /\ Befalls(DeEquip([hero EXCEPT !.count[s] = @ - 1], s, hero.worn[s]))
AddOne(s) ==
  /\ hero.worn[s] \in InStacks /\ hero.count[s] < 2
  /\ Befalls(Equip([hero EXCEPT !.count[s] = @ + 1], s))

\* From one slot to another: it is there already when it is de-equipped here, and made
\* what it is when taken off, which equips it there.
MoveOver(s, t) ==
  /\ hero.worn[s] # Bare /\ hero.worn[t] = Bare
  /\ hero.level >= AtLevel[hero.worn[s]]
  /\ LET k  == hero.worn[s]
         h1 == [hero EXCEPT !.worn[s] = Bare, !.worn[t] = k, !.count[s] = 0, !.count[t] = hero.count[s]]
         h2 == IF hero.inventoryAbilities[s] /\ TakenAs[k] # k
               THEN Equip([h1 EXCEPT !.worn[t] = TakenAs[k]], t) ELSE h1
     IN  Befalls(Equip(DeEquip(h2, s, k), t))

\* It decays, is charged off or turned into something by a script.  An item of another
\* class has the place of the old one when it is equipped, and the old one is de-equipped.
TurnInto(s, k) ==
  LET turned == [hero EXCEPT !.worn[s] = k]
  IN  /\ hero.worn[s] # Bare /\ k \in TurnsTo[hero.worn[s]]
      /\ IF <<hero.worn[s], k>> \in Replaced
         THEN Befalls(DeEquip([Equip(turned, s) EXCEPT
                !.mistaken = @ \/ (~ hero.inventoryAbilities[s] /\ {hero.worn[s], k} \subseteq Eventful)],
                s, hero.worn[s]))
         ELSE Befalls(Equip([DeEquip(hero, s, hero.worn[s]) EXCEPT !.worn[s] = k], s))

\* The outfit gives something if the addons are those it asks for.
addAttributes(h, a, fits) ==
  IF fits THEN Grant([h EXCEPT !.attire = a, !.outfitAttributes = TRUE], Outfit, a)
  ELSE [h EXCEPT !.attire = a]
removeAttributes(h) ==
  IF h.outfitAttributes THEN Revoke([h EXCEPT !.outfitAttributes = FALSE], Outfit, h.attire) ELSE h
changeOutfit(a, fits) == Befalls(addAttributes(removeAttributes(hero), a, fits))

-----------------------------------------------------------------------------
(* Conditions and the level.                                               *)

Befall(c) == Befalls(addCondition(hero, c))

\* Over, removed by a script, or dispelled: what an item gives is not removed alone.
ConditionEnds(c) ==
  /\ c \in ToSet(hero.conditions) /\ c.id \notin Sources
  /\ Befalls(removeConditions(hero, LAMBDA d : d = c))

addExperience == hero.level < MaxLevel /\ Befalls([hero EXCEPT !.level = @ + 1])
removeExperience == hero.level > 1 /\ Befalls([hero EXCEPT !.level = @ - 1])

\* The body that is made at the next login: the conditions are those that were saved, and
\* what it wears is put on, in the order of the slots.
Newborn(h) ==
  [h EXCEPT !.inventoryAbilities = [s \in BodySlots |-> FALSE], !.outfitAttributes = FALSE,
            !.varSkill = 0, !.varStat = 0, !.varSpeed = 0, !.suppressed = {}, !.conditions = <<>>,
            !.hidden = FALSE, !.given = [p \in Sources |-> Ungiven],
            !.drifted = FALSE, !.unmasked = FALSE, !.overlapped = FALSE, !.mistaken = FALSE]
Relog(fits) ==
  LET saved == FoldLeft(addCondition, Newborn(hero), SelectSeq(hero.conditions, LAMBDA c : c.id = "default"))
      worn  == FoldLeft(Equip, saved, SetToSeq({s \in BodySlots : hero.worn[s] # Bare}))
  IN  Befalls(addAttributes(worn, hero.attire, fits))

-----------------------------------------------------------------------------
AbilitiesInit ==
  /\ \E a \in Attires : hero = Newborn(
       [worn |-> [s \in BodySlots |-> Bare], count |-> [s \in BodySlots |-> 0],
        inventoryAbilities |-> [s \in BodySlots |-> FALSE], attire |-> a, outfitAttributes |-> FALSE,
        level |-> 1, varSkill |-> 0, varStat |-> 0, varSpeed |-> 0, suppressed |-> {},
        conditions |-> <<>>, hidden |-> FALSE, given |-> [p \in Sources |-> Ungiven],
        drifted |-> FALSE, unmasked |-> FALSE, overlapped |-> FALSE, mistaken |-> FALSE])
  /\ events = 0

AbilitiesNext ==
  \/ \E s \in BodySlots :
       \/ \E k \in Kinds : TurnInto(s, k)
                           \/ \E n \in 1..(IF k \in InStacks THEN 2 ELSE 1) : PutOn(s, k, n)
       \/ TakeOff(s) \/ RemoveOne(s) \/ AddOne(s)
       \/ \E t \in BodySlots : MoveOver(s, t)
  \/ \E fits \in BOOLEAN : Relog(fits) \/ \E a \in Attires : changeOutfit(a, fits)
  \/ \E c \in Ailments : Befall(c) \/ ConditionEnds(c)
  \/ addExperience \/ removeExperience

-----------------------------------------------------------------------------
(* Properties.                                                             *)

AbilitiesTypeOK ==
  /\ hero.worn \in [BodySlots -> {Bare} \cup Kinds] /\ hero.count \in [BodySlots -> 0..2]
  /\ hero.inventoryAbilities \in [BodySlots -> BOOLEAN]
  /\ hero.attire \in Attires /\ hero.level \in 1..MaxLevel
  /\ {hero.varSkill, hero.varStat, hero.varSpeed} \subseteq Int
  /\ ToSet(hero.conditions) \subseteq AilmentType
  /\ {hero.outfitAttributes, hero.hidden, hero.drifted, hero.unmasked, hero.overlapped,
      hero.mistaken} \subseteq BOOLEAN
  /\ events \in 0..MaxEvents

\* What the player has gained is what is worn, put on as an outfit and borne as a condition
\* gives, no more and no less, whatever was put on, moved over, turned into something else,
\* used up or ended, and in whatever order; an item gives what it is, not what it was; who
\* is hidden has something that hides; and haste and paralysis do not come together.
\* Excepted are the shares of a skill or a stat, which are taken back by what they are when
\* they end; a suppression two things share, which ends with the first; and an item of
\* another class put in the place of one that was worn but gave nothing: what it begins to
\* give, the other is then told to take back.
AbilitiesMatch ==
  AbilitiesTypeOK /\
  LET given == Giving(hero)
      Sum(F(_), S) == MapThenSumSet(F, S)
      borne == DOMAIN hero.conditions
  IN  hero.mistaken \/
      /\ \A s \in BodySlots : hero.inventoryAbilities[s] =>
           hero.worn[s] # Bare /\ hero.given[s].of = hero.worn[s]
      /\ \A p \in Sources : p \notin given => hero.given[p] = Ungiven
      /\ hero.varSpeed = Sum(LAMBDA p : Gives[hero.given[p].of].speed, given)
                         + Sum(LAMBDA k : hero.conditions[k].speed, borne)
      /\ hero.drifted \/
           /\ hero.varStat = Sum(LAMBDA p : hero.given[p].stat, given)
           /\ hero.varSkill = Sum(LAMBDA p : hero.given[p].skill, given)
                              + Sum(LAMBDA k : hero.conditions[k].skill, borne)
      /\ hero.unmasked \/ hero.suppressed = Suppressing(hero, given)
      /\ \A p \in Sources :
           (p \in given /\ Gives[hero.given[p].of].hides)
             <=> \E k \in borne : hero.conditions[k].id = p
      /\ hero.hidden <=> HasAny(hero, "invisible")
      /\ hero.overlapped \/ ~ (HasAny(hero, "haste") /\ HasAny(hero, "paralyze"))
=============================================================================
