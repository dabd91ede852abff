----------------------------- MODULE Session_proofs -----------------------------
(* Theorems about Session, for any characters, accounts, connections and      *)
(* Player objects.                                                            *)
EXTENDS Session, Lists_proofs

BodyType ==
  [who : Names \cup {Nil}, at : {"none", "made", "placed", "removed"}, refs : Int,
   client : Protocols \cup {Nil}, isConnecting : BOOLEAN, checked : BOOLEAN, listed : BOOLEAN]

\* The shape of what a body is: enough to say who is in the game.
Shapely ==
  /\ gameState \in {"normal", "closing", "closed"}
  /\ body \in [Bodies -> BodyType]
  /\ releaseThings \in [Bodies -> Int]
  /\ character \in [Protocols -> Names \cup {Nil}]

\* Who is in the game, as one account and as the closed world allow.
Admitted == Shapely /\ OneCharacterPerAccount /\ ClosedIsEmpty

\* A step that brings nobody into the game, and changes nobody's name in it.
NobodyEnters == \A b \in Bodies : body'[b].at = "placed" => body[b].at = "placed" /\ body'[b].who = body[b].who

\* ... and leaves it as it should be.
Stays == Admitted' /\ NobodyEnters

-----------------------------------------------------------------------------
LEMMA CleanedShape ==
  ASSUME NEW bodies \in [Bodies -> BodyType], NEW things \in [Bodies -> Int]
  PROVE  /\ Cleaned(bodies, things) \in [Bodies -> BodyType]
         /\ \A b \in Bodies : LET c == Cleaned(bodies, things)[b] IN
              c.at = "placed" => bodies[b].at = "placed" /\ c.who = bodies[b].who
<1>1. NoBody \in BodyType /\ NoBody.at = "none"
  BY DEF NoBody, BodyType
<1>2. ASSUME NEW b \in Bodies
      PROVE  /\ [bodies[b] EXCEPT !.refs = @ - things[b]] \in BodyType
             /\ [bodies[b] EXCEPT !.refs = @ - things[b]].at = bodies[b].at
             /\ [bodies[b] EXCEPT !.refs = @ - things[b]].who = bodies[b].who
  <2>1. bodies[b] \in BodyType /\ bodies[b].refs \in Int /\ things[b] \in Int
    BY DEF BodyType
  <2> QED BY <2>1 DEF BodyType
<1> QED BY <1>1, <1>2 DEF Cleaned

LEMMA FreedType ==
  ASSUME Shapely, NEW gone PROVE Freed(gone) \in [Bodies -> Int]
BY DEF Shapely, Freed

\* cleanup() and removeCreature() bring nobody in.
LEMMA CleanupShape ==
  ASSUME NEW bodies \in [Bodies -> BodyType], NEW things \in [Bodies -> Int], cleanup(bodies, things)
  PROVE  /\ body' \in [Bodies -> BodyType] /\ releaseThings' \in [Bodies -> Int]
         /\ \A b \in Bodies : body'[b].at = "placed" =>
              bodies[b].at = "placed" /\ body'[b].who = bodies[b].who
<1>1. body' = Cleaned(bodies, things) /\ releaseThings' = [b \in Bodies |-> 0]
  BY DEF cleanup
<1> QED BY <1>1, CleanedShape

LEMMA RemovedShape ==
  ASSUME Shapely, NEW gone, NEW inCheck \in BOOLEAN, Removed(gone, inCheck)
  PROVE  /\ body' \in [Bodies -> BodyType] /\ releaseThings' \in [Bodies -> Int]
         /\ NobodyEnters
         /\ \A b \in Bodies \cap gone : body'[b].at # "placed"
<1> DEFINE bodies == [b \in Bodies |->
                        IF b \in gone THEN [body[b] EXCEPT !.at = "removed", !.checked = FALSE]
                        ELSE body[b]]
<1>1. ASSUME NEW b \in Bodies
      PROVE  /\ body[b] \in BodyType
             /\ [body[b] EXCEPT !.at = "removed", !.checked = FALSE] \in BodyType
             /\ [body[b] EXCEPT !.at = "removed", !.checked = FALSE].at = "removed"
  BY DEF Shapely, BodyType
<1>2. /\ bodies \in [Bodies -> BodyType]
      /\ \A b \in Bodies : bodies[b].at = "placed" => b \notin gone /\ bodies[b] = body[b]
  BY <1>1
<1>3. Freed(gone) \in [Bodies -> Int]
  BY FreedType
<1>4. IF inCheck THEN cleanup(bodies, Freed(gone)) ELSE body' = bodies /\ releaseThings' = Freed(gone)
  BY DEF Removed
<1> HIDE DEF bodies
<1>5. CASE inCheck
  <2>1. cleanup(bodies, Freed(gone))
    BY <1>4, <1>5
  <2> QED BY <2>1, <1>2, <1>3, CleanupShape DEF NobodyEnters
<1>6. CASE ~inCheck
  BY <1>2, <1>3, <1>4, <1>6 DEF NobodyEnters
<1> QED BY <1>5, <1>6

\* One body changes in what does not bring it in.
LEMMA OneBodyChanges ==
  ASSUME Shapely, NEW b \in Bodies, NEW r \in BodyType, r.at = body[b].at, r.who = body[b].who,
         body' = [body EXCEPT ![b] = r]
  PROVE  body' \in [Bodies -> BodyType] /\ NobodyEnters
BY DEF Shapely, NobodyEnters

-----------------------------------------------------------------------------
\* What keeps who is in the game as it is, or fewer.
LEMMA FewerAdmitted ==
  ASSUME Admitted, Shapely', NobodyEnters,
         gameState' = "closed" => gameState = "closed" \/ \A b \in Unwelcome : body'[b].at # "placed"
  PROVE  Stays
<1>1. Online' \subseteq Online /\ \A b \in Online' : body'[b].who = body[b].who
  BY DEF Online, NobodyEnters
<1>2. OneCharacterPerAccount'
  BY <1>1 DEF Admitted, OneCharacterPerAccount
<1>3. ClosedIsEmpty'
  BY <1>1 DEF Admitted, ClosedIsEmpty, Unwelcome, Online
<1> QED BY <1>2, <1>3 DEF Admitted, Stays

LEMMA HangAdmits ==
  ASSUME Admitted, UNCHANGED <<game, protocols>> PROVE Stays
BY DEF Stays, NobodyEnters, Admitted, Shapely, OneCharacterPerAccount, ClosedIsEmpty, Unwelcome, Online, game, protocols

\* Whoever is kicked leaves; the world closes when all who must are kicked.
LEMMA KickAdmits ==
  ASSUME Admitted, NEW gone, NEW s \in {"normal", "closing", "closed"}, NEW inCheck \in BOOLEAN,
         Kick(gone, s, inCheck), s = "closed" => gameState = "closed" \/ gone = Unwelcome
  PROVE  Stays
<1>1. CASE UNCHANGED <<game, protocols>>
  BY <1>1, HangAdmits
<1>2. CASE Removed(gone, inCheck) /\ gameState' = s /\ character' = character
  <2>1. /\ body' \in [Bodies -> BodyType] /\ releaseThings' \in [Bodies -> Int]
        /\ NobodyEnters
        /\ \A b \in Bodies \cap gone : body'[b].at # "placed"
    BY <1>2, RemovedShape DEF Admitted
  <2>2. Shapely'
    BY <1>2, <2>1 DEF Admitted, Shapely
  <2>3. gameState' = "closed" => gameState = "closed" \/ \A b \in Unwelcome : body'[b].at # "placed"
    BY <1>2, <2>1 DEF Unwelcome, Online
  <2> QED BY <2>1, <2>2, <2>3, FewerAdmitted
<1> QED BY <1>1, <1>2 DEF Kick, Hang

LEMMA AttachedAdmits ==
  ASSUME Admitted, NEW p \in Protocols, NEW b \in Bodies, body' = Attached(p, b),
         UNCHANGED <<gameState, releaseThings, character>>
  PROVE  Stays
<1> DEFINE r == [body[b] EXCEPT !.client = p, !.refs = @ + 1, !.isConnecting = FALSE]
<1>1. r \in BodyType /\ r.at = body[b].at /\ r.who = body[b].who
  <2>1. body[b] \in BodyType /\ body[b].refs + 1 \in Int
    BY DEF Admitted, Shapely, BodyType
  <2>2. r.refs = body[b].refs + 1 /\ r.client = p /\ r.isConnecting = FALSE
    BY <2>1 DEF BodyType
  <2>3. [[body[b] EXCEPT !.client = p] EXCEPT !.refs = @ + 1] \in BodyType
    <3>1. [body[b] EXCEPT !.client = p] \in BodyType /\ [body[b] EXCEPT !.client = p].refs = body[b].refs
      BY <2>1 DEF BodyType
    <3> HIDE DEF r
    <3> QED BY <2>1, <3>1 DEF BodyType
  <2>4. r = [[[body[b] EXCEPT !.client = p] EXCEPT !.refs = @ + 1] EXCEPT !.isConnecting = FALSE]
    BY <2>1 DEF BodyType
  <2>5. r \in BodyType
    <3> HIDE DEF r
    <3> QED BY <2>3, <2>4 DEF BodyType
  <2> QED BY <2>1, <2>5 DEF BodyType
<1>2. body' = [body EXCEPT ![b] = r]
  BY DEF Attached, Admitted, Shapely
<1>3. body' \in [Bodies -> BodyType] /\ NobodyEnters
  <2> HIDE DEF r
  <2> QED BY <1>1, <1>2, OneBodyChanges DEF Admitted
<1> QED BY <1>3, FewerAdmitted DEF Admitted, Shapely

\* The new body is of an account nobody plays, and may be in the world.
LEMMA LoginNewAdmits ==
  ASSUME Admitted, NEW p \in Protocols, NEW banned \in BOOLEAN, NEW misplaced \in BOOLEAN,
         LoginNew(p, banned, misplaced)
  PROVE  Admitted'
<1> DEFINE n == character[p]
           b == CHOOSE c \in Bodies : body[c].at = "none"
           placed == /\ ~banned /\ WorldOpenFor(n) /\ ~AccountInUse(n)
                     /\ LetsIn(n, Cardinality(Online)) /\ ~misplaced
           r == [who |-> n, at |-> IF placed THEN "placed" ELSE "made",
                 refs |-> IF placed THEN 3 ELSE 1, client |-> p, isConnecting |-> FALSE,
                 checked |-> placed, listed |-> placed]
<1>1. b \in Bodies /\ body[b].at = "none"
  BY DEF LoginNew
<1>2. body' = [body EXCEPT ![b] = r] /\ UNCHANGED <<gameState, releaseThings, character>>
  BY DEF LoginNew
<1>3. /\ r.who = n /\ r.at = (IF placed THEN "placed" ELSE "made")
      /\ r.refs \in Int /\ r.client = p /\ r.isConnecting = FALSE
  OBVIOUS
<1>4. r.checked \in BOOLEAN /\ r.listed \in BOOLEAN
  <2>1. placed \in BOOLEAN
    BY Zenon
  <2> HIDE DEF placed
  <2> QED BY <2>1
<1>5. r \in BodyType
  <2>1. n \in Names \cup {Nil}
    BY DEF Admitted, Shapely
  <2>2. placed \in BOOLEAN
    BY Zenon
  <2> HIDE DEF placed, n
  <2> QED BY <2>1, <2>2 DEF BodyType
<1>6. placed => \A c \in Online : Account[body[c].who] # Account[n]
  BY DEF AccountInUse, getPlayersByAccount
<1>7. placed => gameState # "closed" \/ n \in Exempt
  BY DEF WorldOpenFor, Admitted, Shapely
<1> HIDE DEF b, r, placed, n
<1>8. Shapely'
  BY <1>1, <1>2, <1>5 DEF Admitted, Shapely
<1>9. /\ body'[b] = r /\ \A c \in Bodies \ {b} : body'[c] = body[c]
  BY <1>1, <1>2 DEF Admitted, Shapely
<1>10. \A c \in Online' : (c \in Online /\ body'[c] = body[c]) \/ (c = b /\ placed)
  <2>1. body'[b].at = "placed" => placed
    BY <1>3, <1>9
  <2> QED BY <2>1, <1>9 DEF Online
<1>11. OneCharacterPerAccount'
  BY <1>3, <1>6, <1>9, <1>10 DEF Admitted, OneCharacterPerAccount
<1>12. ClosedIsEmpty'
  BY <1>2, <1>3, <1>7, <1>9, <1>10 DEF Admitted, ClosedIsEmpty, Unwelcome
<1> QED BY <1>8, <1>11, <1>12 DEF Admitted

LEMMA ReleaseAdmits ==
  ASSUME Admitted, NEW p \in Protocols, releaseProtocol(p) PROVE Stays
<1>1. /\ body' \in [Bodies -> BodyType] /\ NobodyEnters
  <2>1. \A b \in Bodies : /\ [body[b] EXCEPT !.client = Nil] \in BodyType
                          /\ [body[b] EXCEPT !.client = Nil].at = body[b].at
                          /\ [body[b] EXCEPT !.client = Nil].who = body[b].who
    BY DEF Admitted, Shapely, BodyType
  <2> QED BY <2>1 DEF releaseProtocol, LetGo, Admitted, Shapely, NobodyEnters
<1>2. releaseThings' \in [Bodies -> Int] /\ character' \in [Protocols -> Names \cup {Nil}]
      /\ gameState' = gameState
  BY DEF releaseProtocol, Admitted, Shapely
<1> QED BY <1>1, <1>2, FewerAdmitted DEF Admitted, Shapely

\* The other actions: what each does to the bodies.
LEMMA StepAdmits ==
  ASSUME Admitted, [Next]_vars
  PROVE  Stays \/ (Admitted' /\ \E p \in Protocols, banned, misplaced \in BOOLEAN : LoginNew(p, banned, misplaced))
<1>1. ASSUME UNCHANGED <<gameState, body, releaseThings, character>> PROVE Stays
  BY <1>1 DEF Stays, NobodyEnters, Admitted, Shapely, OneCharacterPerAccount, ClosedIsEmpty, Unwelcome, Online
<1>2. CASE UNCHANGED vars
  BY <1>1, <1>2 DEF vars, game, protocols
<1>3. CASE Network
  <2>1. ASSUME NEW p \in Protocols, NEW n \in Names, Arrive(p, n) PROVE Stays
    <3>1. character' \in [Protocols -> Names \cup {Nil}] /\ UNCHANGED <<gameState, body, releaseThings>>
      BY <2>1 DEF Arrive, game, Admitted, Shapely
    <3> QED BY <3>1 DEF Stays, NobodyEnters, Admitted, Shapely, OneCharacterPerAccount, ClosedIsEmpty, Unwelcome, Online
  <2>2. ASSUME NEW p \in Protocols, SendLogout(p) \/ Drop(p) PROVE Stays
    BY <1>1, <2>2 DEF SendLogout, Drop, game
  <2> QED BY <1>3, <2>1, <2>2 DEF Network
<1>4. CASE Serve
  <2>1. ASSUME NEW p \in Protocols, NEW b \in Bodies, LoginTakesOver(p, b) PROVE Stays
    <3> DEFINE r == [body[b] EXCEPT !.isConnecting = TRUE]
    <3>1. r \in BodyType /\ r.at = body[b].at /\ r.who = body[b].who
      BY DEF Admitted, Shapely, BodyType
    <3>2. body' = [body EXCEPT ![b] = r] /\ UNCHANGED <<gameState, releaseThings, character>>
      BY <2>1 DEF LoginTakesOver, Admitted, Shapely
    <3> HIDE DEF r
    <3> QED BY <3>1, <3>2, OneBodyChanges, FewerAdmitted DEF Admitted, Shapely
  <2>2. ASSUME NEW p \in Protocols, NEW b \in Bodies, LoginBack(p, b) PROVE Stays
    BY <2>2, AttachedAdmits DEF LoginBack
  <2>3. ASSUME NEW p \in Protocols, NEW b \in Bodies, LoginCast(p, b) PROVE Stays
    <3> DEFINE r == [body[b] EXCEPT !.refs = @ + 1]
    <3>1. r \in BodyType /\ r.at = body[b].at /\ r.who = body[b].who
      <4>1. body[b] \in BodyType /\ body[b].refs \in Int
        BY DEF Admitted, Shapely, BodyType
      <4> QED BY <4>1 DEF BodyType
    <3>2. /\ body' = body \/ body' = [body EXCEPT ![b] = r]
          /\ UNCHANGED <<gameState, releaseThings, character>>
      BY <2>3 DEF LoginCast, Admitted, Shapely
    <3> HIDE DEF r
    <3>3. CASE body' = body
      BY <1>1, <3>2, <3>3
    <3>4. CASE body' = [body EXCEPT ![b] = r]
      BY <3>1, <3>2, <3>4, OneBodyChanges, FewerAdmitted DEF Admitted, Shapely
    <3> QED BY <3>2, <3>3, <3>4
  <2>4. ASSUME NEW p \in Protocols, NEW banned \in BOOLEAN, NEW misplaced \in BOOLEAN,
               LoginNew(p, banned, misplaced)
        PROVE  Admitted'
    BY <2>4, LoginNewAdmits
  <2>5. ASSUME NEW p \in Protocols, LoginCastCrashes(p) \/ LogoutCast(p) PROVE Stays
    BY <1>1, <2>5 DEF LoginCastCrashes, LogoutCast, game, protocols
  <2>6. ASSUME NEW p \in Protocols, Connect(p) PROVE Stays
    <3>1. UNCHANGED <<gameState, releaseThings, character>>
          /\ (body' = body \/ \E b \in Bodies : body' = Attached(p, b))
      BY <2>6 DEF Connect, getPlayersByName, Online
    <3> QED BY <1>1, <3>1, AttachedAdmits
  <2>7. ASSUME NEW p \in Protocols, Logout(p) PROVE Stays
    <3> DEFINE gone == {player[p]} \cap Online
    <3>1. \/ UNCHANGED <<gameState, body, releaseThings, character>>
          \/ Removed(gone, FALSE) /\ UNCHANGED <<gameState, character>>
      BY <2>7 DEF Logout, Hang, game, protocols
    <3> HIDE DEF gone
    <3>2. CASE Removed(gone, FALSE) /\ UNCHANGED <<gameState, character>>
      BY <3>2, RemovedShape, FewerAdmitted DEF Admitted, Shapely
    <3> QED BY <1>1, <3>1, <3>2
  <2>8. ASSUME NEW p \in Protocols, closeConnection(p) PROVE Stays
    BY <2>8, ReleaseAdmits DEF closeConnection
  <2> QED BY <1>4, <2>1, <2>2, <2>3, <2>4, <2>5, <2>6, <2>7, <2>8 DEF Serve
<1>5. CASE Timers
  <2>1. ASSUME NEW p \in Protocols, ConnectIsDue(p) PROVE Stays
    BY <1>1, <2>1 DEF ConnectIsDue, game
  <2>2. ASSUME NEW p \in Protocols, RetryRelease(p) PROVE Stays
    BY <2>2, ReleaseAdmits DEF RetryRelease
  <2> QED BY <1>5, <2>1, <2>2 DEF Timers
<1>6. CASE World \/ \E b \in Bodies : Timeout(b)
  <2>1. ASSUME CheckNobody PROVE Stays
    <3>1. cleanup(body, releaseThings) /\ UNCHANGED <<gameState, character>>
      BY <2>1 DEF CheckNobody, protocols
    <3>2. /\ body' \in [Bodies -> BodyType] /\ releaseThings' \in [Bodies -> Int]
          /\ NobodyEnters
      BY <3>1, CleanupShape DEF Admitted, Shapely, NobodyEnters
    <3> QED BY <3>1, <3>2, FewerAdmitted DEF Admitted, Shapely
  <2>2. ASSUME NEW b \in Bodies, CheckRemoved(b) PROVE Stays
    <3> DEFINE r == [body[b] EXCEPT !.listed = FALSE]
    <3>1. r \in BodyType /\ r.at = body[b].at /\ r.who = body[b].who
      BY DEF Admitted, Shapely, BodyType
    <3>2. cleanup([body EXCEPT ![b] = r], Freed({b})) /\ UNCHANGED <<gameState, character>>
      BY <2>2 DEF CheckRemoved, protocols, Admitted, Shapely
    <3>3. [body EXCEPT ![b] = r] \in [Bodies -> BodyType] /\ Freed({b}) \in [Bodies -> Int]
      BY <3>1, FreedType DEF Admitted, Shapely
    <3>4. /\ body' \in [Bodies -> BodyType] /\ releaseThings' \in [Bodies -> Int]
          /\ \A c \in Bodies : body'[c].at = "placed" =>
               [body EXCEPT ![b] = r][c].at = "placed" /\ body'[c].who = [body EXCEPT ![b] = r][c].who
      BY <3>2, <3>3, CleanupShape
    <3>5. NobodyEnters
      <4> HIDE DEF r
      <4> QED BY <3>1, <3>4 DEF NobodyEnters, Admitted, Shapely
    <3> QED BY <3>2, <3>4, <3>5, FewerAdmitted DEF Admitted, Shapely
  <2>3. ASSUME NEW b \in Bodies, Die(b) PROVE Stays
    <3>1. \/ UNCHANGED <<gameState, body, releaseThings, character>>
          \/ Removed({b}, TRUE) /\ UNCHANGED <<gameState, character>>
      BY <2>3 DEF Die, Hang, game, protocols
    <3>2. CASE Removed({b}, TRUE) /\ UNCHANGED <<gameState, character>>
      BY <3>2, RemovedShape, FewerAdmitted DEF Admitted, Shapely
    <3> QED BY <1>1, <3>1, <3>2
  <2>4. ASSUME NEW b \in Bodies, kickPlayer(b) \/ Timeout(b) PROVE Stays
    BY <2>4, KickAdmits DEF kickPlayer, Timeout, Admitted, Shapely
  <2>5. ASSUME NEW b \in Bodies, StartCast(b) \/ StopCast(b) PROVE Stays
    BY <1>1, <2>5 DEF StartCast, StopCast, Hang, game, protocols
  <2>6. ASSUME NEW v \in Protocols, kickCastViewer(v) PROVE Stays
    BY <1>1, <2>6 DEF kickCastViewer
  <2>7. ASSUME NEW s \in {"normal", "closing", "closed"}, setGameState(s) PROVE Stays
    <3>1. CASE s = "closed"
      <4>1. Kick(Unwelcome, s, FALSE)
        BY <2>7, <3>1 DEF setGameState
      <4> QED BY <4>1, KickAdmits
    <3>2. CASE s # "closed"
      <4>1. Kick({}, s, FALSE)
        BY <2>7, <3>2 DEF setGameState
      <4> QED BY <4>1, <3>2, KickAdmits
    <3> QED BY <3>1, <3>2
  <2>8. ASSUME WaitPasses PROVE Stays
    BY <1>1, <2>8 DEF WaitPasses, protocols
  <2> QED BY <1>6, <2>1, <2>2, <2>3, <2>4, <2>5, <2>6, <2>7, <2>8 DEF World
<1> QED BY <1>2, <1>3, <1>4, <1>5, <1>6 DEF Next

-----------------------------------------------------------------------------
LEMMA AdmittedAtFirst == Init => Admitted
BY DEF Init, Admitted, Shapely, OneCharacterPerAccount, ClosedIsEmpty, Unwelcome, Online, NoBody, BodyType

LEMMA AlwaysAdmitted == Spec => []Admitted
<1>1. Init => Admitted
  BY AdmittedAtFirst
<1>2. Admitted /\ [Next]_vars => Admitted'
  BY StepAdmits DEF Stays
<1> QED BY <1>1, <1>2, PTL DEF Spec

(* An account has one character in the game, and that one body, whatever   *)
(* logins, takeovers and waits run into one another.                       *)
THEOREM AccountsPlayOneCharacter == Spec => []OneCharacterPerAccount
BY AlwaysAdmitted, PTL DEF Admitted

(* While the world is closed only those who always may are in it.          *)
THEOREM ClosedWorldIsEmpty == Spec => []ClosedIsEmpty
BY AlwaysAdmitted, PTL DEF Admitted

-----------------------------------------------------------------------------
(* The seats.                                                              *)

LEMMA NobodyWaits == waitList = <<>> => ToSet(Current) = {}
<1> SUFFICES ASSUME waitList = <<>> PROVE ToSet(Current) = {}
  OBVIOUS
<1>1. {i \in DOMAIN waitList : ~waitList[i].late} = {}
  OBVIOUS
<1>2. Cardinality({}) = 0
  BY FS_EmptySet
<1>3. DOMAIN Current = {}
  BY <1>1, <1>2 DEF Current, Picked
<1> QED BY <1>3 DEF ToSet

\* No more are ahead of a slot than there are places before it.
LEMMA AheadOfASlot ==
  ASSUME NEW n, NEW slot \in Slots(Current, n), slot \in Nat \ {0}
  PROVE  IsFiniteSet(AheadOf(n)) /\ Cardinality(AheadOf(n)) <= slot - 1
<1> DEFINE before == {Current[i] : i \in 1 .. slot - 1}
           f == [i \in 1 .. slot - 1 |-> Current[i]]
<1>1. AheadOf(n) \subseteq before
  BY DEF AheadOf
<1>2. slot - 1 \in Nat
  OBVIOUS
<1>3. IsFiniteSet(1 .. slot - 1) /\ Cardinality(1 .. slot - 1) = slot - 1
  BY <1>2, FS_Interval
<1>4. f \in Surjection(1 .. slot - 1, before)
  BY DEF Surjection
<1>5. IsFiniteSet(before) /\ Cardinality(before) <= slot - 1
  <2> HIDE DEF f, before
  <2> QED BY <1>3, <1>4, FS_Surjection
<1>6. IsFiniteSet(AheadOf(n)) /\ Cardinality(AheadOf(n)) <= Cardinality(before)
  <2> HIDE DEF before
  <2> QED BY <1>1, <1>5, FS_Subset
<1> HIDE DEF before
<1>7. Cardinality(before) \in Nat /\ Cardinality(AheadOf(n)) \in Nat
  BY <1>5, <1>6, FS_CardinalityType
<1> QED BY <1>2, <1>5, <1>6, <1>7

LEMMA RoomForOneMore ==
  ASSUME Admitted, ~SkipWait, NEW n \in Names \ Exempt, LetsIn(n, Cardinality(Online))
  PROVE  /\ Cardinality(Online) \in Nat /\ IsFiniteSet(Online) /\ Cardinality(AheadOf(n)) \in Nat
         /\ Cardinality(Online) + 1 + Cardinality(AheadOf(n)) <= MaxPlayers
<1>1. Cardinality(Online) \in Nat /\ IsFiniteSet(Online)
  BY SessionAssumption, FS_Subset, FS_CardinalityType DEF Online
<1>2. CASE waitList = <<>> /\ Cardinality(Online) < MaxPlayers
  <2>1. AheadOf(n) = {}
    BY <1>2, NobodyWaits DEF AheadOf
  <2>2. Cardinality(AheadOf(n)) = 0
    BY <2>1, FS_EmptySet
  <2> QED BY <1>1, <1>2, <2>2, WaitingListAssumption
<1>3. ASSUME NEW slot \in Slots(Current, n), HasSeat(slot, Cardinality(Online))
      PROVE  /\ Cardinality(AheadOf(n)) \in Nat
             /\ Cardinality(Online) + 1 + Cardinality(AheadOf(n)) <= MaxPlayers
  <2>1. DOMAIN Current = 1 .. Cardinality({i \in DOMAIN waitList : ~waitList[i].late})
    BY DEF Current, Picked
  <2>2. slot \in Nat \ {0}
    BY <2>1 DEF Slots
  <2>3. IsFiniteSet(AheadOf(n)) /\ Cardinality(AheadOf(n)) <= slot - 1
    BY <2>2, AheadOfASlot
  <2>4. Cardinality(Online) + slot <= MaxPlayers
    BY <1>3 DEF HasSeat
  <2> QED BY <1>1, <2>2, <2>3, <2>4, FS_CardinalityType, WaitingListAssumption
<1> QED BY <1>1, <1>2, <1>3 DEF LetsIn, SkipsTheList

LEMMA LoginKeepsSeats ==
  ASSUME Admitted, ~SkipWait, NEW p \in Protocols, NEW banned \in BOOLEAN, NEW misplaced \in BOOLEAN,
         LoginNew(p, banned, misplaced), NEW n \in Names \ Exempt,
         \A b \in Online : body[b].who # n, \E b \in Online' : body'[b].who = n
  PROVE  Cardinality(Online') + Cardinality(AheadOf(n)) <= MaxPlayers
<1> DEFINE new == CHOOSE c \in Bodies : body[c].at = "none"
           placed == /\ ~banned /\ WorldOpenFor(character[p]) /\ ~AccountInUse(character[p])
                     /\ LetsIn(character[p], Cardinality(Online)) /\ ~misplaced
<1>1. new \in Bodies /\ body[new].at = "none"
  BY DEF LoginNew
<1>2. /\ body'[new].who = character[p] /\ body'[new].at = (IF placed THEN "placed" ELSE "made")
      /\ \A c \in Bodies \ {new} : body'[c] = body[c]
  BY <1>1 DEF LoginNew, Admitted, Shapely
<1>3. placed => LetsIn(character[p], Cardinality(Online))
  OBVIOUS
<1> HIDE DEF new, placed
<1>4. PICK b \in Online' : body'[b].who = n
  OBVIOUS
<1>5. b = new
  BY <1>2, <1>4 DEF Online
<1>6. placed
  <2>1. body'[new].at = "placed"
    BY <1>4, <1>5 DEF Online
  <2> QED BY <1>2, <2>1
<1>7. character[p] = n
  BY <1>2, <1>4, <1>5
<1>8. Online' = Online \cup {new} /\ new \notin Online
  <2>1. body'[new].at = "placed"
    BY <1>4, <1>5 DEF Online
  <2> QED BY <1>1, <1>2, <2>1 DEF Online
<1>9. LetsIn(n, Cardinality(Online))
  BY <1>3, <1>6, <1>7
<1>10. /\ Cardinality(Online) \in Nat /\ IsFiniteSet(Online) /\ Cardinality(AheadOf(n)) \in Nat
       /\ Cardinality(Online) + 1 + Cardinality(AheadOf(n)) <= MaxPlayers
  BY <1>9, RoomForOneMore
<1>11. Cardinality(Online') = Cardinality(Online) + 1
  BY <1>8, <1>10, FS_AddElement
<1> QED BY <1>10, <1>11

(* Who enters while others wait leaves a seat for everyone who is ahead of *)
(* him on the list, unless premium players skip it.                        *)
THEOREM SeatsAreKept == ASSUME ~SkipWait PROVE Spec => SeatsKept
<1> DEFINE Kept == \A n \in Names \ Exempt :
                     (\A b \in Online : body[b].who # n) /\ (\E b \in Online' : body'[b].who = n)
                       => Cardinality(Online') + Cardinality(AheadOf(n)) <= MaxPlayers
<1>1. Admitted /\ [Next]_vars => [Kept]_vars
  <2> SUFFICES ASSUME Admitted, [Next]_vars PROVE Kept
    OBVIOUS
  <2>1. CASE NobodyEnters
    BY <2>1 DEF NobodyEnters, Online
  <2>2. ASSUME NEW p \in Protocols, NEW banned \in BOOLEAN, NEW misplaced \in BOOLEAN,
               LoginNew(p, banned, misplaced)
        PROVE  Kept
    BY <2>2, LoginKeepsSeats
  <2> QED BY <2>1, <2>2, StepAdmits DEF Stays
<1> QED BY <1>1, AlwaysAdmitted, PTL DEF Spec, SeatsKept

-----------------------------------------------------------------------------
(* The walk of kickCastViewers leaves some of the entries it finds.        *)

\* Sequences of some of the entries of l0, each once.
Pieces(S, l0) ==
  {l \in Seq(S) : Once(l) /\ \A i \in DOMAIN l : \E j \in DOMAIN l0 : l[i] = l0[j]}

LEMMA RemoveAtPiece ==
  ASSUME NEW S, NEW l0, NEW l \in Pieces(S, l0), NEW i \in DOMAIN l
  PROVE  RemoveAt(l, i) \in Pieces(S, l0)
<1> DEFINE r == RemoveAt(l, i)
           from(k) == IF k < i THEN k ELSE k + 1
<1>1. l \in Seq(S) /\ Once(l)
  BY DEF Pieces
<1>2. r \in Seq(S) /\ Len(r) = Len(l) - 1 /\ \A k \in DOMAIN r : r[k] = IF k < i THEN l[k] ELSE l[k + 1]
  BY <1>1, RemoveAtFacts
<1> HIDE DEF r
<1>3. \A k \in DOMAIN r : from(k) \in DOMAIN l /\ r[k] = l[from(k)]
  BY <1>1, <1>2
<1>4. ASSUME NEW k \in DOMAIN r, NEW m \in DOMAIN r, r[k] = r[m] PROVE k = m
  <2>1. from(k) = from(m)
    BY <1>1, <1>3, <1>4 DEF Once
  <2>2. k \in Nat /\ m \in Nat /\ i \in Nat
    BY <1>1, <1>2
  <2> QED BY <2>1, <2>2
<1>5. \A k \in DOMAIN r : \E j \in DOMAIN l0 : r[k] = l0[j]
  BY <1>3 DEF Pieces
<1> QED BY <1>2, <1>4, <1>5 DEF Pieces, Once, r

LEMMA MetIsAnEntry ==
  ASSUME NEW S, NEW l \in Seq(S), NEW b, NEW at \in Nat \ {0}
  PROVE  Met(l, b, at) = 0 \/ Met(l, b, at) \in DOMAIN l
<1> DEFINE own == {i \in at .. Len(l) : (i - at) % 2 = 0 /\ player[l[i]] = b}
<1>1. own \in SUBSET (DOMAIN l) /\ own \in SUBSET Nat
  OBVIOUS
<1>2. Met(l, b, at) = IF own = {} THEN 0 ELSE Min(own)
  BY DEF Met
<1> HIDE DEF own
<1> QED BY <1>1, <1>2, SmallestIsOne

LEMMA WalkLeavesPieces ==
  ASSUME NEW S, NEW l0 \in Seq(S), Once(l0), NEW b
  PROVE  Walk(l0, b).l \in Pieces(S, l0)
<1> DEFINE X == [l : Pieces(S, l0), at : Nat \ {0}]
           n == Len(l0)
           x0 == [l |-> l0, at |-> 1]
           go(w) == LET i == Met(w.l, b, w.at)
                    IN  IF i = 0 THEN w ELSE [l |-> RemoveAt(w.l, i), at |-> 2]
           step == [k \in 1 .. n |-> [w \in X |-> go(w)]]
           body0(g) == [k \in 0 .. n |-> IF k = 0 THEN x0 ELSE go(g[k - 1])]
           walk == CHOOSE g : g = body0(g)
<1>1. n \in Nat
  OBVIOUS
<1>2. x0 \in X
  <2>1. l0 \in Pieces(S, l0)
    BY DEF Pieces
  <2> QED BY <2>1
<1>3. \A w \in X : go(w) \in X
  <2> SUFFICES ASSUME NEW w \in X PROVE go(w) \in X
    OBVIOUS
  <2> DEFINE i == Met(w.l, b, w.at)
  <2>1. w.l \in Pieces(S, l0) /\ w.l \in Seq(S) /\ w.at \in Nat \ {0}
    BY DEF Pieces
  <2>2. i = 0 \/ i \in DOMAIN w.l
    BY <2>1, MetIsAnEntry
  <2>3. i \in DOMAIN w.l => RemoveAt(w.l, i) \in Pieces(S, l0)
    BY <2>1, RemoveAtPiece
  <2> HIDE DEF i
  <2>4. go(w) = IF i = 0 THEN w ELSE [l |-> RemoveAt(w.l, i), at |-> 2]
    BY DEF i
  <2> HIDE DEF go
  <2> QED BY <2>2, <2>3, <2>4
<1>4. step \in [1 .. n -> [X -> X]]
  BY <1>3
<1>5. \A k \in 1 .. n : \A w \in X : step[k][w] = go(w)
  OBVIOUS
<1>6. Walk(l0, b) = walk[n]
  BY DEF Walk
<1> HIDE DEF X, n, x0, go, step
<1>7. PICK f \in [0 .. n -> X] : \A k \in 0 .. n : f[k] = IF k = 0 THEN x0 ELSE step[k][f[k - 1]]
  <2> HIDE DEF walk, body0
  <2>1. \E f : Goes(f, n, X, x0, step)
    BY <1>1, <1>2, <1>4, StepsMakeAFunction
  <2> QED BY <2>1 DEF Goes
<1>8. f = body0(f)
  <2>1. \A k \in 0 .. n : k # 0 => k \in 1 .. n /\ f[k - 1] \in X
    BY <1>1, <1>7
  <2>2. \A k \in 0 .. n : f[k] = IF k = 0 THEN x0 ELSE go(f[k - 1])
    BY <1>5, <1>7, <2>1
  <2> QED BY <1>7, <2>2
<1>9. walk = body0(walk)
  <2> HIDE DEF body0
  <2> QED BY <1>8
<1> HIDE DEF walk
<1>10. \A k \in 0 .. n : walk[k] = IF k = 0 THEN x0 ELSE go(walk[k - 1])
  BY <1>9
<1> DEFINE P == {k \in 0 .. n : walk[k] \in X}
<1>11. 0 \in P
  BY <1>1, <1>2, <1>10
<1>12. ASSUME NEW k \in 1 .. n, k - 1 \in P PROVE k \in P
  <2>1. k \in 0 .. n /\ k # 0 /\ walk[k - 1] \in X
    BY <1>12
  <2> QED BY <2>1, <1>3, <1>10
<1>13. 0 .. n \subseteq P
  <2> HIDE DEF P
  <2> QED BY <1>1, <1>11, <1>12, UpTo
<1>14. walk[n] \in X
  BY <1>1, <1>13
<1> QED BY <1>6, <1>14 DEF X

LEMMA KickLeavesPieces ==
  ASSUME NEW S, cSpectators \in Seq(S), Once(cSpectators), NEW bs, Len(bs) \in Nat
  PROVE  KickedFrom(bs).l \in Pieces(S, cSpectators)
<1> DEFINE X == [l : Pieces(S, cSpectators), overrun : BOOLEAN]
           n == Len(bs)
           x0 == [l |-> cSpectators, overrun |-> FALSE]
           go(k, r) == LET w == Walk(r.l, bs[k])
                       IN  [l |-> w.l, overrun |-> r.overrun \/ Overruns(w)]
           step == [k \in 1 .. n |-> [r \in X |-> go(k, r)]]
           body0(g) == [k \in 0 .. n |-> IF k = 0 THEN x0 ELSE go(k, g[k - 1])]
           kicked == CHOOSE g : g = body0(g)
<1>1. n \in Nat
  OBVIOUS
<1>2. x0 \in X
  <2>1. cSpectators \in Pieces(S, cSpectators)
    BY DEF Pieces
  <2> QED BY <2>1
<1>3. \A k : \A r \in X : go(k, r) \in X
  <2> SUFFICES ASSUME NEW k, NEW r \in X PROVE go(k, r) \in X
    OBVIOUS
  <2>1. r.l \in Seq(S) /\ Once(r.l) /\ \A i \in DOMAIN r.l : \E j \in DOMAIN cSpectators : r.l[i] = cSpectators[j]
    BY DEF Pieces
  <2>2. Walk(r.l, bs[k]).l \in Pieces(S, r.l)
    BY <2>1, WalkLeavesPieces
  <2> DEFINE w == Walk(r.l, bs[k])
  <2>3. w.l \in Pieces(S, r.l)
    BY <2>2
  <2> HIDE DEF w
  <2>4. w.l \in Pieces(S, cSpectators)
    BY <2>1, <2>3 DEF Pieces
  <2>5. go(k, r) = [l |-> w.l, overrun |-> r.overrun \/ Overruns(w)]
    BY DEF w
  <2>6. (r.overrun \/ Overruns(w)) \in BOOLEAN
    BY Zenon
  <2> HIDE DEF go
  <2> QED BY <2>4, <2>5, <2>6
<1>4. step \in [1 .. n -> [X -> X]]
  BY <1>3
<1>5. \A k \in 1 .. n : \A r \in X : step[k][r] = go(k, r)
  OBVIOUS
<1>6. KickedFrom(bs) = kicked[n]
  BY DEF KickedFrom
<1> HIDE DEF X, n, x0, go, step
<1>7. PICK f \in [0 .. n -> X] : \A k \in 0 .. n : f[k] = IF k = 0 THEN x0 ELSE step[k][f[k - 1]]
  <2> HIDE DEF kicked, body0
  <2>1. \E f : Goes(f, n, X, x0, step)
    BY <1>1, <1>2, <1>4, StepsMakeAFunction
  <2> QED BY <2>1 DEF Goes
<1>8. f = body0(f)
  <2>1. \A k \in 0 .. n : k # 0 => k \in 1 .. n /\ f[k - 1] \in X
    BY <1>1, <1>7
  <2>2. \A k \in 0 .. n : f[k] = IF k = 0 THEN x0 ELSE go(k, f[k - 1])
    BY <1>5, <1>7, <2>1
  <2> QED BY <1>7, <2>2
<1>9. kicked = body0(kicked)
  <2> HIDE DEF body0
  <2> QED BY <1>8
<1> HIDE DEF kicked
<1>10. \A k \in 0 .. n : kicked[k] = IF k = 0 THEN x0 ELSE go(k, kicked[k - 1])
  BY <1>9
<1> DEFINE P == {k \in 0 .. n : kicked[k] \in X}
<1>11. 0 \in P
  BY <1>1, <1>2, <1>10
<1>12. ASSUME NEW k \in 1 .. n, k - 1 \in P PROVE k \in P
  <2>1. k \in 0 .. n /\ k # 0 /\ kicked[k - 1] \in X
    BY <1>12
  <2> QED BY <2>1, <1>3, <1>10
<1>13. 0 .. n \subseteq P
  <2> HIDE DEF P
  <2> QED BY <1>1, <1>11, <1>12, UpTo
<1>14. kicked[n] \in X
  BY <1>1, <1>13
<1> QED BY <1>6, <1>14 DEF X

-----------------------------------------------------------------------------
(* The queue.                                                              *)

Tasks == [do : {"login", "close", "connect", "logout"}, by : Protocols]

\* What a queue says of the connections, the players, the counts and the events: who
\* has still to log in is new, who has still to be closed is on his way out, and
\* nobody has twice to do what is done once, or to log in after he is closed.
Queue(tl, cn, pl, rc, evs) ==
  /\ tl \in Seq(Tasks)
  /\ \A i \in DOMAIN tl :
       /\ tl[i].do = "login" => cn[tl[i].by] \in {"open", "closing"} /\ pl[tl[i].by] = Nil /\ rc[tl[i].by] = 0
       /\ tl[i].do = "close" => cn[tl[i].by] = "closing"
       /\ tl[i].do = "connect" => \E e \in evs : e.by = tl[i].by
  /\ \A i, j \in DOMAIN tl : tl[i].by = tl[j].by =>
       /\ tl[i].do = tl[j].do /\ tl[i].do # "logout" => i = j
       /\ tl[i].do = "login" /\ tl[j].do = "close" => i < j

\* None of p's tasks of a kind is in a queue.
None(tl, kind, p) == \A i \in DOMAIN tl : ~(tl[i].do = kind /\ tl[i].by = p)

LEMMA QueueRest ==
  ASSUME NEW tl, NEW cn, NEW pl, NEW rc, NEW evs, Queue(tl, cn, pl, rc, evs), tl # <<>>,
         NEW kind, NEW p, Head(tl) = Task(kind, p)
  PROVE  /\ p \in Protocols /\ kind \in {"login", "close", "connect", "logout"}
         /\ Queue(Tail(tl), cn, pl, rc, evs)
         /\ kind # "logout" => None(Tail(tl), kind, p)
         /\ kind = "close" => None(Tail(tl), "login", p) /\ cn[p] = "closing"
         /\ kind = "login" => cn[p] \in {"open", "closing"} /\ pl[p] = Nil /\ rc[p] = 0
         /\ kind = "connect" => \E e \in evs : e.by = p
<1> DEFINE r == Tail(tl)
<1>1. tl \in Seq(Tasks)
  BY DEF Queue
<1>2. r \in Seq(Tasks) /\ 1 \in DOMAIN tl /\ tl[1] = Head(tl)
      /\ \A i \in DOMAIN r : i + 1 \in DOMAIN tl /\ r[i] = tl[i + 1] /\ i \in Nat /\ i >= 1
  BY <1>1
<1>3. tl[1].do = kind /\ tl[1].by = p /\ tl[1] \in Tasks
  BY <1>1, <1>2 DEF Task
<1> HIDE DEF r
<1>4. \A i \in DOMAIN r :
       /\ r[i].do = "login" => cn[r[i].by] \in {"open", "closing"} /\ pl[r[i].by] = Nil /\ rc[r[i].by] = 0
       /\ r[i].do = "close" => cn[r[i].by] = "closing"
       /\ r[i].do = "connect" => \E e \in evs : e.by = r[i].by
  BY <1>2 DEF Queue
<1>5. ASSUME NEW i \in DOMAIN r, NEW j \in DOMAIN r, r[i].by = r[j].by
      PROVE  /\ r[i].do = r[j].do /\ r[i].do # "logout" => i = j
             /\ r[i].do = "login" /\ r[j].do = "close" => i < j
  <2>1. /\ tl[i + 1].do = tl[j + 1].do /\ tl[i + 1].do # "logout" => i + 1 = j + 1
        /\ tl[i + 1].do = "login" /\ tl[j + 1].do = "close" => i + 1 < j + 1
    BY <1>2, <1>5 DEF Queue
  <2> QED BY <1>2, <2>1
<1>6. Queue(r, cn, pl, rc, evs)
  BY <1>2, <1>4, <1>5 DEF Queue
<1>7. ASSUME NEW i \in DOMAIN r, r[i].by = p
      PROVE  /\ kind # "logout" => r[i].do # kind
             /\ kind = "close" => r[i].do # "login"
  <2>1. i + 1 \in DOMAIN tl /\ 1 \in DOMAIN tl /\ tl[i + 1].by = tl[1].by /\ tl[i + 1].do = r[i].do /\ i + 1 # 1
        /\ ~(i + 1 < 1)
    BY <1>2, <1>3, <1>7
  <2>2. /\ tl[i + 1].do = tl[1].do /\ tl[i + 1].do # "logout" => i + 1 = 1
        /\ tl[i + 1].do = "login" /\ tl[1].do = "close" => i + 1 < 1
    BY <2>1 DEF Queue
  <2> QED BY <1>3, <2>1, <2>2
<1>8. kind = "close" => cn[p] = "closing"
  BY <1>2, <1>3 DEF Queue
<1>9. /\ kind = "login" => cn[p] \in {"open", "closing"} /\ pl[p] = Nil /\ rc[p] = 0
      /\ kind = "connect" => \E e \in evs : e.by = p
  BY <1>2, <1>3 DEF Queue
<1> QED BY <1>3, <1>6, <1>7, <1>8, <1>9 DEF None, r, Tasks

\* What else changes leaves the queue true if it spares who has something to do.
LEMMA QueueStays ==
  ASSUME NEW tl, NEW cn, NEW pl, NEW rc, NEW evs, Queue(tl, cn, pl, rc, evs),
         NEW cn2, NEW pl2, NEW rc2, NEW evs2,
         \A i \in DOMAIN tl :
           /\ tl[i].do = "login" => cn2[tl[i].by] \in {"open", "closing"} /\ pl2[tl[i].by] = Nil /\ rc2[tl[i].by] = 0
           /\ tl[i].do = "close" => cn2[tl[i].by] = "closing"
           /\ tl[i].do = "connect" => \E e \in evs2 : e.by = tl[i].by
  PROVE  Queue(tl, cn2, pl2, rc2, evs2)
BY DEF Queue

LEMMA QueueAppend ==
  ASSUME NEW tl, NEW cn, NEW pl, NEW rc, NEW evs, Queue(tl, cn, pl, rc, evs),
         NEW kind \in {"login", "connect", "logout"}, NEW p \in Protocols,
         kind # "logout" => None(tl, kind, p),
         kind = "login" => None(tl, "close", p) /\ cn[p] = "open" /\ pl[p] = Nil /\ rc[p] = 0,
         kind = "connect" => \E e \in evs : e.by = p
  PROVE  Queue(Append(tl, Task(kind, p)), cn, pl, rc, evs)
<1> DEFINE r == Append(tl, Task(kind, p))
           n == Len(tl)
<1>1. tl \in Seq(Tasks) /\ n \in Nat /\ DOMAIN tl = 1 .. n
  BY DEF Queue
<1>2. Task(kind, p) \in Tasks /\ Task(kind, p).do = kind /\ Task(kind, p).by = p
  BY DEF Task, Tasks
<1>3. /\ r \in Seq(Tasks) /\ DOMAIN r = 1 .. n + 1 /\ r[n + 1] = Task(kind, p)
      /\ \A i \in 1 .. n : r[i] = tl[i]
  BY <1>1, <1>2
<1> HIDE DEF r, n
<1>4. ASSUME NEW i \in DOMAIN r
      PROVE  /\ r[i].do = "login" => cn[r[i].by] \in {"open", "closing"} /\ pl[r[i].by] = Nil /\ rc[r[i].by] = 0
             /\ r[i].do = "close" => cn[r[i].by] = "closing"
             /\ r[i].do = "connect" => \E e \in evs : e.by = r[i].by
  <2>1. CASE i = n + 1
    BY <1>2, <1>3, <2>1
  <2>2. CASE i # n + 1
    <3>1. i \in DOMAIN tl /\ r[i] = tl[i]
      BY <1>1, <1>3, <2>2
    <3> QED BY <3>1 DEF Queue
  <2> QED BY <2>1, <2>2
<1>5. ASSUME NEW i \in DOMAIN r, NEW j \in DOMAIN r, r[i].by = r[j].by
      PROVE  /\ r[i].do = r[j].do /\ r[i].do # "logout" => i = j
             /\ r[i].do = "login" /\ r[j].do = "close" => i < j
  <2>1. CASE i \in 1 .. n /\ j \in 1 .. n
    <3>1. r[i] = tl[i] /\ r[j] = tl[j] /\ i \in DOMAIN tl /\ j \in DOMAIN tl
      BY <1>1, <1>3, <2>1
    <3> QED BY <1>5, <3>1 DEF Queue
  <2>2. CASE i = n + 1 /\ j \in 1 .. n
    <3>1. r[j] = tl[j] /\ j \in DOMAIN tl /\ tl[j].by = p /\ r[i].do = kind
      BY <1>1, <1>2, <1>3, <1>5, <2>2
    <3> QED BY <3>1 DEF None
  <2>3. CASE i \in 1 .. n /\ j = n + 1
    <3>1. r[i] = tl[i] /\ i \in DOMAIN tl /\ tl[i].by = p /\ r[j].do = kind
      BY <1>1, <1>2, <1>3, <1>5, <2>3
    <3> QED BY <3>1 DEF None
  <2>4. CASE i = n + 1 /\ j = n + 1
    BY <1>2, <1>3, <2>4
  <2> QED BY <1>1, <1>3, <2>1, <2>2, <2>3, <2>4
<1> QED BY <1>3, <1>4, <1>5 DEF Queue, r

\* The open ones of a sequence that has each of them once are on their way out.
LEMMA QueueClosing ==
  ASSUME NEW tl, NEW pl, NEW rc, NEW evs, Queue(tl, conn, pl, rc, evs),
         conn \in [Protocols -> {"none", "open", "closing", "closed"}],
         NEW ps \in Seq(Protocols \cup {Nil}),
         \A i, j \in DOMAIN ps : ps[i] = ps[j] /\ ps[i] # Nil => i = j,
         Closing(ps, tl)
  PROVE  /\ Queue(m_taskList', conn', pl, rc, evs)
         /\ conn' \in [Protocols -> {"none", "open", "closing", "closed"}]
         /\ \A p \in Protocols : conn'[p] = conn[p] \/ (conn[p] = "open" /\ conn'[p] = "closing")
<1> DEFINE places == {i \in DOMAIN ps : ps[i] # Nil /\ conn[ps[i]] = "open"}
           open == Picked(ps, places)
           cs == [i \in DOMAIN open |-> Task("close", open[i])]
           n == Len(tl)
           m == Len(open)
           r == tl \o cs
<1>1. /\ conn' = [p \in Protocols |-> IF p \in ToSet(ps) /\ conn[p] = "open" THEN "closing" ELSE conn[p]]
      /\ m_taskList' = r
  BY DEF Closing
<1>2. /\ conn' \in [Protocols -> {"none", "open", "closing", "closed"}]
      /\ \A p \in Protocols : conn'[p] = conn[p] \/ (conn[p] = "open" /\ conn'[p] = "closing")
      /\ \A p \in Protocols : conn[p] # "open" => conn'[p] = conn[p]
  BY <1>1
<1>3. /\ open \in Seq(Protocols \cup {Nil})
      /\ \A k \in DOMAIN open : \E i \in places : open[k] = ps[i]
      /\ \A k, l \in DOMAIN open : open[k] = open[l] => k = l
  <2>1. places \in SUBSET DOMAIN ps /\ \A i, j \in places : ps[i] = ps[j] => i = j
    OBVIOUS
  <2> HIDE DEF places
  <2> QED BY <2>1, PickedFacts
<1>4. \A k \in DOMAIN open : open[k] \in Protocols /\ conn[open[k]] = "open" /\ conn'[open[k]] = "closing"
  <2> SUFFICES ASSUME NEW k \in DOMAIN open
               PROVE  open[k] \in Protocols /\ conn[open[k]] = "open" /\ conn'[open[k]] = "closing"
    OBVIOUS
  <2>1. PICK i \in places : open[k] = ps[i]
    BY <1>3
  <2>2. ps[i] \in Protocols /\ conn[ps[i]] = "open" /\ ps[i] \in ToSet(ps)
    BY DEF ToSet
  <2> HIDE DEF open, places
  <2> QED BY <1>1, <2>1, <2>2
<1> HIDE DEF open, places
<1>5. /\ m \in Nat /\ DOMAIN open = 1 .. m
      /\ cs \in Seq(Tasks) /\ Len(cs) = m
      /\ \A k \in 1 .. m : cs[k] = Task("close", open[k]) /\ cs[k].do = "close" /\ cs[k].by = open[k]
  <2>1. m \in Nat /\ DOMAIN open = 1 .. m
    BY <1>3
  <2>2. \A k \in 1 .. m : Task("close", open[k]) \in Tasks
    BY <1>4, <2>1 DEF Task, Tasks
  <2>3. cs \in [1 .. m -> Tasks]
    BY <2>1, <2>2
  <2> QED BY <2>1, <2>3 DEF Task
<1>6. tl \in Seq(Tasks) /\ n \in Nat /\ DOMAIN tl = 1 .. n
  BY DEF Queue
<1> HIDE DEF cs, n, m
<1>7. /\ r \in Seq(Tasks) /\ DOMAIN r = 1 .. n + m
      /\ \A i \in 1 .. n : r[i] = tl[i]
      /\ \A i \in 1 .. n + m : i \notin 1 .. n => i - n \in 1 .. m /\ r[i] = cs[i - n]
  <2>1. r \in Seq(Tasks) /\ Len(r) = n + m
    BY <1>5, <1>6 DEF n
  <2>2. \A i \in 1 .. n + m : r[i] = IF i <= n THEN tl[i] ELSE cs[i - n]
    BY <1>5, <1>6 DEF n
  <2> HIDE DEF r
  <2> QED BY <1>5, <1>6, <2>1, <2>2
<1> HIDE DEF r
<1>8. \A i \in 1 .. n : tl[i] \in Tasks /\ tl[i].by \in Protocols
  <2>1. \A i \in DOMAIN tl : tl[i] \in Tasks
    BY <1>6
  <2>2. \A t \in Tasks : t.by \in Protocols
    BY DEF Tasks
  <2> QED BY <1>6, <2>1, <2>2
<1>11. \A i \in DOMAIN r : i \notin 1 .. n =>
         /\ i - n \in 1 .. m /\ r[i].do = "close" /\ r[i].by = open[i - n]
         /\ r[i].by \in Protocols /\ conn[r[i].by] = "open" /\ i > n
  <2> SUFFICES ASSUME NEW i \in DOMAIN r, i \notin 1 .. n
               PROVE  /\ i - n \in 1 .. m /\ r[i].do = "close" /\ r[i].by = open[i - n]
                      /\ r[i].by \in Protocols /\ conn[r[i].by] = "open" /\ i > n
    OBVIOUS
  <2>1. i - n \in 1 .. m /\ r[i] = cs[i - n]
    BY <1>7
  <2>2. r[i].do = "close" /\ r[i].by = open[i - n] /\ i - n \in DOMAIN open
    BY <1>5, <2>1
  <2>3. i > n
    BY <1>5, <1>6, <1>7, <2>1
  <2> QED BY <1>4, <2>1, <2>2, <2>3
<1>9. ASSUME NEW i \in DOMAIN r
      PROVE  /\ r[i].do = "login" => conn'[r[i].by] \in {"open", "closing"} /\ pl[r[i].by] = Nil /\ rc[r[i].by] = 0
             /\ r[i].do = "close" => conn'[r[i].by] = "closing"
             /\ r[i].do = "connect" => \E e \in evs : e.by = r[i].by
  <2>1. CASE i \in 1 .. n
    <3>1. r[i] = tl[i] /\ i \in DOMAIN tl /\ tl[i].by \in Protocols
      BY <1>6, <1>7, <1>8, <2>1
    <3>2. /\ tl[i].do = "login" => conn[tl[i].by] \in {"open", "closing"} /\ pl[tl[i].by] = Nil /\ rc[tl[i].by] = 0
          /\ tl[i].do = "close" => conn[tl[i].by] = "closing"
          /\ tl[i].do = "connect" => \E e \in evs : e.by = tl[i].by
      BY <3>1 DEF Queue
    <3> QED BY <1>2, <3>1, <3>2
  <2>2. CASE i \notin 1 .. n
    <3>1. i - n \in 1 .. m /\ r[i].do = "close" /\ r[i].by = open[i - n]
      BY <1>5, <1>7, <2>2
    <3> QED BY <1>4, <1>5, <3>1
  <2> QED BY <2>1, <2>2
<1>10. ASSUME NEW i \in DOMAIN r, NEW j \in DOMAIN r, r[i].by = r[j].by
       PROVE  /\ r[i].do = r[j].do /\ r[i].do # "logout" => i = j
              /\ r[i].do = "login" /\ r[j].do = "close" => i < j
  <2>1. CASE i \in 1 .. n /\ j \in 1 .. n
    <3>1. r[i] = tl[i] /\ r[j] = tl[j] /\ i \in DOMAIN tl /\ j \in DOMAIN tl
      BY <1>6, <1>7, <2>1
    <3> QED BY <1>10, <3>1 DEF Queue
  <2>2. CASE i \in 1 .. n /\ j \notin 1 .. n
    <3>1. /\ r[i] = tl[i] /\ i \in DOMAIN tl /\ r[j].do = "close" /\ conn[r[j].by] = "open" /\ i < j
      BY <1>6, <1>7, <1>11, <2>2
    <3>2. r[i].do = "close" => conn[r[i].by] = "closing"
      BY <3>1 DEF Queue
    <3> QED BY <1>10, <3>1, <3>2
  <2>3. CASE i \notin 1 .. n /\ j \in 1 .. n
    <3>1. /\ r[j] = tl[j] /\ j \in DOMAIN tl /\ r[i].do = "close" /\ conn[r[i].by] = "open"
      BY <1>6, <1>7, <1>11, <2>3
    <3>2. r[j].do = "close" => conn[r[j].by] = "closing"
      BY <3>1 DEF Queue
    <3> QED BY <1>10, <3>1, <3>2
  <2>4. CASE i \notin 1 .. n /\ j \notin 1 .. n
    <3>1. i - n \in 1 .. m /\ j - n \in 1 .. m /\ open[i - n] = open[j - n] /\ r[i].do = "close" /\ r[j].do = "close"
      BY <1>10, <1>11, <2>4
    <3>2. i - n = j - n
      BY <1>3, <1>5, <3>1
    <3>3. i = j
      BY <1>6, <1>7, <3>2
    <3> QED BY <3>1, <3>3
  <2> QED BY <2>1, <2>2, <2>3, <2>4
<1> QED BY <1>1, <1>2, <1>7, <1>9, <1>10 DEF Queue

-----------------------------------------------------------------------------
(* The protocols.                                                          *)

Lines(cn, pl, rc, ch) ==
  /\ cn \in [Protocols -> {"none", "open", "closing", "closed"}]
  /\ pl \in [Protocols -> Bodies \cup {Nil}]
  /\ rc \in [Protocols -> Nat]
  /\ \A p \in Protocols : IF cn[p] = "none" THEN pl[p] = Nil /\ rc[p] = 0 ELSE ch[p] \in Names

\* Who waits for the second to pass plays nobody yet, and waits once.
Waits(pl, rc, evs) ==
  /\ evs \subseteq [by : Protocols, after : Protocols \cup {Nil}]
  /\ \A e \in evs : e.by \notin Watchers /\ rc[e.by] = 1 /\ pl[e.by] = Nil
  /\ \A e, f \in evs : e.by = f.by => e = f

\* A viewer is in the list once, and its reference is counted.
Views(vs, rc) == vs \in Seq(Watchers) /\ Once(vs) /\ \A i \in DOMAIN vs : rc[vs[i]] > 0

Wired ==
  /\ Lines(conn, player, m_refCount, character)
  /\ Waits(player, m_refCount, m_eventConnect)
  /\ Views(cSpectators, m_refCount)
  /\ Queue(m_taskList, conn, player, m_refCount, m_eventConnect)
  /\ down \in {"no", "crashed", "hung"}

LEMMA WiredAsItWas == ASSUME Wired, UNCHANGED <<protocols, cSpectators, down>> PROVE Wired'
<1>1. UNCHANGED <<conn, player, m_refCount, character, m_eventConnect, m_taskList, cSpectators, down>>
  BY DEF protocols
<1> QED BY <1>1 DEF Wired

\* A connection that is on its way out is as good as one that is open.
LEMMA LinesClosing ==
  ASSUME NEW pl, NEW rc, NEW ch, Lines(conn, pl, rc, ch),
         conn' \in [Protocols -> {"none", "open", "closing", "closed"}],
         \A p \in Protocols : conn'[p] = conn[p] \/ (conn[p] = "open" /\ conn'[p] = "closing")
  PROVE  Lines(conn', pl, rc, ch)
<1>1. \A p \in Protocols : conn'[p] = "none" <=> conn[p] = "none"
  OBVIOUS
<1> QED BY <1>1 DEF Lines

\* Some protocols are disconnected.
LEMMA ClosingKeepsWired ==
  ASSUME NEW tl, NEW pl, NEW rc, NEW evs, NEW ch, Queue(tl, conn, pl, rc, evs), Lines(conn, pl, rc, ch),
         NEW ps \in Seq(Protocols \cup {Nil}),
         \A i, j \in DOMAIN ps : ps[i] = ps[j] /\ ps[i] # Nil => i = j,
         Closing(ps, tl)
  PROVE  Queue(m_taskList', conn', pl, rc, evs) /\ Lines(conn', pl, rc, ch)
<1>1. conn \in [Protocols -> {"none", "open", "closing", "closed"}]
  BY DEF Lines
<1>2. /\ Queue(m_taskList', conn', pl, rc, evs)
      /\ conn' \in [Protocols -> {"none", "open", "closing", "closed"}]
      /\ \A p \in Protocols : conn'[p] = conn[p] \/ (conn[p] = "open" /\ conn'[p] = "closing")
  BY <1>1, QueueClosing
<1> QED BY <1>2, LinesClosing

LEMMA OneIsOnce ==
  ASSUME NEW p \in Protocols
  PROVE  /\ <<p>> \in Seq(Protocols \cup {Nil})
         /\ \A i, j \in DOMAIN <<p>> : <<p>>[i] = <<p>>[j] /\ <<p>>[i] # Nil => i = j
<1>1. DOMAIN <<p>> = {1} /\ <<p>>[1] = p
  OBVIOUS
<1>2. <<p>> \in Seq(Protocols \cup {Nil})
  OBVIOUS
<1> QED BY <1>1, <1>2

LEMMA DropKeepsWired == ASSUME Wired, NEW p \in Protocols, Drop(p) PROVE Wired'
<1>1. Closing(<<p>>, m_taskList) /\ UNCHANGED <<game, player, m_refCount, character, m_eventConnect, down>>
  BY DEF Drop
<1>2. Queue(m_taskList', conn', player, m_refCount, m_eventConnect) /\ Lines(conn', player, m_refCount, character)
  BY <1>1, OneIsOnce, ClosingKeepsWired DEF Wired
<1> QED BY <1>1, <1>2 DEF Wired, game

LEMMA ArriveKeepsWired ==
  ASSUME Wired, NEW p \in Protocols, NEW n \in Names, Arrive(p, n), character \in [Protocols -> Names \cup {Nil}]
  PROVE  Wired'
<1>1. /\ conn[p] = "none" /\ conn' = [conn EXCEPT ![p] = "open"]
      /\ character' = [character EXCEPT ![p] = n]
      /\ m_taskList' = Append(m_taskList, Task("login", p))
      /\ UNCHANGED <<game, player, m_refCount, m_eventConnect, down>>
  BY DEF Arrive
<1>2. /\ player[p] = Nil /\ m_refCount[p] = 0
      /\ conn' \in [Protocols -> {"none", "open", "closing", "closed"}]
      /\ conn'[p] = "open" /\ \A q \in Protocols \ {p} : conn'[q] = conn[q]
      /\ character'[p] = n /\ \A q \in Protocols \ {p} : character'[q] = character[q]
  BY <1>1 DEF Wired, Lines
<1>3. Lines(conn', player, m_refCount, character')
  BY <1>2 DEF Wired, Lines
<1>4. /\ None(m_taskList, "login", p) /\ None(m_taskList, "close", p)
      /\ \A i \in DOMAIN m_taskList : m_taskList[i].by \in Protocols
  <2>1. m_taskList \in Seq(Tasks)
    BY DEF Wired, Queue
  <2>2. \A i \in DOMAIN m_taskList : m_taskList[i] \in Tasks
    BY <2>1
  <2>3. \A t \in Tasks : t.by \in Protocols
    BY DEF Tasks
  <2> QED BY <1>1, <2>2, <2>3 DEF Wired, Queue, None
<1>5. Queue(m_taskList, conn', player, m_refCount, m_eventConnect)
  <2>1. \A i \in DOMAIN m_taskList :
          /\ m_taskList[i].do = "login" =>
               conn'[m_taskList[i].by] \in {"open", "closing"} /\ player[m_taskList[i].by] = Nil
               /\ m_refCount[m_taskList[i].by] = 0
          /\ m_taskList[i].do = "close" => conn'[m_taskList[i].by] = "closing"
          /\ m_taskList[i].do = "connect" => \E e \in m_eventConnect : e.by = m_taskList[i].by
    BY <1>2, <1>4 DEF Wired, Queue, None
  <2> QED BY <2>1, QueueStays DEF Wired
<1>6. Queue(m_taskList', conn', player, m_refCount, m_eventConnect)
  BY <1>1, <1>2, <1>4, <1>5, QueueAppend
<1> QED BY <1>1, <1>3, <1>6 DEF Wired, game

\* What is left of the queue, whose head was a task of p.
LEMMA RestIsQueue ==
  ASSUME Wired, NEW kind, NEW p, Serving(kind, p)
  PROVE  /\ p \in Protocols
         /\ Queue(Rest, conn, player, m_refCount, m_eventConnect)
         /\ kind # "logout" => None(Rest, kind, p)
         /\ kind = "close" => None(Rest, "login", p) /\ conn[p] = "closing"
         /\ kind = "login" => conn[p] \in {"open", "closing"} /\ player[p] = Nil /\ m_refCount[p] = 0
         /\ kind = "connect" => \E e \in m_eventConnect : e.by = p
<1>1. m_taskList # <<>> /\ Head(m_taskList) = Task(kind, p)
  BY DEF Serving
<1>2. Queue(m_taskList, conn, player, m_refCount, m_eventConnect)
  BY DEF Wired
<1> QED BY <1>1, <1>2, QueueRest DEF Rest

LEMMA TasksOfProtocols ==
  ASSUME NEW tl, NEW cn, NEW pl, NEW rc, NEW evs, Queue(tl, cn, pl, rc, evs)
  PROVE  \A i \in DOMAIN tl : tl[i].by \in Protocols
<1>1. tl \in Seq(Tasks)
  BY DEF Queue
<1>2. \A i \in DOMAIN tl : tl[i] \in Tasks
  BY <1>1
<1> QED BY <1>2 DEF Tasks

\* One who logs in is new, and nothing of his is waiting.
LEMMA NewOnesWait ==
  ASSUME Wired, NEW p \in Protocols, m_refCount[p] = 0
  PROVE  /\ \A e \in m_eventConnect : e.by # p
         /\ \A i \in DOMAIN cSpectators : cSpectators[i] # p
<1>1. \A e \in m_eventConnect : m_refCount[e.by] = 1
  BY DEF Wired, Waits
<1>2. \A i \in DOMAIN cSpectators : m_refCount[cSpectators[i]] > 0
  BY DEF Wired, Views
<1> QED BY <1>1, <1>2

\* p begins to play or to watch b, or only counts a reference more.
LEMMA LoginKeepsQueue ==
  ASSUME Wired, NEW p, Serving("login", p), NEW pl2 \in [Protocols -> Bodies \cup {Nil}],
         NEW rc2 \in [Protocols -> Nat],
         \A q \in Protocols \ {p} : pl2[q] = player[q] /\ rc2[q] = m_refCount[q]
  PROVE  /\ p \in Protocols
         /\ Queue(Rest, conn, pl2, rc2, m_eventConnect)
         /\ Lines(conn, pl2, rc2, character)
         /\ rc2[p] >= 0 /\ Views(cSpectators, rc2)
         /\ Waits(pl2, rc2, m_eventConnect)
<1>1. /\ p \in Protocols /\ Queue(Rest, conn, player, m_refCount, m_eventConnect) /\ None(Rest, "login", p)
      /\ conn[p] \in {"open", "closing"} /\ player[p] = Nil /\ m_refCount[p] = 0
  BY RestIsQueue
<1>2. Queue(Rest, conn, pl2, rc2, m_eventConnect)
  <2>1. \A i \in DOMAIN Rest : Rest[i].by \in Protocols
    BY <1>1, TasksOfProtocols
  <2>2. \A i \in DOMAIN Rest :
          /\ Rest[i].do = "login" => conn[Rest[i].by] \in {"open", "closing"} /\ pl2[Rest[i].by] = Nil /\ rc2[Rest[i].by] = 0
          /\ Rest[i].do = "close" => conn[Rest[i].by] = "closing"
          /\ Rest[i].do = "connect" => \E e \in m_eventConnect : e.by = Rest[i].by
    BY <1>1, <2>1 DEF Queue, None
  <2> QED BY <1>1, <2>2, QueueStays
<1>3. Lines(conn, pl2, rc2, character)
  <2>1. \A q \in Protocols : IF conn[q] = "none" THEN pl2[q] = Nil /\ rc2[q] = 0 ELSE character[q] \in Names
    BY <1>1 DEF Wired, Lines
  <2> QED BY <2>1 DEF Wired, Lines
<1>4. /\ \A e \in m_eventConnect : e.by # p /\ e.by \in Protocols
      /\ \A i \in DOMAIN cSpectators : cSpectators[i] # p /\ cSpectators[i] \in Protocols
  <2>1. \A i \in DOMAIN cSpectators : cSpectators[i] \in Protocols
    BY SessionAssumption DEF Wired, Views
  <2>2. \A e \in m_eventConnect : e.by \in Protocols
    BY DEF Wired, Waits
  <2> QED BY <1>1, <2>1, <2>2, NewOnesWait
<1>5. Waits(pl2, rc2, m_eventConnect)
  BY <1>4 DEF Wired, Waits
<1>6. Views(cSpectators, rc2)
  BY <1>4 DEF Wired, Views
<1> QED BY <1>1, <1>2, <1>3, <1>5, <1>6

LEMMA LoginNewKeepsWired ==
  ASSUME Wired, NEW p \in Protocols, NEW banned \in BOOLEAN, NEW misplaced \in BOOLEAN,
         LoginNew(p, banned, misplaced)
  PROVE  Wired'
<1> DEFINE b == CHOOSE c \in Bodies : body[c].at = "none"
<1>1. b \in Bodies
  BY DEF LoginNew
<1>2. Serving("login", p) /\ player' = [player EXCEPT ![p] = b]
      /\ UNCHANGED <<cSpectators, m_refCount, character, m_eventConnect, down>>
  BY DEF LoginNew
<1>3. Closing(<<>>, Rest) \/ Closing(<<p>>, Rest)
  BY DEF LoginNew
<1> HIDE DEF b
<1>4. /\ player' \in [Protocols -> Bodies \cup {Nil}] /\ m_refCount \in [Protocols -> Nat]
      /\ \A q \in Protocols \ {p} : player'[q] = player[q]
  BY <1>1, <1>2 DEF Wired, Lines
<1>5. /\ Queue(Rest, conn, player', m_refCount, m_eventConnect)
      /\ Lines(conn, player', m_refCount, character)
      /\ Waits(player', m_refCount, m_eventConnect)
  BY <1>2, <1>4, LoginKeepsQueue
<1>6. Queue(m_taskList', conn', player', m_refCount, m_eventConnect) /\ Lines(conn', player', m_refCount, character)
  <2>1. CASE Closing(<<p>>, Rest)
    BY <1>5, <2>1, OneIsOnce, ClosingKeepsWired
  <2>2. CASE Closing(<<>>, Rest)
    <3>1. <<>> \in Seq(Protocols \cup {Nil}) /\ \A i, j \in DOMAIN <<>> : <<>>[i] = <<>>[j] /\ <<>>[i] # Nil => i = j
      OBVIOUS
    <3> QED BY <1>5, <2>2, <3>1, ClosingKeepsWired
  <2> QED BY <1>3, <2>1, <2>2
<1> QED BY <1>2, <1>5, <1>6 DEF Wired

LEMMA LoginBackKeepsWired ==
  ASSUME Wired, NEW p \in Protocols, NEW b \in Bodies, LoginBack(p, b) PROVE Wired'
<1>1. Serving("login", p) /\ player' = [player EXCEPT ![p] = b] /\ m_taskList' = Rest
      /\ UNCHANGED <<cSpectators, conn, m_refCount, character, m_eventConnect, down>>
  BY DEF LoginBack
<1>2. /\ player' \in [Protocols -> Bodies \cup {Nil}] /\ m_refCount \in [Protocols -> Nat]
      /\ \A q \in Protocols \ {p} : player'[q] = player[q]
  BY <1>1 DEF Wired, Lines
<1>3. /\ Queue(Rest, conn, player', m_refCount, m_eventConnect)
      /\ Lines(conn, player', m_refCount, character)
      /\ Waits(player', m_refCount, m_eventConnect)
  BY <1>1, <1>2, LoginKeepsQueue
<1> QED BY <1>1, <1>3 DEF Wired

LEMMA LoginCastKeepsWired ==
  ASSUME Wired, NEW p \in Protocols, NEW b \in Bodies, LoginCast(p, b) PROVE Wired'
<1>1. /\ Serving("login", p) /\ p \in Watchers /\ m_refCount' = [m_refCount EXCEPT ![p] = @ + 1]
      /\ UNCHANGED <<character, m_eventConnect, down>>
      /\ \/ Closing(<<p>>, Rest) /\ UNCHANGED <<cSpectators, player>>
         \/ /\ player' = [player EXCEPT ![p] = b] /\ cSpectators' = Append(cSpectators, p)
            /\ m_taskList' = Rest /\ UNCHANGED conn
  BY DEF LoginCast
<1>2. m_refCount[p] = 0
  BY <1>1, RestIsQueue
<1>3. /\ m_refCount' \in [Protocols -> Nat] /\ m_refCount'[p] = 1
      /\ \A q \in Protocols \ {p} : m_refCount'[q] = m_refCount[q]
  BY <1>1, <1>2 DEF Wired, Lines
<1>4. CASE Closing(<<p>>, Rest) /\ UNCHANGED <<cSpectators, player>>
  <2>1. player \in [Protocols -> Bodies \cup {Nil}]
    BY DEF Wired, Lines
  <2>2. /\ Queue(Rest, conn, player, m_refCount', m_eventConnect)
        /\ Lines(conn, player, m_refCount', character)
        /\ Views(cSpectators, m_refCount') /\ Waits(player, m_refCount', m_eventConnect)
    BY <1>1, <1>3, <2>1, LoginKeepsQueue
  <2>3. Queue(m_taskList', conn', player, m_refCount', m_eventConnect) /\ Lines(conn', player, m_refCount', character)
    BY <1>4, <2>2, OneIsOnce, ClosingKeepsWired
  <2> QED BY <1>1, <1>4, <2>2, <2>3 DEF Wired
<1>5. CASE /\ player' = [player EXCEPT ![p] = b] /\ cSpectators' = Append(cSpectators, p)
           /\ m_taskList' = Rest /\ UNCHANGED conn
  <2>1. /\ player' \in [Protocols -> Bodies \cup {Nil}]
        /\ \A q \in Protocols \ {p} : player'[q] = player[q]
    BY <1>5 DEF Wired, Lines
  <2>2. /\ Queue(Rest, conn, player', m_refCount', m_eventConnect)
        /\ Lines(conn, player', m_refCount', character)
        /\ Views(cSpectators, m_refCount') /\ Waits(player', m_refCount', m_eventConnect)
    BY <1>1, <1>3, <2>1, LoginKeepsQueue
  <2>3. \A i \in DOMAIN cSpectators : cSpectators[i] # p
    BY <1>2, NewOnesWait
  <2>4. Views(cSpectators', m_refCount')
    <3> DEFINE n == Len(cSpectators)
    <3>1. cSpectators \in Seq(Watchers) /\ n \in Nat /\ DOMAIN cSpectators = 1 .. n
      BY DEF Wired, Views
    <3>2. /\ cSpectators' \in Seq(Watchers) /\ DOMAIN cSpectators' = 1 .. n + 1
          /\ cSpectators'[n + 1] = p /\ \A i \in 1 .. n : cSpectators'[i] = cSpectators[i]
      BY <1>1, <1>5, <3>1
    <3> HIDE DEF n
    <3>3. Once(cSpectators')
      BY <2>2, <2>3, <3>1, <3>2 DEF Views, Once
    <3>4. \A i \in DOMAIN cSpectators' : m_refCount'[cSpectators'[i]] > 0
      BY <1>3, <2>2, <3>1, <3>2 DEF Views
    <3> QED BY <3>2, <3>3, <3>4 DEF Views
  <2> QED BY <1>1, <1>5, <2>2, <2>4 DEF Wired
<1> QED BY <1>1, <1>4, <1>5

\* Two sequences of different things, each with each of its own once.
LEMMA ApartIsOnce ==
  ASSUME NEW A, NEW C, A \cap C = {}, NEW a \in Seq(A), NEW c \in Seq(C),
         \A i, j \in DOMAIN a : a[i] = a[j] /\ a[i] # Nil => i = j,
         \A i, j \in DOMAIN c : c[i] = c[j] /\ c[i] # Nil => i = j
  PROVE  /\ a \o c \in Seq(A \cup C)
         /\ \A i, j \in DOMAIN (a \o c) : (a \o c)[i] = (a \o c)[j] /\ (a \o c)[i] # Nil => i = j
<1> DEFINE n == Len(a)
           m == Len(c)
           r == a \o c
<1>1. /\ n \in Nat /\ m \in Nat /\ DOMAIN a = 1 .. n /\ DOMAIN c = 1 .. m
      /\ \A i \in 1 .. n : a[i] \in A
      /\ \A i \in 1 .. m : c[i] \in C
  OBVIOUS
<1>2. a \in Seq(A \cup C) /\ c \in Seq(A \cup C)
  OBVIOUS
<1>3. r \in Seq(A \cup C) /\ DOMAIN r = 1 .. n + m
  BY <1>2
<1>4. \A i \in 1 .. n + m : r[i] = IF i <= n THEN a[i] ELSE c[i - n]
  OBVIOUS
<1> HIDE DEF r, n, m
<1>5. \A i \in DOMAIN r : \/ i \in 1 .. n /\ r[i] = a[i] /\ r[i] \in A
                          \/ i - n \in 1 .. m /\ r[i] = c[i - n] /\ r[i] \in C
  <2> SUFFICES ASSUME NEW i \in 1 .. n + m
               PROVE  \/ i \in 1 .. n /\ r[i] = a[i] /\ r[i] \in A
                      \/ i - n \in 1 .. m /\ r[i] = c[i - n] /\ r[i] \in C
    BY <1>3
  <2>1. CASE i <= n
    <3>1. i \in 1 .. n
      BY <1>1, <2>1
    <3> QED BY <1>1, <1>4, <2>1, <3>1
  <2>2. CASE ~(i <= n)
    <3>1. i - n \in 1 .. m
      BY <1>1, <2>2
    <3> QED BY <1>1, <1>4, <2>2, <3>1
  <2> QED BY <2>1, <2>2
<1>6. ASSUME NEW i \in DOMAIN r, NEW j \in DOMAIN r, r[i] = r[j], r[i] # Nil PROVE i = j
  <2>1. CASE r[i] \in A
    <3>1. i \in DOMAIN a /\ j \in DOMAIN a /\ a[i] = a[j] /\ a[i] # Nil
      BY <1>1, <1>5, <1>6, <2>1
    <3> QED BY <3>1
  <2>2. CASE r[i] \notin A
    <3>1. i - n \in DOMAIN c /\ j - n \in DOMAIN c /\ c[i - n] = c[j - n] /\ c[i - n] # Nil
      BY <1>1, <1>5, <1>6, <2>2
    <3>2. i - n = j - n /\ i \in Nat /\ j \in Nat
      BY <1>1, <1>3, <3>1
    <3> QED BY <1>1, <3>2
  <2> QED BY <2>1, <2>2
<1> QED BY <1>3, <1>6 DEF r

\* The client of a body exists, plays it and is not a viewer.
Paired(bd, cn, pl) ==
  \A b \in Bodies : LET p == bd[b].client IN
    p # Nil => p \in Protocols /\ cn[p] # "none" /\ pl[p] = b /\ p \notin Watchers

LEMMA TakesOverKeepsWired ==
  ASSUME Wired, Paired(body, conn, player), NEW p \in Protocols, NEW b \in Bodies, LoginTakesOver(p, b)
  PROVE  Wired'
<1> DEFINE e == [by |-> p, after |-> IF Releasable(body[b].client) THEN body[b].client ELSE Nil]
           vs == Picked(cSpectators, Viewers(b))
           ps == <<body[b].client>> \o vs
<1>1. /\ Serving("login", p) /\ p \notin Watchers /\ body[b].client # Nil
      /\ Closing(ps, Rest)
      /\ m_refCount' = [m_refCount EXCEPT ![p] = @ + 1]
      /\ m_eventConnect' = m_eventConnect \cup {e}
      /\ UNCHANGED <<cSpectators, player, character, down>>
  BY DEF LoginTakesOver
<1>2. body[b].client \in Protocols \ Watchers
  BY <1>1 DEF Paired
<1>3. vs \in Seq(Watchers) /\ \A i, j \in DOMAIN vs : vs[i] = vs[j] => i = j
  <2>1. Viewers(b) \in SUBSET DOMAIN cSpectators
    BY DEF Viewers
  <2>2. cSpectators \in Seq(Watchers) /\ \A i, j \in DOMAIN cSpectators : cSpectators[i] = cSpectators[j] => i = j
    BY DEF Wired, Views, Once
  <2>3. \A i, j \in Viewers(b) : cSpectators[i] = cSpectators[j] => i = j
    BY <2>1, <2>2
  <2> QED BY <2>1, <2>2, <2>3, PickedFacts
<1>4. m_refCount[p] = 0 /\ player[p] = Nil
  BY <1>1, RestIsQueue
<1>5. /\ m_refCount' \in [Protocols -> Nat] /\ m_refCount'[p] = 1
      /\ \A q \in Protocols \ {p} : m_refCount'[q] = m_refCount[q]
  BY <1>1, <1>4 DEF Wired, Lines
<1>6. player \in [Protocols -> Bodies \cup {Nil}]
  BY DEF Wired, Lines
<1>7. e \in [by : Protocols, after : Protocols \cup {Nil}] /\ e.by = p
  BY <1>2
<1> HIDE DEF e, vs
<1>8. ps \in Seq(Protocols \cup {Nil}) /\ \A i, j \in DOMAIN ps : ps[i] = ps[j] /\ ps[i] # Nil => i = j
  <2> DEFINE c == body[b].client
             one == <<c>>
  <2>1. one \in Seq(Protocols \ Watchers) /\ \A i, j \in DOMAIN one : one[i] = one[j] /\ one[i] # Nil => i = j
    BY <1>2
  <2>2. (Protocols \ Watchers) \cap Watchers = {}
    OBVIOUS
  <2>3. ps = one \o vs
    OBVIOUS
  <2> HIDE DEF one, ps
  <2>4. /\ one \o vs \in Seq((Protocols \ Watchers) \cup Watchers)
        /\ \A i, j \in DOMAIN (one \o vs) : (one \o vs)[i] = (one \o vs)[j] /\ (one \o vs)[i] # Nil => i = j
    BY <1>3, <2>1, <2>2, ApartIsOnce
  <2>5. (Protocols \ Watchers) \cup Watchers = Protocols
    BY SessionAssumption
  <2>6. ps \in Seq(Protocols)
    BY <2>3, <2>4, <2>5
  <2> QED BY <2>3, <2>4, <2>6
<1>9. /\ Queue(Rest, conn, player, m_refCount', m_eventConnect)
      /\ Lines(conn, player, m_refCount', character)
      /\ Views(cSpectators, m_refCount')
      /\ Waits(player, m_refCount', m_eventConnect)
  BY <1>1, <1>5, <1>6, LoginKeepsQueue
<1>10. Queue(Rest, conn, player, m_refCount', m_eventConnect')
  BY <1>1, <1>9 DEF Queue
<1>11. Waits(player, m_refCount', m_eventConnect')
  <2>1. \A f \in m_eventConnect : f.by # p
    BY <1>4, NewOnesWait
  <2> QED BY <1>1, <1>4, <1>5, <1>7, <1>9, <2>1 DEF Waits
<1> HIDE DEF ps
<1>12. Queue(m_taskList', conn', player, m_refCount', m_eventConnect') /\ Lines(conn', player, m_refCount', character)
  BY <1>1, <1>8, <1>9, <1>10, ClosingKeepsWired
<1> QED BY <1>1, <1>9, <1>11, <1>12 DEF Wired

LEMMA ConnectKeepsWired ==
  ASSUME Wired, NEW p \in Protocols, Connect(p)
  PROVE  Wired' /\ p \notin Watchers /\ player[p] = Nil /\ conn[p] # "none"
<1>1. /\ Serving("connect", p)
      /\ m_eventConnect' = {e \in m_eventConnect : e.by # p}
      /\ m_refCount' = [m_refCount EXCEPT ![p] = @ - 1]
      /\ UNCHANGED <<cSpectators, character, down>>
      /\ \/ Closing(<<p>>, Rest) /\ player' = player
         \/ /\ \E b \in Bodies : player' = [player EXCEPT ![p] = b]
            /\ m_taskList' = Rest /\ UNCHANGED conn
  BY DEF Connect, getPlayersByName, Online
<1>2. /\ Queue(Rest, conn, player, m_refCount, m_eventConnect) /\ None(Rest, "connect", p)
      /\ \E e \in m_eventConnect : e.by = p
  BY <1>1, RestIsQueue
<1>3. p \notin Watchers /\ m_refCount[p] = 1 /\ player[p] = Nil /\ conn[p] # "none"
  BY <1>2 DEF Wired, Waits, Lines
<1>4. /\ m_refCount' \in [Protocols -> Nat] /\ m_refCount'[p] = 0
      /\ player' \in [Protocols -> Bodies \cup {Nil}]
      /\ \A q \in Protocols \ {p} : m_refCount'[q] = m_refCount[q] /\ player'[q] = player[q]
  BY <1>1, <1>3 DEF Wired, Lines
<1>5. \A i \in DOMAIN Rest : Rest[i].by \in Protocols /\ ~(Rest[i].do = "login" /\ Rest[i].by = p)
  <2>1. \A i \in DOMAIN Rest : Rest[i].by \in Protocols
    BY <1>2, TasksOfProtocols
  <2>2. \A i \in DOMAIN Rest : Rest[i].do = "login" => m_refCount[Rest[i].by] = 0
    BY <1>2 DEF Queue
  <2> QED BY <1>3, <2>1, <2>2
<1>6. Queue(Rest, conn, player', m_refCount', m_eventConnect')
  <2>1. \A i \in DOMAIN Rest :
          /\ Rest[i].do = "login" => conn[Rest[i].by] \in {"open", "closing"} /\ player'[Rest[i].by] = Nil
                                     /\ m_refCount'[Rest[i].by] = 0
          /\ Rest[i].do = "close" => conn[Rest[i].by] = "closing"
          /\ Rest[i].do = "connect" => \E e \in m_eventConnect' : e.by = Rest[i].by
    <3> SUFFICES ASSUME NEW i \in DOMAIN Rest
                 PROVE  /\ Rest[i].do = "login" => conn[Rest[i].by] \in {"open", "closing"} /\ player'[Rest[i].by] = Nil
                                     /\ m_refCount'[Rest[i].by] = 0
                        /\ Rest[i].do = "close" => conn[Rest[i].by] = "closing"
                        /\ Rest[i].do = "connect" => \E e \in m_eventConnect' : e.by = Rest[i].by
      OBVIOUS
    <3>1. /\ Rest[i].do = "login" => conn[Rest[i].by] \in {"open", "closing"} /\ player[Rest[i].by] = Nil
                                     /\ m_refCount[Rest[i].by] = 0
          /\ Rest[i].do = "close" => conn[Rest[i].by] = "closing"
          /\ Rest[i].do = "connect" => \E e \in m_eventConnect : e.by = Rest[i].by
      BY <1>2 DEF Queue
    <3>2. Rest[i].do = "connect" => Rest[i].by # p
      BY <1>2 DEF None
    <3> QED BY <1>1, <1>4, <1>5, <3>1, <3>2
  <2> QED BY <1>2, <2>1, QueueStays
<1>7. Lines(conn, player', m_refCount', character)
  <2>1. \A q \in Protocols : IF conn[q] = "none" THEN player'[q] = Nil /\ m_refCount'[q] = 0 ELSE character[q] \in Names
    BY <1>3, <1>4 DEF Wired, Lines
  <2> QED BY <1>4, <2>1 DEF Wired, Lines
<1>8. Waits(player', m_refCount', m_eventConnect')
  BY <1>1, <1>4 DEF Wired, Waits
<1>9. Views(cSpectators, m_refCount')
  <2>1. \A i \in DOMAIN cSpectators : cSpectators[i] \in Protocols \ {p}
    BY <1>3, SessionAssumption DEF Wired, Views
  <2> QED BY <1>4, <2>1 DEF Wired, Views
<1>10. Queue(m_taskList', conn', player', m_refCount', m_eventConnect') /\ Lines(conn', player', m_refCount', character)
  <2>1. CASE Closing(<<p>>, Rest) /\ player' = player
    BY <1>6, <1>7, <2>1, OneIsOnce, ClosingKeepsWired
  <2>2. CASE m_taskList' = Rest /\ UNCHANGED conn
    BY <1>6, <1>7, <2>2
  <2> QED BY <1>1, <2>1, <2>2
<1> QED BY <1>1, <1>3, <1>8, <1>9, <1>10 DEF Wired

\* The list of viewers becomes one of some of them, and those who are struck off it lose
\* a reference or none.
LEMMA FewerViewers ==
  ASSUME Wired, NEW tl, Queue(tl, conn, player, m_refCount, m_eventConnect),
         cSpectators' \in Pieces(Watchers, cSpectators),
         NEW rc2 \in [Protocols -> Nat],
         \A p \in Protocols : rc2[p] # m_refCount[p] =>
            /\ \E i \in DOMAIN cSpectators : cSpectators[i] = p
            /\ \A i \in DOMAIN cSpectators' : cSpectators'[i] # p
  PROVE  /\ Queue(tl, conn, player, rc2, m_eventConnect)
         /\ Lines(conn, player, rc2, character)
         /\ Waits(player, rc2, m_eventConnect)
         /\ Views(cSpectators', rc2)
<1>1. \A p \in Protocols : rc2[p] # m_refCount[p] => m_refCount[p] > 0 /\ p \in Watchers
  BY DEF Wired, Views
<1>2. \A p \in Protocols : m_refCount[p] = 0 => rc2[p] = 0
  BY <1>1
<1>3. Queue(tl, conn, player, rc2, m_eventConnect)
  <2>1. \A i \in DOMAIN tl : tl[i].by \in Protocols
    BY TasksOfProtocols
  <2>2. \A i \in DOMAIN tl :
          /\ tl[i].do = "login" => conn[tl[i].by] \in {"open", "closing"} /\ player[tl[i].by] = Nil /\ rc2[tl[i].by] = 0
          /\ tl[i].do = "close" => conn[tl[i].by] = "closing"
          /\ tl[i].do = "connect" => \E e \in m_eventConnect : e.by = tl[i].by
    BY <1>2, <2>1 DEF Queue
  <2> QED BY <2>2, QueueStays
<1>4. Lines(conn, player, rc2, character)
  BY <1>2 DEF Wired, Lines
<1>5. Waits(player, rc2, m_eventConnect)
  <2>1. \A e \in m_eventConnect : e.by \in Protocols
    BY DEF Wired, Waits
  <2> QED BY <1>1, <2>1 DEF Wired, Waits
<1>6. Views(cSpectators', rc2)
  <2>1. cSpectators' \in Seq(Watchers) /\ Once(cSpectators')
    BY DEF Pieces
  <2>2. ASSUME NEW i \in DOMAIN cSpectators' PROVE rc2[cSpectators'[i]] > 0
    <3>1. PICK j \in DOMAIN cSpectators : cSpectators'[i] = cSpectators[j]
      BY DEF Pieces
    <3>2. m_refCount[cSpectators[j]] > 0
      BY DEF Wired, Views
    <3>3. cSpectators'[i] \in Protocols
      BY <2>1, SessionAssumption
    <3> QED BY <3>1, <3>2, <3>3
  <2> QED BY <2>1, <2>2 DEF Views
<1> QED BY <1>3, <1>4, <1>5, <1>6

LEMMA ViewersAreWatchers ==
  ASSUME Wired
  PROVE  /\ cSpectators \in Seq(Watchers) /\ Once(cSpectators)
         /\ \A i \in DOMAIN cSpectators : cSpectators[i] \in Protocols /\ m_refCount[cSpectators[i]] > 0
<1>1. cSpectators \in Seq(Watchers) /\ Once(cSpectators)
  BY DEF Wired, Views
<1>2. \A i \in DOMAIN cSpectators : cSpectators[i] \in Watchers
  BY <1>1
<1> QED BY <1>1, <1>2, SessionAssumption DEF Wired, Views

\* The viewers that the walk meets, and others, are disconnected.
LEMMA KickKeepsWired ==
  ASSUME Wired, NEW bs, Len(bs) \in Nat, NEW ps \in Seq((Protocols \ Watchers) \cup {Nil}),
         \A i, j \in DOMAIN ps : ps[i] = ps[j] /\ ps[i] # Nil => i = j,
         NEW tl, Queue(tl, conn, player, m_refCount, m_eventConnect),
         KickAndClose(bs, ps, tl), UNCHANGED <<player, character, m_eventConnect, down>>
  PROVE  Wired'
<1> DEFINE l == KickedFrom(bs).l
           places == {i \in DOMAIN cSpectators : ~Contains(l, cSpectators[i])}
           kicked == Picked(cSpectators, places)
<1>1. /\ cSpectators' = l
      /\ m_refCount' = [p \in Protocols |-> m_refCount[p] - IF Contains(kicked, p) THEN 1 ELSE 0]
      /\ Closing(kicked \o ps, tl)
  BY DEF KickAndClose
<1>2. /\ cSpectators \in Seq(Watchers) /\ Once(cSpectators)
      /\ \A i \in DOMAIN cSpectators : cSpectators[i] \in Protocols /\ m_refCount[cSpectators[i]] > 0
  BY ViewersAreWatchers
<1>3. l \in Pieces(Watchers, cSpectators) /\ l \in Seq(Watchers)
  BY <1>2, KickLeavesPieces DEF Pieces
<1>4. /\ kicked \in Seq(Watchers)
      /\ \A k \in DOMAIN kicked : \E i \in places : kicked[k] = cSpectators[i]
      /\ \A k, m \in DOMAIN kicked : kicked[k] = kicked[m] => k = m
  <2>0. cSpectators \in Seq(Watchers) /\ places \in SUBSET DOMAIN cSpectators
    BY <1>2
  <2>1. \A i, j \in places : cSpectators[i] = cSpectators[j] => i = j
    BY <1>2 DEF Once
  <2> HIDE DEF places
  <2>2. /\ kicked \in Seq(Watchers)
        /\ \A k \in DOMAIN kicked : \E i \in places : kicked[k] = cSpectators[i]
        /\ (\A i, j \in places : cSpectators[i] = cSpectators[j] => i = j) =>
              \A k, m \in DOMAIN kicked : kicked[k] = kicked[m] => k = m
    BY <2>0, PickedFacts
  <2> HIDE DEF kicked
  <2>3. \A k, m \in DOMAIN kicked : kicked[k] = kicked[m] => k = m
    BY <2>1, <2>2, Zenon
  <2> QED BY <2>2, <2>3, Zenon
<1>5. ASSUME NEW p \in Protocols, Contains(kicked, p)
      PROVE  /\ \E i \in DOMAIN cSpectators : cSpectators[i] = p
             /\ \A i \in DOMAIN l : l[i] # p
             /\ m_refCount[p] > 0
  <2>1. PICK k \in DOMAIN kicked : kicked[k] = p
    <3> HIDE DEF kicked
    <3> QED BY <1>4, <1>5 DEF Contains
  <2>2. PICK i \in places : cSpectators[i] = p
    BY <1>4, <2>1
  <2>3. ~Contains(l, p)
    BY <2>2
  <2> HIDE DEF l
  <2>4. \A j \in DOMAIN l : l[j] # p
    BY <1>3, <2>3 DEF Contains
  <2> QED BY <1>2, <2>2, <2>4
<1> HIDE DEF kicked, l, places
<1>6. /\ m_refCount' \in [Protocols -> Nat]
      /\ \A p \in Protocols : m_refCount'[p] # m_refCount[p] => Contains(kicked, p)
  <2>1. \A p \in Protocols : m_refCount[p] \in Nat
    BY DEF Wired, Lines
  <2>2. \A p \in Protocols : m_refCount[p] - (IF Contains(kicked, p) THEN 1 ELSE 0) \in Nat
    BY <1>5, <2>1
  <2> QED BY <1>1, <2>1, <2>2
<1>7. cSpectators' \in Pieces(Watchers, cSpectators)
  BY <1>1, <1>3
<1>8. \A p \in Protocols : m_refCount'[p] # m_refCount[p] =>
         /\ \E i \in DOMAIN cSpectators : cSpectators[i] = p
         /\ \A i \in DOMAIN cSpectators' : cSpectators'[i] # p
  BY <1>1, <1>5, <1>6
<1>9. /\ Queue(tl, conn, player, m_refCount', m_eventConnect)
      /\ Lines(conn, player, m_refCount', character)
      /\ Waits(player, m_refCount', m_eventConnect)
      /\ Views(cSpectators', m_refCount')
  BY <1>6, <1>7, <1>8, FewerViewers
<1>10. /\ kicked \o ps \in Seq(Protocols \cup {Nil})
       /\ \A i, j \in DOMAIN (kicked \o ps) :
            (kicked \o ps)[i] = (kicked \o ps)[j] /\ (kicked \o ps)[i] # Nil => i = j
  <2>1. Watchers \cap ((Protocols \ Watchers) \cup {Nil}) = {}
    BY SessionAssumption
  <2>2. Watchers \cup ((Protocols \ Watchers) \cup {Nil}) = Protocols \cup {Nil}
    BY SessionAssumption
  <2>3. \A i, j \in DOMAIN kicked : kicked[i] = kicked[j] /\ kicked[i] # Nil => i = j
    BY <1>4
  <2>4. /\ kicked \o ps \in Seq(Watchers \cup ((Protocols \ Watchers) \cup {Nil}))
        /\ \A i, j \in DOMAIN (kicked \o ps) :
             (kicked \o ps)[i] = (kicked \o ps)[j] /\ (kicked \o ps)[i] # Nil => i = j
    BY <1>4, <2>1, <2>3, ApartIsOnce
  <2> QED BY <2>2, <2>4
<1>11. Queue(m_taskList', conn', player, m_refCount', m_eventConnect) /\ Lines(conn', player, m_refCount', character)
  BY <1>1, <1>9, <1>10, ClosingKeepsWired
<1> QED BY <1>9, <1>11 DEF Wired

LEMMA WithoutOne ==
  ASSUME Wired, NEW v \in Protocols
  PROVE  Without(v) \in Pieces(Watchers, cSpectators) /\ \A i \in DOMAIN Without(v) : Without(v)[i] # v
<1> DEFINE places == {i \in DOMAIN cSpectators : cSpectators[i] # v}
<1>1. /\ cSpectators \in Seq(Watchers) /\ Once(cSpectators)
  BY ViewersAreWatchers
<1>2. places \in SUBSET DOMAIN cSpectators /\ \A i, j \in places : cSpectators[i] = cSpectators[j] => i = j
  BY <1>1 DEF Once
<1>3. \A i \in places : cSpectators[i] # v
  OBVIOUS
<1>4. Without(v) = Picked(cSpectators, places)
  BY DEF Without
<1> HIDE DEF places
<1>5. /\ Without(v) \in Seq(Watchers)
      /\ \A k \in DOMAIN Without(v) : \E i \in places : Without(v)[k] = cSpectators[i]
      /\ \A k, m \in DOMAIN Without(v) : Without(v)[k] = Without(v)[m] => k = m
  <2> DEFINE r == Picked(cSpectators, places)
  <2>1. /\ r \in Seq(Watchers)
        /\ \A k \in DOMAIN r : \E i \in places : r[k] = cSpectators[i]
        /\ (\A i, j \in places : cSpectators[i] = cSpectators[j] => i = j) =>
              \A k, m \in DOMAIN r : r[k] = r[m] => k = m
    BY <1>1, <1>2, PickedFacts
  <2>2. Without(v) = r
    BY <1>4
  <2> HIDE DEF r
  <2> QED BY <1>2, <2>1, <2>2
<1> QED BY <1>2, <1>3, <1>5 DEF Pieces, Once

LEMMA NoneIsOnce ==
  <<>> \in Seq((Protocols \ Watchers) \cup {Nil}) /\ \A i, j \in DOMAIN <<>> : <<>>[i] = <<>>[j] /\ <<>>[i] # Nil => i = j
OBVIOUS

LEMMA OnePlayerIsOnce ==
  ASSUME NEW p \in Protocols \ Watchers
  PROVE  /\ <<p>> \in Seq((Protocols \ Watchers) \cup {Nil})
         /\ \A i, j \in DOMAIN <<p>> : <<p>>[i] = <<p>>[j] /\ <<p>>[i] # Nil => i = j
<1>1. DOMAIN <<p>> = {1} /\ <<p>>[1] = p
  OBVIOUS
<1>2. <<p>> \in Seq((Protocols \ Watchers) \cup {Nil})
  OBVIOUS
<1> QED BY <1>1, <1>2

LEMMA HangKeepsWired == ASSUME Wired, NEW bs, Hang(bs) PROVE Wired'
<1>1. UNCHANGED <<conn, player, m_refCount, character, m_eventConnect, m_taskList, cSpectators>> /\ down' = "hung"
  BY DEF Hang, game, protocols
<1> QED BY <1>1 DEF Wired

LEMMA LogoutKeepsWired == ASSUME Wired, NEW p \in Protocols, Logout(p) PROVE Wired'
<1> DEFINE b == player[p]
<1>1. Serving("logout", p) /\ p \notin Watchers
  BY DEF Logout
<1>2. Queue(Rest, conn, player, m_refCount, m_eventConnect)
  BY <1>1, RestIsQueue
<1>3. CASE Hang(<<b>>)
  BY <1>3, HangKeepsWired
<1>4. CASE m_taskList' = Rest /\ UNCHANGED <<game, conn, player, m_refCount, character, m_eventConnect, down>>
  BY <1>2, <1>4 DEF Wired, game
<1>5. CASE KickAndClose(<<b>>, <<p>>, Rest) /\ UNCHANGED <<player, character, m_eventConnect, down>>
  <2>1. Len(<<b>>) \in Nat
    OBVIOUS
  <2>2. /\ <<p>> \in Seq((Protocols \ Watchers) \cup {Nil})
        /\ \A i, j \in DOMAIN <<p>> : <<p>>[i] = <<p>>[j] /\ <<p>>[i] # Nil => i = j
    BY <1>1, OnePlayerIsOnce
  <2> HIDE DEF b
  <2> QED BY <1>2, <1>5, <2>1, <2>2, KickKeepsWired
<1> QED BY <1>3, <1>4, <1>5 DEF Logout

LEMMA KickOneKeepsWired ==
  ASSUME Wired, NEW b \in Bodies, KickAndClose(<<b>>, <<>>, m_taskList),
         UNCHANGED <<player, character, m_eventConnect, down>>
  PROVE  Wired'
<1>1. Len(<<b>>) \in Nat /\ Queue(m_taskList, conn, player, m_refCount, m_eventConnect)
  BY DEF Wired
<1> QED BY <1>1, NoneIsOnce, KickKeepsWired

LEMMA LogoutCastKeepsWired == ASSUME Wired, NEW p \in Protocols, LogoutCast(p) PROVE Wired'
<1>1. Serving("logout", p) /\ UNCHANGED <<player, m_refCount, character, m_eventConnect, down>>
  BY DEF LogoutCast
<1>2. Queue(Rest, conn, player, m_refCount, m_eventConnect)
  BY <1>1, RestIsQueue
<1>3. CASE cSpectators' = Without(p) /\ Closing(<<p>>, Rest)
  <2>1. cSpectators' \in Pieces(Watchers, cSpectators) /\ m_refCount \in [Protocols -> Nat]
    BY <1>3, WithoutOne DEF Wired, Lines
  <2>2. /\ Queue(Rest, conn, player, m_refCount, m_eventConnect)
        /\ Lines(conn, player, m_refCount, character)
        /\ Waits(player, m_refCount, m_eventConnect)
        /\ Views(cSpectators', m_refCount)
    BY <1>2, <2>1, FewerViewers
  <2>3. Queue(m_taskList', conn', player, m_refCount, m_eventConnect) /\ Lines(conn', player, m_refCount, character)
    BY <1>3, <2>2, OneIsOnce, ClosingKeepsWired
  <2> QED BY <1>1, <2>2, <2>3 DEF Wired
<1>4. CASE m_taskList' = Rest /\ UNCHANGED <<conn, cSpectators>>
  BY <1>1, <1>2, <1>4 DEF Wired
<1> QED BY <1>3, <1>4 DEF LogoutCast

LEMMA KickViewerKeepsWired == ASSUME Wired, NEW v \in Protocols, kickCastViewer(v) PROVE Wired'
<1>1. /\ Contains(cSpectators, v) /\ cSpectators' = Without(v)
      /\ m_refCount' = [m_refCount EXCEPT ![v] = @ - 1] /\ Closing(<<v>>, m_taskList)
      /\ UNCHANGED <<player, character, m_eventConnect, down>>
  BY DEF kickCastViewer
<1>2. \E i \in DOMAIN cSpectators : cSpectators[i] = v
  BY <1>1, ViewersAreWatchers DEF Contains
<1>3. m_refCount[v] > 0 /\ m_refCount \in [Protocols -> Nat]
  BY <1>2, ViewersAreWatchers DEF Wired, Lines
<1>4. m_refCount' \in [Protocols -> Nat] /\ \A p \in Protocols \ {v} : m_refCount'[p] = m_refCount[p]
  BY <1>1, <1>3
<1>5. cSpectators' \in Pieces(Watchers, cSpectators) /\ \A i \in DOMAIN cSpectators' : cSpectators'[i] # v
  BY <1>1, WithoutOne
<1>6. \A p \in Protocols : m_refCount'[p] # m_refCount[p] =>
         /\ \E i \in DOMAIN cSpectators : cSpectators[i] = p
         /\ \A i \in DOMAIN cSpectators' : cSpectators'[i] # p
  BY <1>2, <1>4, <1>5
<1>7. Queue(m_taskList, conn, player, m_refCount, m_eventConnect)
  BY DEF Wired
<1>8. /\ Queue(m_taskList, conn, player, m_refCount', m_eventConnect)
      /\ Lines(conn, player, m_refCount', character)
      /\ Waits(player, m_refCount', m_eventConnect)
      /\ Views(cSpectators', m_refCount')
  BY <1>4, <1>5, <1>6, <1>7, FewerViewers
<1>9. Queue(m_taskList', conn', player, m_refCount', m_eventConnect) /\ Lines(conn', player, m_refCount', character)
  BY <1>1, <1>8, OneIsOnce, ClosingKeepsWired
<1> QED BY <1>1, <1>8, <1>9 DEF Wired

\* Different bodies have different clients.
LEMMA KickAllKeepsWired ==
  ASSUME Wired, Paired(body, conn, player), NEW gone \in SUBSET Bodies, NEW s, NEW inCheck, Kick(gone, s, inCheck)
  PROVE  Wired'
<1> DEFINE with == {b \in gone : body[b].client # Nil}
           bs == SetToSeq(with)
           ps == [i \in DOMAIN bs |-> body[bs[i]].client]
<1>1. \/ Hang(bs)
      \/ KickAndClose(bs, ps, m_taskList) /\ UNCHANGED <<player, character, m_eventConnect, down>>
  BY DEF Kick
<1>2. IsFiniteSet(with)
  BY SessionAssumption, FS_Subset
<1>3. \A b \in with : b \in Bodies /\ body[b].client \in Protocols \ Watchers /\ player[body[b].client] = b
  BY DEF Paired
<1> HIDE DEF with
<1>4. bs \in Seq(with) /\ Once(bs) /\ Len(bs) \in Nat /\ DOMAIN bs = 1 .. Len(bs)
  BY <1>2, SetToSeqFacts
<1> HIDE DEF bs
<1>5. \A i \in DOMAIN bs : /\ bs[i] \in with /\ body[bs[i]].client \in Protocols \ Watchers
                           /\ player[body[bs[i]].client] = bs[i]
  <2>1. \A i \in DOMAIN bs : bs[i] \in with
    BY <1>4
  <2> QED BY <1>3, <2>1
<1>6. ps \in Seq((Protocols \ Watchers) \cup {Nil})
  <2>1. ps \in [1 .. Len(bs) -> (Protocols \ Watchers) \cup {Nil}]
    BY <1>4, <1>5
  <2> HIDE DEF ps
  <2> QED BY <1>4, <2>1
<1>7. \A i, j \in DOMAIN ps : ps[i] = ps[j] /\ ps[i] # Nil => i = j
  <2> SUFFICES ASSUME NEW i \in DOMAIN bs, NEW j \in DOMAIN bs, ps[i] = ps[j] PROVE i = j
    OBVIOUS
  <2>1. bs[i] = bs[j]
    BY <1>5
  <2> QED BY <1>4, <2>1 DEF Once
<1>8. Queue(m_taskList, conn, player, m_refCount, m_eventConnect)
  BY DEF Wired
<1> HIDE DEF ps
<1>9. CASE KickAndClose(bs, ps, m_taskList) /\ UNCHANGED <<player, character, m_eventConnect, down>>
  BY <1>4, <1>6, <1>7, <1>8, <1>9, KickKeepsWired
<1> QED BY <1>1, <1>9, HangKeepsWired

\* A protocol that has nothing left to do lets go, and is deleted if nothing counts on it.
LEMMA ReleaseKeepsWired ==
  ASSUME Wired, Shapely, NEW p \in Protocols, NEW tl, Queue(tl, conn, player, m_refCount, m_eventConnect),
         None(tl, "login", p), None(tl, "close", p), releaseProtocol(p), m_taskList' = tl
  PROVE  Wired'
<1> DEFINE New(e) == [e EXCEPT !.after = IF @ = p THEN Nil ELSE @]
<1>1. /\ m_eventConnect' = {New(e) : e \in m_eventConnect}
      /\ UNCHANGED <<cSpectators, m_refCount, down>>
  BY DEF releaseProtocol
<1>2. \/ /\ m_refCount[p] > 0 /\ conn' = [conn EXCEPT ![p] = "closed"] /\ UNCHANGED <<player, character>>
      \/ /\ m_refCount[p] = 0 /\ conn' = [conn EXCEPT ![p] = "none"]
         /\ player' = [player EXCEPT ![p] = Nil] /\ character' = [character EXCEPT ![p] = Nil]
  BY DEF releaseProtocol, Wired, Lines
<1>3. \A e \in m_eventConnect : /\ New(e) \in [by : Protocols, after : Protocols \cup {Nil}]
                               /\ New(e).by = e.by
  BY DEF Wired, Waits
<1> HIDE DEF New
<1>4. /\ m_eventConnect' \subseteq [by : Protocols, after : Protocols \cup {Nil}]
      /\ \A e \in m_eventConnect : \E f \in m_eventConnect' : f.by = e.by
      /\ \A f \in m_eventConnect' : \E e \in m_eventConnect : f = New(e) /\ f.by = e.by
  BY <1>1, <1>3
<1>5. /\ conn' \in [Protocols -> {"none", "open", "closing", "closed"}]
      /\ player' \in [Protocols -> Bodies \cup {Nil}]
      /\ \A q \in Protocols \ {p} : conn'[q] = conn[q] /\ player'[q] = player[q] /\ character'[q] = character[q]
      /\ player'[p] = player[p] \/ player'[p] = Nil
  BY <1>2 DEF Wired, Lines, Shapely
<1>6. Waits(player', m_refCount', m_eventConnect')
  <2>1. \A e \in m_eventConnect : player'[e.by] = Nil /\ e.by \notin Watchers /\ m_refCount[e.by] = 1
    BY <1>5 DEF Wired, Waits
  <2>2. ASSUME NEW f \in m_eventConnect', NEW g \in m_eventConnect', f.by = g.by PROVE f = g
    <3>1. PICK e \in m_eventConnect : f = New(e) /\ f.by = e.by
      BY <1>4
    <3>2. PICK h \in m_eventConnect : g = New(h) /\ g.by = h.by
      BY <1>4
    <3>3. e = h
      BY <2>2, <3>1, <3>2 DEF Wired, Waits
    <3> QED BY <3>1, <3>2, <3>3
  <2>3. \A f \in m_eventConnect' : f.by \notin Watchers /\ m_refCount[f.by] = 1 /\ player'[f.by] = Nil
    BY <1>4, <2>1
  <2> QED BY <1>1, <1>4, <2>2, <2>3 DEF Waits
<1>7. Lines(conn', player', m_refCount', character')
  <2>1. \A q \in Protocols : IF conn'[q] = "none" THEN player'[q] = Nil /\ m_refCount[q] = 0 ELSE character'[q] \in Names
    <3> SUFFICES ASSUME NEW q \in Protocols
                 PROVE  IF conn'[q] = "none" THEN player'[q] = Nil /\ m_refCount[q] = 0 ELSE character'[q] \in Names
      OBVIOUS
    <3>1. CASE q # p
      BY <1>5, <3>1 DEF Wired, Lines
    <3>2. CASE q = p
      <4>1. CASE m_refCount[p] > 0
        <5>1. conn[p] # "none" /\ conn'[p] = "closed" /\ character'[p] = character[p]
          BY <1>2, <4>1 DEF Wired, Lines
        <5> QED BY <3>2, <5>1 DEF Wired, Lines
      <4>2. CASE ~(m_refCount[p] > 0)
        <5>1. conn'[p] = "none" /\ player'[p] = Nil /\ m_refCount[p] = 0
          BY <1>2, <4>2 DEF Wired, Lines
        <5> QED BY <3>2, <5>1
      <4> QED BY <4>1, <4>2
    <3> QED BY <3>1, <3>2
  <2>2. m_refCount' = m_refCount /\ m_refCount \in [Protocols -> Nat]
    BY <1>1 DEF Wired, Lines
  <2> QED BY <1>5, <2>1, <2>2 DEF Lines
<1>8. Queue(tl, conn', player', m_refCount', m_eventConnect')
  <2>1. \A i \in DOMAIN tl : tl[i].by \in Protocols
    BY TasksOfProtocols
  <2>2. \A i \in DOMAIN tl :
          /\ tl[i].do = "login" => conn'[tl[i].by] \in {"open", "closing"} /\ player'[tl[i].by] = Nil /\ m_refCount'[tl[i].by] = 0
          /\ tl[i].do = "close" => conn'[tl[i].by] = "closing"
          /\ tl[i].do = "connect" => \E e \in m_eventConnect' : e.by = tl[i].by
    <3> SUFFICES ASSUME NEW i \in DOMAIN tl
                 PROVE  /\ tl[i].do = "login" => conn'[tl[i].by] \in {"open", "closing"} /\ player'[tl[i].by] = Nil /\ m_refCount'[tl[i].by] = 0
                        /\ tl[i].do = "close" => conn'[tl[i].by] = "closing"
                        /\ tl[i].do = "connect" => \E e \in m_eventConnect' : e.by = tl[i].by
      OBVIOUS
    <3>1. /\ tl[i].do = "login" => conn[tl[i].by] \in {"open", "closing"} /\ player[tl[i].by] = Nil /\ m_refCount[tl[i].by] = 0
          /\ tl[i].do = "close" => conn[tl[i].by] = "closing"
          /\ tl[i].do = "connect" => \E e \in m_eventConnect : e.by = tl[i].by
      BY DEF Queue
    <3>2. tl[i].by = p => tl[i].do # "login" /\ tl[i].do # "close"
      BY DEF None
    <3>3. tl[i].do = "connect" => \E e \in m_eventConnect' : e.by = tl[i].by
      BY <1>4, <3>1
    <3>4. tl[i].do \in {"login", "close"} => conn'[tl[i].by] = conn[tl[i].by] /\ player'[tl[i].by] = player[tl[i].by]
      BY <1>5, <2>1, <3>2
    <3> QED BY <1>1, <3>1, <3>3, <3>4
  <2> QED BY <2>2, QueueStays
<1> QED BY <1>1, <1>6, <1>7, <1>8 DEF Wired

LEMMA CloseKeepsWired == ASSUME Wired, Shapely, NEW p \in Protocols, closeConnection(p) PROVE Wired'
<1>1. Serving("close", p) /\ releaseProtocol(p) /\ m_taskList' = Rest
  BY DEF closeConnection
<1>2. /\ Queue(Rest, conn, player, m_refCount, m_eventConnect)
      /\ None(Rest, "close", p) /\ None(Rest, "login", p)
  BY <1>1, RestIsQueue
<1> QED BY <1>1, <1>2, ReleaseKeepsWired

LEMMA RetryKeepsWired == ASSUME Wired, Shapely, NEW p \in Protocols, RetryRelease(p) PROVE Wired'
<1>1. Releasable(p) /\ releaseProtocol(p) /\ m_taskList' = m_taskList
  BY DEF RetryRelease
<1>2. conn[p] = "closed"
  BY <1>1 DEF Releasable
<1>3. Queue(m_taskList, conn, player, m_refCount, m_eventConnect)
  BY DEF Wired
<1>4. None(m_taskList, "login", p) /\ None(m_taskList, "close", p)
  BY <1>2, <1>3 DEF Queue, None
<1> QED BY <1>1, <1>3, <1>4, ReleaseKeepsWired

LEMMA AppendKeepsWired ==
  ASSUME Wired, NEW p \in Protocols, SendLogout(p) \/ ConnectIsDue(p) PROVE Wired'
<1>1. UNCHANGED <<cSpectators, conn, player, m_refCount, character, m_eventConnect, down>>
  BY DEF SendLogout, ConnectIsDue, game
<1>2. CASE SendLogout(p)
  <2>1. m_taskList' = Append(m_taskList, Task("logout", p))
    BY <1>2 DEF SendLogout
  <2>2. Queue(m_taskList', conn, player, m_refCount, m_eventConnect)
    BY <2>1, QueueAppend DEF Wired
  <2> QED BY <1>1, <2>2 DEF Wired
<1>3. CASE ConnectIsDue(p)
  <2>1. /\ m_taskList' = Append(m_taskList, Task("connect", p)) /\ ~Contains(m_taskList, Task("connect", p))
        /\ [by |-> p, after |-> Nil] \in m_eventConnect
    BY <1>3 DEF ConnectIsDue
  <2>2. None(m_taskList, "connect", p)
    <3>1. m_taskList \in Seq(Tasks)
      BY DEF Wired, Queue
    <3>2. \A t \in Tasks : t.do = "connect" /\ t.by = p => t = Task("connect", p)
      BY DEF Tasks, Task
    <3>3. \A i \in 1 .. Len(m_taskList) : m_taskList[i] \in Tasks /\ m_taskList[i] # Task("connect", p)
      BY <2>1, <3>1 DEF Contains
    <3> QED BY <3>1, <3>2, <3>3 DEF None
  <2>3. \E e \in m_eventConnect : e.by = p
    BY <2>1
  <2>4. Queue(m_taskList', conn, player, m_refCount, m_eventConnect)
    BY <2>1, <2>2, <2>3, QueueAppend DEF Wired
  <2> QED BY <1>1, <2>4 DEF Wired
<1> QED BY <1>2, <1>3

-----------------------------------------------------------------------------
(* The references of the bodies.                                           *)

Players(pl, b) == {p \in Protocols : pl[p] = b}
Count(bd, rt, pl, b) ==
  Cardinality(Players(pl, b)) + rt[b]
    + (IF bd[b].at = "placed" THEN 1 ELSE 0) + (IF bd[b].listed THEN 1 ELSE 0)
Counted(bd, rt, pl) ==
  \A b \in Bodies : bd[b].refs = Count(bd, rt, pl, b) /\ (bd[b].at = "none" <=> Count(bd, rt, pl, b) = 0)
\* Who is to be checked is in the game and in the vector.
Checked(bd) == \A b \in Bodies : bd[b].checked => bd[b].at = "placed" /\ bd[b].listed

Embodied ==
  /\ releaseThings \in [Bodies -> Nat]
  /\ Counted(body, releaseThings, player)
  /\ Checked(body)
  /\ castAutoList \subseteq Online
  /\ Paired(body, conn, player)

LEMMA PlayersFinite ==
  ASSUME NEW pl, NEW b PROVE IsFiniteSet(Players(pl, b)) /\ Cardinality(Players(pl, b)) \in Nat
<1>1. Players(pl, b) \in SUBSET Protocols
  BY DEF Players
<1> QED BY <1>1, SessionAssumption, FS_Subset, FS_CardinalityType

LEMMA PlayerComes ==
  ASSUME NEW pl, NEW p \in Protocols, NEW b \in Bodies, NEW pl2,
         pl[p] = Nil, pl2[p] = b, \A q \in Protocols \ {p} : pl2[q] = pl[q]
  PROVE  /\ Cardinality(Players(pl2, b)) = Cardinality(Players(pl, b)) + 1
         /\ \A c \in Bodies \ {b} : Players(pl2, c) = Players(pl, c)
<1>1. Nil \notin Bodies
  BY SessionAssumption
<1>2. Players(pl2, b) = Players(pl, b) \cup {p} /\ p \notin Players(pl, b)
  BY <1>1 DEF Players
<1>3. \A c \in Bodies \ {b} : Players(pl2, c) = Players(pl, c)
  BY <1>1 DEF Players
<1>4. IsFiniteSet(Players(pl, b))
  BY PlayersFinite
<1>5. Cardinality(Players(pl, b) \cup {p}) = Cardinality(Players(pl, b)) + 1
  BY <1>2, <1>4, FS_AddElement
<1> QED BY <1>2, <1>3, <1>5

LEMMA PlayerGoes ==
  ASSUME NEW pl, NEW p \in Protocols, NEW pl2,
         pl[p] \in Bodies, pl2[p] = Nil, \A q \in Protocols \ {p} : pl2[q] = pl[q]
  PROVE  /\ Cardinality(Players(pl2, pl[p])) = Cardinality(Players(pl, pl[p])) - 1
         /\ \A c \in Bodies \ {pl[p]} : Players(pl2, c) = Players(pl, c)
<1>1. Nil \notin Bodies
  BY SessionAssumption
<1>2. Players(pl2, pl[p]) = Players(pl, pl[p]) \ {p} /\ p \in Players(pl, pl[p])
  BY <1>1 DEF Players
<1>3. \A c \in Bodies \ {pl[p]} : Players(pl2, c) = Players(pl, c)
  BY <1>1 DEF Players
<1>4. IsFiniteSet(Players(pl, pl[p]))
  BY PlayersFinite
<1>5. Cardinality(Players(pl, pl[p]) \ {p}) = Cardinality(Players(pl, pl[p])) - 1
  BY <1>2, <1>4, FS_RemoveElement
<1> QED BY <1>2, <1>3, <1>5

\* cleanup() deletes what only releaseThings refers to, and nothing else.
LEMMA CleanedCounts ==
  ASSUME NEW bd \in [Bodies -> BodyType], NEW rt \in [Bodies -> Nat], NEW pl, Counted(bd, rt, pl), Checked(bd)
  PROVE  /\ Counted(Cleaned(bd, rt), [b \in Bodies |-> 0], pl)
         /\ Checked(Cleaned(bd, rt))
         /\ \A b \in Bodies : /\ bd[b].at = "placed" => Cleaned(bd, rt)[b].at = "placed"
                              /\ Cleaned(bd, rt)[b].client \in {bd[b].client, Nil}
<1> DEFINE zero == [b \in Bodies |-> 0]
           cl == Cleaned(bd, rt)
<1>1. ASSUME NEW b \in Bodies
      PROVE  /\ cl[b].refs = Count(cl, zero, pl, b) /\ (cl[b].at = "none" <=> Count(cl, zero, pl, b) = 0)
             /\ cl[b].checked => cl[b].at = "placed" /\ cl[b].listed
             /\ bd[b].at = "placed" => cl[b].at = "placed"
             /\ cl[b].client \in {bd[b].client, Nil}
  <2> DEFINE k == Cardinality(Players(pl, b))
             at == IF bd[b].at = "placed" THEN 1 ELSE 0
             li == IF bd[b].listed THEN 1 ELSE 0
  <2>1. k \in Nat /\ rt[b] \in Nat /\ at \in {0, 1} /\ li \in {0, 1}
    BY PlayersFinite
  <2>2. bd[b].refs = k + rt[b] + at + li /\ (bd[b].at = "none" <=> k + rt[b] + at + li = 0)
    BY DEF Counted, Count
  <2>3. bd[b] \in BodyType /\ zero[b] = 0
    OBVIOUS
  <2>4. bd[b].checked => bd[b].at = "placed" /\ bd[b].listed
    BY DEF Checked
  <2>5. CASE rt[b] > 0 /\ bd[b].refs = rt[b]
    <3>1. k + at + li = 0
      <4> HIDE DEF k, at, li
      <4> QED BY <2>1, <2>2, <2>5
    <3>2. k = 0 /\ at = 0 /\ li = 0
      <4> HIDE DEF k, at, li
      <4> QED BY <2>1, <3>1
    <3>3. cl[b] = NoBody /\ bd[b].at # "placed"
      BY <2>5, <3>2 DEF Cleaned
    <3>4. /\ cl[b].at = "none" /\ cl[b].listed = FALSE /\ cl[b].checked = FALSE
          /\ cl[b].refs = 0 /\ cl[b].client = Nil
      BY <3>3 DEF NoBody
    <3>5. Count(cl, zero, pl, b) = 0
      BY <2>3, <3>2, <3>4 DEF Count
    <3> QED BY <3>3, <3>4, <3>5
  <2>6. CASE ~(rt[b] > 0 /\ bd[b].refs = rt[b])
    <3>1. cl[b] = [bd[b] EXCEPT !.refs = @ - rt[b]]
      BY <2>6 DEF Cleaned
    <3>2. /\ cl[b].at = bd[b].at /\ cl[b].listed = bd[b].listed /\ cl[b].checked = bd[b].checked
          /\ cl[b].client = bd[b].client /\ cl[b].refs = bd[b].refs - rt[b]
      BY <2>3, <3>1 DEF BodyType
    <3>3. Count(cl, zero, pl, b) = k + at + li
      <4>1. Count(cl, zero, pl, b) = k + 0 + at + li
        BY <2>3, <3>2 DEF Count
      <4> HIDE DEF k, at, li
      <4> QED BY <2>1, <4>1
    <3>4. cl[b].refs = k + at + li /\ (bd[b].at = "none" <=> k + at + li = 0)
      <4> HIDE DEF k, at, li, cl
      <4>1. bd[b].refs - rt[b] = k + at + li
        BY <2>1, <2>2
      <4>2. k + rt[b] + at + li = 0 => k + at + li = 0
        BY <2>1
      <4>3. k + at + li = 0 => bd[b].refs = rt[b]
        BY <2>1, <2>2
      <4>4. k + at + li = 0 => k + rt[b] + at + li = 0
        BY <2>1, <2>6, <4>3
      <4> QED BY <2>2, <3>2, <4>1, <4>2, <4>4
    <3> QED BY <2>4, <3>2, <3>3, <3>4
  <2> QED BY <2>5, <2>6
<1> QED BY <1>1 DEF Counted, Checked

LEMMA PairedStays ==
  ASSUME NEW bd, NEW cn, NEW pl, Paired(bd, cn, pl), NEW bd2, NEW cn2,
         \A b \in Bodies : bd2[b].client \in {bd[b].client, Nil},
         \A p \in Protocols : cn[p] # "none" => cn2[p] # "none"
  PROVE  Paired(bd2, cn2, pl)
BY DEF Paired

LEMMA CleanupEmbodied ==
  ASSUME NEW bd \in [Bodies -> BodyType], NEW rt \in [Bodies -> Nat], Counted(bd, rt, player), Checked(bd),
         cleanup(bd, rt)
  PROVE  /\ releaseThings' \in [Bodies -> Nat] /\ Counted(body', releaseThings', player) /\ Checked(body')
         /\ \A b \in Bodies : /\ bd[b].at = "placed" => body'[b].at = "placed"
                              /\ body'[b].client \in {bd[b].client, Nil}
<1>1. body' = Cleaned(bd, rt) /\ releaseThings' = [b \in Bodies |-> 0]
  BY DEF cleanup
<1> QED BY <1>1, CleanedCounts

LEMMA RemovedEmbodied ==
  ASSUME Embodied, body \in [Bodies -> BodyType], NEW gone \in SUBSET Online, NEW inCheck \in BOOLEAN,
         Removed(gone, inCheck)
  PROVE  /\ releaseThings' \in [Bodies -> Nat] /\ Counted(body', releaseThings', player) /\ Checked(body')
         /\ castAutoList' \subseteq Online'
         /\ \A b \in Bodies : body'[b].client \in {body[b].client, Nil}
<1> DEFINE bodies == [b \in Bodies |->
                        IF b \in gone THEN [body[b] EXCEPT !.at = "removed", !.checked = FALSE]
                        ELSE body[b]]
           rt == Freed(gone)
<1>1. ASSUME NEW b \in Bodies
      PROVE  /\ body[b] \in BodyType
             /\ [body[b] EXCEPT !.at = "removed", !.checked = FALSE] \in BodyType
             /\ [body[b] EXCEPT !.at = "removed", !.checked = FALSE].at = "removed"
             /\ [body[b] EXCEPT !.at = "removed", !.checked = FALSE].checked = FALSE
             /\ [body[b] EXCEPT !.at = "removed", !.checked = FALSE].listed = body[b].listed
             /\ [body[b] EXCEPT !.at = "removed", !.checked = FALSE].refs = body[b].refs
             /\ [body[b] EXCEPT !.at = "removed", !.checked = FALSE].client = body[b].client
  BY DEF BodyType
<1>0. \A b \in Bodies : /\ releaseThings[b] \in Nat
                       /\ rt[b] = releaseThings[b] + (IF b \in gone THEN 1 ELSE 0)
  BY DEF Freed, Embodied
<1>2. bodies \in [Bodies -> BodyType] /\ rt \in [Bodies -> Nat]
  <2>1. \A b \in Bodies : bodies[b] \in BodyType
    BY <1>1
  <2>2. \A b \in Bodies : rt[b] \in Nat
    <3> HIDE DEF rt
    <3> QED BY <1>0
  <2>3. rt = [b \in Bodies |-> rt[b]] /\ bodies = [b \in Bodies |-> bodies[b]]
    BY DEF Freed
  <2> HIDE DEF rt, bodies
  <2> QED BY <2>1, <2>2, <2>3
<1>3. ASSUME NEW b \in Bodies, b \in gone
      PROVE  /\ bodies[b].at = "removed" /\ bodies[b].checked = FALSE
             /\ bodies[b].listed = body[b].listed /\ bodies[b].refs = body[b].refs
             /\ bodies[b].client = body[b].client
             /\ rt[b] = releaseThings[b] + 1 /\ body[b].at = "placed"
  <2>1. bodies[b] = [body[b] EXCEPT !.at = "removed", !.checked = FALSE]
    BY <1>3
  <2>2. rt[b] = releaseThings[b] + 1 /\ body[b].at = "placed"
    <3> HIDE DEF rt, bodies
    <3> QED BY <1>0, <1>3 DEF Online
  <2> HIDE DEF bodies, rt
  <2> QED BY <1>1, <2>1, <2>2
<1>10. ASSUME NEW b \in Bodies, b \notin gone
       PROVE  bodies[b] = body[b] /\ rt[b] = releaseThings[b]
  <2>1. bodies[b] = body[b]
    BY <1>10
  <2>2. rt[b] = releaseThings[b]
    <3> HIDE DEF rt, bodies
    <3> QED BY <1>0, <1>10
  <2> QED BY <2>1, <2>2
<1>4. IF inCheck THEN cleanup(bodies, rt) ELSE body' = bodies /\ releaseThings' = rt
  BY DEF Removed
<1>5. castAutoList' = castAutoList \ gone
  BY DEF Removed, StillCasting
<1> HIDE DEF bodies, rt
<1>6. Counted(bodies, rt, player)
  <2> SUFFICES ASSUME NEW b \in Bodies
               PROVE  /\ bodies[b].refs = Count(bodies, rt, player, b)
                      /\ (bodies[b].at = "none" <=> Count(bodies, rt, player, b) = 0)
    BY DEF Counted
  <2>1. Cardinality(Players(player, b)) \in Nat /\ releaseThings[b] \in Nat
    BY PlayersFinite DEF Embodied
  <2>2. body[b].refs = Count(body, releaseThings, player, b) /\ (body[b].at = "none" <=> Count(body, releaseThings, player, b) = 0)
    BY DEF Embodied, Counted
  <2>3. CASE b \in gone
    <3>1. Count(body, releaseThings, player, b) =
            Cardinality(Players(player, b)) + releaseThings[b] + 1 + (IF body[b].listed THEN 1 ELSE 0)
      BY <1>3, <2>3 DEF Count
    <3>2. Count(bodies, rt, player, b) =
            Cardinality(Players(player, b)) + (releaseThings[b] + 1) + 0 + (IF body[b].listed THEN 1 ELSE 0)
      BY <1>3, <2>3 DEF Count
    <3>3. (IF body[b].listed THEN 1 ELSE 0) \in Nat
      OBVIOUS
    <3>4. Count(bodies, rt, player, b) = Count(body, releaseThings, player, b) /\ Count(bodies, rt, player, b) # 0
      BY <2>1, <3>1, <3>2, <3>3
    <3> QED BY <1>3, <2>2, <2>3, <3>4
  <2>4. CASE b \notin gone
    BY <1>10, <2>2, <2>4 DEF Count
  <2> QED BY <2>3, <2>4
<1>7. Checked(bodies)
  <2> SUFFICES ASSUME NEW b \in Bodies, bodies[b].checked PROVE bodies[b].at = "placed" /\ bodies[b].listed
    BY DEF Checked
  <2>1. b \notin gone
    BY <1>3
  <2>2. bodies[b] = body[b]
    BY <1>10, <2>1
  <2> QED BY <2>2 DEF Checked, Embodied
<1>8. CASE inCheck
  <2>1. cleanup(bodies, rt)
    BY <1>4, <1>8
  <2>2. /\ releaseThings' \in [Bodies -> Nat] /\ Counted(body', releaseThings', player) /\ Checked(body')
        /\ \A b \in Bodies : /\ bodies[b].at = "placed" => body'[b].at = "placed"
                             /\ body'[b].client \in {bodies[b].client, Nil}
    BY <1>2, <1>6, <1>7, <2>1, CleanupEmbodied
  <2>3. castAutoList' \subseteq Online'
    BY <1>5, <1>10, <2>2 DEF Embodied, Online
  <2>4. \A b \in Bodies : bodies[b].client = body[b].client
    BY <1>3, <1>10
  <2> QED BY <2>2, <2>3, <2>4
<1>9. CASE ~inCheck
  <2>1. body' = bodies /\ releaseThings' = rt
    BY <1>4, <1>9
  <2>2. castAutoList' \subseteq Online'
    BY <1>5, <1>10, <2>1 DEF Embodied, Online
  <2>3. \A b \in Bodies : bodies[b].client = body[b].client
    BY <1>3, <1>10
  <2> QED BY <1>2, <1>6, <1>7, <2>1, <2>2, <2>3
<1> QED BY <1>8, <1>9

-----------------------------------------------------------------------------
(* What each action does to the bodies.                                    *)

\* None comes or goes when connections are closed.
LEMMA ClosingKeepsAll ==
  ASSUME NEW ps, NEW tl, Closing(ps, tl) PROVE \A p \in Protocols : conn[p] # "none" => conn'[p] # "none"
BY DEF Closing

LEMMA EmbodiedAsItWas ==
  ASSUME Embodied, UNCHANGED <<body, releaseThings, castAutoList, player>>,
         \A p \in Protocols : conn[p] # "none" => conn'[p] # "none"
  PROVE  Embodied'
BY DEF Embodied, Counted, Count, Players, Checked, Online, Paired

\* One body changes, and who plays it.
LEMMA OneCounted ==
  ASSUME NEW bd \in [Bodies -> BodyType], NEW rt, NEW pl, Counted(bd, rt, pl),
         NEW b \in Bodies, NEW r, NEW bd2, bd2[b] = r, \A c \in Bodies \ {b} : bd2[c] = bd[c],
         NEW rt2, NEW pl2,
         \A c \in Bodies \ {b} : Players(pl2, c) = Players(pl, c) /\ rt2[c] = rt[c],
         r.refs = Cardinality(Players(pl2, b)) + rt2[b]
                    + (IF r.at = "placed" THEN 1 ELSE 0) + (IF r.listed THEN 1 ELSE 0),
         r.at = "none" <=> r.refs = 0
  PROVE  Counted(bd2, rt2, pl2)
<1> SUFFICES ASSUME NEW c \in Bodies
             PROVE  /\ bd2[c].refs = Count(bd2, rt2, pl2, c)
                    /\ (bd2[c].at = "none" <=> Count(bd2, rt2, pl2, c) = 0)
  BY DEF Counted
<1>1. CASE c = b
  <2>1. bd2[c] = r
    BY <1>1
  <2> QED BY <1>1, <2>1 DEF Count
<1>2. CASE c # b
  <2>1. bd2[c] = bd[c] /\ Players(pl2, c) = Players(pl, c) /\ rt2[c] = rt[c]
    BY <1>2
  <2>2. bd[c].refs = Count(bd, rt, pl, c) /\ (bd[c].at = "none" <=> Count(bd, rt, pl, c) = 0)
    BY DEF Counted
  <2> QED BY <2>1, <2>2 DEF Count
<1> QED BY <1>1, <1>2

LEMMA AttachedEmbodied ==
  ASSUME Embodied, Shapely, Wired, NEW p \in Protocols \ Watchers, player[p] = Nil, conn[p] # "none",
         NEW b \in Online, body[b].client = Nil, body' = Attached(p, b),
         player'[p] = b, \A q \in Protocols \ {p} : player'[q] = player[q],
         UNCHANGED <<conn, releaseThings, castAutoList>>
  PROVE  Embodied'
<1> DEFINE r == [body[b] EXCEPT !.client = p, !.refs = @ + 1, !.isConnecting = FALSE]
<1>1. body \in [Bodies -> BodyType] /\ b \in Bodies /\ body[b] \in BodyType /\ body[b].at = "placed"
  BY DEF Shapely, Online
<1>2. /\ r.client = p /\ r.refs = body[b].refs + 1 /\ r.at = "placed"
      /\ r.listed = body[b].listed /\ r.checked = body[b].checked
  BY <1>1 DEF BodyType
<1>3. body'[b] = r /\ \A c \in Bodies \ {b} : body'[c] = body[c]
  BY <1>1 DEF Attached
<1> HIDE DEF r
<1>4. player \in [Protocols -> Bodies \cup {Nil}]
  BY DEF Wired, Lines
<1>5. /\ Cardinality(Players(player', b)) = Cardinality(Players(player, b)) + 1
      /\ \A c \in Bodies \ {b} : Players(player', c) = Players(player, c)
  BY <1>1, PlayerComes
<1>6. Counted(body', releaseThings', player')
  <2> DEFINE k == Cardinality(Players(player, b))
             li == IF body[b].listed THEN 1 ELSE 0
  <2>1. k \in Nat /\ releaseThings[b] \in Nat /\ li \in Nat
    BY <1>1, PlayersFinite DEF Embodied
  <2>2. body[b].refs = k + releaseThings[b] + 1 + li
    BY <1>1 DEF Embodied, Counted, Count
  <2>3. r.refs = Cardinality(Players(player', b)) + releaseThings'[b]
                    + (IF r.at = "placed" THEN 1 ELSE 0) + (IF r.listed THEN 1 ELSE 0)
    <3>1. Cardinality(Players(player', b)) + releaseThings'[b]
                    + (IF r.at = "placed" THEN 1 ELSE 0) + (IF r.listed THEN 1 ELSE 0)
           = (k + 1) + releaseThings[b] + 1 + li
      BY <1>2, <1>5
    <3> HIDE DEF k, li
    <3> QED BY <1>2, <2>1, <2>2, <3>1
  <2>4. r.refs # 0 /\ r.at # "none"
    <3> HIDE DEF k, li
    <3> QED BY <1>2, <2>1, <2>2
  <2>5. \A c \in Bodies \ {b} : Players(player', c) = Players(player, c) /\ releaseThings'[c] = releaseThings[c]
    BY <1>5
  <2>6. Counted(body, releaseThings, player)
    BY DEF Embodied
  <2>7. r.at = "none" <=> r.refs = 0
    BY <2>4
  <2> QED BY <1>1, <1>3, <2>3, <2>5, <2>6, <2>7, OneCounted
<1>7. Checked(body')
  BY <1>1, <1>2, <1>3 DEF Embodied, Checked
<1>8. castAutoList' \subseteq Online'
  BY <1>1, <1>2, <1>3 DEF Embodied, Online
<1>9. Paired(body', conn', player')
  <2> SUFFICES ASSUME NEW c \in Bodies, body'[c].client # Nil
               PROVE  /\ body'[c].client \in Protocols /\ conn'[body'[c].client] # "none"
                      /\ player'[body'[c].client] = c /\ body'[c].client \notin Watchers
    BY DEF Paired
  <2>1. CASE c = b
    BY <1>1, <1>2, <1>3, <1>4, <2>1
  <2>2. CASE c # b
    <3>1. body'[c] = body[c]
      BY <1>1, <1>3, <2>2
    <3>2. /\ body[c].client \in Protocols /\ conn[body[c].client] # "none"
          /\ player[body[c].client] = c /\ body[c].client \notin Watchers
      BY <3>1 DEF Embodied, Paired
    <3>3. Nil \notin Bodies
      BY SessionAssumption
    <3> QED BY <1>4, <3>1, <3>2, <3>3
  <2> QED BY <2>1, <2>2
<1> QED BY <1>6, <1>7, <1>8, <1>9 DEF Embodied

LEMMA LoginBackEmbodied ==
  ASSUME Embodied, Shapely, Wired, NEW p \in Protocols, NEW b \in Bodies, LoginBack(p, b) PROVE Embodied'
<1>1. Serving("login", p) /\ p \notin Watchers /\ b \in Online /\ body[b].client = Nil
      /\ body' = Attached(p, b) /\ player' = [player EXCEPT ![p] = b]
      /\ UNCHANGED <<conn, releaseThings, castAutoList>>
  BY DEF LoginBack, getPlayersByName
<1>2. player[p] = Nil /\ conn[p] # "none"
  BY <1>1, RestIsQueue
<1>3. player'[p] = b /\ \A q \in Protocols \ {p} : player'[q] = player[q]
  BY <1>1 DEF Wired, Lines
<1> QED BY <1>1, <1>2, <1>3, AttachedEmbodied

LEMMA ConnectEmbodied ==
  ASSUME Embodied, Shapely, Wired, NEW p \in Protocols, Connect(p) PROVE Embodied'
<1>1. /\ UNCHANGED <<releaseThings, castAutoList>>
      /\ \/ Closing(<<p>>, Rest) /\ UNCHANGED <<body, player>>
         \/ \E b \in getPlayersByName(character[p]) :
              /\ body[b].client = Nil /\ body' = Attached(p, b)
              /\ player' = [player EXCEPT ![p] = b] /\ UNCHANGED conn
  BY DEF Connect
<1>2. p \notin Watchers /\ player[p] = Nil /\ conn[p] # "none"
  BY ConnectKeepsWired
<1>3. CASE Closing(<<p>>, Rest) /\ UNCHANGED <<body, player>>
  BY <1>1, <1>3, ClosingKeepsAll, EmbodiedAsItWas
<1>4. ASSUME NEW b \in getPlayersByName(character[p]), body[b].client = Nil, body' = Attached(p, b),
             player' = [player EXCEPT ![p] = b], UNCHANGED conn
      PROVE  Embodied'
  <2>1. player'[p] = b /\ \A q \in Protocols \ {p} : player'[q] = player[q]
    BY <1>4 DEF Wired, Lines
  <2>2. b \in Online
    BY DEF getPlayersByName
  <2> QED BY <1>1, <1>2, <1>4, <2>1, <2>2, AttachedEmbodied
<1> QED BY <1>1, <1>3, <1>4

\* Nobody's client is one who plays nobody.
LEMMA PairedWhenOneComes ==
  ASSUME NEW bd, NEW cn, NEW pl, Paired(bd, cn, pl), NEW p \in Protocols, pl[p] = Nil,
         NEW pl2, \A q \in Protocols \ {p} : pl2[q] = pl[q]
  PROVE  Paired(bd, cn, pl2) /\ \A b \in Bodies : bd[b].client # p
<1>1. Nil \notin Bodies /\ Nil \notin Protocols
  BY SessionAssumption
<1> QED BY <1>1 DEF Paired

LEMMA LoginNewEmbodied ==
  ASSUME Embodied, Shapely, Wired, NEW p \in Protocols, NEW banned \in BOOLEAN, NEW misplaced \in BOOLEAN,
         LoginNew(p, banned, misplaced)
  PROVE  Embodied'
<1> DEFINE b == CHOOSE c \in Bodies : body[c].at = "none"
           placed == /\ ~banned /\ WorldOpenFor(character[p]) /\ ~AccountInUse(character[p])
                     /\ LetsIn(character[p], Cardinality(Online)) /\ ~misplaced
           r == [who |-> character[p], at |-> IF placed THEN "placed" ELSE "made",
                 refs |-> IF placed THEN 3 ELSE 1, client |-> p, isConnecting |-> FALSE,
                 checked |-> placed, listed |-> placed]
<1>1. b \in Bodies /\ body[b].at = "none" /\ p \notin Watchers /\ Serving("login", p)
  BY DEF LoginNew
<1>2. /\ body' = [body EXCEPT ![b] = r] /\ player' = [player EXCEPT ![p] = b]
      /\ UNCHANGED <<releaseThings, castAutoList>>
      /\ \E ps : Closing(ps, Rest)
  BY DEF LoginNew
<1>3. /\ placed => r.at = "placed" /\ r.refs = 3 /\ r.listed /\ r.checked
      /\ ~placed => r.at = "made" /\ r.refs = 1 /\ ~r.listed /\ ~r.checked
      /\ r.client = p
  <2> HIDE DEF placed
  <2> QED OBVIOUS
<1> HIDE DEF b, placed, r
<1>4. /\ body'[b] = r /\ \A c \in Bodies \ {b} : body'[c] = body[c]
      /\ player'[p] = b /\ \A q \in Protocols \ {p} : player'[q] = player[q]
      /\ player[p] = Nil /\ conn[p] # "none"
  <2>1. body \in [Bodies -> BodyType] /\ player \in [Protocols -> Bodies \cup {Nil}]
    BY DEF Shapely, Wired, Lines
  <2>2. player[p] = Nil /\ conn[p] # "none"
    BY <1>1, RestIsQueue
  <2> QED BY <1>1, <1>2, <2>1, <2>2
<1>5. UNCHANGED <<releaseThings, castAutoList>> /\ \A q \in Protocols : conn[q] # "none" => conn'[q] # "none"
  BY <1>2, ClosingKeepsAll
<1>6. Cardinality(Players(player, b)) = 0 /\ releaseThings[b] = 0
  <2> DEFINE k == Cardinality(Players(player, b))
             at == IF body[b].at = "placed" THEN 1 ELSE 0
             li == IF body[b].listed THEN 1 ELSE 0
  <2>1. k \in Nat /\ releaseThings[b] \in Nat /\ at \in Nat /\ li \in Nat
    BY <1>1, PlayersFinite DEF Embodied
  <2>2. k + releaseThings[b] + at + li = 0
    BY <1>1 DEF Embodied, Counted, Count
  <2> HIDE DEF k, at, li
  <2>3. k = 0 /\ releaseThings[b] = 0
    BY <2>1, <2>2
  <2> QED BY <2>3 DEF k
<1> HIDE <1>2
<1>7. Counted(body', releaseThings', player')
  <2>1. /\ Cardinality(Players(player', b)) = 1
        /\ \A c \in Bodies \ {b} : Players(player', c) = Players(player, c)
    BY <1>1, <1>4, <1>6, PlayerComes
  <2>2. r.refs = Cardinality(Players(player', b)) + releaseThings'[b]
                    + (IF r.at = "placed" THEN 1 ELSE 0) + (IF r.listed THEN 1 ELSE 0)
    BY <1>3, <1>5, <1>6, <2>1
  <2>3. r.at = "none" <=> r.refs = 0
    BY <1>3
  <2>4. \A c \in Bodies \ {b} : Players(player', c) = Players(player, c) /\ releaseThings'[c] = releaseThings[c]
    BY <1>5, <2>1
  <2>5. body \in [Bodies -> BodyType] /\ Counted(body, releaseThings, player)
    BY DEF Shapely, Embodied
  <2> QED BY <1>1, <1>4, <2>2, <2>3, <2>4, <2>5, OneCounted
<1>8. Checked(body')
  BY <1>3, <1>4 DEF Embodied, Checked
<1>9. castAutoList' \subseteq Online'
  BY <1>1, <1>4, <1>5 DEF Embodied, Online
<1>10. Paired(body', conn', player')
  <2>1. Paired(body, conn, player') /\ \A c \in Bodies : body[c].client # p
    BY <1>4, PairedWhenOneComes DEF Embodied
  <2> QED BY <1>1, <1>3, <1>4, <1>5, <2>1 DEF Paired
<1> QED BY <1>5, <1>7, <1>8, <1>9, <1>10 DEF Embodied

\* The body that is taken over only waits for it.
LEMMA TakesOverEmbodied ==
  ASSUME Embodied, Shapely, NEW p \in Protocols, NEW b \in Bodies, LoginTakesOver(p, b) PROVE Embodied'
<1> DEFINE r == [body[b] EXCEPT !.isConnecting = TRUE]
<1>1. body \in [Bodies -> BodyType] /\ body[b] \in BodyType
  BY DEF Shapely
<1>2. /\ r.at = body[b].at /\ r.refs = body[b].refs /\ r.client = body[b].client
      /\ r.listed = body[b].listed /\ r.checked = body[b].checked
  BY <1>1 DEF BodyType
<1>3. body' = [body EXCEPT ![b] = r] /\ UNCHANGED <<releaseThings, castAutoList, player>>
      /\ \E ps : Closing(ps, Rest)
  BY <1>1 DEF LoginTakesOver
<1> HIDE DEF r
<1>4. \A c \in Bodies : /\ body'[c].at = body[c].at /\ body'[c].refs = body[c].refs
                        /\ body'[c].client = body[c].client
                        /\ body'[c].listed = body[c].listed /\ body'[c].checked = body[c].checked
  BY <1>1, <1>2, <1>3
<1>5. \A q \in Protocols : conn[q] # "none" => conn'[q] # "none"
  BY <1>3, ClosingKeepsAll
<1>6. Counted(body', releaseThings', player') /\ releaseThings' \in [Bodies -> Nat]
  BY <1>3, <1>4 DEF Embodied, Counted, Count
<1>7. Checked(body') /\ castAutoList' \subseteq Online'
  BY <1>3, <1>4 DEF Embodied, Checked, Online
<1>8. Paired(body', conn', player')
  BY <1>3, <1>4, <1>5 DEF Embodied, Paired
<1> QED BY <1>6, <1>7, <1>8 DEF Embodied

LEMMA LoginCastEmbodied ==
  ASSUME Embodied, Shapely, Wired, NEW p \in Protocols, NEW b \in Bodies, LoginCast(p, b) PROVE Embodied'
<1> DEFINE r == [body[b] EXCEPT !.refs = @ + 1]
<1>1. body \in [Bodies -> BodyType] /\ body[b] \in BodyType /\ body[b].refs \in Int
  BY DEF Shapely, BodyType
<1>2. /\ r.at = body[b].at /\ r.refs = body[b].refs + 1 /\ r.client = body[b].client
      /\ r.listed = body[b].listed /\ r.checked = body[b].checked
  BY <1>1 DEF BodyType
<1>3. /\ Serving("login", p) /\ UNCHANGED <<releaseThings, castAutoList>> /\ body[b].at = "placed"
      /\ \/ Closing(<<p>>, Rest) /\ UNCHANGED <<body, player>>
         \/ body' = [body EXCEPT ![b] = r] /\ player' = [player EXCEPT ![p] = b] /\ UNCHANGED conn
  BY <1>1 DEF LoginCast, getPlayersByName, Online
<1> HIDE DEF r
<1>4. player[p] = Nil
  BY <1>3, RestIsQueue
<1>5. CASE Closing(<<p>>, Rest) /\ UNCHANGED <<body, player>>
  BY <1>3, <1>5, ClosingKeepsAll, EmbodiedAsItWas
<1>6. ASSUME body'[b] = r, \A c \in Bodies \ {b} : body'[c] = body[c],
             player'[p] = b, \A q \in Protocols \ {p} : player'[q] = player[q], UNCHANGED conn
      PROVE  Embodied'
  <2>1. UNCHANGED <<releaseThings, castAutoList>> /\ body[b].at = "placed"
    BY <1>3
  <2> HIDE <1>3
  <2>2. /\ Cardinality(Players(player', b)) = Cardinality(Players(player, b)) + 1
        /\ \A c \in Bodies \ {b} : Players(player', c) = Players(player, c)
    BY <1>4, <1>6, PlayerComes
  <2>3. Counted(body', releaseThings', player')
    <3> DEFINE k == Cardinality(Players(player, b))
               li == IF body[b].listed THEN 1 ELSE 0
    <3>1. k \in Nat /\ releaseThings[b] \in Nat /\ li \in Nat
      BY PlayersFinite DEF Embodied
    <3>2. body[b].refs = k + releaseThings[b] + 1 + li
      BY <2>1 DEF Embodied, Counted, Count
    <3>3. r.refs = Cardinality(Players(player', b)) + releaseThings'[b]
                    + (IF r.at = "placed" THEN 1 ELSE 0) + (IF r.listed THEN 1 ELSE 0)
      <4>1. Cardinality(Players(player', b)) + releaseThings'[b]
                    + (IF r.at = "placed" THEN 1 ELSE 0) + (IF r.listed THEN 1 ELSE 0)
             = (k + 1) + releaseThings[b] + 1 + li
        BY <1>2, <2>1, <2>2
      <4> HIDE DEF k, li
      <4> QED BY <1>2, <3>1, <3>2, <4>1
    <3>4. r.at = "none" <=> r.refs = 0
      <4> HIDE DEF k, li
      <4> QED BY <1>2, <2>1, <3>1, <3>2
    <3>5. \A c \in Bodies \ {b} : Players(player', c) = Players(player, c) /\ releaseThings'[c] = releaseThings[c]
      BY <2>1, <2>2
    <3>6. Counted(body, releaseThings, player)
      BY DEF Embodied
    <3> QED BY <1>1, <1>6, <3>3, <3>4, <3>5, <3>6, OneCounted
  <2>4. Checked(body') /\ castAutoList' \subseteq Online'
    BY <1>2, <1>6, <2>1 DEF Embodied, Checked, Online
  <2>5. Paired(body', conn', player')
    <3>1. Paired(body, conn, player')
      BY <1>4, <1>6, PairedWhenOneComes DEF Embodied
    <3>2. \A c \in Bodies : body'[c].client = body[c].client
      BY <1>2, <1>6
    <3> QED BY <1>6, <3>1, <3>2 DEF Paired
  <2> QED BY <2>1, <2>3, <2>4, <2>5 DEF Embodied
<1>7. CASE body' = [body EXCEPT ![b] = r] /\ player' = [player EXCEPT ![p] = b] /\ UNCHANGED conn
  <2>1. player \in [Protocols -> Bodies \cup {Nil}]
    BY DEF Wired, Lines
  <2>2. /\ body'[b] = r /\ \A c \in Bodies \ {b} : body'[c] = body[c]
        /\ player'[p] = b /\ \A q \in Protocols \ {p} : player'[q] = player[q]
    BY <1>1, <1>7, <2>1
  <2> QED BY <1>6, <1>7, <2>2
<1> QED BY <1>3, <1>5, <1>7

LEMMA HangEmbodied == ASSUME Embodied, NEW bs, Hang(bs) PROVE Embodied'
<1>1. UNCHANGED <<body, releaseThings, castAutoList, player, conn>>
  BY DEF Hang, game, protocols
<1> QED BY <1>1, EmbodiedAsItWas

LEMMA KickCloses ==
  ASSUME NEW bs, NEW ps, NEW tl, KickAndClose(bs, ps, tl) PROVE \A p \in Protocols : conn[p] # "none" => conn'[p] # "none"
<1>1. \E qs : Closing(qs, tl)
  BY DEF KickAndClose
<1> QED BY <1>1, ClosingKeepsAll

\* Bodies leave the game and their clients are disconnected.
LEMMA LeavingEmbodied ==
  ASSUME Embodied, Shapely, NEW gone \in SUBSET Online, NEW inCheck \in BOOLEAN, Removed(gone, inCheck),
         NEW bs, NEW ps, NEW tl, KickAndClose(bs, ps, tl), UNCHANGED player
  PROVE  Embodied'
<1>1. /\ releaseThings' \in [Bodies -> Nat] /\ Counted(body', releaseThings', player) /\ Checked(body')
      /\ castAutoList' \subseteq Online'
      /\ \A b \in Bodies : body'[b].client \in {body[b].client, Nil}
  BY RemovedEmbodied DEF Shapely
<1>2. \A p \in Protocols : conn[p] # "none" => conn'[p] # "none"
  BY KickCloses
<1>3. Paired(body', conn', player)
  BY <1>1, <1>2, PairedStays DEF Embodied
<1> QED BY <1>1, <1>3 DEF Embodied

LEMMA KickEmbodied ==
  ASSUME Embodied, Shapely, NEW gone \in SUBSET Online, NEW s, NEW inCheck \in BOOLEAN, Kick(gone, s, inCheck)
  PROVE  Embodied'
<1>1. \/ \E bs : Hang(bs)
      \/ /\ \E bs, ps : KickAndClose(bs, ps, m_taskList)
         /\ Removed(gone, inCheck) /\ UNCHANGED player
  BY DEF Kick
<1> QED BY <1>1, HangEmbodied, LeavingEmbodied

LEMMA LogoutEmbodied == ASSUME Embodied, Shapely, NEW p \in Protocols, Logout(p) PROVE Embodied'
<1>1. CASE \E bs : Hang(bs)
  BY <1>1, HangEmbodied
<1>2. CASE UNCHANGED <<game, conn, player>>
  BY <1>2, EmbodiedAsItWas DEF game
<1>3. CASE /\ KickAndClose(<<player[p]>>, <<p>>, Rest) /\ Removed({player[p]} \cap Online, FALSE)
           /\ UNCHANGED player
  <2>1. {player[p]} \cap Online \in SUBSET Online /\ FALSE \in BOOLEAN
    OBVIOUS
  <2> QED BY <1>3, <2>1, LeavingEmbodied
<1> QED BY <1>1, <1>2, <1>3 DEF Logout

LEMMA DieEmbodied == ASSUME Embodied, Shapely, NEW b \in Bodies, Die(b) PROVE Embodied'
<1>1. {b} \in SUBSET Online
  BY DEF Die, Embodied, Checked, Online
<1>2. CASE Hang(<<b>>)
  BY <1>2, HangEmbodied
<1>3. CASE KickAndClose(<<b>>, <<>>, m_taskList) /\ Removed({b}, TRUE) /\ UNCHANGED player
  <2>1. TRUE \in BOOLEAN
    OBVIOUS
  <2> QED BY <1>1, <1>3, <2>1, LeavingEmbodied
<1> QED BY <1>2, <1>3 DEF Die

LEMMA KicksEmbodied ==
  ASSUME Embodied, Shapely, NEW b \in Bodies, kickPlayer(b) \/ Timeout(b) PROVE Embodied'
<1>1. {b} \in SUBSET Online /\ \E inCheck \in BOOLEAN : Kick({b}, gameState, inCheck)
  BY DEF kickPlayer, Timeout, IsCheckedOn, Embodied, Checked, Online
<1> QED BY <1>1, KickEmbodied

LEMMA SetStateEmbodied ==
  ASSUME Embodied, Shapely, NEW s, setGameState(s) PROVE Embodied'
<1> DEFINE gone == IF s = "closed" THEN Unwelcome ELSE {}
<1>1. gone \in SUBSET Online
  BY DEF Unwelcome
<1>2. Kick(gone, s, FALSE) /\ FALSE \in BOOLEAN
  BY DEF setGameState
<1> HIDE DEF gone
<1> QED BY <1>1, <1>2, KickEmbodied

\* Viewers are dropped: no body changes.
LEMMA ViewersEmbodied ==
  ASSUME Embodied, NEW p \in Protocols, LogoutCast(p) \/ kickCastViewer(p) PROVE Embodied'
<1>1. UNCHANGED <<body, releaseThings, castAutoList, player>>
      /\ (UNCHANGED conn \/ \E ps, tl : Closing(ps, tl))
  BY DEF LogoutCast, kickCastViewer
<1> QED BY <1>1, ClosingKeepsAll, EmbodiedAsItWas

LEMMA CastEmbodied ==
  ASSUME Embodied, NEW b \in Bodies, StartCast(b) \/ StopCast(b) PROVE Embodied'
<1>1. CASE \E bs : Hang(bs)
  BY <1>1, HangEmbodied
<1>2. CASE /\ UNCHANGED <<body, releaseThings, player>> /\ castAutoList' \subseteq castAutoList \cup Online
           /\ (UNCHANGED conn \/ \E bs, ps, tl : KickAndClose(bs, ps, tl))
  <2>1. \A p \in Protocols : conn[p] # "none" => conn'[p] # "none"
    BY <1>2, KickCloses
  <2> QED BY <1>2, <2>1 DEF Embodied, Counted, Count, Players, Checked, Online, Paired
<1> QED BY <1>1, <1>2 DEF StartCast, StopCast, protocols

LEMMA CheckNobodyEmbodied == ASSUME Embodied, Shapely, CheckNobody PROVE Embodied'
<1>1. cleanup(body, releaseThings) /\ UNCHANGED <<castAutoList, conn, player>>
  BY DEF CheckNobody, protocols
<1>2. /\ releaseThings' \in [Bodies -> Nat] /\ Counted(body', releaseThings', player) /\ Checked(body')
      /\ \A b \in Bodies : /\ body[b].at = "placed" => body'[b].at = "placed"
                           /\ body'[b].client \in {body[b].client, Nil}
  BY <1>1, CleanupEmbodied DEF Embodied, Shapely
<1>3. castAutoList' \subseteq Online'
  BY <1>1, <1>2 DEF Embodied, Online
<1>4. Paired(body', conn', player)
  BY <1>1, <1>2, PairedStays DEF Embodied
<1> QED BY <1>1, <1>2, <1>3, <1>4 DEF Embodied

\* The check vector gives back its reference.
LEMMA CheckRemovedEmbodied == ASSUME Embodied, Shapely, NEW b \in Bodies, CheckRemoved(b) PROVE Embodied'
<1> DEFINE r == [body[b] EXCEPT !.listed = FALSE]
           bd == [body EXCEPT ![b] = r]
           rt == Freed({b})
<1>1. body \in [Bodies -> BodyType] /\ body[b] \in BodyType /\ releaseThings \in [Bodies -> Nat]
  BY DEF Shapely, Embodied
<1>2. /\ r \in BodyType /\ r.at = body[b].at /\ r.refs = body[b].refs /\ r.client = body[b].client
      /\ r.listed = FALSE /\ r.checked = body[b].checked
  BY <1>1 DEF BodyType
<1>3. body[b].listed /\ ~body[b].checked /\ UNCHANGED <<castAutoList, conn, player>>
  BY DEF CheckRemoved, protocols
<1>4. cleanup(bd, rt)
  BY <1>1 DEF CheckRemoved
<1>5. \A c \in Bodies : rt[c] = releaseThings[c] + (IF c = b THEN 1 ELSE 0)
  BY DEF Freed
<1>6. rt \in [Bodies -> Nat]
  <2>1. \A c \in Bodies : releaseThings[c] + (IF c = b THEN 1 ELSE 0) \in Nat
    BY <1>1
  <2> QED BY <2>1 DEF Freed
<1>7. bd[b] = r /\ bd \in [Bodies -> BodyType] /\ \A c \in Bodies \ {b} : bd[c] = body[c]
  <2> HIDE DEF r
  <2> QED BY <1>1, <1>2
<1> HIDE DEF r, bd, rt
<1>8. Counted(bd, rt, player)
  <2> DEFINE k == Cardinality(Players(player, b))
             at == IF body[b].at = "placed" THEN 1 ELSE 0
  <2>1. k \in Nat /\ releaseThings[b] \in Nat /\ at \in Nat
    BY <1>1, PlayersFinite
  <2>2. body[b].refs = k + releaseThings[b] + at + 1 /\ body[b].at # "none"
    <3>1. body[b].refs = k + releaseThings[b] + at + 1
      BY <1>3 DEF Embodied, Counted, Count
    <3>2. body[b].at = "none" <=> k + releaseThings[b] + at + 1 = 0
      BY <1>3 DEF Embodied, Counted, Count
    <3> HIDE DEF k, at
    <3> QED BY <2>1, <3>1, <3>2
  <2>3. r.refs = Cardinality(Players(player, b)) + rt[b]
                    + (IF r.at = "placed" THEN 1 ELSE 0) + (IF r.listed THEN 1 ELSE 0)
    <3>1. Cardinality(Players(player, b)) + rt[b]
                    + (IF r.at = "placed" THEN 1 ELSE 0) + (IF r.listed THEN 1 ELSE 0)
           = k + (releaseThings[b] + 1) + at + 0
      BY <1>2, <1>5
    <3> HIDE DEF k, at
    <3> QED BY <1>2, <2>1, <2>2, <3>1
  <2>4. r.at = "none" <=> r.refs = 0
    <3> HIDE DEF k, at
    <3> QED BY <1>2, <2>1, <2>2
  <2>5. \A c \in Bodies \ {b} : Players(player, c) = Players(player, c) /\ rt[c] = releaseThings[c]
    <3>1. \A c \in Bodies : releaseThings[c] \in Nat
      BY <1>1
    <3> QED BY <1>5, <3>1
  <2>6. Counted(body, releaseThings, player)
    BY DEF Embodied
  <2> QED BY <1>1, <1>7, <2>3, <2>4, <2>5, <2>6, OneCounted
<1>9. Checked(bd)
  BY <1>2, <1>3, <1>7 DEF Embodied, Checked
<1>10. /\ releaseThings' \in [Bodies -> Nat] /\ Counted(body', releaseThings', player) /\ Checked(body')
       /\ \A c \in Bodies : /\ bd[c].at = "placed" => body'[c].at = "placed"
                            /\ body'[c].client \in {bd[c].client, Nil}
  BY <1>4, <1>6, <1>7, <1>8, <1>9, CleanupEmbodied
<1>11. \A c \in Bodies : bd[c].at = body[c].at /\ bd[c].client = body[c].client
  BY <1>2, <1>7
<1>12. castAutoList' \subseteq Online'
  BY <1>3, <1>10, <1>11 DEF Embodied, Online
<1>13. Paired(body', conn', player)
  <2>1. \A c \in Bodies : body'[c].client \in {body[c].client, Nil}
    BY <1>10, <1>11
  <2>2. \A p \in Protocols : conn[p] # "none" => conn'[p] # "none"
    BY <1>3
  <2> QED BY <2>1, <2>2, PairedStays DEF Embodied
<1> QED BY <1>3, <1>10, <1>12, <1>13 DEF Embodied

\* The protocol's reference goes through releaseThings; nobody has it for a client then.
LEMMA ReleaseEmbodied ==
  ASSUME Embodied, Shapely, Wired, NEW p \in Protocols, releaseProtocol(p) PROVE Embodied'
<1>1. body \in [Bodies -> BodyType] /\ player \in [Protocols -> Bodies \cup {Nil}] /\ Nil \notin Bodies
      /\ releaseThings \in [Bodies -> Nat] /\ conn \in [Protocols -> {"none", "open", "closing", "closed"}]
  BY SessionAssumption DEF Shapely, Wired, Lines, Embodied
<1>2. \A c \in Bodies : /\ [body[c] EXCEPT !.client = Nil].at = body[c].at
                        /\ [body[c] EXCEPT !.client = Nil].refs = body[c].refs
                        /\ [body[c] EXCEPT !.client = Nil].listed = body[c].listed
                        /\ [body[c] EXCEPT !.client = Nil].checked = body[c].checked
                        /\ [body[c] EXCEPT !.client = Nil].client = Nil
  BY <1>1 DEF BodyType
<1>3. castAutoList' = castAutoList
      /\ body' = [c \in Bodies |-> IF c = player[p] /\ body[c].client = p
                                   THEN [body[c] EXCEPT !.client = Nil] ELSE body[c]]
  BY DEF releaseProtocol, LetGo
<1>4. \A c \in Bodies : /\ body'[c].at = body[c].at /\ body'[c].refs = body[c].refs
                        /\ body'[c].listed = body[c].listed /\ body'[c].checked = body[c].checked
                        /\ body'[c].client = body[c].client \/ body'[c].client = Nil
                        /\ c = player[p] => body'[c].client # p
  <2>1. Nil # p
    BY SessionAssumption
  <2> QED BY <1>2, <1>3, <2>1
<1>5. \A c \in Bodies : body'[c].client # p
  <2>1. \A c \in Bodies : body[c].client = p => player[p] = c
    BY SessionAssumption DEF Embodied, Paired
  <2>2. Nil # p
    BY SessionAssumption
  <2> QED BY <1>4, <2>1, <2>2
<1> HIDE <1>3
<1>6. Checked(body') /\ castAutoList' \subseteq Online'
  BY <1>3, <1>4 DEF Embodied, Checked, Online
<1>7. CASE m_refCount[p] > 0
  <2>1. conn' = [conn EXCEPT ![p] = "closed"] /\ UNCHANGED <<releaseThings, player>>
    BY <1>7 DEF releaseProtocol
  <2>2. \A q \in Protocols : conn[q] # "none" => conn'[q] # "none"
    BY <1>1, <2>1
  <2>3. \A c \in Bodies : body'[c].client \in {body[c].client, Nil}
    BY <1>4
  <2>4. Paired(body', conn', player)
    BY <2>2, <2>3, PairedStays DEF Embodied
  <2>5. Counted(body', releaseThings', player')
    BY <1>4, <2>1 DEF Embodied, Counted, Count
  <2> QED BY <1>1, <1>6, <2>1, <2>4, <2>5 DEF Embodied
<1>8. CASE ~(m_refCount[p] > 0)
  <2>1. /\ conn' = [conn EXCEPT ![p] = "none"] /\ player' = [player EXCEPT ![p] = Nil]
        /\ releaseThings' = [c \in Bodies |-> releaseThings[c] + IF c = player[p] THEN 1 ELSE 0]
    BY <1>8 DEF releaseProtocol
  <2>2. /\ \A q \in Protocols \ {p} : conn'[q] = conn[q] /\ player'[q] = player[q]
        /\ player'[p] = Nil
        /\ \A c \in Bodies : releaseThings'[c] = releaseThings[c] + IF c = player[p] THEN 1 ELSE 0
    BY <1>1, <2>1
  <2>3. releaseThings' \in [Bodies -> Nat]
    BY <1>1, <2>1
  <2> HIDE <2>1
  <2>4. Paired(body', conn', player')
    <3> SUFFICES ASSUME NEW c \in Bodies, body'[c].client # Nil
                 PROVE  /\ body'[c].client \in Protocols /\ conn'[body'[c].client] # "none"
                        /\ player'[body'[c].client] = c /\ body'[c].client \notin Watchers
      BY DEF Paired
    <3>1. body'[c].client = body[c].client /\ body'[c].client # p
      BY <1>4, <1>5
    <3> QED BY <2>2, <3>1 DEF Embodied, Paired
  <2>5. Counted(body', releaseThings', player')
    <3> SUFFICES ASSUME NEW c \in Bodies
                 PROVE  Count(body', releaseThings', player', c) = Count(body, releaseThings, player, c)
      BY <1>4 DEF Embodied, Counted
    <3> DEFINE k == Cardinality(Players(player, c))
               at == IF body[c].at = "placed" THEN 1 ELSE 0
               li == IF body[c].listed THEN 1 ELSE 0
    <3>1. k \in Nat /\ releaseThings[c] \in Nat /\ at \in Nat /\ li \in Nat
      BY <1>1, PlayersFinite
    <3>2. Count(body, releaseThings, player, c) = k + releaseThings[c] + at + li
      BY DEF Count
    <3>3. Count(body', releaseThings', player', c) = Cardinality(Players(player', c)) + releaseThings'[c] + at + li
      BY <1>4 DEF Count
    <3>4. CASE c = player[p]
      <4>1. Cardinality(Players(player', c)) = k - 1
        BY <2>2, <3>4, PlayerGoes
      <4>2. releaseThings'[c] = releaseThings[c] + 1
        BY <2>2, <3>4
      <4> HIDE DEF k, at, li
      <4> QED BY <3>1, <3>2, <3>3, <4>1, <4>2
    <3>5. CASE c # player[p]
      <4>1. Players(player', c) = Players(player, c)
        BY <1>1, <2>2, <3>5 DEF Players
      <4>2. releaseThings'[c] = releaseThings[c]
        BY <1>1, <2>2, <3>5
      <4> QED BY <3>2, <3>3, <4>1, <4>2
    <3> QED BY <3>4, <3>5
  <2> QED BY <1>6, <2>3, <2>4, <2>5 DEF Embodied
<1> QED BY <1>7, <1>8

-----------------------------------------------------------------------------
(* The waiting list.                                                       *)

Entries == [name : Names, late : BOOLEAN]
\* A list of entries, of each name one at most.
Listed(l) == l \in Seq(Entries) /\ \A i, j \in DOMAIN l : l[i].name = l[j].name => i = j

LEMMA ListedPicked ==
  ASSUME NEW l, Listed(l), NEW places \in SUBSET DOMAIN l PROVE Listed(Picked(l, places))
<1>1. l \in Seq(Entries) /\ \A i, j \in DOMAIN l : l[i].name = l[j].name => i = j
  BY DEF Listed
<1>2. \A i, j \in places : l[i] = l[j] => i = j
  BY <1>1
<1>3. /\ Picked(l, places) \in Seq(Entries)
      /\ \A k \in DOMAIN Picked(l, places) : \E i \in places : Picked(l, places)[k] = l[i]
      /\ \A k, m \in DOMAIN Picked(l, places) : Picked(l, places)[k] = Picked(l, places)[m] => k = m
  BY <1>1, <1>2, PickedFacts
<1>4. ASSUME NEW k \in DOMAIN Picked(l, places), NEW m \in DOMAIN Picked(l, places),
             Picked(l, places)[k].name = Picked(l, places)[m].name
      PROVE  k = m
  <2>1. PICK i \in places : Picked(l, places)[k] = l[i]
    BY <1>3
  <2>2. PICK j \in places : Picked(l, places)[m] = l[j]
    BY <1>3
  <2>3. i = j
    BY <1>1, <1>4, <2>1, <2>2
  <2> QED BY <1>3, <2>1, <2>2, <2>3
<1> QED BY <1>3, <1>4 DEF Listed

LEMMA ListedRemoved ==
  ASSUME NEW l, Listed(l), NEW i \in DOMAIN l PROVE Listed(RemoveAt(l, i))
<1> DEFINE r == RemoveAt(l, i)
           from(k) == IF k < i THEN k ELSE k + 1
<1>1. l \in Seq(Entries) /\ \A j, k \in DOMAIN l : l[j].name = l[k].name => j = k
  BY DEF Listed
<1>2. r \in Seq(Entries) /\ Len(r) = Len(l) - 1 /\ \A k \in DOMAIN r : r[k] = IF k < i THEN l[k] ELSE l[k + 1]
  BY <1>1, RemoveAtFacts
<1> HIDE DEF r
<1>3. \A k \in DOMAIN r : from(k) \in DOMAIN l /\ r[k] = l[from(k)]
  BY <1>1, <1>2
<1>4. ASSUME NEW k \in DOMAIN r, NEW m \in DOMAIN r, r[k].name = r[m].name PROVE k = m
  <2>1. from(k) = from(m)
    BY <1>1, <1>3, <1>4
  <2>2. k \in Nat /\ m \in Nat /\ i \in Nat
    BY <1>1, <1>2
  <2> QED BY <2>1, <2>2
<1>5. Listed(r)
  BY <1>2, <1>4 DEF Listed
<1> QED BY <1>5 DEF r

LEMMA InsertAtFacts ==
  ASSUME NEW S, NEW l \in Seq(S), NEW i \in 1 .. Len(l) + 1, NEW e \in S
  PROVE  /\ InsertAt(l, i, e) \in Seq(S)
         /\ Len(InsertAt(l, i, e)) = Len(l) + 1
         /\ \A k \in DOMAIN InsertAt(l, i, e) :
              InsertAt(l, i, e)[k] = IF k < i THEN l[k] ELSE IF k = i THEN e ELSE l[k - 1]
<1> DEFINE a == SubSeq(l, 1, i - 1)
           c == SubSeq(l, i, Len(l))
           one == <<e>>
<1>1. Len(l) \in Nat /\ i \in Nat /\ i >= 1 /\ i <= Len(l) + 1
  OBVIOUS
<1>2. /\ a \in Seq(S) /\ Len(a) = i - 1 /\ \A k \in 1 .. i - 1 : a[k] = l[k]
  <2>1. 1 \in 1 .. Len(l) + 1 /\ i - 1 \in 1 - 1 .. Len(l)
    BY <1>1
  <2> QED BY <1>1, <2>1, SubSeqProperties
<1>3. /\ c \in Seq(S) /\ Len(c) = Len(l) - i + 1 /\ \A k \in 1 .. Len(l) - i + 1 : c[k] = l[k + i - 1]
  <2>1. i \in 1 .. Len(l) + 1 /\ Len(l) \in i - 1 .. Len(l)
    BY <1>1
  <2>2. /\ c \in Seq(S)
        /\ Len(c) = IF i <= Len(l) THEN Len(l) - i + 1 ELSE 0
        /\ \A k \in 1 .. Len(l) - i + 1 : c[k] = l[i + k - 1]
    <3> HIDE DEF a
    <3> QED BY <1>1, <2>1, SubSeqProperties
  <2> QED BY <1>1, <2>2
<1>4. one \in Seq(S) /\ Len(one) = 1 /\ one[1] = e
  OBVIOUS
<1> HIDE DEF a, c, one
<1>5. a \o one \in Seq(S) /\ Len(a \o one) = i /\ \A k \in 1 .. i : (a \o one)[k] = IF k < i THEN l[k] ELSE e
  <2>1. a \o one \in Seq(S) /\ Len(a \o one) = Len(a) + Len(one)
    BY <1>1, <1>2, <1>4, ConcatProperties
  <2>4. Len(a \o one) = i
    BY <1>1, <1>2, <1>4, <2>1
  <2>2. ASSUME NEW k \in 1 .. i PROVE (a \o one)[k] = IF k < i THEN l[k] ELSE e
    <3>4. k \in 1 .. Len(a) + Len(one)
      BY <1>1, <1>2, <1>4
    <3>1. (a \o one)[k] = IF k <= Len(a) THEN a[k] ELSE one[k - Len(a)]
      BY <1>1, <1>2, <1>4, <3>4, ConcatProperties
    <3>2. CASE k < i
      BY <1>1, <1>2, <3>1, <3>2
    <3>3. CASE k = i
      <4>1. k - Len(a) = 1 /\ ~(k <= Len(a))
        BY <1>1, <1>2, <3>3
      <4> QED BY <1>4, <3>1, <3>3, <4>1
    <3>5. k \in Nat /\ (k < i \/ k = i)
      BY <1>1
    <3> QED BY <3>2, <3>3, <3>5
  <2> QED BY <2>1, <2>2, <2>4
<1>6. InsertAt(l, i, e) = (a \o one) \o c
  BY DEF InsertAt, a, c, one
<1> DEFINE d == a \o one
<1>9. d \in Seq(S) /\ Len(d) = i /\ (\A k \in 1 .. i : d[k] = IF k < i THEN l[k] ELSE e) /\ InsertAt(l, i, e) = d \o c
  BY <1>5, <1>6
<1> HIDE DEF d
<1>7. d \o c \in Seq(S) /\ Len(d \o c) = Len(l) + 1
  <2>1. d \o c \in Seq(S) /\ Len(d \o c) = Len(d) + Len(c)
    BY <1>1, <1>3, <1>9, ConcatProperties
  <2> QED BY <1>1, <1>3, <1>9, <2>1
<1>8. ASSUME NEW k \in DOMAIN (d \o c)
      PROVE  (d \o c)[k] = IF k < i THEN l[k] ELSE IF k = i THEN e ELSE l[k - 1]
  <2>1. k \in 1 .. Len(l) + 1
    BY <1>7
  <2>2. (d \o c)[k] = IF k <= i THEN d[k] ELSE c[k - i]
    BY <1>1, <1>3, <1>9, <2>1
  <2>3. CASE k <= i
    BY <1>1, <1>9, <2>1, <2>2, <2>3
  <2>4. CASE ~(k <= i)
    <3>1. k - i \in 1 .. Len(l) - i + 1 /\ (k - i) + i - 1 = k - 1 /\ ~(k < i) /\ k # i
      BY <1>1, <2>1, <2>4
    <3> QED BY <1>3, <2>2, <2>4, <3>1
  <2> QED BY <2>3, <2>4
<1> QED BY <1>9, <1>7, <1>8

LEMMA ListedInserted ==
  ASSUME NEW l, Listed(l), NEW i \in 1 .. Len(l) + 1, NEW n \in Names, Slots(l, n) = {}
  PROVE  Listed(InsertAt(l, i, Entry(n, FALSE)))
<1> DEFINE e == Entry(n, FALSE)
           r == InsertAt(l, i, e)
           from(k) == IF k < i THEN k ELSE k - 1
<1>1. l \in Seq(Entries) /\ \A j, k \in DOMAIN l : l[j].name = l[k].name => j = k
  BY DEF Listed
<1>2. e \in Entries /\ e.name = n
  BY DEF Entry, Entries
<1>3. \A k \in DOMAIN l : l[k].name # n
  BY DEF Slots
<1> HIDE DEF e
<1>4. /\ r \in Seq(Entries) /\ Len(r) = Len(l) + 1
      /\ \A k \in DOMAIN r : r[k] = IF k < i THEN l[k] ELSE IF k = i THEN e ELSE l[k - 1]
  BY <1>1, <1>2, InsertAtFacts
<1> HIDE DEF r
<1>5. \A k \in DOMAIN r : IF k = i THEN r[k] = e ELSE from(k) \in DOMAIN l /\ r[k] = l[from(k)]
  BY <1>1, <1>4
<1>6. ASSUME NEW k \in DOMAIN r, NEW m \in DOMAIN r, r[k].name = r[m].name PROVE k = m
  <2>1. k \in Nat /\ m \in Nat /\ i \in Nat
    BY <1>1, <1>4
  <2>2. k = i <=> m = i
    BY <1>2, <1>3, <1>5, <1>6
  <2>3. CASE k # i
    <3>1. from(k) = from(m)
      BY <1>1, <1>5, <1>6, <2>2, <2>3
    <3> QED BY <2>1, <2>2, <2>3, <3>1
  <2> QED BY <2>2, <2>3
<1>7. Listed(r)
  BY <1>4, <1>6 DEF Listed
<1> QED BY <1>7 DEF r, e

LEMMA AfterLoginListed ==
  ASSUME NEW n \in Names, NEW online, Listed(waitList) PROVE Listed(AfterLogin(n, online))
<1>1. {i \in DOMAIN waitList : ~waitList[i].late} \in SUBSET DOMAIN waitList
  OBVIOUS
<1>2. Listed(Current)
  BY <1>1, ListedPicked DEF Current
<1> DEFINE slots == Slots(Current, n)
<1>3. slots \in SUBSET DOMAIN Current
  BY DEF Slots
<1>4. Current \in Seq(Entries) /\ DOMAIN Current = 1 .. Len(Current) /\ Len(Current) \in Nat
  BY <1>2 DEF Listed
<1>5. CASE slots = {}
  <2>1. NewSlot(Current, n) \in 1 .. Len(Current) + 1
    <3> DEFINE others == {i \in DOMAIN Current : Current[i].name \notin Premium}
    <3>1. others \in SUBSET DOMAIN Current /\ others \in SUBSET Nat
      BY <1>4
    <3>2. NewSlot(Current, n) = IF n \in Premium /\ others # {} THEN Min(others) ELSE Len(Current) + 1
      BY DEF NewSlot
    <3> HIDE DEF others
    <3>3. others # {} => Min(others) \in others
      BY <3>1, SmallestIsOne
    <3> QED BY <1>4, <3>1, <3>2, <3>3
  <2>2. Listed(InsertAt(Current, NewSlot(Current, n), Entry(n, FALSE)))
    BY <1>2, <1>5, <2>1, ListedInserted
  <2> QED BY <1>5, <2>2 DEF AfterLogin
<1>6. CASE slots # {}
  <2>1. slots \in SUBSET Nat
    BY <1>3, <1>4
  <2>2. Min(slots) \in DOMAIN Current
    <3> HIDE DEF slots
    <3> QED BY <1>3, <1>6, <2>1, SmallestIsOne
  <2>3. Listed(RemoveAt(Current, Min(slots)))
    BY <1>2, <2>2, ListedRemoved
  <2> QED BY <1>2, <1>6, <2>3 DEF AfterLogin
<1> QED BY <1>5, <1>6

LEMMA TimeOutListed == ASSUME Listed(waitList), TimeOutEntry PROVE Listed(waitList')
<1>1. PICK i \in DOMAIN waitList : waitList' = [waitList EXCEPT ![i].late = TRUE]
  BY DEF TimeOutEntry
<1>2. waitList \in Seq(Entries) /\ \A j, k \in DOMAIN waitList : waitList[j].name = waitList[k].name => j = k
  BY DEF Listed
<1>3. waitList[i] \in Entries
  BY <1>2
<1>4. [waitList[i] EXCEPT !.late = TRUE] \in Entries /\ [waitList[i] EXCEPT !.late = TRUE].name = waitList[i].name
  BY <1>3 DEF Entries
<1>5. waitList' \in Seq(Entries)
  BY <1>1, <1>2, <1>4
<1>6. DOMAIN waitList' = DOMAIN waitList /\ \A j \in DOMAIN waitList : waitList'[j].name = waitList[j].name
  BY <1>1, <1>2, <1>4
<1> QED BY <1>2, <1>5, <1>6 DEF Listed

-----------------------------------------------------------------------------
(* The invariant.                                                          *)

\* Who is in the game, the protocols with their queue, the references of the bodies and
\* the waiting list: each needs the others to be kept.
Sound == Admitted /\ Wired /\ Embodied /\ Listed(waitList)

LEMMA SoundAtFirst == Init => Sound
<1> SUFFICES ASSUME Init PROVE Sound
  OBVIOUS
<1>1. Admitted
  BY AdmittedAtFirst
<1>2. Wired
  <2>1. Lines(conn, player, m_refCount, character) /\ Waits(player, m_refCount, m_eventConnect)
    BY DEF Init, Lines, Waits
  <2>2. Views(cSpectators, m_refCount) /\ Queue(m_taskList, conn, player, m_refCount, m_eventConnect)
    BY DEF Init, Views, Once, Queue
  <2> QED BY <2>1, <2>2 DEF Wired, Init
<1>3. Embodied
  <2>1. NoBody.at = "none" /\ NoBody.refs = 0 /\ ~NoBody.listed /\ ~NoBody.checked /\ NoBody.client = Nil
    BY DEF NoBody
  <2>2. \A b \in Bodies : Cardinality(Players(player, b)) = 0
    <3>1. \A b \in Bodies : Players(player, b) = {}
      BY SessionAssumption DEF Init, Players
    <3> QED BY <3>1, FS_EmptySet
  <2>3. Counted(body, releaseThings, player)
    <3> SUFFICES ASSUME NEW b \in Bodies
                 PROVE  /\ body[b].refs = Count(body, releaseThings, player, b)
                        /\ (body[b].at = "none" <=> Count(body, releaseThings, player, b) = 0)
      BY DEF Counted
    <3>1. body[b] = NoBody /\ releaseThings[b] = 0
      BY DEF Init
    <3>2. Count(body, releaseThings, player, b) = 0
      BY <2>1, <2>2, <3>1 DEF Count
    <3> QED BY <2>1, <3>1, <3>2
  <2>4. Checked(body) /\ castAutoList \subseteq Online /\ Paired(body, conn, player)
    BY <2>1 DEF Init, Checked, Paired
  <2> QED BY <2>3, <2>4 DEF Embodied, Init
<1>4. Listed(waitList)
  BY DEF Init, Listed
<1> QED BY <1>1, <1>2, <1>3, <1>4 DEF Sound

LEMMA ArriveEmbodied ==
  ASSUME Embodied, NEW p \in Protocols, NEW n \in Names, Arrive(p, n),
         conn \in [Protocols -> {"none", "open", "closing", "closed"}]
  PROVE  Embodied'
<1>1. conn' = [conn EXCEPT ![p] = "open"] /\ UNCHANGED <<body, releaseThings, castAutoList, player>>
  BY DEF Arrive, game
<1>2. \A q \in Protocols : conn[q] # "none" => conn'[q] # "none"
  BY <1>1
<1> QED BY <1>1, <1>2, EmbodiedAsItWas

LEMMA NetworkSound ==
  ASSUME Sound, Network PROVE Wired' /\ Embodied' /\ waitList' = waitList
<1>1. Shapely /\ Wired /\ Embodied
  BY DEF Sound, Admitted
<1>2. ASSUME NEW p \in Protocols, NEW n \in Names, Arrive(p, n)
      PROVE  Wired' /\ Embodied' /\ waitList' = waitList
  <2>1. character \in [Protocols -> Names \cup {Nil}] /\ conn \in [Protocols -> {"none", "open", "closing", "closed"}]
    BY <1>1 DEF Shapely, Wired, Lines
  <2>2. Wired'
    BY <1>1, <1>2, <2>1, ArriveKeepsWired
  <2>3. Embodied'
    BY <1>1, <1>2, <2>1, ArriveEmbodied
  <2> QED BY <1>2, <2>2, <2>3 DEF Arrive, game
<1>3. ASSUME NEW p \in Protocols, SendLogout(p)
      PROVE  Wired' /\ Embodied' /\ waitList' = waitList
  <2>1. UNCHANGED <<game, conn, player>>
    BY <1>3 DEF SendLogout
  <2>2. Wired'
    BY <1>1, <1>3, AppendKeepsWired
  <2> QED BY <1>1, <2>1, <2>2, EmbodiedAsItWas DEF game
<1>4. ASSUME NEW p \in Protocols, Drop(p)
      PROVE  Wired' /\ Embodied' /\ waitList' = waitList
  <2>1. UNCHANGED <<game, player>> /\ Closing(<<p>>, m_taskList)
    BY <1>4 DEF Drop
  <2>2. \A q \in Protocols : conn[q] # "none" => conn'[q] # "none"
    BY <2>1, ClosingKeepsAll
  <2>3. Wired'
    BY <1>1, <1>4, DropKeepsWired
  <2> QED BY <1>1, <2>1, <2>2, <2>3, EmbodiedAsItWas DEF game
<1> QED BY <1>2, <1>3, <1>4 DEF Network

LEMMA ServeSound ==
  ASSUME Sound, Serve PROVE Wired' /\ Embodied' /\ Listed(waitList')
<1>1. Shapely /\ Wired /\ Embodied /\ Listed(waitList) /\ Paired(body, conn, player)
  BY DEF Sound, Admitted, Embodied
<1>2. ASSUME NEW p \in Protocols, NEW b \in Bodies, LoginTakesOver(p, b)
      PROVE  Wired' /\ Embodied' /\ waitList' = waitList
  BY <1>1, <1>2, TakesOverKeepsWired, TakesOverEmbodied DEF LoginTakesOver
<1>3. ASSUME NEW p \in Protocols, NEW b \in Bodies, LoginBack(p, b)
      PROVE  Wired' /\ Embodied' /\ waitList' = waitList
  BY <1>1, <1>3, LoginBackKeepsWired, LoginBackEmbodied DEF LoginBack
<1>4. ASSUME NEW p \in Protocols, NEW b \in Bodies, LoginCast(p, b)
      PROVE  Wired' /\ Embodied' /\ waitList' = waitList
  BY <1>1, <1>4, LoginCastKeepsWired, LoginCastEmbodied DEF LoginCast
<1>5. ASSUME NEW p \in Protocols, NEW banned \in BOOLEAN, NEW misplaced \in BOOLEAN, LoginNew(p, banned, misplaced)
      PROVE  Wired' /\ Embodied' /\ Listed(waitList')
  <2>1. Wired' /\ Embodied'
    BY <1>1, <1>5, LoginNewKeepsWired, LoginNewEmbodied
  <2>2. waitList' \in {AfterLogin(character[p], Cardinality(Online)), waitList} /\ Serving("login", p)
    BY <1>5 DEF LoginNew
  <2>3. character[p] \in Names
    <3>1. conn[p] # "none"
      BY <1>1, <2>2, RestIsQueue
    <3> QED BY <1>1, <3>1 DEF Wired, Lines
  <2>4. Listed(AfterLogin(character[p], Cardinality(Online)))
    BY <1>1, <2>3, AfterLoginListed
  <2> QED BY <1>1, <2>1, <2>2, <2>4
<1>6. ASSUME NEW p \in Protocols, LoginCastCrashes(p)
      PROVE  Wired' /\ Embodied' /\ waitList' = waitList
  <2>1. UNCHANGED <<game, protocols>> /\ down' = "crashed"
    BY <1>6 DEF LoginCastCrashes
  <2>2. UNCHANGED <<conn, player, m_refCount, character, m_eventConnect, m_taskList, cSpectators>>
        /\ UNCHANGED <<body, releaseThings, castAutoList, waitList>>
    BY <2>1 DEF game, protocols
  <2>3. Wired'
    BY <1>1, <2>1, <2>2 DEF Wired
  <2> QED BY <1>1, <2>2, <2>3, EmbodiedAsItWas
<1>7. ASSUME NEW p \in Protocols, Connect(p)
      PROVE  Wired' /\ Embodied' /\ waitList' = waitList
  BY <1>1, <1>7, ConnectKeepsWired, ConnectEmbodied DEF Connect
<1>8. ASSUME NEW p \in Protocols, Logout(p)
      PROVE  Wired' /\ Embodied' /\ waitList' = waitList
  BY <1>1, <1>8, LogoutKeepsWired, LogoutEmbodied DEF Logout, Hang, game
<1>9. ASSUME NEW p \in Protocols, LogoutCast(p)
      PROVE  Wired' /\ Embodied' /\ waitList' = waitList
  BY <1>1, <1>9, LogoutCastKeepsWired, ViewersEmbodied DEF LogoutCast
<1>10. ASSUME NEW p \in Protocols, closeConnection(p)
       PROVE  Wired' /\ Embodied' /\ waitList' = waitList
  BY <1>1, <1>10, CloseKeepsWired, ReleaseEmbodied DEF closeConnection, releaseProtocol
<1> QED BY <1>1, <1>2, <1>3, <1>4, <1>5, <1>6, <1>7, <1>8, <1>9, <1>10 DEF Serve

LEMMA TimersSound ==
  ASSUME Sound, Timers PROVE Wired' /\ Embodied' /\ waitList' = waitList
<1>1. Shapely /\ Wired /\ Embodied
  BY DEF Sound, Admitted
<1>2. ASSUME NEW p \in Protocols, ConnectIsDue(p)
      PROVE  Wired' /\ Embodied' /\ waitList' = waitList
  <2>1. UNCHANGED <<game, conn, player>>
    BY <1>2 DEF ConnectIsDue
  <2>2. Wired'
    BY <1>1, <1>2, AppendKeepsWired
  <2> QED BY <1>1, <2>1, <2>2, EmbodiedAsItWas DEF game
<1>3. ASSUME NEW p \in Protocols, RetryRelease(p)
      PROVE  Wired' /\ Embodied' /\ waitList' = waitList
  BY <1>1, <1>3, RetryKeepsWired, ReleaseEmbodied DEF RetryRelease, releaseProtocol
<1> QED BY <1>2, <1>3 DEF Timers

LEMMA WorldSound ==
  ASSUME Sound, World \/ \E b \in Bodies : Timeout(b) PROVE Wired' /\ Embodied' /\ Listed(waitList')
<1>1. Shapely /\ Wired /\ Embodied /\ Listed(waitList) /\ Paired(body, conn, player)
  BY DEF Sound, Admitted, Embodied
<1>2. ASSUME CheckNobody PROVE Wired' /\ Embodied' /\ waitList' = waitList
  BY <1>1, <1>2, CheckNobodyEmbodied, WiredAsItWas DEF CheckNobody
<1>3. ASSUME WaitPasses PROVE Wired' /\ Embodied' /\ Listed(waitList')
  <2>1. TimeOutEntry /\ UNCHANGED <<body, releaseThings, castAutoList, cSpectators, protocols, down>>
    BY <1>3 DEF WaitPasses
  <2>2. UNCHANGED <<conn, player>>
    BY <2>1 DEF protocols
  <2>3. Listed(waitList')
    BY <1>1, <2>1, TimeOutListed
  <2> QED BY <1>1, <2>1, <2>2, <2>3, WiredAsItWas, EmbodiedAsItWas
<1>4. ASSUME NEW b \in Bodies, CheckRemoved(b) PROVE Wired' /\ Embodied' /\ waitList' = waitList
  BY <1>1, <1>4, CheckRemovedEmbodied, WiredAsItWas DEF CheckRemoved
<1>5. ASSUME NEW b \in Bodies, Die(b) PROVE Wired' /\ Embodied' /\ waitList' = waitList
  <2>1. \/ Hang(<<b>>)
        \/ /\ KickAndClose(<<b>>, <<>>, m_taskList)
           /\ UNCHANGED <<waitList, player, character, m_eventConnect, down>>
    BY <1>5 DEF Die
  <2>2. Wired'
    BY <1>1, <2>1, HangKeepsWired, KickOneKeepsWired
  <2> QED BY <1>1, <1>5, <2>1, <2>2, DieEmbodied DEF Hang, game
<1>6. ASSUME NEW b \in Bodies, kickPlayer(b) \/ Timeout(b) PROVE Wired' /\ Embodied' /\ waitList' = waitList
  <2>1. \E inCheck \in BOOLEAN : Kick({b}, gameState, inCheck)
    BY <1>6 DEF kickPlayer, Timeout
  <2>2. Wired' /\ waitList' = waitList
    BY <1>1, <2>1, KickAllKeepsWired DEF Kick, Hang, game
  <2> QED BY <1>1, <1>6, <2>2, KicksEmbodied
<1>7. ASSUME NEW b \in Bodies, StartCast(b) PROVE Wired' /\ Embodied' /\ waitList' = waitList
  BY <1>1, <1>7, CastEmbodied, WiredAsItWas DEF StartCast
<1>8. ASSUME NEW b \in Bodies, StopCast(b) PROVE Wired' /\ Embodied' /\ waitList' = waitList
  <2>1. \/ Hang(<<b>>)
        \/ /\ KickAndClose(<<b>>, <<>>, m_taskList)
           /\ UNCHANGED <<waitList, player, character, m_eventConnect, down>>
    BY <1>8 DEF StopCast
  <2>2. Wired'
    BY <1>1, <2>1, HangKeepsWired, KickOneKeepsWired
  <2> QED BY <1>1, <1>8, <2>1, <2>2, CastEmbodied DEF Hang, game
<1>9. ASSUME NEW v \in Protocols, kickCastViewer(v) PROVE Wired' /\ Embodied' /\ waitList' = waitList
  BY <1>1, <1>9, KickViewerKeepsWired, ViewersEmbodied DEF kickCastViewer
<1>10. ASSUME NEW s \in {"normal", "closing", "closed"}, setGameState(s)
       PROVE  Wired' /\ Embodied' /\ waitList' = waitList
  <2> DEFINE gone == IF s = "closed" THEN Unwelcome ELSE {}
  <2>1. Kick(gone, s, FALSE) /\ gone \in SUBSET Bodies
    BY <1>10 DEF setGameState, Unwelcome, Online
  <2> HIDE DEF gone
  <2>2. Wired' /\ waitList' = waitList
    BY <1>1, <2>1, KickAllKeepsWired DEF Kick, Hang, game
  <2> QED BY <1>1, <1>10, <2>2, SetStateEmbodied
<1> QED BY <1>1, <1>2, <1>3, <1>4, <1>5, <1>6, <1>7, <1>8, <1>9, <1>10 DEF World

LEMMA StaysSound == ASSUME Sound, [Next]_vars PROVE Sound'
<1>1. Admitted'
  BY StepAdmits DEF Sound, Stays
<1>2. Listed(waitList)
  BY DEF Sound
<1>3. CASE UNCHANGED vars
  <2>1. UNCHANGED <<body, releaseThings, castAutoList, conn, player, cSpectators, protocols, down, waitList>>
    BY <1>3 DEF vars, game, protocols
  <2> QED BY <1>1, <1>2, <2>1, WiredAsItWas, EmbodiedAsItWas DEF Sound
<1> QED BY <1>1, <1>2, <1>3, NetworkSound, ServeSound, TimersSound, WorldSound DEF Next, Sound

LEMMA AlwaysSound == Spec => []Sound
<1>1. Sound /\ [Next]_vars => Sound'
  BY StaysSound
<1> QED BY <1>1, SoundAtFirst, PTL DEF Spec

-----------------------------------------------------------------------------
(* What it says of the bodies, their clients and their references.         *)

LEMMA ReferencesCounted == Sound => RefsExact
<1>1. \A b : Holders(b) = Count(body, releaseThings, player, b)
  BY DEF Holders, Count, Players
<1> QED BY <1>1 DEF Sound, Embodied, Counted, RefsExact

LEMMA TypesHold == Sound => TypeOK
<1> SUFFICES ASSUME Sound PROVE TypeOK
  OBVIOUS
<1>1. /\ gameState \in {"normal", "closing", "closed"} /\ body \in [Bodies -> BodyType]
      /\ character \in [Protocols -> Names \cup {Nil}]
  BY DEF Sound, Admitted, Shapely
<1>2. ASSUME NEW b \in Bodies
      PROVE  body[b] \in
        [who : Names \cup {Nil}, at : {"none", "made", "placed", "removed"},
         refs : Nat, client : Protocols \cup {Nil},
         isConnecting : BOOLEAN, checked : BOOLEAN, listed : BOOLEAN]
  <2>1. body[b].refs \in Nat
    <3> DEFINE k == Cardinality(Players(player, b))
               at == IF body[b].at = "placed" THEN 1 ELSE 0
               li == IF body[b].listed THEN 1 ELSE 0
    <3>1. k \in Nat /\ releaseThings[b] \in Nat /\ at \in Nat /\ li \in Nat
      BY PlayersFinite DEF Sound, Embodied
    <3>2. body[b].refs = k + releaseThings[b] + at + li
      BY DEF Sound, Embodied, Counted, Count
    <3> HIDE DEF k, at, li
    <3> QED BY <3>1, <3>2
  <2>2. body[b] \in BodyType
    BY <1>1
  <2> QED BY <2>1, <2>2 DEF BodyType
<1>3. releaseThings \in [Bodies -> Nat] /\ castAutoList \subseteq Online
  BY DEF Sound, Embodied
<1>4. cSpectators \in Seq(Protocols)
  BY SessionAssumption DEF Sound, Wired, Views
<1>5. WaitingListType
  <2>1. waitList \in Seq(Entries)
        /\ \A i, j \in DOMAIN waitList : waitList[i].name = waitList[j].name => i = j
    BY DEF Sound, Listed
  <2>2. \A i \in DOMAIN waitList : waitList[i] \in Entries
    BY <2>1
  <2> QED BY <2>1, <2>2 DEF WaitingListType, Entries
<1>6. /\ conn \in [Protocols -> {"none", "open", "closing", "closed"}]
      /\ player \in [Protocols -> Bodies \cup {Nil}] /\ m_refCount \in [Protocols -> Nat]
      /\ m_taskList \in Seq([do : {"login", "close", "connect", "logout"}, by : Protocols])
      /\ m_eventConnect \subseteq [by : Protocols, after : Protocols \cup {Nil}]
      /\ down \in {"no", "crashed", "hung"}
  BY DEF Sound, Wired, Lines, Waits, Queue, Tasks
<1> QED BY <1>1, <1>2, <1>3, <1>4, <1>5, <1>6 DEF TypeOK

LEMMA ClientsKnown == Sound => WorldOfClients
<1> SUFFICES ASSUME Sound PROVE WorldOfClients
  OBVIOUS
<1>1. TypeOK
  BY TypesHold
<1>2. \A b \in Bodies : LET p == body[b].client IN
          p # Nil => conn[p] # "none" /\ player[p] = b /\ p \notin Watchers
  BY DEF Sound, Embodied, Paired
<1>3. ClosedIsEmpty
  BY DEF Sound, Admitted
<1> QED BY <1>1, <1>2, <1>3 DEF WorldOfClients, ClientsMatch

(* A body has as many references as there are holders of it, in every      *)
(* state: none is deleted while it is used, none is kept for nothing.      *)
THEOREM ReferencesAreExact == Spec => []RefsExact
BY AlwaysSound, ReferencesCounted, PTL

(* A body and its client know each other, and a world that is closed has   *)
(* only those in it who always may be.                                     *)
THEOREM ClientsStayMatched == Spec => []WorldOfClients
BY AlwaysSound, ClientsKnown, PTL
=============================================================================
