--------------------------- MODULE CoalitionsProofs ---------------------------
(***************************************************************************)
(* What Coalitions guarantees for every set of players and cities and      *)
(* every threshold, GuidedPlay for all people, keys and bounds, and        *)
(* AgentClient for all agents, partners, seats and bounds.                 *)
(***************************************************************************)
EXTENDS Coalitions, GuidedPlay, AgentClient, FiniteFacts, FiniteSetTheorems, SequenceTheorems, TLAPS

\* LowestId returns a member of a set of players that is not empty, so the
\* leader chosen when one leaves is one of those who stay.
LEMMA LowestIdIsMember ==
    ASSUME NEW S \in SUBSET Players, S # {}
    PROVE  LowestId(S) \in S
<1>1. S \in SUBSET Nat
    BY PlayersAssumption
<1>2. \E x \in S : \A y \in S : x <= y
    BY <1>1, LeastNatural
<1> QED BY <1>2 DEF LowestId

-----------------------------------------------------------------------------
Boards == [Cities -> Players \cup {None}]
Memberships == [Players -> AllianceIndexes \cup {None}]

\* The coalitions that hold cities are among the coalition keys.
LEMMA CityHoldersType ==
    ASSUME NEW own \in Boards, NEW ally \in Memberships
    PROVE  CityHolders(own, ally) \subseteq CoalitionKeys
BY DEF CityHolders, CoalitionKey, CoalitionKeys, Boards, Memberships

\* The number of cities a coalition holds is a natural number.
LEMMA CountType ==
    ASSUME NEW own, NEW ally, NEW k
    PROVE  CoalitionCityCount(own, ally, k) \in 0..Cardinality(Cities)
<1> DEFINE S == {c \in Cities : own[c] # None /\ CoalitionKey(ally, own[c]) = k}
<1>1. S \subseteq Cities
    OBVIOUS
<1>2. IsFiniteSet(S) /\ Cardinality(S) <= Cardinality(Cities)
    BY <1>1, CitiesAssumption, FS_Subset
<1>3. Cardinality(S) \in Nat /\ Cardinality(Cities) \in Nat
    BY <1>2, CitiesAssumption, FS_CardinalityType
<1> QED BY <1>2, <1>3 DEF CoalitionCityCount

\* The largest count exists and is a natural number.
LEMMA CitiesHeldType ==
    ASSUME NEW own \in Boards, NEW ally \in Memberships
    PROVE  CitiesHeld(own, ally) \in Nat
<1> DEFINE counts == {CoalitionCityCount(own, ally, k) : k \in CityHolders(own, ally)}
<1>1. counts \in SUBSET (0..Cardinality(Cities))
    BY CountType
<1>2. Cardinality(Cities) \in Nat
    BY CitiesAssumption, FS_CardinalityType
<1>3. CASE counts = {}
    BY <1>3 DEF CitiesHeld
<1>4. CASE counts # {}
    <2> HIDE DEF counts
    <2>1. \E n \in counts : \A m \in counts : m <= n
        BY <1>1, <1>2, <1>4, GreatestBoundedNatural
    <2>2. (CHOOSE n \in counts : \A m \in counts : m <= n) \in counts
        BY <2>1
    <2>3. CitiesHeld(own, ally) \in counts
        BY <1>4, <2>2 DEF CitiesHeld, counts
    <2>4. CitiesHeld(own, ally) \in 0..Cardinality(Cities)
        BY <1>1, <2>3
    <2> QED BY <1>2, <2>4
<1> QED BY <1>3, <1>4

\* The leading coalition is a coalition key, or None.
LEMMA LeadingType ==
    ASSUME NEW own \in Boards, NEW ally \in Memberships
    PROVE  LeadingCoalition(own, ally) \in CoalitionKeys \cup {None}
<1>1. Leaders(own, ally) \subseteq CoalitionKeys
    BY CityHoldersType DEF Leaders
<1> QED BY <1>1 DEF LeadingCoalition

\* None is not an alliance id, a coalition, an alliance record or a player.
LEMMA TypeFacts ==
    /\ None \notin AllianceIndexes
    /\ None \notin CoalitionKeys
    /\ None \notin Alliance
    /\ None \notin Players
<1>1. Cardinality(Players) \in Nat
    BY PlayersAssumption, FS_CardinalityType
<1>2. AllianceIndexes \subseteq Nat
    BY <1>1 DEF AllianceIndexes
<1>3. Alliance \subseteq [leader : Nat, members : SUBSET Nat]
    BY PlayersAssumption DEF Alliance
<1>4. CoalitionKeys \subseteq ({"alliance"} \X Nat) \cup ({"solo"} \X Nat)
    BY <1>2, PlayersAssumption DEF CoalitionKeys
<1> QED BY <1>2, <1>3, <1>4, PlayersAssumption, NoneAssumption

-----------------------------------------------------------------------------
(* The victory state, recomputed by an alliance action and by a tick.      *)

VictorySound(v) ==
    v.countdown # None =>
        /\ v.leading # None
        /\ v.held >= Threshold
        /\ v.countdown <= Threshold

VictoryMatches(v, own, ally) ==
    \/ v = NoVictory
    \/ v.held = CitiesHeld(own, ally) /\ v.leading = LeadingCoalition(own, ally)

\* An alliance action keeps a countdown of the same leader as it is, and any
\* other countdown it leaves is a full one.
LEMMA SyncFacts ==
    ASSUME NEW own \in Boards, NEW ally \in Memberships,
           NEW v \in VictoryState, VictorySound(v),
           NEW w, w = SyncVictoryState(v, own, ally)
    PROVE  /\ w \in VictoryState
           /\ VictorySound(w)
           /\ VictoryMatches(w, own, ally)
           /\ w.countdown \notin {None, Threshold} =>
                  w.countdown = v.countdown /\ w.leading = v.leading
<1> DEFINE leading == LeadingCoalition(own, ally)
           held == CitiesHeld(own, ally)
<1>1. leading \in CoalitionKeys \cup {None} /\ held \in Nat
    BY LeadingType, CitiesHeldType
<1> HIDE DEF leading, held
<1>2. w = [leading |-> leading, held |-> held,
           countdown |-> IF leading = None \/ held < Threshold THEN None
                         ELSE IF v.leading = None THEN Threshold
                         ELSE IF v.leading # leading THEN None
                         ELSE IF v.countdown = None THEN Threshold
                         ELSE v.countdown]
    BY DEF SyncVictoryState, leading, held
<1>3. w \in VictoryState
    BY <1>1, <1>2, ThresholdAssumption DEF VictoryState
<1>4. VictorySound(w)
    BY <1>1, <1>2, ThresholdAssumption DEF VictoryState, VictorySound
<1>5. VictoryMatches(w, own, ally)
    BY <1>2 DEF VictoryMatches, leading, held
<1>6. w.countdown \notin {None, Threshold} =>
          w.countdown = v.countdown /\ w.leading = v.leading
    BY <1>2
<1> QED BY <1>3, <1>4, <1>5, <1>6

\* A tick lowers a countdown of the same leader by one, and any other countdown
\* it leaves is a full one.
LEMMA TickFacts ==
    ASSUME NEW own \in Boards, NEW ally \in Memberships,
           NEW v \in VictoryState, VictorySound(v),
           NEW w, w = SyncVictoryState(ResolveVictoryPhase(v, own, ally), own, ally)
    PROVE  /\ w \in VictoryState
           /\ VictorySound(w)
           /\ VictoryMatches(w, own, ally)
           /\ w.countdown \notin {None, Threshold} =>
                  /\ w.leading = v.leading
                  /\ v.countdown # None
                  /\ w.countdown = IF v.countdown > 0 THEN v.countdown - 1 ELSE 0
<1> DEFINE leading == LeadingCoalition(own, ally)
           held == CitiesHeld(own, ally)
           u == ResolveVictoryPhase(v, own, ally)
<1>1. leading \in CoalitionKeys \cup {None} /\ held \in Nat
    BY LeadingType, CitiesHeldType
<1>2. u = [leading |-> leading, held |-> held,
           countdown |-> UpdatedVictoryCountdown(v, leading, held)]
    BY DEF ResolveVictoryPhase
<1> HIDE DEF leading, held
<1>3. u.leading = leading /\ u.held = held
          /\ u.countdown = UpdatedVictoryCountdown(v, leading, held)
    BY <1>2
<1> HIDE DEF u
<1>4. u \in VictoryState
    BY <1>1, <1>2, ThresholdAssumption DEF VictoryState, UpdatedVictoryCountdown
<1>5. VictorySound(u)
    BY <1>1, <1>3, ThresholdAssumption
       DEF VictoryState, VictorySound, UpdatedVictoryCountdown
<1>6. u.countdown \notin {None, Threshold} =>
          /\ u.leading = v.leading
          /\ v.countdown # None
          /\ u.countdown = IF v.countdown > 0 THEN v.countdown - 1 ELSE 0
    BY <1>3 DEF UpdatedVictoryCountdown
<1>7. w = SyncVictoryState(u, own, ally)
    BY DEF u
<1>8. /\ w \in VictoryState
      /\ VictorySound(w)
      /\ VictoryMatches(w, own, ally)
      /\ w.countdown \notin {None, Threshold} =>
             w.countdown = u.countdown /\ w.leading = u.leading
    BY <1>4, <1>5, <1>7, SyncFacts
<1> QED BY <1>6, <1>8

-----------------------------------------------------------------------------
(* Alliance records.                                                       *)

Consistent(ally, al) ==
    /\ \A p \in Players, a \in AllianceIndexes :
          ally[p] = a <=> (al[a] # None /\ p \in al[a].members)
    /\ \A a \in AllianceIndexes : al[a] # None => al[a].leader \in al[a].members

\* Alliances derived from the players' state agree with it.
LEMMA DerivedConsistent ==
    ASSUME NEW ally \in Memberships
    PROVE  /\ DeriveAlliances(ally) \in [AllianceIndexes -> Alliance \cup {None}]
           /\ Consistent(ally, DeriveAlliances(ally))
<1> DEFINE d == DeriveAlliances(ally)
           M(a) == MembersOf(ally, a)
<1>1. ASSUME NEW a \in AllianceIndexes
      PROVE  /\ M(a) \in SUBSET Players
             /\ M(a) = {} => d[a] = None
             /\ M(a) # {} => /\ d[a] = [leader |-> LowestId(M(a)), members |-> M(a)]
                             /\ LowestId(M(a)) \in M(a)
    <2>1. M(a) \in SUBSET Players
        BY DEF MembersOf
    <2>2. M(a) # {} => LowestId(M(a)) \in M(a)
        <3> HIDE DEF M
        <3> QED BY <2>1, LowestIdIsMember
    <2> QED BY <2>1, <2>2 DEF DeriveAlliances
<1>2. ASSUME NEW a \in AllianceIndexes
      PROVE  /\ d[a] \in Alliance \cup {None}
             /\ d[a] # None => d[a].leader \in d[a].members
             /\ \A p \in Players : ally[p] = a <=> (d[a] # None /\ p \in d[a].members)
    <2>1. \A p \in Players : ally[p] = a <=> p \in M(a)
        BY DEF MembersOf
    <2>2. CASE M(a) = {}
        BY <1>1, <2>1, <2>2
    <2>3. CASE M(a) # {}
        <3>1. d[a] = [leader |-> LowestId(M(a)), members |-> M(a)]
            BY <1>1, <2>3
        <3>2. d[a] \in Alliance
            BY <1>1, <2>3, <3>1 DEF Alliance
        <3>3. d[a] # None
            BY <3>2, TypeFacts
        <3>4. d[a].leader \in d[a].members /\ d[a].members = M(a)
            BY <1>1, <2>3, <3>1
        <3> QED BY <2>1, <3>2, <3>3, <3>4
    <2> QED BY <2>2, <2>3
<1>3. d \in [AllianceIndexes -> Alliance \cup {None}]
    <2>1. d = [a \in AllianceIndexes |-> d[a]]
        BY DEF DeriveAlliances
    <2> HIDE DEF d
    <2> QED BY <1>2, <2>1
<1> QED
    <2> HIDE DEF d
    <2>1. Consistent(ally, d)
        BY <1>2 DEF Consistent
    <2> QED BY <1>3, <2>1 DEF d

\* The alliance rows of the database add leaders, and no disagreement.
LEMMA MergedConsistent ==
    ASSUME NEW ally \in Memberships, NEW rows \in SUBSET Alliance
    PROVE  /\ MergeAllianceRows(ally, rows) \in [AllianceIndexes -> Alliance \cup {None}]
           /\ Consistent(ally, MergeAllianceRows(ally, rows))
<1> DEFINE d == DeriveAlliances(ally)
           live == {a \in AllianceIndexes : d[a] # None}
           RowsOf(a) == {r \in rows : r.members = d[a].members}
           usable == /\ Cardinality(rows) = Cardinality(live)
                     /\ \A a \in live : \E r \in RowsOf(a) : r.leader \in r.members
           Pick(a) == CHOOSE r \in RowsOf(a) : r.leader \in r.members
           m == [a \in AllianceIndexes |-> IF a \in live THEN Pick(a) ELSE None]
<1>1. /\ d \in [AllianceIndexes -> Alliance \cup {None}]
      /\ Consistent(ally, d)
    BY DerivedConsistent
<1>2. MergeAllianceRows(ally, rows) = IF usable THEN m ELSE d
    BY DEF MergeAllianceRows
<1>3. CASE usable
    <2>1. ASSUME NEW a \in live
          PROVE  /\ Pick(a) \in Alliance
                 /\ Pick(a).leader \in Pick(a).members
                 /\ Pick(a).members = d[a].members
        <3>1. \E r \in RowsOf(a) : r.leader \in r.members
            BY <1>3
        <3> DEFINE R == RowsOf(a)
        <3>2. R \subseteq rows /\ \A r \in R : r.members = d[a].members
            OBVIOUS
        <3> HIDE DEF R, d
        <3>3. (CHOOSE r \in R : r.leader \in r.members) \in R
              /\ (CHOOSE r \in R : r.leader \in r.members).leader
                    \in (CHOOSE r \in R : r.leader \in r.members).members
            BY <3>1 DEF R
        <3> QED BY <3>2, <3>3 DEF R
    <2> HIDE DEF d, Pick
    <2>2. m \in [AllianceIndexes -> Alliance \cup {None}]
        BY <2>1
    <2>3. \A a \in AllianceIndexes : m[a] # None <=> d[a] # None
        BY <2>1, TypeFacts
    <2>4. \A a \in AllianceIndexes : m[a] # None =>
              m[a].members = d[a].members /\ m[a].leader \in m[a].members
        BY <2>1
    <2> HIDE DEF m
    <2>5. Consistent(ally, m)
        BY <1>1, <2>3, <2>4 DEF Consistent
    <2>6. MergeAllianceRows(ally, rows) = m
        BY <1>2, <1>3
    <2> QED BY <2>2, <2>5, <2>6
<1>4. CASE ~usable
    <2> HIDE DEF d, m, usable
    <2> QED BY <1>1, <1>2, <1>4
<1> HIDE DEF usable
<1> QED BY <1>3, <1>4

-----------------------------------------------------------------------------
(* The inductive invariant.                                                *)

\* A countdown below the threshold belongs to the coalition that led at the
\* last tick, and every tick it is short of the threshold was earned.
CountdownEarned ==
    /\ victory.countdown \notin {None, Threshold} =>
          /\ victory.leading = saved.victory.leading
          /\ Threshold - victory.countdown <= streak
    /\ saved.victory.countdown # None =>
          Threshold - saved.victory.countdown <= streak

\* The memory and the row agree on the status, and a completed match was earned.
StatusAgrees ==
    /\ status = saved.status
    /\ saved.status = "completed" => Threshold <= streak

\* What is true of the record in memory is true of the row it may be reloaded
\* from; none of the properties is inductive without its twin for the row.
IndInv ==
    /\ TypeOK
    /\ Consistent(allianceOf, alliances)
    /\ VictorySound(victory) /\ VictorySound(saved.victory)
    /\ VictoryMatches(victory, owner, allianceOf)
    /\ VictoryMatches(saved.victory, saved.owner, saved.allianceOf)
    /\ CountdownEarned
    /\ StatusAgrees

\* The invariant holds of a match that has just been created.
LEMMA InitIndInv == Init => IndInv
<1> SUFFICES ASSUME Init PROVE IndInv
    OBVIOUS
<1> USE DEF Init
<1>1. TypeOK
    BY ThresholdAssumption DEF TypeOK, VictoryState, NoVictory
<1>2. Consistent(allianceOf, alliances)
    BY TypeFacts DEF Consistent
<1>3. VictorySound(victory) /\ VictorySound(saved.victory)
    BY DEF VictorySound, NoVictory
<1>4. /\ VictoryMatches(victory, owner, allianceOf)
      /\ VictoryMatches(saved.victory, saved.owner, saved.allianceOf)
    BY DEF VictoryMatches
<1>5. CountdownEarned /\ StatusAgrees
    BY DEF CountdownEarned, StatusAgrees, NoVictory
<1> QED BY <1>1, <1>2, <1>3, <1>4, <1>5 DEF IndInv

\* An alliance action with a consistent new membership preserves the invariant.
LEMMA SyncAfterPreserves ==
    ASSUME IndInv, NEW ally \in Memberships, SyncAfter(ally),
           alliances' \in [AllianceIndexes -> Alliance \cup {None}],
           Consistent(ally, alliances')
    PROVE  IndInv'
<1> DEFINE w == SyncVictoryState(victory, owner, ally)
<1>1. victory' = w /\ allianceOf' = ally /\ UNCHANGED <<owner, status, saved, streak>>
    BY DEF SyncAfter
<1>2. owner \in Boards /\ victory \in VictoryState /\ VictorySound(victory)
    BY DEF IndInv, TypeOK, Boards
<1>3. /\ w \in VictoryState
      /\ VictorySound(w)
      /\ VictoryMatches(w, owner, ally)
      /\ w.countdown \notin {None, Threshold} =>
             w.countdown = victory.countdown /\ w.leading = victory.leading
    BY <1>2, SyncFacts
<1> HIDE DEF w
<1>4. TypeOK'
    BY <1>1, <1>3 DEF IndInv, TypeOK, Memberships
<1>5. Consistent(allianceOf, alliances)'
    BY <1>1 DEF Consistent
<1>6. (VictorySound(victory) /\ VictorySound(saved.victory))'
    BY <1>1, <1>3 DEF IndInv, VictorySound
<1>7. (/\ VictoryMatches(victory, owner, allianceOf)
       /\ VictoryMatches(saved.victory, saved.owner, saved.allianceOf))'
    BY <1>1, <1>3 DEF IndInv, VictoryMatches
<1>8. CountdownEarned'
    BY <1>1, <1>3 DEF IndInv, CountdownEarned
<1>9. StatusAgrees'
    BY <1>1 DEF IndInv, StatusAgrees
<1> QED BY <1>4, <1>5, <1>6, <1>7, <1>8, <1>9 DEF IndInv

\* So does a reload, whichever alliances it builds as long as they agree with
\* the stored players.
LEMMA SeedPreserves ==
    ASSUME IndInv, NEW al, SeedFromDatabase(al),
           al \in [AllianceIndexes -> Alliance \cup {None}],
           Consistent(saved.allianceOf, al),
           saved'.status = status', status' \in {"lobby", "active", "completed"},
           saved' = [saved EXCEPT !.status = status'],
           status' = "completed" => saved.status = "completed"
    PROVE  IndInv'
<1>1. /\ owner' = saved.owner /\ allianceOf' = saved.allianceOf
      /\ alliances' = al /\ victory' = saved.victory /\ streak' = streak
    BY DEF SeedFromDatabase
<1>2. /\ saved'.owner = saved.owner /\ saved'.allianceOf = saved.allianceOf
      /\ saved'.victory = saved.victory /\ saved'.rows = saved.rows
    BY DEF IndInv, TypeOK
<1>3. TypeOK'
    BY <1>1, <1>2 DEF IndInv, TypeOK
<1>4. Consistent(allianceOf, alliances)'
    BY <1>1 DEF Consistent
<1>5. (VictorySound(victory) /\ VictorySound(saved.victory))'
    BY <1>1, <1>2 DEF IndInv, VictorySound
<1>6. (/\ VictoryMatches(victory, owner, allianceOf)
       /\ VictoryMatches(saved.victory, saved.owner, saved.allianceOf))'
    BY <1>1, <1>2 DEF IndInv, VictoryMatches
<1>7. CountdownEarned'
    BY <1>1, <1>2 DEF IndInv, CountdownEarned
<1>8. StatusAgrees'
    BY <1>1 DEF IndInv, StatusAgrees
<1> QED BY <1>3, <1>4, <1>5, <1>6, <1>7, <1>8 DEF IndInv

\* Creating an alliance under the smallest free id preserves the invariant.
LEMMA CreatePreserves ==
    ASSUME IndInv, NEW p \in Players, CreateAlliance(p)
    PROVE  IndInv'
<1>1. PICK a \in AllianceIndexes :
          /\ alliances[a] = None
          /\ alliances' = [alliances EXCEPT ![a] = [leader |-> p, members |-> {p}]]
          /\ SyncAfter([allianceOf EXCEPT ![p] = a])
    BY DEF CreateAlliance, IsNextAllianceId
<1> DEFINE ally == [allianceOf EXCEPT ![p] = a]
<1>2. /\ allianceOf \in Memberships
      /\ alliances \in [AllianceIndexes -> Alliance \cup {None}]
      /\ Consistent(allianceOf, alliances)
      /\ allianceOf[p] = None
    BY DEF IndInv, TypeOK, Memberships, CreateAlliance
<1>3. [leader |-> p, members |-> {p}] \in Alliance
    BY DEF Alliance
<1>4. ally \in Memberships
    BY <1>2 DEF Memberships
<1>5. alliances' \in [AllianceIndexes -> Alliance \cup {None}]
    BY <1>1, <1>2, <1>3
<1>6. Consistent(ally, alliances')
    <2>1. /\ alliances'[a] = [leader |-> p, members |-> {p}]
          /\ alliances'[a] # None
          /\ \A b \in AllianceIndexes \ {a} : alliances'[b] = alliances[b]
        BY <1>1, <1>2, <1>3, TypeFacts
    <2>2. ally[p] = a /\ \A q \in Players \ {p} : ally[q] = allianceOf[q]
        BY <1>2 DEF Memberships
    <2>3. \A q \in Players : allianceOf[q] # a
        BY <1>1, <1>2 DEF Consistent
    <2>4. alliances'[a].members = {p} /\ alliances'[a].leader = p
        BY <2>1
    <2> HIDE DEF ally
    <2>5. ASSUME NEW q \in Players, NEW b \in AllianceIndexes
          PROVE  ally[q] = b <=> (alliances'[b] # None /\ q \in alliances'[b].members)
        <3>1. CASE b = a
            BY <2>1, <2>2, <2>3, <2>4, <3>1
        <3>2. CASE b # a /\ q = p
            <4>1. ~(alliances[b] # None /\ p \in alliances[b].members)
                BY <1>2, TypeFacts DEF Consistent
            <4> QED BY <2>1, <2>2, <3>2, <4>1
        <3>3. CASE b # a /\ q # p
            BY <1>2, <2>1, <2>2, <3>3 DEF Consistent
        <3> QED BY <3>1, <3>2, <3>3
    <2>6. ASSUME NEW b \in AllianceIndexes, alliances'[b] # None
          PROVE  alliances'[b].leader \in alliances'[b].members
        BY <1>2, <2>1, <2>4, <2>6 DEF Consistent
    <2> QED BY <2>5, <2>6 DEF Consistent
<1> HIDE DEF ally
<1> QED BY <1>1, <1>4, <1>5, <1>6, SyncAfterPreserves DEF ally

\* Joining an alliance preserves the invariant.
LEMMA JoinPreserves ==
    ASSUME IndInv, NEW p \in Players, NEW a \in AllianceIndexes, JoinAlliance(p, a)
    PROVE  IndInv'
<1> DEFINE ally == [allianceOf EXCEPT ![p] = a]
<1>1. /\ allianceOf \in Memberships
      /\ alliances \in [AllianceIndexes -> Alliance \cup {None}]
      /\ Consistent(allianceOf, alliances)
      /\ allianceOf[p] = None
      /\ alliances[a] # None
      /\ alliances' = [alliances EXCEPT ![a].members = @ \cup {p}]
      /\ SyncAfter(ally)
    BY DEF IndInv, TypeOK, Memberships, JoinAlliance
<1>2. alliances[a] \in Alliance
    BY <1>1
<1>3. /\ alliances'[a] \in Alliance
      /\ alliances'[a].members = alliances[a].members \cup {p}
      /\ alliances'[a].leader = alliances[a].leader
      /\ \A b \in AllianceIndexes \ {a} : alliances'[b] = alliances[b]
    BY <1>1, <1>2 DEF Alliance
<1>4. ally \in Memberships
    BY <1>1 DEF Memberships
<1>5. alliances' \in [AllianceIndexes -> Alliance \cup {None}]
    BY <1>1, <1>2 DEF Alliance
<1>6. Consistent(ally, alliances')
    <2>1. ally[p] = a /\ \A q \in Players \ {p} : ally[q] = allianceOf[q]
        BY <1>1 DEF Memberships
    <2>2. alliances'[a] # None
        BY <1>3, TypeFacts
    <2> HIDE DEF ally
    <2>3. ASSUME NEW q \in Players, NEW b \in AllianceIndexes
          PROVE  ally[q] = b <=> (alliances'[b] # None /\ q \in alliances'[b].members)
        <3>1. CASE b = a
            BY <1>1, <1>3, <2>1, <2>2, <3>1 DEF Consistent
        <3>2. CASE b # a /\ q = p
            <4>1. ~(alliances[b] # None /\ p \in alliances[b].members)
                BY <1>1, TypeFacts DEF Consistent
            <4> QED BY <1>3, <2>1, <3>2, <4>1
        <3>3. CASE b # a /\ q # p
            BY <1>1, <1>3, <2>1, <3>3 DEF Consistent
        <3> QED BY <3>1, <3>2, <3>3
    <2>4. ASSUME NEW b \in AllianceIndexes, alliances'[b] # None
          PROVE  alliances'[b].leader \in alliances'[b].members
        BY <1>1, <1>3, <2>4 DEF Consistent
    <2> QED BY <2>3, <2>4 DEF Consistent
<1> HIDE DEF ally
<1> QED BY <1>1, <1>4, <1>5, <1>6, SyncAfterPreserves

\* Leaving preserves the invariant, with a new leader or the alliance dissolved.
LEMMA LeavePreserves ==
    ASSUME IndInv, NEW p \in Players, LeaveAlliance(p)
    PROVE  IndInv'
<1> DEFINE ally == [allianceOf EXCEPT ![p] = None]
           a == allianceOf[p]
           rest == alliances[a].members \ {p}
           left == IF alliances[a].members = {p} THEN None
                   ELSE RemainingAlliance(alliances[a], p)
<1>1. /\ allianceOf \in Memberships
      /\ alliances \in [AllianceIndexes -> Alliance \cup {None}]
      /\ Consistent(allianceOf, alliances)
      /\ a # None
      /\ alliances[a] # None
      /\ alliances' = [alliances EXCEPT ![a] = left]
      /\ SyncAfter(ally)
    BY DEF IndInv, TypeOK, Memberships, LeaveAlliance
<1>2. a \in AllianceIndexes
    BY <1>1 DEF Memberships
<1>3. alliances[a] \in Alliance /\ p \in alliances[a].members
    BY <1>1, <1>2 DEF Consistent
<1>4. rest \in SUBSET Players
    BY <1>3 DEF Alliance
<1>5. CASE rest = {}
    <2>1. left = None
        BY <1>3, <1>5
    <2>2. alliances' \in [AllianceIndexes -> Alliance \cup {None}]
        BY <1>1, <2>1
    <2>3. ally \in Memberships
        BY <1>1 DEF Memberships
    <2>4. \A q \in Players : allianceOf[q] = a => q = p
        BY <1>1, <1>2, <1>5 DEF Consistent
    <2>5. Consistent(ally, alliances')
        BY <1>1, <1>2, <2>1, <2>4, TypeFacts DEF Consistent, Memberships
    <2> HIDE DEF ally
    <2> QED BY <1>1, <2>2, <2>3, <2>5, SyncAfterPreserves
<1>6. CASE rest # {}
    <2>1. left = RemainingAlliance(alliances[a], p)
        BY <1>6
    <2>2. LowestId(rest) \in rest
        BY <1>4, <1>6, LowestIdIsMember
    <2>3. alliances[a].leader \in alliances[a].members
        BY <1>1, <1>2 DEF Consistent
    <2>4. /\ left \in Alliance
          /\ left.members = rest
          /\ left.leader \in rest
        BY <1>3, <1>4, <2>1, <2>2, <2>3 DEF RemainingAlliance, Alliance
    <2> HIDE DEF left
    <2>5. alliances' \in [AllianceIndexes -> Alliance \cup {None}]
        BY <1>1, <2>4
    <2>6. ally \in Memberships
        BY <1>1 DEF Memberships
    <2>7. Consistent(ally, alliances')
        BY <1>1, <1>2, <2>4, TypeFacts DEF Consistent, Memberships
    <2> HIDE DEF ally
    <2> QED BY <1>1, <2>5, <2>6, <2>7, SyncAfterPreserves
<1> QED BY <1>5, <1>6

\* A tick preserves the invariant: a countdown goes down only as the streak goes
\* up, and only a terminal tick completes the match.
LEMMA TickPreserves ==
    ASSUME IndInv, Tick
    PROVE  IndInv'
<1>1. PICK own \in Boards : owner' = own
    BY DEF Tick, Boards
<1>2. /\ status = "active"
      /\ victory' = SyncVictoryState(
                        ResolveVictoryPhase(victory, own, allianceOf), own, allianceOf)
      /\ status' = IF IsTerminalVictory(victory') THEN "completed" ELSE "active"
      /\ saved'.owner = own /\ saved'.allianceOf = allianceOf
      /\ saved'.victory = victory' /\ saved'.status = status'
      /\ streak' = StreakAfter(victory')
      /\ allianceOf' = allianceOf /\ alliances' = alliances
    BY <1>1 DEF Tick
<1>3. /\ allianceOf \in Memberships /\ victory \in VictoryState /\ streak \in Nat
      /\ VictorySound(victory) /\ CountdownEarned
    BY DEF IndInv, TypeOK, Memberships
<1>4. /\ victory' \in VictoryState
      /\ VictorySound(victory')
      /\ VictoryMatches(victory', own, allianceOf)
      /\ victory'.countdown \notin {None, Threshold} =>
             /\ victory'.leading = victory.leading
             /\ victory.countdown # None
             /\ victory'.countdown = IF victory.countdown > 0
                                     THEN victory.countdown - 1 ELSE 0
    BY <1>2, <1>3, TickFacts
<1>5. streak' \in Nat
    BY <1>2, <1>3 DEF StreakAfter
<1>6. saved'.rows \in SUBSET Alliance
    BY DEF Tick, IndInv, TypeOK
<1>7. TypeOK'
    <2>1. saved' = [owner |-> own, allianceOf |-> allianceOf, victory |-> victory',
                    status |-> status', rows |-> saved'.rows]
        BY <1>1 DEF Tick
    <2>2. saved' \in [owner : [Cities -> Players \cup {None}],
                      allianceOf : [Players -> AllianceIndexes \cup {None}],
                      victory : VictoryState,
                      status : {"lobby", "active", "completed"},
                      rows : SUBSET Alliance]
        BY <1>2, <1>3, <1>4, <1>6, <2>1 DEF Boards, Memberships
    <2> QED BY <1>1, <1>2, <1>3, <1>4, <1>5, <2>2
            DEF TypeOK, IndInv, Boards, Memberships, VictoryState
<1>8. victory'.countdown # None => Threshold - victory'.countdown <= streak'
    <2> SUFFICES ASSUME victory'.countdown # None
                 PROVE  Threshold - victory'.countdown <= streak'
        OBVIOUS
    <2>1. /\ victory'.countdown \in Nat /\ victory'.leading # None
          /\ victory'.held >= Threshold /\ victory'.held \in Nat
          /\ victory'.countdown <= Threshold
        BY <1>4 DEF VictorySound, VictoryState
    <2>2. /\ streak' = IF victory'.leading # saved.victory.leading THEN 1
                       ELSE IF streak < Threshold THEN streak + 1 ELSE streak
        BY <1>2, <2>1, ThresholdAssumption DEF StreakAfter
    <2>3. CASE victory'.countdown = Threshold
        BY <1>5, <2>3, ThresholdAssumption
    <2>4. CASE victory'.countdown # Threshold
        <3>1. /\ victory'.leading = victory.leading
              /\ victory.countdown \in Nat /\ victory.countdown <= Threshold
              /\ victory'.countdown = IF victory.countdown > 0
                                      THEN victory.countdown - 1 ELSE 0
            BY <1>3, <1>4, <2>4 DEF VictorySound, VictoryState
        <3>2. CASE victory.countdown = Threshold
            BY <1>3, <2>1, <2>2, <2>4, <3>1, <3>2, ThresholdAssumption
        <3>3. CASE victory.countdown # Threshold
            <4>1. /\ victory.leading = saved.victory.leading
                  /\ Threshold - victory.countdown <= streak
                BY <1>3, <3>1, <3>3, NoneAssumption DEF CountdownEarned
            <4> QED BY <1>3, <2>2, <3>1, <4>1, ThresholdAssumption
        <3> QED BY <3>2, <3>3
    <2> QED BY <2>3, <2>4
<1>9. CountdownEarned'
    BY <1>2, <1>8 DEF CountdownEarned
<1>10. StatusAgrees'
    <2>1. IsTerminalVictory(victory') => Threshold <= streak'
        BY <1>5, <1>8, NoneAssumption, ThresholdAssumption DEF IsTerminalVictory
    <2> QED BY <1>2, <2>1 DEF StatusAgrees
<1>11. Consistent(allianceOf, alliances)'
    BY <1>2 DEF IndInv, Consistent
<1>12. (VictorySound(victory) /\ VictorySound(saved.victory))'
    BY <1>2, <1>4 DEF VictorySound
<1>13. (/\ VictoryMatches(victory, owner, allianceOf)
        /\ VictoryMatches(saved.victory, saved.owner, saved.allianceOf))'
    BY <1>1, <1>2, <1>4 DEF VictoryMatches
<1> QED BY <1>7, <1>9, <1>10, <1>11, <1>12, <1>13 DEF IndInv

\* A restart, a repeated join and a start preserve the invariant.
LEMMA ReloadPreserves ==
    ASSUME IndInv, Rejoin \/ Restart \/ StartMatch
    PROVE  IndInv'
<1>1. saved.allianceOf \in Memberships /\ saved.rows \in SUBSET Alliance
      /\ saved.status \in {"lobby", "active", "completed"}
    BY DEF IndInv, TypeOK, Memberships
<1>2. CASE Rejoin
    <2>1. /\ SeedFromDatabase(DeriveAlliances(saved.allianceOf))
          /\ status' = saved.status /\ saved' = saved
        BY <1>2 DEF Rejoin
    <2>2. saved' = [saved EXCEPT !.status = status']
        BY <2>1 DEF IndInv, TypeOK
    <2> QED BY <1>1, <2>1, <2>2, DerivedConsistent, SeedPreserves
<1>3. CASE Restart
    <2>1. /\ SeedFromDatabase(MergeAllianceRows(saved.allianceOf, saved.rows))
          /\ status' = saved.status /\ saved' = saved
        BY <1>3 DEF Restart
    <2>2. saved' = [saved EXCEPT !.status = status']
        BY <2>1 DEF IndInv, TypeOK
    <2> QED BY <1>1, <2>1, <2>2, MergedConsistent, SeedPreserves
<1>4. CASE StartMatch
    <2>1. /\ SeedFromDatabase(DeriveAlliances(saved.allianceOf))
          /\ status' = "active" /\ saved' = [saved EXCEPT !.status = status']
        BY <1>4 DEF StartMatch
    <2>2. saved'.status = status'
        BY <2>1 DEF IndInv, TypeOK
    <2> QED BY <1>1, <2>1, <2>2, DerivedConsistent, SeedPreserves
<1> QED BY <1>2, <1>3, <1>4

\* Every step of the system preserves the invariant.
LEMMA NextIndInv == IndInv /\ [Next]_vars => IndInv'
<1> SUFFICES ASSUME IndInv, [Next]_vars PROVE IndInv'
    OBVIOUS
<1>1. ASSUME NEW p \in Players, CreateAlliance(p) PROVE IndInv'
    BY <1>1, CreatePreserves
<1>2. ASSUME NEW p \in Players, NEW a \in AllianceIndexes, JoinAlliance(p, a)
      PROVE  IndInv'
    BY <1>2, JoinPreserves
<1>3. ASSUME NEW p \in Players, LeaveAlliance(p) PROVE IndInv'
    BY <1>3, LeavePreserves
<1>4. CASE Tick
    BY <1>4, TickPreserves
<1>5. CASE Rejoin \/ Restart \/ StartMatch
    BY <1>5, ReloadPreserves
<1>6. CASE UNCHANGED vars
    BY <1>6 DEF vars, IndInv, TypeOK, Consistent, VictorySound, VictoryMatches,
                CountdownEarned, StatusAgrees
<1> QED BY <1>1, <1>2, <1>3, <1>4, <1>5, <1>6 DEF Next

\* What the invariant says of the properties the runs check.
LEMMA IndInvSuffices ==
    IndInv => /\ TypeOK /\ MembershipConsistent /\ CountdownSound
              /\ VictoryMatchesBoard /\ SustainedControl
<1> SUFFICES ASSUME IndInv
             PROVE  /\ TypeOK /\ MembershipConsistent /\ CountdownSound
                    /\ VictoryMatchesBoard /\ SustainedControl
    OBVIOUS
<1>1. TypeOK
    BY DEF IndInv
<1>2. MembershipConsistent
    BY DEF IndInv, Consistent, MembershipConsistent
<1>3. CountdownSound
    BY DEF IndInv, VictorySound, CountdownSound
<1>4. VictoryMatchesBoard
    BY DEF IndInv, VictoryMatches, VictoryMatchesBoard
<1>5. SustainedControl
    <2>1. streak \in Nat
        BY <1>1 DEF TypeOK
    <2>2. CASE victory.countdown = Threshold
        BY <2>1, <2>2, ThresholdAssumption
           DEF IndInv, StatusAgrees, SustainedControl
    <2>3. CASE victory.countdown # Threshold
        BY <2>3 DEF IndInv, CountdownEarned, StatusAgrees, SustainedControl
    <2> QED BY <2>2, <2>3
<1> QED BY <1>1, <1>2, <1>3, <1>4, <1>5

-----------------------------------------------------------------------------
(* The theorems.                                                           *)

\* The invariant holds in every reachable state.
LEMMA Invariance == Spec => []IndInv
BY InitIndInv, NextIndInv, PTL DEF Spec

\* The record in memory, the database row and the alliance rows keep their
\* shape through every alliance action, tick, reload and start.
THEOREM TypeCorrect == Spec => []TypeOK
BY Invariance, IndInvSuffices, PTL

\* apply_alliance_action, derive_alliances_from_state and
\* merge_persisted_alliance_metadata keep the players' alliance_id and the
\* alliance records in agreement, for any number of players.
THEOREM MembershipAgrees == Spec => []MembershipConsistent
BY Invariance, IndInvSuffices, PTL

\* sync_victory_state and the victory phase let a countdown run only for a
\* leader at or above the threshold.
THEOREM CountdownIsSound == Spec => []CountdownSound
BY Invariance, IndInvSuffices, PTL

\* The victory state is what the board and the alliances give, whatever
\* changed last.
THEOREM VictoryIsCurrent == Spec => []VictoryMatchesBoard
BY Invariance, IndInvSuffices, PTL

\* No match is won early: a completed match was led at or above the threshold
\* by one coalition for at least Threshold ticks in a row, for any board, any
\* threshold and any interleaving of alliance actions, restarts and reloads.
THEOREM VictoryIsEarned == Spec => []SustainedControl
BY Invariance, IndInvSuffices, PTL

\* Once the terminal tick is written, nothing reopens the match or changes the
\* stored result.
THEOREM ResultIsFinal == Spec => CompletionIsFinal
<1>1. ASSUME IndInv, [Next]_vars
      PROVE  [saved.status = "completed" => saved' = saved /\ status' = "completed"]_vars
    <2> SUFFICES ASSUME Next, saved.status = "completed"
                 PROVE  saved' = saved /\ status' = "completed"
        BY <1>1
    <2>1. status = "completed"
        BY <1>1 DEF IndInv, StatusAgrees
    <2> QED BY <2>1 DEF Next, CreateAlliance, JoinAlliance, LeaveAlliance, SyncAfter,
                        Tick, Rejoin, Restart, StartMatch
<1> QED BY <1>1, Invariance, PTL DEF Spec, CompletionIsFinal

\* Membership and victory state, each kept or computed twice, are right at once.
THEOREM RecordIsConsistent == Spec => []RecordConsistent
<1>1. MembershipConsistent /\ CountdownSound /\ VictoryMatchesBoard => RecordConsistent
  BY DEF RecordConsistent
<1> QED
  BY <1>1, MembershipAgrees, CountdownIsSound, VictoryIsCurrent, PTL

-----------------------------------------------------------------------------
(* Owners and their agents, for any people, keys, seats and bounds.        *)

\* What a briefing leaves out it has told before: dates lie in the past, and guidance for a
\* seat is from the person whose agent has the seat.
Dated ==
    /\ \A k \in Joined : heard[k].tick <= tick
    /\ treaty.proposed <= tick /\ treaty.signed <= tick /\ treaty.ended <= tick

\* What was announced is still there, or each agent was told of it, or missed it; and what is
\* there from before the tick an agent has seen, it was told.
NewsKept ==
    \A k \in Joined :
        /\ announced \subseteq news \cup heard[k].news \cup missed[k]
        /\ \A n \in news : n.tick < heard[k].tick => n \in heard[k].news

Numbered == \A q \in queue : q.id <= attempts

OwnersSay == \A g \in guidance : \A k \in Joined : Seat[k] = g.player => g.owner = Owner[k]

GuidedInv ==
    /\ GuidedTypeOK
    /\ IsFiniteSet(guidance)
    /\ Dated
    /\ OwnersSay
    /\ NewsKept
    /\ Numbered
    /\ BriefedInFull
    /\ GuidanceStaysPrivate
    /\ OverridesAudited

\* treaty_latest_tick is the greatest of a treaty's three ticks.
LEMMA LatestTickIsGreatest ==
    ASSUME NEW t, t.proposed \in Nat, t.signed \in Nat, t.ended \in Nat
    PROVE  /\ LatestTick(t) \in Nat
           /\ t.proposed <= LatestTick(t) /\ t.signed <= LatestTick(t) /\ t.ended <= LatestTick(t)
           /\ \/ LatestTick(t) = t.proposed
              \/ LatestTick(t) = t.signed
              \/ LatestTick(t) = t.ended
<1> DEFINE m == {t.proposed, t.signed, t.ended}
<1>1. \E x \in m : \A y \in m : y <= x
  OBVIOUS
<1>2. LatestTick(t) = CHOOSE x \in m : \A y \in m : y <= x
  BY DEF LatestTick
<1> DEFINE greatest == CHOOSE x \in m : \A y \in m : y <= x
<1>3. greatest \in m /\ \A y \in m : y <= greatest
  <2> HIDE DEF m
  <2> QED BY <1>1, Zenon
<1> HIDE DEF greatest
<1> QED BY <1>2, <1>3 DEF greatest

LEMMA GuidedStarts ==
    ASSUME GuidedPlayAssumption, GuidedInit
    PROVE  GuidedInv
<1> USE DEF GuidedPlayAssumption, GuidedInit
<1>1. GuidedTypeOK
  <2>1. tick \in Ticks /\ 0 \in Ticks /\ attempts \in 0..MaxOrders
    BY DEF Ticks
  <2>2. treaty \in Treaty
    BY <2>1 DEF Treaty, NoTreaty
  <2>3. heard \in [Joined -> [tick : Ticks, guidance : SUBSET GuidanceRow,
                              treaties : SUBSET Treaty, news : SUBSET News]]
    BY <2>1
  <2>4. resolved \in [PlayerIds -> SUBSET (1..MaxOrders)]
    OBVIOUS
  <2> QED BY <2>1, <2>2, <2>3, <2>4 DEF GuidedTypeOK
<1>2. IsFiniteSet(guidance)
  BY FS_EmptySet
<1>3. Dated
  BY DEF Dated, NoTreaty
<1>4. OwnersSay /\ OverridesAudited
  BY DEF OwnersSay, OverridesAudited
<1>5. BriefedInFull /\ GuidanceStaysPrivate /\ NewsKept /\ Numbered
  BY DEF BriefedInFull, NoTreaty, GuidanceStaysPrivate, NewsKept, Numbered
<1> QED BY <1>1, <1>2, <1>3, <1>4, <1>5 DEF GuidedInv

\* A person's guidance is for the seat of its own agent, and carries the present tick, which
\* no briefing has come to the end of.
LEMMA GuidancePosted ==
    ASSUME GuidedPlayAssumption, GuidedInv, NEW u \in Users, NEW k \in Keys, PostGuidance(u, k)
    PROVE  GuidedInv'
<1> DEFINE new == NewGuidance(u, k)
<1>1. /\ k \in Joined /\ u = Owner[k] /\ guidance' = guidance \cup {new}
      /\ Cardinality(guidance) < MaxWhispers
      /\ UNCHANGED <<active, tick, queue, audit, treaty, news, attempts, heard, resolved, announced,
                     cached, reloads, missed, lost>>
  BY DEF PostGuidance, MayGuide, Owns, reloadVars
<1>2. new.owner = u /\ new.player = Seat[k] /\ new.tick = tick
  BY DEF NewGuidance
<1>3. new \in GuidanceRow
  <2>1. Cardinality(guidance) + 1 \in 1..MaxWhispers
    BY <1>1, FS_CardinalityType DEF GuidedInv, GuidedPlayAssumption
  <2>2. tick \in Ticks /\ Seat[k] \in PlayerIds
    BY <1>1 DEF GuidedInv, GuidedTypeOK, PlayerIds
  <2> QED BY <2>1, <2>2 DEF NewGuidance, GuidanceRow
<1> HIDE DEF new
<1>4. GuidedTypeOK'
  BY <1>1, <1>3 DEF GuidedInv, GuidedTypeOK
<1>5. IsFiniteSet(guidance')
  BY <1>1, FS_AddElement DEF GuidedInv
<1>6. Dated' /\ NewsKept' /\ Numbered' /\ OverridesAudited'
  BY <1>1 DEF GuidedInv, Dated, NewsKept, Numbered, OverridesAudited
<1>7. OwnersSay'
  <2>1. ASSUME NEW j \in Joined, Seat[j] = new.player PROVE new.owner = Owner[j]
    BY <1>1, <1>2, <2>1 DEF GuidedPlayAssumption, Joined
  <2> QED BY <1>1, <2>1 DEF GuidedInv, OwnersSay
<1>8. BriefedInFull'
  <2>1. ASSUME NEW j \in Joined PROVE ~(tick < heard[j].tick)
    BY <2>1 DEF GuidedInv, Dated, GuidedTypeOK, Ticks, GuidedPlayAssumption
  <2>2. ASSUME NEW j \in Joined, j \in active, NEW g \in guidance', g.player = Seat[j],
               g.tick < heard[j].tick
        PROVE  g \in heard[j].guidance
    <3>1. g \in guidance
      BY <1>1, <1>2, <2>1, <2>2
    <3> QED BY <2>2, <3>1 DEF GuidedInv, BriefedInFull
  <2> QED BY <1>1, <2>2 DEF GuidedInv, BriefedInFull
<1>9. GuidanceStaysPrivate'
  BY <1>1 DEF GuidedInv, GuidanceStaysPrivate
<1> QED BY <1>4, <1>5, <1>6, <1>7, <1>8, <1>9 DEF GuidedInv

\* What is numbered by the attempts fits their bound.
LEMMA QueuedFits ==
    ASSUME GuidedPlayAssumption, GuidedInv, attempts < MaxOrders,
           NEW k \in Joined, NEW kind \in {"orders", "override"}
    PROVE  /\ NewQueued(k, kind) \in Queued
           /\ attempts + 1 \in 0..MaxOrders
<1>1. attempts + 1 \in 0..MaxOrders /\ attempts + 1 \in 1..MaxOrders
  BY DEF GuidedInv, GuidedTypeOK, GuidedPlayAssumption
<1>2. tick \in Ticks /\ Seat[k] \in PlayerIds
  BY DEF GuidedInv, GuidedTypeOK, PlayerIds
<1> QED BY <1>1, <1>2 DEF NewQueued, Queued

\* The queue's numbers stay below the attempts, whatever is taken out of it.
LEMMA NumbersGrow ==
    ASSUME GuidedInv, NEW s, s.id = attempts + 1, attempts' = attempts + 1,
           queue' \subseteq queue \cup {s}
    PROVE  Numbered'
<1>1. attempts \in Nat /\ \A q \in queue : q.id \in Nat /\ q.id <= attempts
  BY DEF GuidedInv, GuidedTypeOK, Queued, Numbered
<1>2. ASSUME NEW q \in queue' PROVE q.id <= attempts'
  <2>1. CASE q \in queue
    BY <1>1, <2>1
  <2>2. CASE q = s
    BY <1>1, <2>2
  <2> QED BY <1>2, <2>1, <2>2
<1> QED BY <1>2 DEF Numbered

LEMMA SubmissionQueued ==
    ASSUME GuidedPlayAssumption, GuidedInv, NEW k \in Keys, AgentSubmits(k)
    PROVE  GuidedInv'
<1> DEFINE new == NewQueued(k, "orders")
<1>1. /\ queue' = queue \cup {new} /\ attempts' = attempts + 1
      /\ UNCHANGED <<active, tick, guidance, audit, treaty, news, heard, resolved, announced,
                     cached, reloads, missed, lost>>
  BY DEF AgentSubmits, reloadVars
<1>2. /\ new \in Queued /\ attempts' \in 0..MaxOrders /\ new.kind = "orders"
      /\ new.id = attempts + 1
  BY <1>1, QueuedFits DEF AgentSubmits, NewQueued
<1> HIDE DEF new
<1>3. GuidedTypeOK'
  BY <1>1, <1>2 DEF GuidedInv, GuidedTypeOK
<1>4. OverridesAudited'
  BY <1>1, <1>2 DEF GuidedInv, OverridesAudited
<1>5. Numbered'
  BY <1>1, <1>2, NumbersGrow
<1> QED
  BY <1>1, <1>3, <1>4, <1>5 DEF GuidedInv, Dated, OwnersSay, NewsKept, BriefedInFull,
                                 GuidanceStaysPrivate

\* An override is queued with its audit row, and the rows of the others stay.
LEMMA OverrideQueued ==
    ASSUME GuidedPlayAssumption, GuidedInv, NEW u \in Users, NEW k \in Keys, Override(u, k)
    PROVE  GuidedInv'
<1> DEFINE s == NewQueued(k, "override")
           r == OverrideRowFor(u, s)
<1>1. /\ k \in Joined /\ u = Owner[k] /\ attempts' = attempts + 1
      /\ queue' \subseteq queue \cup {s} /\ audit' = audit \cup {r}
      /\ UNCHANGED <<active, tick, guidance, treaty, news, heard, resolved, announced,
                     cached, reloads, missed, lost>>
  BY DEF Override, MayGuide, Owns, ReplaceSubmissions, reloadVars
<1>2. s \in Queued /\ attempts' \in 0..MaxOrders
  BY <1>1, QueuedFits DEF Override
<1>3. r \in OverrideRow /\ r.id = s.id /\ r.tick = s.tick /\ r.player = s.player /\ r.owner = u
  BY <1>2 DEF OverrideRowFor, OverrideRow, Queued
<1>4. s.player = Seat[k] /\ s.id = attempts + 1
  BY DEF NewQueued
<1> HIDE DEF s, r
<1>7. Numbered'
  BY <1>1, <1>4, NumbersGrow
<1>5. GuidedTypeOK'
  BY <1>1, <1>2, <1>3 DEF GuidedInv, GuidedTypeOK
<1>6. OverridesAudited'
  BY <1>1, <1>3, <1>4 DEF GuidedInv, OverridesAudited
<1> QED
  BY <1>1, <1>5, <1>6, <1>7 DEF GuidedInv, Dated, OwnersSay, NewsKept, BriefedInFull,
                                 GuidanceStaysPrivate

LEMMA OverrideUndone ==
    ASSUME GuidedPlayAssumption, GuidedInv, NEW u \in Users, NEW k \in Keys,
           OverrideNotAudited(u, k)
    PROVE  GuidedInv'
<1> DEFINE s == NewQueued(k, "override")
           r == OverrideRowFor(u, s)
<1>1. /\ k \in Joined /\ attempts' = attempts + 1
      /\ audit \subseteq audit' /\ audit' \subseteq audit \cup {r}
      /\ UNCHANGED <<active, tick, queue, guidance, treaty, news, heard, resolved, announced,
                     cached, reloads, missed, lost>>
  BY DEF OverrideNotAudited, MayGuide, reloadVars
<1>2. s \in Queued /\ attempts' \in 0..MaxOrders
  BY <1>1, QueuedFits DEF OverrideNotAudited
<1>3. r \in OverrideRow
  BY <1>2 DEF OverrideRowFor, OverrideRow, Queued
<1> HIDE DEF s, r
<1>4. GuidedTypeOK'
  BY <1>1, <1>2, <1>3 DEF GuidedInv, GuidedTypeOK
<1>5. OverridesAudited'
  BY <1>1 DEF GuidedInv, OverridesAudited
<1>6. Numbered'
  BY <1>1, <1>2 DEF GuidedInv, GuidedTypeOK, Numbered, Queued
<1> QED
  BY <1>1, <1>4, <1>5, <1>6 DEF GuidedInv, Dated, OwnersSay, NewsKept, BriefedInFull,
                                 GuidanceStaysPrivate

\* An agent whose key is revoked is promised no more guidance.
LEMMA KeyRevoked ==
    ASSUME GuidedInv, NEW k \in Keys, RevokeKey(k)
    PROVE  GuidedInv'
<1>1. /\ active' \subseteq active
      /\ UNCHANGED <<tick, queue, guidance, audit, treaty, news, attempts, heard, resolved, announced,
                     cached, reloads, missed, lost>>
  BY DEF RevokeKey, reloadVars
<1>2. GuidedTypeOK'
  BY <1>1 DEF GuidedInv, GuidedTypeOK
<1>3. BriefedInFull'
  BY <1>1 DEF GuidedInv, BriefedInFull
<1> QED
  BY <1>1, <1>2, <1>3 DEF GuidedInv, Dated, OwnersSay, NewsKept, Numbered, GuidanceStaysPrivate,
                          OverridesAudited

\* A briefing tells what is at least as old as the last one's tick; what is older was told.
LEMMA BriefingGiven ==
    ASSUME GuidedPlayAssumption, GuidedInv, NEW k \in Keys, Briefing(k)
    PROVE  GuidedInv'
<1> DEFINE h == heard[k]
           b == BriefingFor(k, h.tick)
           told == IF b.treaties = {} THEN h.treaties ELSE b.treaties
           after == [tick |-> tick, guidance |-> h.guidance \cup b.guidance, treaties |-> told,
                     news |-> h.news \cup b.news]
<1>1. /\ k \in Joined /\ heard' = [heard EXCEPT ![k] = after]
      /\ UNCHANGED <<active, tick, queue, guidance, audit, treaty, news, attempts, resolved, announced,
                     cached, reloads, missed, lost>>
  BY DEF Briefing, reloadVars
<1>2. /\ h.tick \in Nat /\ h.tick <= tick /\ tick \in Nat /\ tick \in Ticks
      /\ h.guidance \subseteq GuidanceRow /\ h.treaties \subseteq Treaty /\ h.news \subseteq News
  BY <1>1 DEF GuidedInv, GuidedTypeOK, Dated, Ticks, GuidedPlayAssumption
<1>3. /\ b.guidance = Since(UNION {ListGuidance(u, Seat[k]) : u \in OwnersOf(k)}, h.tick)
      /\ b.treaties = ListTreaties(h.tick)
      /\ b.news = Since(news, h.tick)
  BY DEF BriefingFor
<1> HIDE DEF b
<1>4. ASSUME NEW g
      PROVE  g \in b.guidance <=> /\ g \in guidance /\ g.player = Seat[k] /\ g.tick >= h.tick
                                  /\ k \in active /\ g.owner = Owner[k]
  BY <1>3 DEF Since, ListGuidance, OwnersOf
<1>5. b.news = {n \in news : n.tick >= h.tick}
  BY <1>3 DEF Since
<1>6. b.treaties = IF treaty.status # "none" /\ LatestTick(treaty) >= h.tick
                   THEN {treaty} ELSE {}
  BY <1>3 DEF ListTreaties
<1>7. /\ b.guidance \subseteq GuidanceRow /\ told \subseteq Treaty /\ b.news \subseteq News
  BY <1>2, <1>4, <1>5, <1>6 DEF GuidedInv, GuidedTypeOK
<1>8. /\ heard'[k].tick = tick /\ heard'[k].guidance = h.guidance \cup b.guidance
      /\ heard'[k].treaties = told /\ heard'[k].news = h.news \cup b.news
      /\ \A j \in Joined \ {k} : heard'[j] = heard[j]
  BY <1>1 DEF GuidedInv, GuidedTypeOK
<1>9. GuidedTypeOK'
  <2>1. after \in [tick : Ticks, guidance : SUBSET GuidanceRow, treaties : SUBSET Treaty,
                   news : SUBSET News]
    BY <1>2, <1>7
  <2> HIDE DEF after
  <2> QED BY <1>1, <2>1 DEF GuidedInv, GuidedTypeOK
<1>10. Dated'
  BY <1>1, <1>2, <1>8 DEF GuidedInv, Dated
<1>14. \A n \in news : n \in h.news \cup b.news
  <2> SUFFICES ASSUME NEW n \in news PROVE n \in h.news \cup b.news
    OBVIOUS
  <2>1. n.tick \in Nat
    BY DEF GuidedInv, GuidedTypeOK, News, Ticks
  <2>2. CASE n.tick < h.tick
    BY <1>1, <2>2 DEF GuidedInv, NewsKept
  <2>3. CASE n.tick >= h.tick
    BY <1>5, <2>3
  <2> QED BY <1>2, <2>1, <2>2, <2>3
<1>15. NewsKept'
  <2> HIDE DEF h
  <2>1. h.news = heard[k].news
    BY DEF h
  <2>2. ASSUME NEW j \in Joined
        PROVE  /\ announced \subseteq news \cup heard'[j].news \cup missed[j]
               /\ \A n \in news : n.tick < heard'[j].tick => n \in heard'[j].news
    <3>1. CASE j = k
      BY <1>1, <1>8, <1>14, <2>1, <3>1 DEF GuidedInv, NewsKept
    <3>2. CASE j # k
      BY <1>8, <3>2 DEF GuidedInv, NewsKept
    <3> QED BY <3>1, <3>2
  <2> QED BY <1>1, <2>2 DEF NewsKept
<1>11. BriefedInFull'
  <2>1. ASSUME NEW g \in guidance, k \in active, g.player = Seat[k]
        PROVE  g \in h.guidance \cup b.guidance
    <3>1. g.owner = Owner[k] /\ g.tick \in Nat
      BY <1>1, <2>1 DEF GuidedInv, OwnersSay, GuidedTypeOK, GuidanceRow, Ticks
    <3>2. CASE g.tick < h.tick
      BY <1>1, <2>1, <3>2 DEF GuidedInv, BriefedInFull
    <3>3. CASE g.tick >= h.tick
      BY <1>4, <2>1, <3>1, <3>3
    <3> QED BY <1>2, <3>1, <3>2, <3>3
  <2>3. ASSUME treaty.status # "none" PROVE told = {treaty}
    <3>1. LatestTick(treaty) \in Nat
      BY LatestTickIsGreatest DEF GuidedInv, GuidedTypeOK, Treaty, Ticks
    <3>2. CASE LatestTick(treaty) < h.tick
      <4>1. b.treaties = {} /\ h.treaties = {treaty}
        BY <1>1, <1>2, <1>6, <2>3, <3>1, <3>2 DEF GuidedInv, BriefedInFull
      <4> QED BY <4>1
    <3>3. CASE LatestTick(treaty) >= h.tick
      BY <1>6, <2>3, <3>3
    <3> QED BY <1>2, <3>1, <3>2, <3>3
  <2> HIDE DEF told, h
  <2>4. ASSUME NEW j \in Joined
        PROVE  /\ j \in active => \A g \in guidance :
                     g.player = Seat[j] /\ g.tick < heard'[j].tick => g \in heard'[j].guidance
               /\ treaty.status # "none" /\ LatestTick(treaty) < heard'[j].tick
                     => heard'[j].treaties = {treaty}
    <3>1. CASE j = k
      BY <1>8, <2>1, <2>3, <3>1
    <3>2. CASE j # k
      BY <1>8, <3>2 DEF GuidedInv, BriefedInFull
    <3> QED BY <3>1, <3>2
  <2>5. \A j \in Joined : \A n \in announced : n.tick < heard'[j].tick => n \in heard'[j].news \cup missed[j]
    BY <1>1, <1>15 DEF NewsKept
  <2> QED BY <1>1, <2>4, <2>5 DEF BriefedInFull
<1>12. GuidanceStaysPrivate'
  <2>1. ASSUME NEW g \in b.guidance PROVE g.player = Seat[k] /\ g.owner = Owner[k]
    BY <1>4
  <2> QED BY <1>1, <1>8, <2>1 DEF GuidedInv, GuidanceStaysPrivate
<1>13. OwnersSay' /\ Numbered' /\ OverridesAudited' /\ IsFiniteSet(guidance')
  BY <1>1 DEF GuidedInv, OwnersSay, Numbered, OverridesAudited
<1> QED BY <1>9, <1>10, <1>11, <1>12, <1>13, <1>15 DEF GuidedInv

\* Whatever is done to the treaty carries the present tick, and so does its announcement: no
\* briefing has come to the end of that tick.
LEMMA TreatyChanged ==
    ASSUME GuidedPlayAssumption, GuidedInv, treaty' \in Treaty, news' \subseteq News,
           treaty'.proposed <= tick, treaty'.signed <= tick, treaty'.ended <= tick,
           treaty' = treaty \/ LatestTick(treaty') = tick,
           \A n \in news' : n \in news \/ n.tick = tick, news \subseteq news',
           announced' = announced \cup news', missed' = missed,
           heard' = heard, guidance' = guidance, active' = active
    PROVE  BriefedInFull' /\ NewsKept'
<1>1. ASSUME NEW j \in Joined PROVE ~(tick < heard[j].tick)
  BY <1>1 DEF GuidedInv, Dated, GuidedTypeOK, Ticks, GuidedPlayAssumption
<1>2. ASSUME NEW j \in Joined, NEW n \in news', n.tick < heard[j].tick
      PROVE  n \in heard[j].news
  BY <1>1, <1>2 DEF GuidedInv, NewsKept
<1>3. ASSUME NEW j \in Joined, treaty'.status # "none", LatestTick(treaty') < heard[j].tick
      PROVE  heard[j].treaties = {treaty'}
  <2>1. treaty' = treaty
    BY <1>1, <1>3
  <2> QED BY <1>3, <2>1 DEF GuidedInv, BriefedInFull
<1>4. NewsKept'
  BY <1>2 DEF GuidedInv, NewsKept
<1>5. \A j \in Joined : \A n \in announced' : n.tick < heard[j].tick => n \in heard[j].news \cup missed[j]
  BY <1>2, <1>4 DEF NewsKept
<1> QED BY <1>3, <1>4, <1>5 DEF GuidedInv, BriefedInFull

LEMMA PartyActs ==
    ASSUME GuidedPlayAssumption, GuidedInv, NEW s \in {"proposed", "active", "withdrawn"},
           TreatyAction(s)
    PROVE  GuidedInv'
<1>1. /\ treaty' = IF s = "proposed" THEN [treaty EXCEPT !.status = s, !.proposed = tick]
                   ELSE IF s = "active" THEN [treaty EXCEPT !.status = s, !.signed = tick]
                   ELSE [treaty EXCEPT !.status = s, !.ended = tick]
      /\ news' = IF s = "proposed" THEN news ELSE Announced(s, tick)
      /\ announced' = announced \cup news'
      /\ UNCHANGED <<active, tick, queue, guidance, audit, attempts, heard, resolved,
                     cached, reloads, missed, lost>>
  BY DEF TreatyAction, reloadVars
<1>2. /\ tick \in Ticks /\ tick \in Nat /\ treaty \in Treaty
      /\ treaty.proposed <= tick /\ treaty.signed <= tick /\ treaty.ended <= tick
  BY DEF GuidedInv, GuidedTypeOK, Dated, Ticks
<1>3. /\ treaty' \in Treaty
      /\ treaty'.proposed <= tick /\ treaty'.signed <= tick /\ treaty'.ended <= tick
      /\ tick \in {treaty'.proposed, treaty'.signed, treaty'.ended}
  <2>1. CASE s = "proposed"
    <3>1. treaty' = [treaty EXCEPT !.status = "proposed", !.proposed = tick]
      BY <1>1, <2>1
    <3>2. treaty' \in Treaty
      BY <1>2, <3>1 DEF Treaty
    <3>3. treaty'.proposed = tick /\ treaty'.signed = treaty.signed /\ treaty'.ended = treaty.ended
      BY <1>2, <3>1 DEF Treaty
    <3> QED BY <1>2, <3>2, <3>3
  <2>2. CASE s = "active"
    <3>1. treaty' = [treaty EXCEPT !.status = "active", !.signed = tick]
      BY <1>1, <2>2
    <3>2. treaty' \in Treaty
      BY <1>2, <3>1 DEF Treaty
    <3>3. treaty'.signed = tick /\ treaty'.proposed = treaty.proposed /\ treaty'.ended = treaty.ended
      BY <1>2, <3>1 DEF Treaty
    <3> QED BY <1>2, <3>2, <3>3
  <2>3. CASE s = "withdrawn"
    <3>1. treaty' = [treaty EXCEPT !.status = "withdrawn", !.ended = tick]
      BY <1>1, <2>3
    <3>2. treaty' \in Treaty
      BY <1>2, <3>1 DEF Treaty
    <3>3. treaty'.ended = tick /\ treaty'.proposed = treaty.proposed /\ treaty'.signed = treaty.signed
      BY <1>2, <3>1 DEF Treaty
    <3> QED BY <1>2, <3>2, <3>3
  <2> QED BY <2>1, <2>2, <2>3
<1>4. LatestTick(treaty') = tick
  <2> DEFINE t == treaty'
  <2>1. t.proposed \in Nat /\ t.signed \in Nat /\ t.ended \in Nat
    BY <1>3 DEF Treaty, Ticks
  <2> HIDE DEF t
  <2>2. /\ LatestTick(t) \in Nat
        /\ t.proposed <= LatestTick(t) /\ t.signed <= LatestTick(t) /\ t.ended <= LatestTick(t)
        /\ LatestTick(t) \in {t.proposed, t.signed, t.ended}
    BY <2>1, LatestTickIsGreatest
  <2>3. t.proposed <= tick /\ t.signed <= tick /\ t.ended <= tick
        /\ tick \in {t.proposed, t.signed, t.ended}
    BY <1>3 DEF t
  <2>4. LatestTick(t) = tick
    BY <1>2, <2>1, <2>2, <2>3
  <2> QED BY <2>4 DEF t
<1>5. news' \subseteq News /\ news \subseteq news' /\ \A n \in news' : n \in news \/ n.tick = tick
  <2>1. CASE s = "proposed"
    BY <1>1, <2>1 DEF GuidedInv, GuidedTypeOK
  <2>2. CASE s \in {"active", "withdrawn"}
    BY <1>1, <1>2, <2>2 DEF Announced, News, GuidedInv, GuidedTypeOK
  <2> QED BY <2>1, <2>2
<1>6. BriefedInFull' /\ NewsKept'
  BY <1>1, <1>3, <1>4, <1>5, TreatyChanged
<1>7. GuidedTypeOK'
  BY <1>1, <1>3, <1>5 DEF GuidedInv, GuidedTypeOK
<1>8. Dated'
  BY <1>1, <1>3 DEF GuidedInv, Dated
<1>9. OwnersSay' /\ Numbered' /\ OverridesAudited' /\ GuidanceStaysPrivate' /\ IsFiniteSet(guidance')
  BY <1>1 DEF GuidedInv, OwnersSay, Numbered, OverridesAudited, GuidanceStaysPrivate
<1> QED BY <1>6, <1>7, <1>8, <1>9 DEF GuidedInv

\* A tick that breaks the treaty dates the break by the tick that was, to the end of which no
\* briefing has come either.
LEMMA GuidedTickKeeps ==
    ASSUME GuidedPlayAssumption, GuidedInv, GuidedTick
    PROVE  GuidedInv'
<1>1. /\ tick < LastTick /\ tick' = tick + 1 /\ queue' = queue \ Due(queue)
      /\ resolved' = [p \in PlayerIds |-> Combined(Due(queue), p)]
      /\ announced' = announced \cup news'
      /\ UNCHANGED <<active, guidance, audit, attempts, heard,
                     cached, reloads, missed, lost>>
  BY DEF GuidedTick, reloadVars
<1>2. /\ tick \in Ticks /\ tick \in Nat /\ tick' \in Ticks /\ treaty \in Treaty
      /\ treaty.proposed <= tick /\ treaty.signed <= tick /\ treaty.ended <= tick
  BY <1>1 DEF GuidedInv, GuidedTypeOK, Dated, Ticks, GuidedPlayAssumption
<1>3. /\ treaty' \in Treaty
      /\ treaty'.proposed <= tick /\ treaty'.signed <= tick /\ treaty'.ended <= tick
      /\ treaty' = treaty \/ treaty'.ended = tick
      /\ news' \subseteq News /\ news \subseteq news' /\ \A n \in news' : n \in news \/ n.tick = tick
  <2>1. CASE UNCHANGED <<treaty, news>>
    BY <1>2, <2>1 DEF GuidedInv, GuidedTypeOK
  <2>2. CASE /\ treaty' = [treaty EXCEPT !.status = "broken", !.ended = tick]
             /\ news' = Announced("broken", tick)
    <3>1. /\ treaty' \in Treaty
          /\ treaty'.proposed <= tick /\ treaty'.signed <= tick /\ treaty'.ended = tick
      BY <1>2, <2>2 DEF Treaty
    <3>2. news' \subseteq News /\ news \subseteq news' /\ \A n \in news' : n \in news \/ n.tick = tick
      BY <1>2, <2>2 DEF Announced, News, GuidedInv, GuidedTypeOK
    <3> QED BY <1>2, <3>1, <3>2
  <2> QED BY <2>1, <2>2 DEF GuidedTick, BreakTreaty
<1>4. treaty' = treaty \/ LatestTick(treaty') = tick
  <2> DEFINE t == treaty'
  <2>1. t.proposed \in Nat /\ t.signed \in Nat /\ t.ended \in Nat
    BY <1>3 DEF Treaty, Ticks
  <2> HIDE DEF t
  <2>2. /\ LatestTick(t) \in Nat
        /\ t.proposed <= LatestTick(t) /\ t.signed <= LatestTick(t) /\ t.ended <= LatestTick(t)
        /\ LatestTick(t) \in {t.proposed, t.signed, t.ended}
    BY <2>1, LatestTickIsGreatest
  <2>3. /\ t.proposed <= tick /\ t.signed <= tick /\ t.ended <= tick
        /\ t = treaty \/ t.ended = tick
    BY <1>3 DEF t
  <2>4. t = treaty \/ LatestTick(t) = tick
    BY <1>2, <2>1, <2>2, <2>3
  <2> QED BY <2>4 DEF t
<1>5. BriefedInFull' /\ NewsKept'
  BY <1>1, <1>3, <1>4, TreatyChanged
<1>6. GuidedTypeOK'
  <2>1. ASSUME NEW p \in PlayerIds PROVE Combined(Due(queue), p) \subseteq 1..MaxOrders
    BY DEF Combined, Due, Queued, GuidedInv, GuidedTypeOK
  <2>2. resolved' \in [PlayerIds -> SUBSET (1..MaxOrders)]
    BY <1>1, <2>1
  <2> QED BY <1>1, <1>2, <1>3, <2>2 DEF GuidedInv, GuidedTypeOK
<1>7. Dated'
  <2>1. \A j \in Joined : heard[j].tick \in Nat /\ heard[j].tick <= tick
    BY DEF GuidedInv, GuidedTypeOK, Dated, Ticks
  <2>2. treaty'.proposed \in Nat /\ treaty'.signed \in Nat /\ treaty'.ended \in Nat
    BY <1>3 DEF Treaty, Ticks
  <2> QED BY <1>1, <1>2, <1>3, <2>1, <2>2 DEF Dated
<1>8. OwnersSay' /\ Numbered' /\ OverridesAudited' /\ GuidanceStaysPrivate' /\ IsFiniteSet(guidance')
  BY <1>1 DEF GuidedInv, OwnersSay, Numbered, OverridesAudited, GuidanceStaysPrivate
<1> QED BY <1>5, <1>6, <1>7, <1>8 DEF GuidedInv

\* A reload leaves no treaty and no message to be told of; what was not told it counts as missed.
LEMMA ReloadKeeps ==
    ASSUME GuidedPlayAssumption, GuidedInv, NEW keys \in SUBSET Keys, Reloaded(keys)
    PROVE  GuidedInv'
<1>1. /\ reloads < MaxReloads /\ reloads' = reloads + 1
      /\ queue' = {} /\ treaty' = NoTreaty /\ news' = {} /\ cached' = keys
      /\ lost' = lost \cup {s.id : s \in queue}
      /\ missed' = [k \in Joined |-> missed[k] \cup (news \ heard[k].news)]
      /\ UNCHANGED <<active, tick, guidance, audit, attempts, heard, resolved, announced>>
  BY DEF Reloaded
<1>2. 0 \in Ticks /\ tick \in Nat
  BY DEF Ticks, GuidedPlayAssumption, GuidedInv, GuidedTypeOK
<1>3. GuidedTypeOK'
  <2>1. NoTreaty \in Treaty
    BY <1>2 DEF NoTreaty, Treaty
  <2>2. {s.id : s \in queue} \subseteq 1..MaxOrders
    BY DEF GuidedInv, GuidedTypeOK, Queued
  <2>3. missed' \in [Joined -> SUBSET News]
    BY <1>1 DEF GuidedInv, GuidedTypeOK
  <2>4. reloads' \in 0..MaxReloads
    BY <1>1 DEF GuidedInv, GuidedTypeOK, GuidedPlayAssumption
  <2> QED BY <1>1, <2>1, <2>2, <2>3, <2>4 DEF GuidedInv, GuidedTypeOK
<1>4. Dated'
  BY <1>1, <1>2 DEF GuidedInv, Dated, NoTreaty
<1>5. NewsKept'
  BY <1>1 DEF GuidedInv, NewsKept
<1>6. BriefedInFull'
  <2>1. treaty'.status = "none"
    BY <1>1 DEF NoTreaty
  <2> QED BY <1>1, <1>5, <2>1 DEF GuidedInv, BriefedInFull, NewsKept
<1>7. /\ OwnersSay' /\ Numbered' /\ OverridesAudited' /\ GuidanceStaysPrivate'
      /\ IsFiniteSet(guidance')
  BY <1>1 DEF GuidedInv, OwnersSay, Numbered, OverridesAudited, GuidanceStaysPrivate
<1> QED BY <1>3, <1>4, <1>5, <1>6, <1>7 DEF GuidedInv

LEMMA GuidedStep ==
    ASSUME GuidedPlayAssumption, GuidedInv, [GuidedNext]_guidedVars
    PROVE  GuidedInv'
<1>1. CASE UNCHANGED guidedVars
  BY <1>1 DEF guidedVars, GuidedInv, GuidedTypeOK, Dated, OwnersSay, NewsKept, Numbered,
              BriefedInFull, GuidanceStaysPrivate, OverridesAudited
<1>2. CASE GuidedNext
  <2>1. CASE \E k \in Keys : RevokeKey(k) \/ AgentSubmits(k) \/ Briefing(k)
    BY <2>1, KeyRevoked, SubmissionQueued, BriefingGiven
  <2>2. CASE \E u \in Users, k \in Keys :
                PostGuidance(u, k) \/ Override(u, k) \/ OverrideNotAudited(u, k)
    BY <2>2, GuidancePosted, OverrideQueued, OverrideUndone
  <2>3. CASE \E s \in {"proposed", "active", "withdrawn"} : TreatyAction(s)
    BY <2>3, PartyActs
  <2>4. CASE JoinAgain \/ ServerRestarts
    <3>1. active \in SUBSET Keys /\ cached \in SUBSET Keys
      BY DEF GuidedInv, GuidedTypeOK
    <3> QED BY <2>4, <3>1, ReloadKeeps DEF JoinAgain, ServerRestarts
  <2> QED BY <1>2, <2>1, <2>2, <2>3, <2>4, GuidedTickKeeps DEF GuidedNext
<1> QED BY <1>1, <1>2

\* The session's filter of the queue and the resolution's leave a seat the same submissions.
LEMMA ShownIsResolved ==
    ASSUME GuidedTick, NEW k \in Joined
    PROVE  resolved'[Seat[k]] = GuidedSession(k).queued
<1>1. resolved' = [p \in PlayerIds |-> Combined(Due(queue), p)]
  BY DEF GuidedTick
<1>2. Seat[k] \in PlayerIds
  BY DEF PlayerIds
<1>3. GuidedSession(k).queued = QueuedOrders(k)
  BY DEF GuidedSession
<1>4. Combined(Due(queue), Seat[k]) = QueuedOrders(k)
  <2>1. {q \in Due(queue) : q.player = Seat[k]}
           = {q \in queue : q.player = Seat[k] /\ q.tick = tick}
    BY DEF Due
  <2> QED BY <2>1, Zenon DEF Combined, QueuedOrders
<1> QED BY <1>1, <1>2, <1>3, <1>4

\* What is shown no more although no tick came was queued, and is not queued now.
LEMMA ShownWasQueued ==
    ASSUME tick' = tick, NEW k \in Joined, NEW s \in GuidedSession(k).queued \ GuidedSession(k).queued'
    PROVE  \E q \in queue : q.id = s /\ q.player = Seat[k] /\ q.tick = tick /\ q \notin queue'
<1>1. /\ GuidedSession(k).queued = {q.id : q \in {q \in queue : q.player = Seat[k] /\ q.tick = tick}}
      /\ GuidedSession(k).queued' = {q.id : q \in {q \in queue' : q.player = Seat[k] /\ q.tick = tick'}}
  BY DEF GuidedSession, QueuedOrders
<1>2. PICK q \in queue : q.id = s /\ q.player = Seat[k] /\ q.tick = tick
  BY <1>1
<1>3. q \notin queue'
  BY <1>1, <1>2
<1> QED BY <1>2, <1>3

\* Nothing but an override, a reload and a tick takes a submission out of the queue.
LEMMA ShownStays ==
    ASSUME GuidedPlayAssumption, GuidedInv, [GuidedNext]_guidedVars
    PROVE  CarriesOutShown
<1> SUFFICES ASSUME NEW k \in Joined
             PROVE  IF tick' # tick THEN resolved'[Seat[k]] = GuidedSession(k).queued
                    ELSE \A s \in GuidedSession(k).queued \ GuidedSession(k).queued' :
                            s \in lost' \/ Overridden(s, k)
  BY DEF CarriesOutShown
<1>1. CASE GuidedTick
  <2>1. tick' # tick
    BY <1>1 DEF GuidedTick, GuidedInv, GuidedTypeOK, Ticks
  <2> QED BY <1>1, <2>1, ShownIsResolved
<1>2. CASE tick' = tick /\ queue \subseteq queue'
  BY <1>2, ShownWasQueued
<1>3. ASSUME NEW keys, Reloaded(keys), NEW s \in GuidedSession(k).queued \ GuidedSession(k).queued'
      PROVE  tick' = tick /\ s \in lost'
  <2>1. tick' = tick /\ lost' = lost \cup {q.id : q \in queue}
    BY <1>3 DEF Reloaded
  <2>2. PICK q \in queue : q.id = s
    BY <1>3, <2>1, ShownWasQueued
  <2> QED BY <2>1, <2>2
<1>4. ASSUME NEW u \in Users, NEW j \in Keys, Override(u, j),
             NEW s \in GuidedSession(k).queued \ GuidedSession(k).queued'
      PROVE  tick' = tick /\ Overridden(s, k)
  <2> DEFINE o == NewQueued(j, "override")
             r == OverrideRowFor(u, o)
  <2>1. /\ tick' = tick /\ j \in Joined /\ u = Owner[j]
        /\ queue' = {q \in queue : q.player # o.player \/ q.tick # o.tick} \cup {o}
        /\ audit' = audit \cup {r}
    BY <1>4 DEF Override, MayGuide, Owns, ReplaceSubmissions
  <2>2. o.id = attempts + 1 /\ o.player = Seat[j] /\ o.tick = tick
    BY DEF NewQueued
  <2>3. r.id = o.id /\ r.owner = u /\ r.player = o.player /\ r.tick = o.tick
    BY DEF OverrideRowFor
  <2> HIDE DEF o, r
  <2>4. PICK q \in queue : q.id = s /\ q.player = Seat[k] /\ q.tick = tick /\ q \notin queue'
    BY <1>4, <2>1, ShownWasQueued
  <2>5. Seat[k] = Seat[j]
    BY <2>1, <2>2, <2>4
  <2>6. k = j
    BY <2>1, <2>5 DEF GuidedPlayAssumption, Joined
  <2>7. s < r.id
    BY <2>2, <2>3, <2>4 DEF GuidedInv, GuidedTypeOK, Queued, Numbered
  <2> QED BY <2>1, <2>2, <2>3, <2>6, <2>7 DEF Overridden
<1>5. CASE \/ UNCHANGED guidedVars
           \/ \E j \in Keys : RevokeKey(j) \/ AgentSubmits(j) \/ Briefing(j)
           \/ \E u \in Users, j \in Keys : PostGuidance(u, j) \/ OverrideNotAudited(u, j)
           \/ \E s \in {"proposed", "active", "withdrawn"} : TreatyAction(s)
  <2>1. tick' = tick /\ queue \subseteq queue'
    BY <1>5 DEF guidedVars, RevokeKey, AgentSubmits, Briefing, PostGuidance, OverrideNotAudited,
                TreatyAction
  <2> QED BY <1>2, <2>1
<1>6. CASE \E u \in Users, j \in Keys : Override(u, j)
  <2>1. tick' = tick
    BY <1>6 DEF Override
  <2> QED BY <1>4, <1>6, <2>1
<1>7. CASE JoinAgain \/ ServerRestarts
  <2>1. tick' = tick
    BY <1>7 DEF JoinAgain, ServerRestarts, Reloaded
  <2> QED BY <1>3, <1>7, <2>1 DEF JoinAgain, ServerRestarts
<1> QED BY <1>1, <1>5, <1>6, <1>7 DEF GuidedNext

\* Whoever owns whom and however briefings, guidance, overrides, treaty actions, revocations,
\* ticks, repeated joins and restarts interleave: owners reach their agents and nobody else's, a
\* briefing leaves out nothing that no reload has dropped, no override is queued unaudited, and
\* what a session shows the tick carries out, or the owner has overridden it, or a reload has
\* dropped it.
THEOREM OwnersAreServed ==
    ASSUME GuidedPlayAssumption PROVE GuidedSpec => OwnersServed
<1>1. GuidedInit => GuidedInv
  BY GuidedStarts
<1>2. GuidedInv /\ [GuidedNext]_guidedVars => GuidedInv'
  BY GuidedStep
<1>3. GuidedInv => GuidedTypeOK /\ BriefedInFull /\ GuidanceStaysPrivate /\ OverridesAudited
  BY DEF GuidedInv
<1>4. GuidedInv /\ [GuidedNext]_guidedVars => [CarriesOutShown]_guidedVars
  BY ShownStays
<1> QED BY <1>1, <1>2, <1>3, <1>4, PTL DEF GuidedSpec, OwnersServed, ShownIsCarriedOut
-----------------------------------------------------------------------------
(* Agents over a network, for any agents, partners, seats and bounds.  The *)
(* invariant says what each request on its way, each answer and each run   *)
(* knows, and that it does not become wrong while it is on its way.        *)

\* Who joins finds no seat, or finds the match begun; that stays so.
Closed(m) == match[m].status # "lobby" \/ OpenSlots(m) = 0

\* The call run a is waiting for, as it was sent.
Sent(a) ==
    [from |-> a, no |-> run[a].no, key |-> IF run[a].at = "second" THEN Partner[a] ELSE a,
     call |-> run[a].at,
     match |-> IF run[a].at \in {"list", "create"} THEN Nothing ELSE run[a].match,
     tick |-> IF run[a].at = "orders" THEN run[a].tick ELSE 0]

\* A request that run a still waits for.
Awaited(r) == run[r.from].no = r.no /\ Waiting(r.from)

\* Requests name matches that were opened, past ticks, and lobbies of their own.
RequestFits(r) ==
    /\ r.no <= run[r.from].no
    /\ r.call \in {"list", "create"} <=> r.match = Nothing
    /\ r.match # Nothing => match[r.match].status # "none" /\ r.tick <= match[r.match].tick
    /\ r.call \in {"create", "start"} => r.key = r.from
    /\ r.call = "start" => match[r.match].players[1] = r.from
    /\ Awaited(r) => r = Sent(r.from) /\ answer[r.from] = Nothing

WireFits == \A r \in wire : RequestFits(r)

\* A match that was opened has a player.
Opened ==
    \A m \in Matches : match[m].status # "none" => match[m].players # <<>>

\* a has the seat in match m.
Sits(m, a, seat) == IsIn(m, a) /\ SeatIn(match[m].players, a) = seat

\* Nobody but run a starts the lobby m, and it has not been started.
OwnLobby(a, m) ==
    /\ match[m].status = "lobby"
    /\ \A r \in wire : r.call = "start" /\ r.match = m => r.from = a /\ Awaited(r)

\* What a run has learnt remains true.
RunFits(a) ==
    LET now == run[a]
        m == now.match
    IN  /\ Waiting(a) => now.no \in 1..MaxRuns
        /\ now.at \in {"list", "join", "state", "orders"} => Partner[a] = Nothing
        /\ now.at \in {"create", "profile", "second", "start"} => Partner[a] # Nothing
        /\ now.at \in {"join", "state", "orders", "profile", "second", "start"} =>
              m \in Matches /\ match[m].status # "none"
        /\ now.at = "state" => IsIn(m, a)
        /\ now.at = "orders" => Sits(m, a, now.seat) /\ now.tick <= match[m].tick
        /\ now.at \in {"profile", "second", "start"} =>
              match[m].players[1] = a /\ Sits(m, a, now.seat)
        /\ now.at \in {"profile", "second"} => OwnLobby(a, m)
        /\ now.at = "start" => IsIn(m, Partner[a]) /\ (Sent(a) \in wire => OwnLobby(a, m))
        /\ now.at = "failed" /\ now.code \in {"tick_mismatch", "not_joinable"} =>
              m \in Matches /\ match[m].status # "none"
        /\ now.at = "done" => m \in Matches /\ match[m].status # "none"

\* What an answer says remains true while it is on its way.
AnswerFitsRun(a) ==
    LET now == run[a]
        m == now.match
        ans == answer[a]
        Refused == \/ ans.code = "occupancy_limit"
                   \/ ans.code = "not_joinable" /\ Closed(m)
    IN  answer[a] # Nothing =>
        /\ now.at = "list" =>
              ans.code = "ok" /\ \A e \in ans.listed : match[e.id].status # "none"
        /\ now.at = "join" => Refused \/ (ans.code = "ok" /\ IsIn(m, a))
        /\ now.at = "state" =>
              ans.code = "ok" /\ Sits(m, a, ans.seat) /\ ans.tick <= match[m].tick
        /\ now.at = "orders" =>
              \/ /\ ans.code = "ok"
                 /\ [match |-> m, order |-> [player |-> a, tick |-> now.tick, no |-> now.no]] \in answered
              \/ ans.code = "tick_mismatch" /\ match[m].tick > now.tick
        /\ now.at = "create" =>
              \/ /\ ans.code = "ok" /\ ans.id \in Matches
                 /\ match[ans.id].players[1] = a /\ Sits(ans.id, a, ans.seat) /\ OwnLobby(a, ans.id)
              \/ ans.code = "occupancy_limit"
        /\ now.at = "profile" => ans.code = "ok"
        /\ now.at = "second" => Refused \/ (ans.code = "ok" /\ IsIn(m, Partner[a]))
        /\ now.at = "start" =>
              \/ ans.code = "ok" /\ match[m].status \in {"active", "completed"}
              \/ ans.code = "not_ready" /\ Partner[a] = a

AgentInv ==
    /\ AgentTypeOK /\ WireFits /\ Opened
    /\ \A a \in Agents : RunFits(a) /\ AnswerFitsRun(a)
    /\ OneSeatEach /\ SummaryTrue /\ RefusedForCause /\ NothingForThePast

\* A match in good order: of one seat each, and with orders for its tick only.
MatchFits(x) ==
    /\ x \in Match /\ Len(x.players) <= MaxPlayers
    /\ \A i, j \in DOMAIN x.players : x.players[i] = x.players[j] => i = j
    /\ x.status # "none" => x.players # <<>>
    /\ \A s \in x.queue : s.tick = x.tick

\* What is known of a match does not become wrong.
GrowsTo(x, y) ==
    /\ y.status # "none" /\ x.tick <= y.tick
    /\ \A i \in DOMAIN x.players : i \in DOMAIN y.players /\ y.players[i] = x.players[i]
    /\ x.status \in {"active", "completed"} => y.status \in {"active", "completed"}

LEMMA MatchesFit ==
  ASSUME AgentInv, NEW m \in Matches
  PROVE  MatchFits(match[m])
<1>1. match[m] \in Match /\ Len(match[m].players) <= MaxPlayers
  BY DEF AgentInv, AgentTypeOK
<1> QED
  BY <1>1 DEF AgentInv, Opened, OneSeatEach, NothingForThePast, MatchFits

LEMMA Dispatch ==
  ASSUME NEW q
  PROVE  /\ q.call = "list" => Handled(q) = HandleList(q)
         /\ q.call \in {"join", "second"} => Handled(q) = HandleJoin(q)
         /\ q.call = "state" => Handled(q) = HandleState(q)
         /\ q.call = "orders" => Handled(q) = HandleOrders(q)
         /\ q.call = "create" => Handled(q) = HandleCreate(q)
         /\ q.call = "profile" => Handled(q) = HandleProfile(q)
         /\ q.call = "start" => Handled(q) = HandleStart(q)
  BY DEF Handled

\* Its seat in a match is the only one an agent has there.
LEMMA SeatFound ==
  ASSUME NEW players, NEW a, a \in Range(players)
  PROVE  SeatIn(players, a) \in DOMAIN players /\ players[SeatIn(players, a)] = a
<1>1. \E i \in DOMAIN players : players[i] = a
  BY DEF Range
<1> QED  BY <1>1 DEF SeatIn

LEMMA SeatTyped ==
  ASSUME AgentClientAssumption, NEW x, MatchFits(x), NEW a, a \in Range(x.players)
  PROVE  SeatIn(x.players, a) \in 0..MaxPlayers
<1>1. SeatIn(x.players, a) \in DOMAIN x.players
  BY SeatFound
<1>2. x.players \in Seq(Agents) /\ DOMAIN x.players = 1..Len(x.players) /\ Len(x.players) \in Nat
  BY DEF MatchFits, Match
<1> QED  BY <1>1, <1>2 DEF MatchFits, AgentClientAssumption

\* The seat of a player is kept when the match grows.
LEMMA SeatKept ==
  ASSUME NEW x, NEW y, MatchFits(x), MatchFits(y), GrowsTo(x, y), NEW a, a \in Range(x.players)
  PROVE  a \in Range(y.players) /\ SeatIn(y.players, a) = SeatIn(x.players, a)
<1> DEFINE i == SeatIn(x.players, a)
<1>1. i \in DOMAIN x.players /\ x.players[i] = a
  BY SeatFound
<1>2. i \in DOMAIN y.players /\ y.players[i] = a
  BY <1>1 DEF GrowsTo
<1>3. a \in Range(y.players)
  BY <1>2 DEF Range
<1>4. SeatIn(y.players, a) \in DOMAIN y.players /\ y.players[SeatIn(y.players, a)] = a
  BY <1>3, SeatFound
<1> QED  BY <1>2, <1>3, <1>4 DEF MatchFits

\* What a handler leaves of a match.
Leaves(q) ==
    LET x == match[q.match]
        y == Handled(q).after
    IN  /\ MatchFits(y)
        /\ x.status # "none" => GrowsTo(x, y)
        /\ x.status = "lobby" /\ y.status # "lobby" => q.call = "start"

\* A new player gets a seat of its own.
LEMMA PlayerAdded ==
  ASSUME NEW x, MatchFits(x), NEW a \in Agents, a \notin Range(x.players), Len(x.players) < MaxPlayers,
         NEW y, y = [[x EXCEPT !.queue = {}] EXCEPT !.players = Append(@, a)], x.status # "none",
         AgentClientAssumption
  PROVE  MatchFits(y) /\ GrowsTo(x, y) /\ a \in Range(y.players) /\ y.status = x.status
<1> DEFINE n == Len(x.players)
<1>1. x \in Match /\ x.players \in Seq(Agents) /\ n \in Nat /\ DOMAIN x.players = 1..n
  BY DEF MatchFits, Match
<1>2. y.players = Append(x.players, a) /\ y.status = x.status /\ y.tick = x.tick /\ y.queue = {}
  BY <1>1 DEF Match
<1>3. y \in Match
  <2> DEFINE z == [x EXCEPT !.queue = {}]
  <2>1. z \in Match /\ z.players = x.players
    BY <1>1 DEF Match
  <2>2. Append(x.players, a) \in Seq(Agents)
    BY <1>1
  <2> QED  BY <2>1, <2>2 DEF Match
<1>4. /\ Len(y.players) = n + 1 /\ DOMAIN y.players = 1..(n + 1)
      /\ \A i \in 1..n : y.players[i] = x.players[i]
      /\ y.players[n + 1] = a
  BY <1>1, <1>2
<1>5. \A i \in 1..n : x.players[i] # a
  BY <1>1 DEF Range
<1>6. ASSUME NEW i \in 1..(n + 1), NEW j \in 1..(n + 1), y.players[i] = y.players[j]
      PROVE  i = j
  <2>1. (i \in 1..n \/ i = n + 1) /\ (j \in 1..n \/ j = n + 1)
    BY <1>1
  <2>2. \A k, l \in 1..n : x.players[k] = x.players[l] => k = l
    BY <1>1 DEF MatchFits
  <2> QED  BY <1>4, <1>5, <1>6, <2>1, <2>2
<1>7. MatchFits(y)
  <2>1. y.players # <<>>
    BY <1>4, <1>1
  <2>2. Len(y.players) <= MaxPlayers
    BY <1>1, <1>4 DEF AgentClientAssumption
  <2> QED  BY <1>2, <1>3, <1>4, <1>6, <2>1, <2>2 DEF MatchFits
<1>8. GrowsTo(x, y)
  <2>1. x.tick \in Nat
    BY <1>1 DEF Match, ServerTicks, AgentClientAssumption
  <2> QED  BY <1>1, <1>2, <1>4, <2>1 DEF GrowsTo
<1>9. a \in Range(y.players)
  BY <1>1, <1>4 DEF Range
<1> QED  BY <1>2, <1>7, <1>8, <1>9

\* A match whose queue or status alone has changed.
LEMMA SamePlayers ==
  ASSUME NEW x, MatchFits(x), AgentClientAssumption, x.status # "none",
         NEW y, y \in Match, y.players = x.players, y.tick = x.tick, y.status # "none",
         x.status \in {"active", "completed"} => y.status \in {"active", "completed"},
         \A s \in y.queue : s.tick = y.tick
  PROVE  MatchFits(y) /\ GrowsTo(x, y)
<1>1. x.tick \in Nat
  BY DEF MatchFits, Match, ServerTicks, AgentClientAssumption
<1> QED  BY <1>1 DEF MatchFits, GrowsTo

LEMMA HandlersLeave ==
  ASSUME AgentClientAssumption, AgentInv, NEW q \in Message, q.match \in Matches, q.call # "list",
         q.call = "create" => match[q.match].status = "none",
         q.call # "create" => match[q.match].status # "none"
  PROVE  Leaves(q)
<1> DEFINE m == q.match
           x == match[m]
<1>1. MatchFits(x) /\ x \in Match
  BY MatchesFit DEF MatchFits
<1>2. /\ q.key \in Agents /\ q.tick \in ServerTicks /\ q.no \in 1..MaxRuns
      /\ q.call \in Calls
      /\ m # Nothing
  BY DEF Message, AgentClientAssumption
<1>3. \A code : Refuse(code, q).after = x
  BY <1>2 DEF Refuse, Reply
<1>4. ASSUME Handled(q).after = x, x.status # "none"
      PROVE  Leaves(q)
  <2>1. x.tick \in Nat
    BY <1>1 DEF Match, ServerTicks, AgentClientAssumption
  <2>2. GrowsTo(x, x)
    BY <1>4, <2>1, <1>1 DEF GrowsTo
  <2> QED  BY <1>1, <1>4, <2>2 DEF Leaves
<1>5. CASE q.call \in {"join", "second"}
  <2> DEFINE again == [x EXCEPT !.queue = {}]
             after == [again EXCEPT !.players = Append(@, q.key)]
  <2>1. Handled(q) = HandleJoin(q)
    BY <1>5, Dispatch
  <2>2. again \in Match /\ again.players = x.players /\ again.tick = x.tick /\ again.status = x.status
        /\ again.queue = {}
    BY <1>1 DEF Match
  <2>3. x.status # "none"
    BY <1>5
  <2>4. CASE IsIn(m, q.key)
    <3>1. Handled(q).after = again
      BY <2>1, <2>4 DEF HandleJoin, Reply
    <3>2. MatchFits(again) /\ GrowsTo(x, again)
      BY <1>1, <2>2, <2>3, SamePlayers
    <3> QED  BY <3>1, <3>2, <2>2, <2>3 DEF Leaves
  <2>5. CASE ~IsIn(m, q.key) /\ x.status = "lobby" /\ OpenSlots(m) # 0 /\ Handled(q).after = after
    <3>1. Len(x.players) < MaxPlayers
      <4>1. Len(x.players) \in Nat /\ Len(x.players) <= MaxPlayers
        BY <1>1 DEF MatchFits, Match
      <4> QED  BY <4>1, <2>5 DEF OpenSlots, AgentClientAssumption
    <3>2. q.key \notin Range(x.players)
      BY <2>5 DEF IsIn
    <3>3. MatchFits(after) /\ GrowsTo(x, after) /\ after.status = x.status
      BY <1>1, <1>2, <2>3, <3>1, <3>2, PlayerAdded
    <3> QED  BY <2>5, <3>3 DEF Leaves
  <2>6. \/ IsIn(m, q.key)
        \/ ~IsIn(m, q.key) /\ x.status = "lobby" /\ OpenSlots(m) # 0 /\ Handled(q).after = after
        \/ Handled(q).after = x
    BY <2>1, <1>3 DEF HandleJoin, Reply
  <2> QED  BY <2>3, <2>4, <2>5, <2>6, <1>4
<1>6. CASE q.call \in {"state", "profile"}
  <2>1. Handled(q) = HandleState(q) \/ Handled(q) = HandleProfile(q)
    BY <1>6, Dispatch
  <2>2. Handled(q).after = x
    BY <2>1, <1>3 DEF HandleState, HandleProfile, Reply
  <2> QED  BY <1>4, <1>6, <2>2
<1>7. CASE q.call = "orders"
  <2> DEFINE after == [x EXCEPT !.queue = @ \cup {OrdersOf(q)}]
  <2>1. Handled(q) = HandleOrders(q)
    BY <1>7, Dispatch
  <2>2. CASE Handled(q).after = after /\ q.tick = x.tick
    <3>1. OrdersOf(q) \in Order /\ OrdersOf(q).tick = x.tick
      BY <1>2, <2>2 DEF OrdersOf, Order
    <3>2. /\ after.players = x.players /\ after.tick = x.tick /\ after.status = x.status
          /\ after.queue = x.queue \cup {OrdersOf(q)}
      BY <1>1 DEF Match
    <3>3. after \in Match
      <4>1. x.queue \cup {OrdersOf(q)} \in SUBSET Order
        BY <1>1, <3>1 DEF Match
      <4> QED  BY <1>1, <3>2, <4>1 DEF Match
    <3>4. \A s \in after.queue : s.tick = after.tick
      BY <1>1, <3>1, <3>2 DEF MatchFits
    <3>5. MatchFits(after) /\ GrowsTo(x, after)
      BY <1>1, <1>7, <3>2, <3>3, <3>4, SamePlayers
    <3> QED  BY <2>2, <3>2, <3>5, <1>7 DEF Leaves
  <2>3. (Handled(q).after = after /\ q.tick = x.tick) \/ Handled(q).after = x
    BY <2>1, <1>3 DEF HandleOrders, Reply
  <2> QED  BY <1>4, <1>7, <2>2, <2>3
<1>8. CASE q.call = "create"
  <2> DEFINE new == [status |-> "lobby", tick |-> 0, players |-> <<q.key>>, queue |-> {}]
  <2>1. Handled(q) = HandleCreate(q)
    BY <1>8, Dispatch
  <2>2. Handled(q).after = new \/ Handled(q).after = x
    BY <2>1, <1>3 DEF HandleCreate, Reply
  <2>3. MatchFits(new)
    <3>1. <<q.key>> \in Seq(Agents) /\ Len(<<q.key>>) = 1 /\ DOMAIN <<q.key>> = {1} /\ <<q.key>> # <<>>
      BY <1>2
    <3>2. new \in Match
      BY <3>1 DEF Match, MatchStatus, ServerTicks, AgentClientAssumption
    <3> QED  BY <3>1, <3>2 DEF MatchFits, AgentClientAssumption
  <2> QED  BY <1>1, <1>8, <2>2, <2>3 DEF Leaves
<1>9. CASE q.call = "start"
  <2> DEFINE after == [x EXCEPT !.status = "active", !.queue = {}]
  <2>1. Handled(q) = HandleStart(q)
    BY <1>9, Dispatch
  <2>2. CASE Handled(q).after = after
    <3>1. /\ after.players = x.players /\ after.tick = x.tick /\ after.status = "active"
          /\ after.queue = {} /\ after \in Match
      BY <1>1 DEF Match, MatchStatus
    <3>2. MatchFits(after) /\ GrowsTo(x, after)
      BY <1>1, <1>9, <3>1, SamePlayers
    <3> QED  BY <2>2, <3>1, <3>2, <1>9 DEF Leaves
  <2>3. Handled(q).after = after \/ Handled(q).after = x
    BY <2>1, <1>3 DEF HandleStart, Reply
  <2> QED  BY <1>4, <1>9, <2>2, <2>3
<1> QED  BY <1>2, <1>5, <1>6, <1>7, <1>8, <1>9 DEF Calls

\* Every answer has its shape.
LEMMA AnswersTyped ==
  ASSUME AgentClientAssumption, AgentInv, NEW q \in Message, q.call # "list" => q.match \in Matches
  PROVE  Handled(q).answer \in Response
<1>1. /\ q.key \in Agents /\ q.call \in Calls /\ q.match \in Matches \cup {Nothing}
      /\ 0 \in 0..MaxPlayers /\ 1 \in 0..MaxPlayers /\ 0 \in ServerTicks
  BY DEF Message, AgentClientAssumption, ServerTicks
<1>2. \A code \in Codes, m \in Matches \cup {Nothing} : Answer(code, m) \in Response
  BY <1>1 DEF Answer, Response
<1>3. \A code \in Codes : Refuse(code, q).answer \in Response
  BY <1>1, <1>2 DEF Refuse, Reply
<1>4. \A m \in Matches \cup {Nothing} : Ok(m) \in Response
  BY <1>2 DEF Ok, Codes
<1>5. \A x : MatchFits(x) /\ q.match \in Matches /\ q.key \in Range(x.players)
             => Seated(q.match, q.key, x.players) \in Response
  <2> SUFFICES ASSUME NEW x, MatchFits(x), q.match \in Matches, q.key \in Range(x.players)
               PROVE  Seated(q.match, q.key, x.players) \in Response
    OBVIOUS
  <2>1. SeatIn(x.players, q.key) \in 0..MaxPlayers
    BY SeatTyped
  <2> QED  BY <2>1, <1>4 DEF Seated, Response
<1>6. CASE q.call = "list"
  <2> DEFINE entries == {[id |-> m, status |-> match[m].status, open |-> OpenSlots(m)] : m \in Listed}
  <2>1. entries \subseteq ListEntry
    <3> SUFFICES ASSUME NEW m \in Listed
                 PROVE  /\ m \in Matches /\ match[m].status \in MatchStatus
                        /\ OpenSlots(m) \in 0..MaxPlayers
      BY DEF ListEntry
    <3>1. m \in Matches
      BY DEF Listed
    <3>2. match[m] \in Match /\ Len(match[m].players) <= MaxPlayers
      BY <3>1, MatchesFit DEF MatchFits
    <3>3. Len(match[m].players) \in Nat
      BY <3>2 DEF Match
    <3> QED  BY <3>1, <3>2, <3>3 DEF Match, OpenSlots, AgentClientAssumption
  <2>2. Handled(q).answer = [Ok(Nothing) EXCEPT !.listed = entries]
    <3>1. Handled(q) = HandleList(q)
      BY <1>6, Dispatch
    <3>2. \A ans, after : Reply(ans, after).answer = ans
      BY DEF Reply
    <3> QED  BY <3>1, <3>2 DEF HandleList
  <2>3. Ok(Nothing) \in Response
    BY <1>4
  <2> QED  BY <2>1, <2>2, <2>3 DEF Response
<1>7. ASSUME q.match \in Matches
      PROVE  MatchFits(match[q.match])
  BY <1>7, MatchesFit
<1>8. CASE q.call \in {"join", "second"}
  <2> DEFINE x == match[q.match]
             again == [x EXCEPT !.queue = {}]
             after == [again EXCEPT !.players = Append(@, q.key)]
  <2>1. Handled(q) = HandleJoin(q)
    BY <1>8, Dispatch
  <2>2. x \in Match /\ MatchFits(x)
    BY <1>7, <1>8 DEF MatchFits
  <2>3. again.players = x.players /\ after.players = Append(x.players, q.key)
    BY <2>2 DEF Match
  <2>4. \A code \in Codes : Refuse(code, q).answer \in Response
    BY <1>3
  <2>5. CASE IsIn(q.match, q.key)
    <3>1. Handled(q).answer = Seated(q.match, q.key, again.players)
      BY <2>1, <2>5 DEF HandleJoin, Reply
    <3>2. Seated(q.match, q.key, x.players) \in Response
      BY <1>5, <1>8, <2>2, <2>5 DEF IsIn
    <3> QED  BY <2>3, <3>1, <3>2
  <2>6. CASE ~IsIn(q.match, q.key) /\ x.status = "lobby" /\ OpenSlots(q.match) # 0
    <3>1. Len(x.players) < MaxPlayers
      <4>1. Len(x.players) \in Nat /\ Len(x.players) <= MaxPlayers
        BY <2>2 DEF MatchFits, Match
      <4> QED  BY <4>1, <2>6 DEF OpenSlots, AgentClientAssumption
    <3>2. MatchFits(after) /\ q.key \in Range(after.players)
      BY <1>1, <2>2, <2>6, <3>1, PlayerAdded DEF IsIn
    <3>3. Seated(q.match, q.key, after.players) \in Response
      BY <1>5, <1>8, <3>2
    <3>4. \/ Handled(q).answer = Seated(q.match, q.key, after.players)
          \/ Handled(q).answer = Refuse("occupancy_limit", q).answer
      BY <2>1, <2>6 DEF HandleJoin, Reply
    <3> QED  BY <2>4, <3>3, <3>4 DEF Codes
  <2>7. CASE ~IsIn(q.match, q.key) /\ (x.status # "lobby" \/ OpenSlots(q.match) = 0)
    <3>1. \/ Handled(q) = Refuse("occupancy_limit", q)
          \/ Handled(q) = Refuse("not_joinable", q)
      BY <2>1, <2>7 DEF HandleJoin
    <3> QED  BY <2>4, <3>1 DEF Codes
  <2> QED  BY <2>5, <2>6, <2>7
<1>9. CASE q.call = "state"
  <2>1. Handled(q) = HandleState(q)
    BY <1>9, Dispatch
  <2>2. CASE IsIn(q.match, q.key)
    <3>1. Seated(q.match, q.key, match[q.match].players) \in Response
      BY <1>5, <1>7, <1>9, <2>2 DEF IsIn
    <3>2. match[q.match].tick \in ServerTicks
      BY <1>7, <1>9 DEF MatchFits, Match
    <3>3. Handled(q).answer = [Seated(q.match, q.key, match[q.match].players) EXCEPT
                                  !.tick = match[q.match].tick]
      BY <2>1, <2>2 DEF HandleState, Reply
    <3> QED  BY <3>1, <3>2, <3>3 DEF Response
  <2> QED  BY <1>3, <2>1, <2>2 DEF HandleState, Codes
<1>10. CASE q.call = "orders"
  <2>1. Handled(q) = HandleOrders(q)
    BY <1>10, Dispatch
  <2>2. Ok(q.match) \in Response
    BY <1>1, <1>4
  <2> QED  BY <1>3, <2>1, <2>2 DEF HandleOrders, Codes, Reply
<1>11. CASE q.call = "create"
  <2>1. Handled(q) = HandleCreate(q)
    BY <1>11, Dispatch
  <2>2. Seated(q.match, q.key, <<q.key>>) \in Response
    <3>1. SeatIn(<<q.key>>, q.key) = 1
      <4>1. DOMAIN <<q.key>> = {1} /\ <<q.key>>[1] = q.key
        OBVIOUS
      <4> QED  BY <4>1 DEF SeatIn
    <3>2. Ok(q.match) \in Response
      BY <1>1, <1>4
    <3> QED  BY <1>1, <3>1, <3>2 DEF Seated, Response
  <2> QED  BY <1>3, <2>1, <2>2 DEF HandleCreate, Codes, Reply
<1>12. CASE q.call = "profile"
  <2>1. Handled(q) = HandleProfile(q)
    BY <1>12, Dispatch
  <2> QED  BY <1>1, <1>4, <2>1 DEF HandleProfile, Reply
<1>13. CASE q.call = "start"
  <2>1. Handled(q) = HandleStart(q)
    BY <1>13, Dispatch
  <2>2. Ok(q.match) \in Response
    BY <1>1, <1>4
  <2> QED  BY <1>3, <2>1, <2>2 DEF HandleStart, Codes, Reply
<1> QED  BY <1>1, <1>6, <1>8, <1>9, <1>10, <1>11, <1>12, <1>13 DEF Calls

\* The request r as it is served: a lobby is created under an id that is free.
ServedAs(r, q) ==
    /\ q \in Message /\ q.from = r.from /\ q.no = r.no /\ q.key = r.key /\ q.call = r.call /\ q.tick = r.tick
    /\ q.call = "list" => q.match = Nothing
    /\ q.call # "list" => q.match \in Matches
    /\ q.call = "create" => match[q.match].status = "none"
    /\ q.call \notin {"list", "create"} => q = r /\ match[q.match].status # "none"

LEMMA ServedOnce ==
  ASSUME AgentClientAssumption, AgentInv, NEW r \in wire, Handle(r)
  PROVE  \E q : ServedAs(r, q) /\ Serve(q)
<1>1. r \in Message
  BY DEF AgentInv, AgentTypeOK
<1>2. /\ r.call \in {"list", "create"} <=> r.match = Nothing
      /\ r.match # Nothing => match[r.match].status # "none"
      /\ r.match \in Matches \cup {Nothing}
  BY <1>1 DEF AgentInv, WireFits, RequestFits, Message
<1>3. CASE r.call # "create"
  <2>1. Serve(r)
    BY <1>3 DEF Handle, Arrives
  <2>2. ServedAs(r, r)
    BY <1>1, <1>2, <1>3 DEF ServedAs
  <2> QED  BY <2>1, <2>2
<1>4. CASE r.call = "create"
  <2>1. PICK m \in Matches : match[m].status = "none" /\ Serve([r EXCEPT !.match = m])
    BY <1>4 DEF Handle, Arrives
  <2>2. ServedAs(r, [r EXCEPT !.match = m])
    BY <1>1, <1>4, <2>1 DEF ServedAs, Message
  <2> QED  BY <2>1, <2>2
<1> QED  BY <1>3, <1>4

\* Matches have only grown.
Grown ==
    /\ match' \in [Matches -> Match]
    /\ \A m \in Matches : /\ MatchFits(match'[m])
                          /\ match[m].status # "none" => GrowsTo(match[m], match'[m])

LEMMA UnchangedGrows ==
  ASSUME AgentClientAssumption, AgentInv, NEW m \in Matches, match[m].status # "none"
  PROVE  GrowsTo(match[m], match[m])
<1>1. match[m] \in Match
  BY DEF AgentInv, AgentTypeOK
<1>2. match[m].tick \in Nat
  BY <1>1 DEF Match, ServerTicks, AgentClientAssumption
<1> QED  BY <1>2 DEF GrowsTo

LEMMA ServedMatches ==
  ASSUME AgentClientAssumption, AgentInv, NEW r \in wire, NEW q, ServedAs(r, q), Serve(q)
  PROVE  /\ Grown
         /\ \A m \in Matches : match[m].status = "lobby" /\ match'[m].status # "lobby"
                                => q.call = "start" /\ q.match = m
<1>1. match \in [Matches -> Match]
  BY DEF AgentInv, AgentTypeOK
<1>2. \A m \in Matches : MatchFits(match[m]) /\ (match[m].status # "none" => GrowsTo(match[m], match[m]))
  BY MatchesFit, UnchangedGrows
<1>3. CASE q.call = "list"
  <2>1. match' = match
    BY <1>3 DEF ServedAs, Serve
  <2> QED  BY <1>1, <1>2, <2>1 DEF Grown
<1>4. CASE q.call # "list"
  <2>1. q \in Message /\ q.match \in Matches /\ q.match # Nothing
    BY <1>4 DEF ServedAs, AgentClientAssumption
  <2>2. match' = [match EXCEPT ![q.match] = Handled(q).after]
    BY <2>1 DEF Serve
  <2>3. Leaves(q)
    BY <1>4, <2>1, HandlersLeave DEF ServedAs
  <2>4. match'[q.match] = Handled(q).after /\ \A m \in Matches \ {q.match} : match'[m] = match[m]
    BY <1>1, <2>1, <2>2
  <2>5. match' \in [Matches -> Match]
    BY <1>1, <2>1, <2>2, <2>3 DEF Leaves, MatchFits
  <2> QED  BY <1>2, <2>1, <2>3, <2>4, <2>5 DEF Grown, Leaves
<1> QED  BY <1>3, <1>4

\* What is known of an open match stays known.
LEMMA KnownStays ==
  ASSUME AgentClientAssumption, AgentInv, Grown, NEW m \in Matches, match[m].status # "none"
  PROVE  /\ match'[m].status # "none"
         /\ \A t \in Nat : t <= match[m].tick => t <= match'[m].tick
         /\ \A t \in Nat : match[m].tick > t => match'[m].tick > t
         /\ match'[m].players[1] = match[m].players[1]
         /\ match[m].status \in {"active", "completed"} => match'[m].status \in {"active", "completed"}
         /\ \A a : IsIn(m, a) => IsIn(m, a)'
         /\ \A a, seat : Sits(m, a, seat) => Sits(m, a, seat)'
         /\ Closed(m) => Closed(m)'
<1> DEFINE x == match[m]
           y == match'[m]
<1>1. MatchFits(x) /\ MatchFits(y) /\ GrowsTo(x, y) /\ x \in Match /\ y \in Match
  BY MatchesFit DEF Grown, MatchFits
<1>2. x.tick \in Nat /\ y.tick \in Nat
  BY <1>1 DEF Match, ServerTicks, AgentClientAssumption
<1>3. x.tick <= y.tick
  BY <1>1 DEF GrowsTo
<1>4. y.players[1] = x.players[1]
  <2>1. x.players \in Seq(Agents) /\ x.players # <<>>
    BY <1>1 DEF Match, MatchFits
  <2>2. 1 \in DOMAIN x.players
    BY <2>1
  <2> QED  BY <1>1, <2>2 DEF GrowsTo
<1>5. \A a : IsIn(m, a) => IsIn(m, a)' /\ SeatIn(y.players, a) = SeatIn(x.players, a)
  BY <1>1, SeatKept DEF IsIn
<1>6. Closed(m) => Closed(m)'
  <2>1. CASE x.status # "lobby"
    <3>1. x.status \in {"active", "completed"}
      BY <1>1, <2>1 DEF Match, MatchStatus
    <3> QED  BY <1>1, <3>1 DEF GrowsTo, Closed
  <2>2. CASE OpenSlots(m) = 0
    <3>1. /\ Len(x.players) \in Nat /\ Len(y.players) \in Nat /\ MaxPlayers \in Nat /\ MaxPlayers > 0
          /\ DOMAIN x.players = 1..Len(x.players) /\ DOMAIN y.players = 1..Len(y.players)
          /\ Len(x.players) <= MaxPlayers /\ Len(y.players) <= MaxPlayers
      BY <1>1 DEF Match, MatchFits, AgentClientAssumption
    <3>2. Len(x.players) = MaxPlayers
      BY <2>2, <3>1 DEF OpenSlots
    <3>3. Len(x.players) \in DOMAIN y.players
      BY <1>1, <3>1, <3>2 DEF GrowsTo
    <3>4. Len(y.players) = MaxPlayers
      BY <3>1, <3>2, <3>3
    <3> QED  BY <3>1, <3>4 DEF OpenSlots, Closed
  <2> QED  BY <2>1, <2>2 DEF Closed
<1>7. \A a, seat : Sits(m, a, seat) => Sits(m, a, seat)'
  BY <1>5 DEF Sits
<1> QED  BY <1>1, <1>2, <1>3, <1>4, <1>5, <1>6, <1>7 DEF GrowsTo

\* A step that moves neither run a nor what it knows: lobbies begin by start requests only, and
\* what is sent is others' own.
Undisturbed(a) ==
    /\ run'[a] = run[a] /\ Grown /\ answered \subseteq answered'
    /\ \A m \in Matches : match[m].status = "lobby" /\ match'[m].status # "lobby" =>
           \E r \in wire : r \notin wire' /\ r.call = "start" /\ r.match = m
    /\ \A r \in wire' : r \notin wire => r.from # a /\ (r.call = "start" => match[r.match].players[1] = r.from)

LEMMA OwnLobbyStays ==
  ASSUME AgentClientAssumption, AgentInv, NEW a \in Agents, Undisturbed(a),
         NEW m \in Matches, OwnLobby(a, m), match[m].players[1] = a,
         run[a].at = "start" => Sent(a) \in wire'
  PROVE  OwnLobby(a, m)'
<1>1. match[m].status = "lobby"
  BY DEF OwnLobby
<1>2. match'[m].status = "lobby"
  <2> SUFFICES ASSUME match'[m].status # "lobby"
               PROVE  FALSE
    OBVIOUS
  <2>1. PICK r \in wire : r \notin wire' /\ r.call = "start" /\ r.match = m
    BY <1>1 DEF Undisturbed
  <2>2. r.from = a /\ Awaited(r)
    BY <2>1 DEF OwnLobby
  <2>3. r = Sent(a)
    BY <2>2 DEF AgentInv, WireFits, RequestFits
  <2>4. run[a].at = "start"
    BY <2>1, <2>3 DEF Sent
  <2> QED  BY <2>1, <2>3, <2>4
<1>3. ASSUME NEW r \in wire', r.call = "start", r.match = m
      PROVE  r.from = a /\ Awaited(r)'
  <2>1. r \in wire
    BY <1>3 DEF Undisturbed
  <2>2. r.from = a /\ Awaited(r)
    BY <1>3, <2>1 DEF OwnLobby
  <2> QED  BY <2>2 DEF Awaited, Waiting, Undisturbed
<1> QED  BY <1>2, <1>3 DEF OwnLobby

LEMMA RunStays ==
  ASSUME AgentClientAssumption, AgentInv, NEW a \in Agents, Undisturbed(a)
  PROVE  RunFits(a)' /\ TrueSummary(a)' /\ CauseHolds(a)'
<1> DEFINE now == run[a]
           m == now.match
<1>1. RunFits(a) /\ TrueSummary(a) /\ CauseHolds(a) /\ run'[a] = now /\ Grown /\ answered \subseteq answered'
  BY DEF AgentInv, SummaryTrue, RefusedForCause, Undisturbed
<1>2. now \in Run /\ now.tick \in Nat
  BY DEF AgentInv, AgentTypeOK, Run, ServerTicks, AgentClientAssumption
<1>3. Waiting(a)' = Waiting(a) /\ Sent(a)' = Sent(a)
  BY <1>1 DEF Waiting, Sent
<1>4. CASE m \in Matches /\ match[m].status # "none"
  <2>1. /\ match'[m].status # "none"
        /\ now.tick <= match[m].tick => now.tick <= match'[m].tick
        /\ match[m].tick > now.tick => match'[m].tick > now.tick
        /\ match'[m].players[1] = match[m].players[1]
        /\ match[m].status \in {"active", "completed"} => match'[m].status \in {"active", "completed"}
        /\ \A b : IsIn(m, b) => IsIn(m, b)'
        /\ \A b, seat : Sits(m, b, seat) => Sits(m, b, seat)'
        /\ Closed(m) => Closed(m)'
    BY <1>1, <1>2, <1>4, KnownStays
  <2>2. now.at \in {"profile", "second"} => OwnLobby(a, m)'
    BY <1>1, <1>4, OwnLobbyStays DEF RunFits
  <2>3. now.at = "start" /\ Sent(a) \in wire' => OwnLobby(a, m)'
    <3> SUFFICES ASSUME now.at = "start", Sent(a) \in wire'
                 PROVE  OwnLobby(a, m)'
      OBVIOUS
    <3>1. Sent(a) \in wire
      BY DEF Undisturbed, Sent
    <3> QED  BY <1>1, <1>4, <3>1, OwnLobbyStays DEF RunFits
  <2>4. RunFits(a)'
    BY <1>1, <1>3, <1>4, <2>1, <2>2, <2>3 DEF RunFits
  <2>5. TrueSummary(a)'
    BY <1>1, <2>1 DEF TrueSummary, Sits
  <2>6. CauseHolds(a)'
    BY <1>1, <2>1 DEF CauseHolds, Closed
  <2> QED  BY <2>4, <2>5, <2>6
<1>5. CASE ~(m \in Matches /\ match[m].status # "none")
  <2>1. /\ now.at \notin {"join", "state", "orders", "profile", "second", "start", "done"}
        /\ ~(now.at = "failed" /\ now.code \in {"tick_mismatch", "not_joinable"})
    BY <1>1, <1>5 DEF RunFits
  <2>2. RunFits(a)'
    BY <1>1, <1>3, <2>1 DEF RunFits
  <2>3. TrueSummary(a)' /\ CauseHolds(a)'
    BY <1>1, <2>1 DEF TrueSummary, CauseHolds
  <2> QED  BY <2>2, <2>3
<1> QED  BY <1>4, <1>5

LEMMA AnswerStays ==
  ASSUME AgentClientAssumption, AgentInv, NEW a \in Agents, Undisturbed(a), answer'[a] = answer[a]
  PROVE  AnswerFitsRun(a)'
<1> SUFFICES ASSUME answer[a] # Nothing
             PROVE  AnswerFitsRun(a)'
  BY DEF AnswerFitsRun
<1> DEFINE now == run[a]
           m == now.match
           ans == answer[a]
<1>1. /\ RunFits(a) /\ AnswerFitsRun(a) /\ run'[a] = now /\ Grown /\ answered \subseteq answered'
      /\ ans \in Response /\ Waiting(a)
  BY DEF AgentInv, AgentTypeOK, Undisturbed
<1>2. now \in Run /\ now.tick \in Nat /\ ans.tick \in Nat
  BY <1>1 DEF AgentInv, AgentTypeOK, Run, Response, ServerTicks, AgentClientAssumption
<1>3. CASE now.at = "list"
  <2>1. ans.code = "ok" /\ \A e \in ans.listed : e.id \in Matches /\ match[e.id].status # "none"
    BY <1>1, <1>3 DEF AnswerFitsRun, Response, ListEntry
  <2>2. \A e \in ans.listed : match'[e.id].status # "none"
    BY <1>1, <2>1, KnownStays
  <2> QED  BY <1>1, <1>3, <2>1, <2>2 DEF AnswerFitsRun
<1>4. CASE now.at \in {"join", "state", "orders", "profile", "second", "start"}
  <2>1. m \in Matches /\ match[m].status # "none"
    BY <1>1, <1>4 DEF RunFits
  <2>2. /\ ans.tick <= match[m].tick => ans.tick <= match'[m].tick
        /\ match[m].tick > now.tick => match'[m].tick > now.tick
        /\ match[m].status \in {"active", "completed"} => match'[m].status \in {"active", "completed"}
        /\ \A b : IsIn(m, b) => IsIn(m, b)'
        /\ \A b, seat : Sits(m, b, seat) => Sits(m, b, seat)'
        /\ Closed(m) => Closed(m)'
    BY <1>1, <1>2, <2>1, KnownStays
  <2> QED  BY <1>1, <1>4, <2>2 DEF AnswerFitsRun
<1>5. CASE now.at = "create"
  <2>1. CASE ans.code = "occupancy_limit"
    BY <1>1, <1>5, <2>1 DEF AnswerFitsRun
  <2>2. CASE ans.code # "occupancy_limit"
    <3>1. /\ ans.code = "ok" /\ ans.id \in Matches
          /\ match[ans.id].players[1] = a /\ Sits(ans.id, a, ans.seat) /\ OwnLobby(a, ans.id)
      BY <1>1, <1>5, <2>2 DEF AnswerFitsRun
    <3>2. match[ans.id].status # "none"
      BY <3>1 DEF OwnLobby
    <3>3. match'[ans.id].players[1] = a /\ Sits(ans.id, a, ans.seat)'
      <4>1. /\ match'[ans.id].players[1] = match[ans.id].players[1]
            /\ \A b, seat : Sits(ans.id, b, seat) => (b \in Range(match'[ans.id].players)
                                       /\ SeatIn(match'[ans.id].players, b) = seat)
        BY <1>1, <3>1, <3>2, KnownStays DEF Sits, IsIn
      <4> QED  BY <3>1, <4>1 DEF Sits, IsIn
    <3>4. OwnLobby(a, ans.id)'
      <4>1. ASSUME NEW k \in Matches, k = ans.id
            PROVE  OwnLobby(a, k)'
        BY <1>5, <3>1, <4>1, OwnLobbyStays
      <4> QED  BY <3>1, <4>1 DEF OwnLobby
    <3> QED  BY <1>1, <1>5, <3>1, <3>3, <3>4 DEF AnswerFitsRun
  <2> QED  BY <2>1, <2>2
<1> QED  BY <1>1, <1>3, <1>4, <1>5 DEF Waiting, Calls

LEMMA GrownFits ==
  ASSUME Grown
  PROVE  /\ Opened' /\ OneSeatEach' /\ NothingForThePast'
         /\ \A m \in Matches : Len(match'[m].players) <= MaxPlayers
  BY DEF Grown, MatchFits, Opened, OneSeatEach, NothingForThePast

\* A request that stays on its way.
LEMMA RequestStays ==
  ASSUME AgentClientAssumption, AgentInv, Grown, NEW r \in wire, run[r.from].no <= run'[r.from].no,
         run' \in [Agents -> Run],
         Awaited(r)' => Awaited(r) /\ Sent(r.from)' = Sent(r.from) /\ answer'[r.from] = Nothing
  PROVE  RequestFits(r)'
<1>1. RequestFits(r) /\ r \in Message
  BY DEF AgentInv, WireFits, AgentTypeOK
<1>2. /\ r.no \in Nat /\ r.tick \in Nat
      /\ run[r.from].no \in Nat /\ run'[r.from].no \in Nat
  <2>1. r.from \in Agents /\ r.no \in 1..MaxRuns /\ r.tick \in 0..MaxServerTick
    BY <1>1 DEF Message, ServerTicks
  <2>2. run[r.from] \in Run /\ run'[r.from] \in Run
    BY <2>1 DEF AgentInv, AgentTypeOK
  <2> QED  BY <2>1, <2>2 DEF Run, AgentClientAssumption
<1>3. r.no <= run'[r.from].no
  BY <1>1, <1>2 DEF RequestFits
<1>4. CASE r.match = Nothing
  <2>1. r.call # "start"
    BY <1>1, <1>4 DEF RequestFits
  <2> QED  BY <1>1, <1>3, <1>4, <2>1 DEF RequestFits
<1>5. CASE r.match # Nothing
  <2>1. r.match \in Matches /\ match[r.match].status # "none"
    BY <1>1, <1>5 DEF RequestFits, Message
  <2>2. /\ match'[r.match].status # "none"
        /\ r.tick <= match[r.match].tick => r.tick <= match'[r.match].tick
        /\ match'[r.match].players[1] = match[r.match].players[1]
    BY <1>2, <2>1, KnownStays
  <2> QED  BY <1>1, <1>3, <1>5, <2>2 DEF RequestFits
<1> QED  BY <1>4, <1>5

LEMMA AppendedIn ==
  ASSUME NEW s \in Seq(Agents), NEW b \in Agents
  PROVE  b \in Range(Append(s, b))
<1>1. Append(s, b)[Len(s) + 1] = b /\ Len(s) + 1 \in DOMAIN Append(s, b)
  OBVIOUS
<1> QED  BY <1>1 DEF Range

\* What the server answers a call that is waited for.
LEMMA ServedAnswers ==
  ASSUME AgentClientAssumption, AgentInv, NEW r \in wire, NEW q, ServedAs(r, q), Serve(q), wire' = wire \ {r},
         Awaited(r), NEW a, a = r.from, NEW m, m = run[a].match, NEW ans, ans = Handled(q).answer
  PROVE  answer'[a] = ans /\ AnswerFitsRun(a)'
<1> DEFINE now == run[a]
           x == match[m]
           y == Handled(q).after
<1>1. a \in Agents /\ r \in Message /\ r = Sent(a) /\ q.from = a /\ q.no = now.no /\ q.call = now.at
      /\ q.key = (IF now.at = "second" THEN Partner[a] ELSE a)
  <2>1. r \in Message /\ r = Sent(a)
    BY DEF AgentInv, AgentTypeOK, WireFits, RequestFits
  <2> QED  BY <2>1 DEF Message, Sent, ServedAs
<1>2. answer'[a] = ans /\ run' = run /\ now \in Run /\ RunFits(a)
      /\ now.at \in Calls
  <2>1. answer \in [Agents -> Response \cup {Nothing}] /\ now \in Run /\ RunFits(a)
    BY <1>1 DEF AgentInv, AgentTypeOK
  <2> QED  BY <1>1, <2>1 DEF Serve, Awaited, Waiting
<1> SUFFICES AnswerFitsRun(a)'
  BY <1>2
<1>3. Undisturbed(a)
  <2>1. Grown /\ \A k \in Matches : match[k].status = "lobby" /\ match'[k].status # "lobby"
                                => q.call = "start" /\ q.match = k
    BY ServedMatches
  <2>2. q.call = "start" => q = r
    BY DEF ServedAs
  <2>3. answered \subseteq answered'
    BY DEF Serve
  <2> QED  BY <1>2, <2>1, <2>2, <2>3 DEF Undisturbed
<1>4. Grown
  BY <1>3 DEF Undisturbed
<1>5. CASE now.at = "list"
  <2>1. Handled(q) = HandleList(q) /\ match' = match
    BY <1>1, <1>5, Dispatch DEF ServedAs, Serve
  <2>2. \A v, w : Reply(v, w).answer = v
    BY DEF Reply
  <2>3. ans = [Ok(Nothing) EXCEPT !.listed =
                  {[id |-> k, status |-> match[k].status, open |-> OpenSlots(k)] : k \in Listed}]
    BY <2>1, <2>2 DEF HandleList
  <2>4. ans.code = "ok"
        /\ ans.listed = {[id |-> k, status |-> match[k].status, open |-> OpenSlots(k)] : k \in Listed}
    BY <2>3 DEF Ok, Answer
  <2>5. \A e \in ans.listed : match[e.id].status # "none"
    <3> SUFFICES ASSUME NEW k \in Listed
                 PROVE  match[k].status # "none"
      BY <2>4
    <3> QED  BY DEF Listed
  <2> QED  BY <1>2, <1>5, <2>1, <2>4, <2>5 DEF AnswerFitsRun
<1>6. CASE now.at = "create"
  <2>1. Handled(q) = HandleCreate(q) /\ q.match \in Matches /\ match[q.match].status = "none" /\ q.key = a
    BY <1>1, <1>6, Dispatch DEF ServedAs
  <2>2. \A v, w : Reply(v, w).answer = v /\ Reply(v, w).after = w
    BY DEF Reply
  <2>3. CASE Cardinality(Occupied(q.key)) >= Allowance
    <3>1. ans.code = "occupancy_limit"
      BY <2>1, <2>2, <2>3 DEF HandleCreate, Refuse, Answer
    <3> QED  BY <1>2, <1>6, <3>1 DEF AnswerFitsRun
  <2>4. CASE ~(Cardinality(Occupied(q.key)) >= Allowance)
    <3> DEFINE k == q.match
    <3>1. /\ ans = Seated(k, a, <<a>>)
          /\ y = [status |-> "lobby", tick |-> 0, players |-> <<a>>, queue |-> {}]
      BY <2>1, <2>2, <2>4 DEF HandleCreate
    <3>2. ans.code = "ok" /\ ans.id = k /\ ans.seat = SeatIn(<<a>>, a)
      BY <3>1 DEF Seated, Ok, Answer
    <3>3. match'[k] = y
      BY <2>1 DEF Serve, AgentInv, AgentTypeOK, AgentClientAssumption
    <3>4. match'[k].players = <<a>> /\ match'[k].status = "lobby"
      BY <3>1, <3>3
    <3>5. a \in Range(<<a>>) /\ <<a>>[1] = a
      BY DEF Range
    <3>6. \A s \in wire : ~(s.call = "start" /\ s.match = k)
      <4> SUFFICES ASSUME NEW s \in wire, s.call = "start", s.match = k
                   PROVE  FALSE
        OBVIOUS
      <4>1. RequestFits(s)
        BY DEF AgentInv, WireFits
      <4> QED  BY <2>1, <4>1 DEF RequestFits, AgentClientAssumption
    <3>7. OwnLobby(a, k)'
      BY <3>4, <3>6 DEF OwnLobby
    <3>8. match'[k].players[1] = a /\ Sits(k, a, ans.seat)'
      BY <3>2, <3>4, <3>5 DEF Sits, IsIn
    <3>9. ans.id = k
      BY <3>2
    <3> HIDE DEF k
    <3>10. OwnLobby(a, ans.id)'
      BY <1>2, <3>7, <3>9 DEF OwnLobby
    <3>11. match'[ans.id].players[1] = a /\ Sits(ans.id, a, ans.seat)'
      BY <3>8, <3>9 DEF Sits, IsIn
    <3> QED  BY <1>2, <1>6, <2>1, <3>2, <3>9, <3>10, <3>11 DEF AnswerFitsRun, k
  <2> QED  BY <2>3, <2>4
<1>7. CASE now.at \notin {"list", "create"}
  <2>1. q = r /\ q.match = m /\ m \in Matches /\ x.status # "none" /\ m # Nothing /\ q \in Message
    BY <1>1, <1>2, <1>7 DEF Calls, Sent, ServedAs, AgentClientAssumption
  <2>2. match'[m] = y
    BY <2>1 DEF Serve, AgentInv, AgentTypeOK
  <2>3. \A v, w : Reply(v, w).answer = v /\ Reply(v, w).after = w
    BY DEF Reply
  <2>4. \A code : Refuse(code, q).answer.code = code /\ Refuse(code, q).after = x
    BY <2>1, <2>3 DEF Refuse, Answer
  <2>5. MatchFits(x) /\ x \in Match /\ MatchFits(y)
    BY <1>4, <2>1, <2>2, MatchesFit DEF MatchFits, Grown
  <2>6. CASE now.at \in {"join", "second"}
    <3> DEFINE b == q.key
               again == [x EXCEPT !.queue = {}]
               after == [again EXCEPT !.players = Append(@, b)]
    <3>1. Handled(q) = HandleJoin(q)
      BY <1>1, <2>6, Dispatch
    <3>2. again.players = x.players /\ after.players = Append(x.players, b) /\ x.players \in Seq(Agents)
      BY <2>5 DEF Match
    <3>3. b \in Range(after.players)
      <4>1. b \in Agents
        BY <2>1 DEF Message
      <4> QED  BY <3>2, <4>1, AppendedIn
    <3>4. \/ IsIn(m, b) /\ Handled(q) = Reply(Seated(m, b, again.players), again)
          \/ Handled(q) = Refuse("occupancy_limit", q)
          \/ Closed(m) /\ Handled(q) = Refuse("not_joinable", q)
          \/ Handled(q) = Reply(Seated(m, b, after.players), after)
      BY <2>1, <3>1 DEF HandleJoin, Closed
    <3>5. \A s : Seated(m, b, s).code = "ok"
      BY DEF Seated, Ok, Answer
    <3>6. \/ ans.code = "occupancy_limit"
          \/ ans.code = "not_joinable" /\ Closed(m)
          \/ ans.code = "ok" /\ b \in Range(y.players)
      <4>1. CASE IsIn(m, b) /\ Handled(q) = Reply(Seated(m, b, again.players), again)
        <5>1. ans = Seated(m, b, again.players) /\ y = again
          BY <2>3, <4>1
        <5>2. ans.code = "ok"
          BY <3>5, <5>1
        <5>3. y.players = x.players
          <6>1. again.players = x.players
            BY <3>2
          <6> HIDE DEF again, y, x
          <6> QED  BY <5>1, <6>1
        <5> QED  BY <4>1, <5>2, <5>3 DEF IsIn
      <4>2. CASE Handled(q) = Refuse("occupancy_limit", q)
        BY <2>4, <4>2
      <4>3. CASE Closed(m) /\ Handled(q) = Refuse("not_joinable", q)
        BY <2>4, <4>3
      <4>4. CASE Handled(q) = Reply(Seated(m, b, after.players), after)
        <5>1. ans = Seated(m, b, after.players) /\ y = after
          <6> HIDE DEF after
          <6> QED  BY <2>3, <4>4
        <5>2. ans.code = "ok"
          BY <3>5, <5>1
        <5> QED  BY <3>3, <5>1, <5>2
      <4> QED  BY <3>4, <4>1, <4>2, <4>3, <4>4
    <3>7. Closed(m) => Closed(m)'
      BY <1>4, <2>1, KnownStays
    <3>8. b \in Range(y.players) => IsIn(m, b)'
      BY <2>2 DEF IsIn
    <3>9. b = IF now.at = "second" THEN Partner[a] ELSE a
      BY <1>1
    <3> HIDE DEF b, y
    <3> QED  BY <1>2, <2>6, <3>6, <3>7, <3>8, <3>9 DEF AnswerFitsRun, IsIn
  <2>7. CASE now.at = "state"
    <3>1. Handled(q) = HandleState(q) /\ q.key = a /\ IsIn(m, a)
      BY <1>1, <1>2, <2>7, Dispatch DEF RunFits
    <3>2. ans = [Seated(m, a, x.players) EXCEPT !.tick = x.tick] /\ y = x
      <4>1. Handled(q) = Reply([Seated(m, a, x.players) EXCEPT !.tick = x.tick], x)
        BY <2>1, <3>1 DEF HandleState
      <4> HIDE DEF x
      <4> QED  BY <2>3, <4>1
    <3>3. ans.code = "ok" /\ ans.seat = SeatIn(x.players, a) /\ ans.tick = x.tick
      BY <3>2 DEF Seated, Ok, Answer
    <3>4. x.tick \in Nat
      BY <2>5 DEF Match, ServerTicks, AgentClientAssumption
    <3>5. Sits(m, a, ans.seat)'
      BY <2>2, <3>1, <3>2, <3>3 DEF Sits, IsIn
    <3>6. ans.tick <= match'[m].tick
      <4>1. match'[m] = x
        BY <2>2, <3>2
      <4> QED  BY <3>3, <3>4, <4>1
    <3> QED  BY <1>2, <2>7, <3>3, <3>5, <3>6 DEF AnswerFitsRun, Sits, IsIn
  <2>8. CASE now.at = "orders"
    <3>1. /\ Handled(q) = HandleOrders(q) /\ q.key = a /\ IsIn(m, a) /\ q.tick = now.tick
          /\ now.tick <= x.tick
      BY <1>1, <1>2, <2>1, <2>8, Dispatch DEF RunFits, Sits, Sent
    <3>2. CASE q.tick # x.tick
      <4>1. ans.code = "tick_mismatch" /\ y = x
        BY <2>1, <2>4, <3>1, <3>2 DEF HandleOrders
      <4>2. x.tick > now.tick
        <5>1. x.tick \in Nat /\ now.tick \in Nat
          <6>1. now.tick \in 0..MaxServerTick /\ x.tick \in 0..MaxServerTick
            BY <1>2, <2>5 DEF Run, Match, ServerTicks
          <6> QED  BY <6>1 DEF AgentClientAssumption
        <5> QED  BY <3>1, <3>2, <5>1
      <4> QED  BY <1>2, <2>2, <2>8, <4>1, <4>2 DEF AnswerFitsRun
    <3>3. CASE q.tick = x.tick
      <4>1. ans.code = "ok"
        BY <2>1, <2>3, <3>1, <3>3 DEF HandleOrders, Ok, Answer
      <4>2. [match |-> m, order |-> [player |-> a, tick |-> now.tick, no |-> now.no]] \in answered'
        BY <1>1, <2>1, <2>8, <3>1, <4>1 DEF Serve, OrdersOf
      <4> QED  BY <1>2, <2>8, <4>1, <4>2 DEF AnswerFitsRun
    <3> QED  BY <3>2, <3>3
  <2>9. CASE now.at = "profile"
    <3>1. Handled(q) = HandleProfile(q)
      BY <1>1, <2>9, Dispatch
    <3>2. ans.code = "ok"
      BY <2>3, <3>1 DEF HandleProfile, Ok, Answer
    <3> QED  BY <1>2, <2>9, <3>2 DEF AnswerFitsRun
  <2>10. CASE now.at = "start"
    <3>1. Handled(q) = HandleStart(q) /\ q.key = a
      BY <1>1, <2>10, Dispatch
    <3>2. x.status = "lobby" /\ x.players[1] = a /\ IsIn(m, Partner[a])
      BY <1>1, <1>2, <2>10 DEF RunFits, OwnLobby
    <3>3. CASE Len(x.players) < 2
      <4>1. ans.code = "not_ready"
        BY <2>1, <2>4, <3>1, <3>2, <3>3 DEF HandleStart
      <4>2. Partner[a] = a
        <5>1. x.players \in Seq(Agents) /\ x.players # <<>>
          BY <2>1, <2>5 DEF Match, MatchFits
        <5>2. DOMAIN x.players = {1}
          BY <3>3, <5>1
        <5> QED  BY <3>2, <5>2 DEF IsIn, Range
      <4> QED  BY <1>2, <2>10, <4>1, <4>2 DEF AnswerFitsRun
    <3>4. CASE ~(Len(x.players) < 2)
      <4>1. Handled(q) = Reply(Ok(m), [x EXCEPT !.status = "active", !.queue = {}])
        BY <2>1, <3>1, <3>2, <3>4 DEF HandleStart
      <4>2. ans.code = "ok" /\ y.status = "active"
        <5>1. ans = Ok(m) /\ y = [x EXCEPT !.status = "active", !.queue = {}]
          BY <2>3, <4>1
        <5>2. y.status = "active"
          BY <2>5, <5>1 DEF Match
        <5> QED  BY <5>1, <5>2 DEF Ok, Answer
      <4> QED  BY <1>2, <2>2, <2>10, <4>2 DEF AnswerFitsRun
    <3> QED  BY <3>3, <3>4
  <2> QED  BY <1>2, <1>7, <2>6, <2>7, <2>8, <2>9, <2>10 DEF Calls
<1> QED  BY <1>2, <1>5, <1>6, <1>7

\* Who waits for a served request is told; everybody else knows what it knew.
LEMMA HandleKeeps ==
  ASSUME AgentClientAssumption, AgentInv, NEW r \in wire, Handle(r)
  PROVE  AgentInv'
<1>1. PICK q : ServedAs(r, q) /\ Serve(q)
  BY ServedOnce
<1>2. /\ run' = run /\ wire' = wire \ {r}
      /\ AgentTypeOK /\ r \in Message
  BY <1>1 DEF Handle, Serve, AgentInv, AgentTypeOK
<1>3. /\ Grown
      /\ \A m \in Matches : match[m].status = "lobby" /\ match'[m].status # "lobby"
                                => q.call = "start" /\ q.match = m
  BY <1>1, ServedMatches
<1>4. q.from = r.from /\ q.no = r.no /\ q.call = r.call /\ (q.call = "start" => q = r)
      /\ q \in Message /\ r.from \in Agents
  BY <1>1, <1>2 DEF ServedAs, Message
<1>5. answered \subseteq answered'
  BY <1>1 DEF Serve
<1>6. \A a \in Agents : Undisturbed(a)
  BY <1>2, <1>3, <1>4, <1>5 DEF Undisturbed
<1>7. \A a \in Agents : RunFits(a)' /\ TrueSummary(a)' /\ CauseHolds(a)'
  BY <1>6, RunStays
<1>8. /\ Awaited(r) => answer' = [answer EXCEPT ![r.from] = Handled(q).answer]
      /\ ~Awaited(r) => answer' = answer
  <2>1. Awaited(r) => r = Sent(r.from)
    BY DEF AgentInv, WireFits, RequestFits
  <2>2. Awaited(r) <=> run[q.from].no = q.no /\ run[q.from].at = q.call
    <3>1. q.call \in Calls
      BY <1>4 DEF Message
    <3> QED  BY <1>4, <2>1, <3>1 DEF Awaited, Waiting, Sent
  <2> QED  BY <1>1, <1>4, <2>2 DEF Serve
<1>9. \A a \in Agents : AnswerFitsRun(a)'
  <2> SUFFICES ASSUME NEW a \in Agents
               PROVE  AnswerFitsRun(a)'
    OBVIOUS
  <2>1. CASE Awaited(r) /\ a = r.from
    BY <1>1, <1>2, <2>1, ServedAnswers
  <2>2. CASE ~(Awaited(r) /\ a = r.from)
    <3>1. answer'[a] = answer[a]
      BY <1>2, <1>8, <2>2 DEF AgentTypeOK
    <3> QED  BY <1>6, <3>1, AnswerStays
  <2> QED  BY <2>1, <2>2
<1>10. \A s \in wire' : RequestFits(s)'
  <2> SUFFICES ASSUME NEW s \in wire, s # r
               PROVE  RequestFits(s)'
    BY <1>2
  <2>1. s \in Message /\ RequestFits(s)
    BY DEF AgentInv, AgentTypeOK, WireFits
  <2>2. run[s.from].no \in Nat
    BY <2>1 DEF AgentInv, AgentTypeOK, Message, Run
  <2>3. ASSUME Awaited(s)
        PROVE  answer'[s.from] = Nothing
    <3>1. s = Sent(s.from) /\ answer[s.from] = Nothing
      BY <2>1, <2>3 DEF RequestFits
    <3>2. ~(Awaited(r) /\ s.from = r.from)
      BY <3>1 DEF AgentInv, WireFits, RequestFits
    <3> QED  BY <1>2, <1>8, <2>1, <3>1, <3>2 DEF AgentTypeOK, Message
  <2>4. Awaited(s)' = Awaited(s) /\ Sent(s.from)' = Sent(s.from)
    BY <1>2 DEF Awaited, Waiting, Sent
  <2>5. run' \in [Agents -> Run]
    BY <1>2 DEF AgentTypeOK
  <2> QED  BY <1>2, <1>3, <2>2, <2>3, <2>4, <2>5, RequestStays
<1>11. AgentTypeOK'
  <2>1. Handled(q).answer \in Response
    BY <1>1, <1>4, AnswersTyped DEF ServedAs
  <2>2. answer' \in [Agents -> Response \cup {Nothing}]
    BY <1>2, <1>8, <2>1 DEF AgentTypeOK
  <2>3. \A a \in Agents : answer'[a] # Nothing => Waiting(a)'
    BY <1>2, <1>8 DEF AgentTypeOK, Awaited, Waiting
  <2>4. answered' \subseteq [match : Matches, order : Order]
    <3>1. q.call = "orders" => q.match \in Matches /\ OrdersOf(q) \in Order
      BY <1>1, <1>4 DEF ServedAs, OrdersOf, Order, Message
    <3> QED  BY <1>1, <1>2, <3>1 DEF Serve, AgentTypeOK
  <2> QED  BY <1>2, <1>3, <2>2, <2>3, <2>4, GrownFits DEF AgentTypeOK, Grown
<1> QED  BY <1>3, <1>7, <1>9, <1>10, <1>11, GrownFits DEF AgentInv, WireFits, SummaryTrue, RefusedForCause

LEMMA NothingGrows ==
  ASSUME AgentClientAssumption, AgentInv, match' = match
  PROVE  Grown
<1>1. \A m \in Matches : MatchFits(match[m]) /\ (match[m].status # "none" => GrowsTo(match[m], match[m]))
  BY MatchesFit, UnchangedGrows
<1> QED  BY <1>1 DEF Grown, AgentInv, AgentTypeOK

LEMMA LoseKeeps ==
  ASSUME AgentClientAssumption, AgentInv, NEW r \in wire, Lose(r)
  PROVE  AgentInv'
<1>1. run' = run /\ wire' = wire \ {r} /\ match' = match /\ answer' = answer /\ answered' = answered
      /\ AgentTypeOK
  BY DEF Lose, AgentInv
<1>2. Grown
  BY <1>1, NothingGrows
<1>3. \A a \in Agents : Undisturbed(a)
  BY <1>1, <1>2 DEF Undisturbed
<1>4. \A a \in Agents : RunFits(a)' /\ TrueSummary(a)' /\ CauseHolds(a)' /\ AnswerFitsRun(a)'
  BY <1>1, <1>3, RunStays, AnswerStays
<1>5. \A s \in wire' : RequestFits(s)'
  BY <1>1 DEF AgentInv, WireFits, RequestFits, Awaited, Waiting, Sent
<1>6. AgentTypeOK'
  BY <1>1 DEF AgentTypeOK, Waiting
<1> QED  BY <1>2, <1>4, <1>5, <1>6, GrownFits DEF AgentInv, WireFits, SummaryTrue, RefusedForCause

LEMMA ServerTickKeeps ==
  ASSUME AgentClientAssumption, AgentInv, NEW m \in Matches, ServerTick(m)
  PROVE  AgentInv'
<1> DEFINE x == match[m]
           y == match'[m]
<1>1. run' = run /\ wire' = wire /\ answer' = answer /\ answered' = answered /\ AgentTypeOK
  BY DEF ServerTick, AgentInv
<1>2. x.status = "active" /\ x.tick < MaxServerTick /\ MatchFits(x) /\ x \in Match
      /\ match \in [Matches -> Match]
  BY MatchesFit DEF ServerTick, MatchFits, AgentInv, AgentTypeOK
<1>3. PICK outcome \in {"active", "completed"} :
         match' = [match EXCEPT ![m].tick = @ + 1, ![m].status = outcome,
                                ![m].queue = {s \in @ : s.tick # match[m].tick}]
  BY DEF ServerTick
<1>4. /\ y.status = outcome /\ y.tick = x.tick + 1 /\ y.players = x.players
      /\ y.queue = {s \in x.queue : s.tick # x.tick}
      /\ y \in [status : {y.status}, tick : {y.tick}, players : {y.players}, queue : {y.queue}]
      /\ \A k \in Matches \ {m} : match'[k] = match[k]
      /\ DOMAIN match' = Matches
  BY <1>2, <1>3 DEF Match
<1>5. x.tick \in Nat /\ y.tick \in 0..MaxServerTick
  BY <1>2, <1>4 DEF Match, ServerTicks, AgentClientAssumption
<1>6. y.queue = {}
  BY <1>2, <1>4 DEF MatchFits
<1>7. y \in Match
  BY <1>2, <1>4, <1>5, <1>6 DEF Match, MatchStatus, ServerTicks
<1>8. MatchFits(y)
  BY <1>2, <1>4, <1>6, <1>7 DEF MatchFits
<1>9. GrowsTo(x, y)
  BY <1>2, <1>4, <1>5 DEF GrowsTo
<1>10. Grown
  <2>1. \A k \in Matches : MatchFits(match[k]) /\ (match[k].status # "none" => GrowsTo(match[k], match[k]))
    BY MatchesFit, UnchangedGrows
  <2>2. match' = [k \in Matches |-> match'[k]]
    BY <1>2, <1>3
  <2>3. \A k \in Matches : match'[k] \in Match
    BY <1>2, <1>4, <1>7
  <2> QED  BY <1>4, <1>8, <1>9, <2>1, <2>2, <2>3 DEF Grown
<1>11. \A a \in Agents : Undisturbed(a)
  BY <1>1, <1>2, <1>4, <1>10 DEF Undisturbed
<1>12. \A a \in Agents : RunFits(a)' /\ TrueSummary(a)' /\ CauseHolds(a)' /\ AnswerFitsRun(a)'
  BY <1>1, <1>11, RunStays, AnswerStays
<1>13. \A s \in wire' : RequestFits(s)'
  <2> SUFFICES ASSUME NEW s \in wire
               PROVE  RequestFits(s)'
    BY <1>1
  <2>1. s \in Message /\ RequestFits(s)
    BY DEF AgentInv, AgentTypeOK, WireFits
  <2>2. run[s.from].no \in Nat
    BY <2>1 DEF AgentInv, AgentTypeOK, Message, Run
  <2>3. Awaited(s)' = Awaited(s) /\ Sent(s.from)' = Sent(s.from) /\ (Awaited(s) => answer'[s.from] = Nothing)
    BY <1>1, <2>1 DEF Awaited, Waiting, Sent, RequestFits
  <2> QED  BY <1>1, <1>10, <2>2, <2>3, RequestStays DEF AgentTypeOK
<1>14. AgentTypeOK'
  BY <1>1, <1>10, GrownFits DEF AgentTypeOK, Grown, Waiting
<1> QED  BY <1>10, <1>12, <1>13, <1>14, GrownFits DEF AgentInv, WireFits, SummaryTrue, RefusedForCause

\* A step of run a's own: what others know stays as it is.
LEMMA ClientKeeps ==
  ASSUME AgentClientAssumption, AgentInv, NEW a \in Agents, NEW now \in Run,
         run' = [run EXCEPT ![a] = now], answer' = [answer EXCEPT ![a] = Nothing],
         match' = match, answered' = answered, wire \subseteq wire', run[a].no <= now.no,
         \A s \in wire : s.from = a => ~Awaited(s)',
         \A r \in wire' : r \notin wire => r \in Message /\ r.from = a /\ RequestFits(r)',
         RunFits(a)', TrueSummary(a)', CauseHolds(a)'
  PROVE  AgentInv'
<1>1. AgentTypeOK /\ Grown
  BY NothingGrows DEF AgentInv
<1>2. /\ run' \in [Agents -> Run] /\ run'[a] = now /\ answer'[a] = Nothing
      /\ answer' \in [Agents -> Response \cup {Nothing}]
      /\ \A b \in Agents \ {a} : run'[b] = run[b] /\ answer'[b] = answer[b]
  BY <1>1 DEF AgentTypeOK
<1>3. \A b \in Agents \ {a} : Undisturbed(b)
  <2>1. \A r \in wire' : r \notin wire /\ r.call = "start" => match[r.match].players[1] = r.from
    BY DEF RequestFits
  <2> QED  BY <1>1, <1>2, <2>1 DEF Undisturbed
<1>4. \A b \in Agents : RunFits(b)' /\ TrueSummary(b)' /\ CauseHolds(b)'
  BY <1>3, RunStays
<1>5. \A b \in Agents : AnswerFitsRun(b)'
  <2>1. AnswerFitsRun(a)'
    BY <1>2 DEF AnswerFitsRun
  <2> QED  BY <1>2, <1>3, <2>1, AnswerStays
<1>6. \A s \in wire' : RequestFits(s)'
  <2> SUFFICES ASSUME NEW s \in wire
               PROVE  RequestFits(s)'
    OBVIOUS
  <2>1. s \in Message /\ RequestFits(s) /\ s.from \in Agents
    BY <1>1 DEF AgentInv, AgentTypeOK, WireFits, Message
  <2>2. run[s.from].no <= run'[s.from].no
    <3>1. run[s.from].no \in Nat
      BY <1>1, <2>1 DEF AgentTypeOK, Run
    <3> QED  BY <1>2, <2>1, <3>1
  <2>3. ASSUME Awaited(s)'
        PROVE  Awaited(s) /\ Sent(s.from)' = Sent(s.from) /\ answer'[s.from] = Nothing
    <3>1. s.from # a
      BY <2>3
    <3>2. run'[s.from] = run[s.from] /\ answer'[s.from] = answer[s.from]
      BY <1>2, <2>1, <3>1
    <3>3. Awaited(s) /\ Sent(s.from)' = Sent(s.from)
      BY <2>3, <3>2 DEF Awaited, Waiting, Sent
    <3> QED  BY <2>1, <3>2, <3>3 DEF RequestFits
  <2> QED  BY <1>1, <1>2, <2>2, <2>3, RequestStays
<1>7. AgentTypeOK'
  <2>1. \A b \in Agents : answer'[b] # Nothing => Waiting(b)'
    BY <1>1, <1>2 DEF AgentTypeOK, Waiting
  <2>2. wire' \subseteq Message
    BY <1>1 DEF AgentTypeOK
  <2> QED  BY <1>1, <1>2, <2>1, <2>2 DEF AgentTypeOK
<1> QED  BY <1>1, <1>4, <1>5, <1>6, <1>7, GrownFits DEF AgentInv, WireFits, SummaryTrue, RefusedForCause

\* The run asks again: nothing it asked before is still on its way.
LEMMA SendKeeps ==
  ASSUME AgentClientAssumption, AgentInv, NEW a \in Agents, NEW r \in Message, NEW learnt \in Run,
         Send(a, r, learnt), match' = match, answered' = answered, r.from = a,
         run[a].no <= learnt.no, \A s \in wire : s.from = a => s.no # learnt.no,
         RequestFits(r)', RunFits(a)'
  PROVE  AgentInv'
<1> DEFINE now == [learnt EXCEPT !.at = r.call]
<1>1. now \in Run /\ now.no = learnt.no /\ now.at \in Calls
  BY DEF Run, Message
<1>2. /\ run' = [run EXCEPT ![a] = now] /\ answer' = [answer EXCEPT ![a] = Nothing]
      /\ wire' = wire \cup {r} /\ run'[a] = now
  BY DEF Send, AgentInv, AgentTypeOK
<1>3. \A s \in wire : s.from = a => ~Awaited(s)'
  BY <1>1, <1>2 DEF Awaited
<1>4. TrueSummary(a)' /\ CauseHolds(a)'
  BY <1>1, <1>2 DEF TrueSummary, CauseHolds, Calls
<1> HIDE DEF now
<1> QED  BY <1>1, <1>2, <1>3, <1>4, ClientKeeps

LEMMA EndKeeps ==
  ASSUME AgentClientAssumption, AgentInv, NEW a \in Agents, NEW outcome \in {"done", "failed"}, NEW code \in Codes,
         End(a, outcome, code, run[a]), match' = match, answered' = answered,
         RunFits(a)', TrueSummary(a)', CauseHolds(a)'
  PROVE  AgentInv'
<1> SUFFICES ASSUME NEW now, now = [run[a] EXCEPT !.at = outcome, !.code = code]
             PROVE  AgentInv'
  OBVIOUS
<1>1. now \in Run /\ now.no = run[a].no /\ now.at = outcome /\ now.no \in Nat
  <2>1. run[a] \in Run
    BY DEF AgentInv, AgentTypeOK
  <2>2. now.no = run[a].no /\ now.at = outcome /\ run[a].no \in Nat
    BY <2>1 DEF Run
  <2>3. outcome \in Calls \cup {"idle", "done", "failed"} /\ code \in Codes \cup {"none"}
    OBVIOUS
  <2>4. now \in Run
    BY <2>1, <2>3 DEF Run
  <2> QED  BY <2>2, <2>4
<1>2. /\ run' = [run EXCEPT ![a] = now] /\ answer' = [answer EXCEPT ![a] = Nothing]
      /\ wire' = wire /\ run'[a] = now
  BY DEF End, AgentInv, AgentTypeOK
<1>3. \A s \in wire : s.from = a => ~Awaited(s)'
  BY <1>1, <1>2 DEF Awaited, Waiting, Calls
<1>4. wire \subseteq wire' /\ (\A r \in wire' : r \in wire) /\ run[a].no <= now.no
  BY <1>1, <1>2
<1> QED  BY <1>1, <1>2, <1>3, <1>4, ClientKeeps

\* The run after its end, with what it knew before.
LEMMA Ended ==
  ASSUME AgentInv, NEW a \in Agents, NEW outcome \in {"done", "failed"}, NEW code \in Codes, End(a, outcome, code, run[a])
  PROVE  /\ run'[a].at = outcome /\ run'[a].code = code
         /\ run'[a].match = run[a].match /\ run'[a].seat = run[a].seat
         /\ run'[a].tick = run[a].tick /\ run'[a].no = run[a].no
  BY DEF End, AgentInv, AgentTypeOK, Run

LEMMA GiveUpKeeps ==
  ASSUME AgentClientAssumption, AgentInv, NEW a \in Agents, GiveUp(a)
  PROVE  AgentInv'
<1>1. End(a, "failed", "transport_error", run[a]) /\ match' = match /\ answered' = answered
  BY DEF GiveUp
<1>2. "transport_error" \in Codes
  BY DEF Codes
<1>3. run'[a].at = "failed" /\ run'[a].code = "transport_error"
  BY <1>1, <1>2, Ended
<1>4. RunFits(a)' /\ TrueSummary(a)' /\ CauseHolds(a)'
  BY <1>3 DEF RunFits, TrueSummary, CauseHolds, Waiting, Calls
<1> QED  BY <1>1, <1>2, <1>4, EndKeeps

LEMMA BeginKeeps ==
  ASSUME AgentClientAssumption, AgentInv, NEW a \in Agents, Begin(a)
  PROVE  AgentInv'
<1> SUFFICES ASSUME NEW no, no = run[a].no + 1
             PROVE  AgentInv'
  OBVIOUS
<1> DEFINE fresh == [Blank EXCEPT !.no = no]
           call == IF Partner[a] = Nothing THEN "list" ELSE "create"
           r == [from |-> a, no |-> fresh.no, key |-> a, call |-> call, match |-> Nothing, tick |-> 0]
<1>1. /\ run[a].no \in Nat /\ run[a].no < MaxRuns /\ ~Waiting(a) /\ MaxRuns \in Nat
      /\ match' = match /\ answered' = answered
  BY DEF Begin, AgentInv, AgentTypeOK, Run, AgentClientAssumption
<1>2. Send(a, r, fresh)
  <2>1. CASE Partner[a] = Nothing
    <3>1. Send(a, [ListMatches(a) EXCEPT !.no = fresh.no], fresh)
      BY <2>1 DEF Begin
    <3>2. [ListMatches(a) EXCEPT !.no = fresh.no] = r
      BY <2>1 DEF ListMatches, Request
    <3> HIDE DEF fresh, r
    <3> QED  BY <3>1, <3>2
  <2>2. CASE Partner[a] # Nothing
    <3>1. Send(a, [CreateMatchLobby(a) EXCEPT !.no = fresh.no], fresh)
      BY <2>2 DEF Begin
    <3>2. [CreateMatchLobby(a) EXCEPT !.no = fresh.no] = r
      BY <2>2 DEF CreateMatchLobby, Request
    <3> HIDE DEF fresh, r
    <3> QED  BY <3>1, <3>2
  <2> QED  BY <2>1, <2>2
<1>3. fresh \in Run /\ fresh.no = no /\ fresh.no \in 1..MaxRuns /\ fresh.match = Nothing
  BY <1>1 DEF Blank, Run, ServerTicks, AgentClientAssumption
<1>4. r \in Message /\ r.from = a /\ call \in {"list", "create"}
  BY <1>3 DEF Message, Calls, ServerTicks, AgentClientAssumption
<1>5. /\ run'[a].at = call /\ run'[a].no = fresh.no /\ run'[a].match = Nothing
      /\ wire' = wire \cup {r} /\ answer'[a] = Nothing
  BY <1>2, <1>3, <1>4 DEF Send, AgentInv, AgentTypeOK, Run
<1>6. \A s \in wire : s.from = a => s.no # fresh.no
  <2> SUFFICES ASSUME NEW s \in wire, s.from = a
               PROVE  s.no # fresh.no
    OBVIOUS
  <2>1. s.no <= run[a].no /\ s.no \in Nat
    BY DEF AgentInv, AgentTypeOK, WireFits, RequestFits, Message
  <2> QED  BY <1>1, <1>3, <2>1
<1>7. RequestFits(r)'
  <2>1. Sent(a)' = r
    BY <1>4, <1>5 DEF Sent
  <2>2. r.no <= run'[a].no
    BY <1>3, <1>5
  <2> QED  BY <1>4, <1>5, <2>1, <2>2 DEF RequestFits
<1>8. RunFits(a)'
  <2>1. call = "list" => Partner[a] = Nothing
    OBVIOUS
  <2>2. call = "create" => Partner[a] # Nothing
    OBVIOUS
  <2> HIDE DEF call
  <2> QED  BY <1>3, <1>4, <1>5, <2>1, <2>2 DEF RunFits
<1> HIDE DEF fresh, r, call
<1> QED  BY <1>1, <1>2, <1>3, <1>4, <1>6, <1>7, <1>8, SendKeeps

\* Who has its answer has nothing on its way.
LEMMA NoneOut ==
  ASSUME AgentInv, NEW a \in Agents, Waiting(a), answer[a] # Nothing
  PROVE  \A s \in wire : s.from = a => s.no # run[a].no
  BY DEF AgentInv, WireFits, RequestFits, Awaited

\* Run a goes on with r, a call about the match it has learnt of.
GoesWith(a, r, learnt) ==
    /\ Waiting(a) /\ answer[a] # Nothing /\ match' = match /\ answered' = answered
    /\ Send(a, r, learnt) /\ learnt.no = run[a].no
    /\ r.from = a /\ r.no = learnt.no /\ r.match = learnt.match /\ r.call \notin {"list", "create"}
    /\ r.key = IF r.call = "second" THEN Partner[a] ELSE a
    /\ r.tick = IF r.call = "orders" THEN learnt.tick ELSE 0
    /\ r.match \in Matches /\ match[r.match].status # "none" /\ r.tick <= match[r.match].tick
    /\ r.call = "start" => match[r.match].players[1] = a

LEMMA Goes ==
  ASSUME AgentClientAssumption, AgentInv, NEW a \in Agents, NEW r \in Message, NEW learnt \in Run, GoesWith(a, r, learnt)
  PROVE  /\ run'[a].no = learnt.no /\ run'[a].at = r.call /\ run'[a].match = learnt.match
         /\ run'[a].seat = learnt.seat /\ run'[a].tick = learnt.tick
         /\ run'[a].no \in 1..MaxRuns /\ wire' = wire \cup {r} /\ answer'[a] = Nothing
         /\ Sent(a)' = r /\ RequestFits(r)'
         /\ OwnLobby(a, r.match) => OwnLobby(a, r.match)'
<1>1. Send(a, r, learnt) /\ AgentTypeOK /\ RunFits(a)
  BY DEF GoesWith, AgentInv
<1>2. /\ run'[a].no = learnt.no /\ run'[a].at = r.call /\ run'[a].match = learnt.match
      /\ run'[a].seat = learnt.seat /\ run'[a].tick = learnt.tick
      /\ wire' = wire \cup {r} /\ answer'[a] = Nothing
  BY <1>1 DEF Send, AgentTypeOK, Run
<1>3. learnt.no \in 1..MaxRuns
  BY <1>1 DEF GoesWith, RunFits
<1>4. Sent(a)' = r
  <2>1. r \in [from : {a}, no : {r.no}, key : {r.key}, call : {r.call}, match : {r.match}, tick : {r.tick}]
    BY DEF Message, GoesWith
  <2> QED  BY <1>2, <2>1 DEF Sent, GoesWith
<1>5. r.no <= run'[a].no
  BY <1>2, <1>3 DEF GoesWith
<1>6. r.match # Nothing
  BY DEF GoesWith, AgentClientAssumption
<1>7. RequestFits(r)'
  BY <1>2, <1>4, <1>5, <1>6 DEF RequestFits, GoesWith
<1>8. ASSUME OwnLobby(a, r.match)
      PROVE  OwnLobby(a, r.match)'
  <2>1. \A s \in wire : ~(s.call = "start" /\ s.match = r.match)
    BY <1>8, NoneOut DEF OwnLobby, Awaited, GoesWith
  <2>2. Awaited(r)'
    BY <1>2 DEF Awaited, Waiting, GoesWith, Message
  <2> QED  BY <1>2, <1>8, <2>1, <2>2 DEF OwnLobby, GoesWith
<1> QED  BY <1>2, <1>3, <1>4, <1>7, <1>8

LEMMA GoesOn ==
  ASSUME AgentClientAssumption, AgentInv, NEW a \in Agents, NEW r \in Message, NEW learnt \in Run, GoesWith(a, r, learnt),
         RunFits(a)'
  PROVE  AgentInv'
<1>1. RequestFits(r)'
  BY Goes
<1>2. \A s \in wire : s.from = a => s.no # learnt.no
  BY NoneOut DEF GoesWith
<1>3. run[a].no <= learnt.no
  <2>1. run[a].no \in Nat
    BY DEF AgentInv, AgentTypeOK, Run
  <2> QED  BY <2>1 DEF GoesWith
<1> QED  BY <1>1, <1>2, <1>3, SendKeeps DEF GoesWith

\* An error ends the run with the code.
LEMMA ErrorKeeps ==
  ASSUME AgentClientAssumption, AgentInv, NEW a \in Agents, Waiting(a), answer[a] # Nothing, answer[a].code # "ok",
         End(a, "failed", answer[a].code, run[a]), match' = match, answered' = answered
  PROVE  AgentInv'
<1> DEFINE now == run[a]
           code == answer[a].code
<1>1. code \in Codes /\ RunFits(a) /\ AnswerFitsRun(a) /\ now.at \in Calls
  BY DEF AgentInv, AgentTypeOK, Response, Waiting
<1>2. \/ code = "occupancy_limit"
      \/ code = "not_ready" /\ Partner[a] = a
      \/ /\ now.match \in Matches /\ match[now.match].status # "none"
         /\ \/ code = "not_joinable" /\ Closed(now.match)
            \/ code = "tick_mismatch" /\ match[now.match].tick > now.tick
  BY <1>1 DEF RunFits, AnswerFitsRun, Calls
<1>3. /\ run'[a].at = "failed" /\ run'[a].code = code
      /\ run'[a].match = now.match /\ run'[a].tick = now.tick
  BY <1>1, Ended
<1>4. RunFits(a)'
  BY <1>2, <1>3 DEF RunFits, Waiting, Calls
<1>5. TrueSummary(a)'
  BY <1>3 DEF TrueSummary
<1>6. CauseHolds(a)'
  BY <1>2, <1>3 DEF CauseHolds, Closed, OpenSlots
<1> QED  BY <1>1, <1>4, <1>5, <1>6, EndKeeps

\* An answer that is not an error: the run goes on with what it learnt, or ends.
LEMMA ReceiveKeeps ==
  ASSUME AgentClientAssumption, AgentInv, NEW a \in Agents, Receive(a)
  PROVE  AgentInv'
<1> SUFFICES ASSUME NEW now, now = run[a], NEW ans, ans = answer[a], NEW m, m = now.match
             PROVE  AgentInv'
  OBVIOUS
<1>1. /\ Waiting(a) /\ ans # Nothing /\ ans \in Response /\ now \in Run /\ RunFits(a) /\ AnswerFitsRun(a)
      /\ match' = match /\ answered' = answered /\ now.no \in 1..MaxRuns
  BY DEF Receive, AgentInv, AgentTypeOK, RunFits
<1>2. CASE ans.code # "ok"
  BY <1>1, <1>2, ErrorKeeps DEF Receive, OkCode
<1>3. CASE ans.code = "ok"
  <2>1. /\ ans.id \in Matches \cup {Nothing} /\ ans.seat \in 0..MaxPlayers
        /\ ans.tick \in ServerTicks /\ ans.listed \subseteq ListEntry
        /\ now.tick \in ServerTicks /\ 0 \in ServerTicks
        /\ \A k \in Matches : match[k].tick \in Nat
    <3>1. \A k \in Matches : match[k] \in Match
      BY DEF AgentInv, AgentTypeOK
    <3> QED  BY <1>1, <3>1 DEF Response, Run, Match, ServerTicks, AgentClientAssumption
  <2>2. /\ Partner[a] \in Agents \cup {Nothing}
        /\ now.at \in {"list", "join", "state", "orders"} => Partner[a] = Nothing
        /\ now.at \in {"create", "profile", "second", "start"} => Partner[a] \in Agents
    BY <1>1 DEF RunFits, AgentClientAssumption
  <2>3. ASSUME now.at = "list", End(a, "failed", "nothing_joinable", now)
        PROVE  AgentInv'
    <3>1. "nothing_joinable" \in Codes
      BY DEF Codes
    <3>2. run'[a].at = "failed" /\ run'[a].code = "nothing_joinable"
      BY <2>3, <3>1, Ended
    <3>3. RunFits(a)' /\ TrueSummary(a)' /\ CauseHolds(a)'
      BY <3>2 DEF RunFits, TrueSummary, CauseHolds, Waiting, Calls
    <3> QED  BY <1>1, <2>3, <3>1, <3>3, EndKeeps
  <2>4. ASSUME now.at = "list", NEW k \in Joinable(ans.listed), Send(a, JoinMatch(a, k), [now EXCEPT !.match = k])
        PROVE  AgentInv'
    <3>1. k \in Matches /\ match[k].status # "none"
      BY <1>1, <2>1, <2>4 DEF Joinable, ListEntry, AnswerFitsRun
    <3>2. PICK r : r = JoinMatch(a, k)
      OBVIOUS
    <3>3. r = [from |-> a, no |-> now.no, key |-> a, call |-> "join", match |-> k, tick |-> 0] /\ r \in Message
      BY <1>1, <2>1, <3>1, <3>2 DEF JoinMatch, Request, Message, Calls
    <3>4. PICK learnt : learnt = [now EXCEPT !.match = k]
      OBVIOUS
    <3>5. learnt \in Run /\ learnt.no = now.no /\ learnt.match = k
      BY <1>1, <3>1, <3>4 DEF Run
    <3>6. GoesWith(a, r, learnt)
      <4>1. Send(a, r, learnt)
        BY <2>4, <3>2, <3>4
      <4>2. 0 <= match[k].tick
        BY <2>1, <3>1
      <4> QED  BY <1>1, <3>1, <3>3, <3>5, <4>1, <4>2 DEF GoesWith
    <3>7. RunFits(a)'
      BY <1>1, <2>2, <2>4, <3>1, <3>3, <3>5, <3>6, Goes DEF RunFits
    <3> QED  BY <3>3, <3>5, <3>6, <3>7, GoesOn
  <2>5. ASSUME now.at = "join", Send(a, GetMatchState(a, m), now)
        PROVE  AgentInv'
    <3>1. m \in Matches /\ match[m].status # "none" /\ IsIn(m, a)
      BY <1>1, <1>3, <2>5 DEF RunFits, AnswerFitsRun
    <3>2. PICK r : r = GetMatchState(a, m)
      OBVIOUS
    <3>3. r = [from |-> a, no |-> now.no, key |-> a, call |-> "state", match |-> m, tick |-> 0] /\ r \in Message
      BY <1>1, <2>1, <3>1, <3>2 DEF GetMatchState, Request, Message, Calls
    <3>4. GoesWith(a, r, now)
      <4>1. Send(a, r, now)
        BY <2>5, <3>2
      <4>2. 0 <= match[m].tick
        BY <2>1, <3>1
      <4> QED  BY <1>1, <3>1, <3>3, <4>1, <4>2 DEF GoesWith
    <3>5. RunFits(a)'
      BY <1>1, <2>2, <2>5, <3>1, <3>3, <3>4, Goes DEF RunFits, IsIn
    <3> QED  BY <1>1, <3>3, <3>4, <3>5, GoesOn
  <2>6. ASSUME now.at = "state",
               Send(a, SubmitAgentOrders(a, m, ans.tick), [now EXCEPT !.seat = ans.seat, !.tick = ans.tick])
        PROVE  AgentInv'
    <3>1. m \in Matches /\ match[m].status # "none" /\ Sits(m, a, ans.seat) /\ ans.tick <= match[m].tick
      BY <1>1, <2>6 DEF RunFits, AnswerFitsRun
    <3>2. PICK r : r = SubmitAgentOrders(a, m, ans.tick)
      OBVIOUS
    <3>3. /\ r = [from |-> a, no |-> now.no, key |-> a, call |-> "orders", match |-> m, tick |-> ans.tick]
          /\ r \in Message
      BY <1>1, <2>1, <3>1, <3>2 DEF SubmitAgentOrders, Request, Message, Calls
    <3>4. PICK learnt : learnt = [now EXCEPT !.seat = ans.seat, !.tick = ans.tick]
      OBVIOUS
    <3>5. learnt \in Run /\ learnt.no = now.no /\ learnt.match = m /\ learnt.seat = ans.seat /\ learnt.tick = ans.tick
      BY <1>1, <2>1, <3>4 DEF Run
    <3>6. GoesWith(a, r, learnt)
      <4>1. Send(a, r, learnt)
        BY <2>6, <3>2, <3>4
      <4> QED  BY <1>1, <3>1, <3>3, <3>5, <4>1 DEF GoesWith
    <3>7. RunFits(a)'
      BY <1>1, <2>2, <2>6, <3>1, <3>3, <3>5, <3>6, Goes DEF RunFits, Sits, IsIn
    <3> QED  BY <3>3, <3>5, <3>6, <3>7, GoesOn
  <2>7. ASSUME now.at = "orders", End(a, "done", "ok", now)
        PROVE  AgentInv'
    <3>1. "ok" \in Codes
      BY DEF Codes
    <3>2. /\ run'[a].at = "done" /\ run'[a].match = m /\ run'[a].seat = now.seat
          /\ run'[a].tick = now.tick /\ run'[a].no = now.no
      BY <2>7, <3>1, Ended
    <3>3. /\ m \in Matches /\ match[m].status # "none" /\ Sits(m, a, now.seat)
          /\ [match |-> m, order |-> [player |-> a, tick |-> now.tick, no |-> now.no]] \in answered
      BY <1>1, <1>3, <2>7 DEF RunFits, AnswerFitsRun
    <3>4. RunFits(a)' /\ CauseHolds(a)'
      BY <1>1, <3>2, <3>3 DEF RunFits, CauseHolds, Waiting, Calls
    <3>5. TrueSummary(a)'
      BY <1>1, <2>2, <2>7, <3>2, <3>3 DEF TrueSummary, Sits, IsIn
    <3> QED  BY <1>1, <2>7, <3>1, <3>4, <3>5, EndKeeps
  <2>8. ASSUME now.at = "create",
               Send(a, [GetCurrentAgentProfile(a) EXCEPT !.match = ans.id],
                    [now EXCEPT !.match = ans.id, !.seat = ans.seat])
        PROVE  AgentInv'
    <3>1. PICK k : k = ans.id
      OBVIOUS
    <3>2. /\ k \in Matches /\ match[k].players[1] = a /\ Sits(k, a, ans.seat) /\ OwnLobby(a, k)
          /\ match[k].status # "none"
      BY <1>1, <1>3, <2>8, <3>1 DEF AnswerFitsRun, OwnLobby
    <3>3. PICK r : r = [GetCurrentAgentProfile(a) EXCEPT !.match = k]
      OBVIOUS
    <3>4. /\ r = [from |-> a, no |-> now.no, key |-> a, call |-> "profile", match |-> k, tick |-> 0]
          /\ r \in Message
      BY <1>1, <2>1, <3>2, <3>3 DEF GetCurrentAgentProfile, Request, Message, Calls
    <3>5. PICK learnt : learnt = [now EXCEPT !.match = k, !.seat = ans.seat]
      OBVIOUS
    <3>6. learnt \in Run /\ learnt.no = now.no /\ learnt.match = k /\ learnt.seat = ans.seat
      BY <1>1, <2>1, <3>2, <3>5 DEF Run
    <3>7. GoesWith(a, r, learnt)
      <4>1. Send(a, r, learnt)
        BY <2>8, <3>1, <3>3, <3>5
      <4>2. 0 <= match[k].tick
        BY <2>1, <3>2
      <4> QED  BY <1>1, <3>2, <3>4, <3>6, <4>1, <4>2 DEF GoesWith
    <3>8. OwnLobby(a, k)'
      BY <3>2, <3>4, <3>6, <3>7, Goes
    <3>9. RunFits(a)'
      BY <1>1, <2>2, <2>8, <3>2, <3>4, <3>6, <3>7, <3>8, Goes DEF RunFits, Sits, IsIn, AgentClientAssumption, OwnLobby
    <3> QED  BY <3>4, <3>6, <3>7, <3>9, GoesOn
  <2>9. ASSUME now.at = "profile", Send(a, [JoinMatch(a, m) EXCEPT !.call = "second", !.key = Partner[a]], now)
        PROVE  AgentInv'
    <3>1. /\ m \in Matches /\ match[m].status # "none" /\ match[m].players[1] = a
          /\ Sits(m, a, now.seat) /\ OwnLobby(a, m)
      BY <1>1, <2>9 DEF RunFits
    <3>2. PICK r : r = [JoinMatch(a, m) EXCEPT !.call = "second", !.key = Partner[a]]
      OBVIOUS
    <3>3. /\ r = [from |-> a, no |-> now.no, key |-> Partner[a], call |-> "second", match |-> m, tick |-> 0]
          /\ r \in Message
      BY <1>1, <2>1, <2>2, <2>9, <3>1, <3>2 DEF JoinMatch, Request, Message, Calls
    <3>4. GoesWith(a, r, now)
      <4>1. Send(a, r, now)
        BY <2>9, <3>2
      <4>2. 0 <= match[m].tick
        BY <2>1, <3>1
      <4> QED  BY <1>1, <3>1, <3>3, <4>1, <4>2 DEF GoesWith
    <3>5. OwnLobby(a, m)'
      BY <1>1, <3>1, <3>3, <3>4, Goes
    <3>6. RunFits(a)'
      BY <1>1, <2>2, <2>9, <3>1, <3>3, <3>4, <3>5, Goes DEF RunFits, Sits, IsIn, AgentClientAssumption, OwnLobby
    <3> QED  BY <1>1, <3>3, <3>4, <3>6, GoesOn
  <2>10. ASSUME now.at = "second", Send(a, StartMatchLobby(a, m), now)
         PROVE  AgentInv'
    <3>1. /\ m \in Matches /\ match[m].status # "none" /\ match[m].players[1] = a
          /\ Sits(m, a, now.seat) /\ OwnLobby(a, m) /\ IsIn(m, Partner[a])
      BY <1>1, <1>3, <2>10 DEF RunFits, AnswerFitsRun
    <3>2. PICK r : r = StartMatchLobby(a, m)
      OBVIOUS
    <3>3. /\ r = [from |-> a, no |-> now.no, key |-> a, call |-> "start", match |-> m, tick |-> 0]
          /\ r \in Message
      BY <1>1, <2>1, <3>1, <3>2 DEF StartMatchLobby, Request, Message, Calls
    <3>4. GoesWith(a, r, now)
      <4>1. Send(a, r, now)
        BY <2>10, <3>2
      <4>2. 0 <= match[m].tick
        BY <2>1, <3>1
      <4> QED  BY <1>1, <3>1, <3>3, <4>1, <4>2 DEF GoesWith
    <3>5. OwnLobby(a, m)'
      BY <1>1, <3>1, <3>3, <3>4, Goes
    <3>6. RunFits(a)'
      BY <1>1, <2>2, <2>10, <3>1, <3>3, <3>4, <3>5, Goes DEF RunFits, Sits, IsIn, AgentClientAssumption, OwnLobby
    <3> QED  BY <1>1, <3>3, <3>4, <3>6, GoesOn
  <2>11. ASSUME now.at = "start", End(a, "done", "ok", now)
         PROVE  AgentInv'
    <3>1. "ok" \in Codes
      BY DEF Codes
    <3>2. run'[a].at = "done" /\ run'[a].match = m /\ run'[a].seat = now.seat
      BY <2>11, <3>1, Ended
    <3>3. /\ m \in Matches /\ match[m].status # "none" /\ Sits(m, a, now.seat)
          /\ IsIn(m, Partner[a]) /\ match[m].status \in {"active", "completed"}
      BY <1>1, <1>3, <2>11 DEF RunFits, AnswerFitsRun
    <3>4. RunFits(a)' /\ CauseHolds(a)'
      BY <1>1, <3>2, <3>3 DEF RunFits, CauseHolds, Waiting, Calls
    <3>5. TrueSummary(a)'
      BY <1>1, <2>2, <2>11, <3>2, <3>3 DEF TrueSummary, Sits, IsIn, AgentClientAssumption
    <3> QED  BY <1>1, <2>11, <3>1, <3>4, <3>5, EndKeeps
  <2>12. ExistingMatchCycle(a, ans) \/ LobbyLifecycle(a, ans)
    BY <1>3 DEF Receive, OkCode
  <2>13. CASE ExistingMatchCycle(a, ans)
    BY <2>3, <2>4, <2>5, <2>6, <2>7, <2>13 DEF ExistingMatchCycle
  <2>14. CASE LobbyLifecycle(a, ans)
    BY <2>8, <2>9, <2>10, <2>11, <2>14 DEF LobbyLifecycle
  <2> QED  BY <2>12, <2>13, <2>14
<1> QED  BY <1>2, <1>3

LEMMA AgentInvInit ==
  ASSUME AgentClientAssumption, AgentInit
  PROVE  AgentInv
<1>1. \A m \in Matches : match[m] = NoMatch
  BY DEF AgentInit
<1>2. \A a \in Agents : run[a] = Blank /\ answer[a] = Nothing
  BY DEF AgentInit
<1>3. NoMatch \in Match /\ NoMatch.players = <<>> /\ NoMatch.status = "none" /\ NoMatch.queue = {}
  BY DEF NoMatch, Match, MatchStatus, ServerTicks, AgentClientAssumption
<1>4. Blank \in Run /\ Blank.at = "idle"
  BY DEF Blank, Run, ServerTicks, AgentClientAssumption
<1>5. AgentTypeOK
  BY <1>1, <1>2, <1>3, <1>4 DEF AgentInit, AgentTypeOK, AgentClientAssumption
<1>6. \A a \in Agents : RunFits(a) /\ AnswerFitsRun(a) /\ TrueSummary(a) /\ CauseHolds(a)
  BY <1>2, <1>4 DEF RunFits, AnswerFitsRun, TrueSummary, CauseHolds, Waiting, Calls
<1>7. WireFits /\ Opened /\ OneSeatEach /\ NothingForThePast
  BY <1>1, <1>3 DEF AgentInit, WireFits, Opened, OneSeatEach, NothingForThePast
<1> QED  BY <1>5, <1>6, <1>7 DEF AgentInv, SummaryTrue, RefusedForCause

LEMMA AgentStep ==
  ASSUME AgentClientAssumption, AgentInv, [AgentNext]_agentVars
  PROVE  AgentInv'
<1>1. CASE AgentNext
  BY <1>1, HandleKeeps, LoseKeeps, BeginKeeps, ReceiveKeeps, GiveUpKeeps, ServerTickKeeps DEF AgentNext
<1>2. CASE UNCHANGED agentVars
  <2>1. run' = run /\ wire' = wire /\ match' = match /\ answer' = answer /\ answered' = answered
        /\ AgentTypeOK
    BY <1>2 DEF agentVars, AgentInv
  <2>2. Grown
    BY <2>1, NothingGrows
  <2>3. \A a \in Agents : Undisturbed(a)
    BY <2>1, <2>2 DEF Undisturbed
  <2>4. \A a \in Agents : RunFits(a)' /\ TrueSummary(a)' /\ CauseHolds(a)' /\ AnswerFitsRun(a)'
    BY <2>1, <2>3, RunStays, AnswerStays
  <2>5. \A s \in wire' : RequestFits(s)'
    BY <2>1 DEF AgentInv, WireFits, RequestFits, Awaited, Waiting, Sent
  <2>6. AgentTypeOK'
    BY <2>1 DEF AgentTypeOK, Waiting
  <2> QED  BY <2>2, <2>4, <2>5, <2>6, GrownFits DEF AgentInv, WireFits, SummaryTrue, RefusedForCause
<1> QED  BY <1>1, <1>2

\* Over a network that loses and delays, and however often agents are run again: an agent has one
\* seat in a match, the summary a run prints is true, a run is refused for a cause only, and orders
\* that arrive late are never queued.
THEOREM AgentsAreServed ==
  ASSUME AgentClientAssumption
  PROVE  AgentSpec => []AgentsServed
<1>1. AgentInit => AgentInv
  BY AgentInvInit
<1>2. AgentInv /\ [AgentNext]_agentVars => AgentInv'
  BY AgentStep
<1>3. AgentInv => AgentsServed
  BY DEF AgentInv, AgentsServed
<1> QED  BY <1>1, <1>2, <1>3, PTL DEF AgentSpec
=============================================================================
