------------------------- MODULE TickResolverProofs -------------------------
(***************************************************************************)
(* Proofs about TickResolver and Fog.                                      *)
(*                                                                         *)
(* Who owns what: the two records of who owns a city agree, and who is out *)
(* of the match is marked so and stays out.  The argument goes phase by    *)
(* phase: what a phase does to owners, owned lists and owners of armies.   *)
(* The fog: where the armies of a board were before the tick, and what of  *)
(* a state the projection reads.  Upgrades, production, armies and losses: *)
(* what validation leaves of a list of orders, and what each phase makes   *)
(* of queues, stocks and troops, up to SoundInv, the board's invariant.    *)
(***************************************************************************)
EXTENDS Fog, FiniteFacts, FiniteSetTheorems, TLAPS

\* A match state has its eight fields, and an army its six.
Fields == {"resources", "owner", "owned", "upgrades", "queue", "armies", "alliance", "eliminated"}
ArmyFields == {"id", "owner", "troops", "location", "destination", "ticks"}
IsArmy(a) == a = [f \in ArmyFields |-> a[f]]
Shaped(s) ==
    /\ s = [f \in Fields |-> s[f]]
    /\ \A a \in s.armies : IsArmy(a)

\* The players who have an army.
ArmyOwners(s) == {a.owner : a \in s.armies}

Listed(s) == s.owned = [p \in Players |-> CitiesOf(s, p)]

\* The phases before combat leave owners, lists and marks as they are and give armies
\* only to those who own a city or have an army.
Quiet(s, t) ==
    /\ Shaped(t)
    /\ t.owner = s.owner
    /\ t.owned = s.owned
    /\ t.eliminated = s.eliminated
    /\ \A p \in ArmyOwners(t) : p \in ArmyOwners(s) \/ (p # None /\ \E c \in Cities : s.owner[c] = p)

LEMMA QuietTrans ==
    ASSUME NEW s, NEW t, NEW u, Quiet(s, t), Quiet(t, u)
    PROVE  Quiet(s, u)
BY DEF Quiet

LEMMA ResourceQuiet == ASSUME NEW s, Shaped(s) PROVE Quiet(s, ResolveResourcePhase(s))
<1> DEFINE t == ResolveResourcePhase(s)
<1>1. PICK x : t = [s EXCEPT !.resources = x]
  BY DEF ResolveResourcePhase
<1> HIDE DEF t
<1>2. Shaped(t) /\ t.owner = s.owner /\ t.owned = s.owned /\ t.eliminated = s.eliminated /\ t.armies = s.armies
  BY <1>1 DEF Shaped, Fields
<1>3. Quiet(s, t)
  BY <1>2 DEF Quiet, ArmyOwners
<1> QED BY <1>3 DEF t

LEMMA QueuesQuiet == ASSUME NEW s, Shaped(s) PROVE Quiet(s, AdvanceBuildQueues(s))
<1> DEFINE t == AdvanceBuildQueues(s)
<1>1. PICK x, y : t = [s EXCEPT !.upgrades = x, !.queue = y]
  BY DEF AdvanceBuildQueues
<1> HIDE DEF t
<1>2. Shaped(t) /\ t.owner = s.owner /\ t.owned = s.owned /\ t.eliminated = s.eliminated /\ t.armies = s.armies
  BY <1>1 DEF Shaped, Fields
<1>3. Quiet(s, t)
  BY <1>2 DEF Quiet, ArmyOwners
<1> QED BY <1>3 DEF t

LEMMA UpgradesQuiet ==
    ASSUME NEW s, NEW atStart, NEW orders, Shaped(s) PROVE Quiet(s, StartUpgrades(s, atStart, orders))
<1> DEFINE t == StartUpgrades(s, atStart, orders)
<1>1. PICK x, y : t = [s EXCEPT !.resources = x, !.queue = y]
  BY DEF StartUpgrades
<1> HIDE DEF t
<1>2. Shaped(t) /\ t.owner = s.owner /\ t.owned = s.owned /\ t.eliminated = s.eliminated /\ t.armies = s.armies
  BY <1>1 DEF Shaped, Fields
<1>3. Quiet(s, t)
  BY <1>2 DEF Quiet, ArmyOwners
<1> QED BY <1>3 DEF t

LEMMA TransfersQuiet ==
    ASSUME NEW s, NEW orders, Shaped(s) PROVE Quiet(s, ProcessTransfers(s, orders))
<1> DEFINE t == ProcessTransfers(s, orders)
<1>1. PICK x : t = [s EXCEPT !.resources = x]
  BY DEF ProcessTransfers
<1> HIDE DEF t
<1>2. Shaped(t) /\ t.owner = s.owner /\ t.owned = s.owned /\ t.eliminated = s.eliminated /\ t.armies = s.armies
  BY <1>1 DEF Shaped, Fields
<1>3. Quiet(s, t)
  BY <1>2 DEF Quiet, ArmyOwners
<1> QED BY <1>3 DEF t

\* An army that gains troops keeps its owner; a new one belongs to a city's owner.
LEMMA RecruitmentQuiet ==
    ASSUME NEW s, NEW orders, Shaped(s)
    PROVE  LET t == ProcessRecruitment(s, orders)
           IN  /\ Quiet(s, t)
               /\ \A p \in ArmyOwners(t) :
                      p \in ArmyOwners(s) \/ \E c \in Cities : Recruits(orders, p, c) > 0
<1> DEFINE t == ProcessRecruitment(s, orders)
           Joins(a) == /\ a.destination = None
                       /\ a \in FriendlyStationed(s, a.location)
                       /\ \A b \in FriendlyStationed(s, a.location) : ~SortsBefore(b.id, a.id)
           founding == {c \in Cities : /\ s.owner[c] # None
                                       /\ FriendlyStationed(s, c) = {}
                                       /\ Recruits(orders, s.owner[c], c) > 0}
           Grown(a) == IF Joins(a)
                       THEN [a EXCEPT !.troops = @ + Recruits(orders, a.owner, a.location)] ELSE a
           New(c) == NewArmy(s, s.owner[c], c, Recruits(orders, s.owner[c], c))
           armies == {Grown(a) : a \in s.armies} \cup {New(c) : c \in founding}
<1>1. PICK x : t = [s EXCEPT !.resources = x, !.armies = armies]
  BY DEF ProcessRecruitment
<1>2. \A a \in s.armies : IsArmy(Grown(a)) /\ Grown(a).owner = a.owner
  BY DEF Shaped, IsArmy, ArmyFields
<1>3. \A c \in founding : IsArmy(New(c)) /\ New(c).owner = s.owner[c]
  BY DEF NewArmy, IsArmy, ArmyFields
<1> HIDE DEF t, Grown, New, founding
<1>4. t.armies = armies /\ t.owner = s.owner /\ t.owned = s.owned /\ t.eliminated = s.eliminated
  BY <1>1 DEF Shaped, Fields
<1>5. t = [f \in Fields |-> t[f]]
  BY <1>1 DEF Shaped, Fields
<1>6. Shaped(t)
  BY <1>2, <1>3, <1>4, <1>5 DEF Shaped
<1>7. \A p \in ArmyOwners(t) : p \in ArmyOwners(s) \/ (p # None /\ \E c \in Cities : s.owner[c] = p)
  BY <1>2, <1>3, <1>4 DEF ArmyOwners, founding
<1>8. Quiet(s, t)
  BY <1>4, <1>6, <1>7 DEF Quiet
<1>9. \A p \in ArmyOwners(t) : p \in ArmyOwners(s) \/ \E c \in Cities : Recruits(orders, p, c) > 0
  BY <1>2, <1>3, <1>4 DEF ArmyOwners, founding
<1> QED BY <1>8, <1>9 DEF t

LEMMA BuildQuiet ==
    ASSUME NEW s, NEW orders, Shaped(s) PROVE Quiet(s, ResolveBuildPhase(s, orders))
<1> DEFINE advanced == AdvanceBuildQueues(s)
           recruited == ProcessRecruitment(advanced, orders)
           upgrading == StartUpgrades(recruited, s, orders)
<1>1. Quiet(s, advanced)
  BY QueuesQuiet
<1>2. Quiet(advanced, recruited)
  BY <1>1, RecruitmentQuiet DEF Quiet
<1>3. Quiet(recruited, upgrading)
  BY <1>2, UpgradesQuiet DEF Quiet
<1>4. Quiet(upgrading, ProcessTransfers(upgrading, orders))
  BY <1>3, TransfersQuiet DEF Quiet
<1>5. Quiet(s, ProcessTransfers(upgrading, orders))
  <2> HIDE DEF advanced, recruited, upgrading
  <2> QED BY <1>1, <1>2, <1>3, <1>4, QuietTrans
<1> QED BY <1>5 DEF ResolveBuildPhase

\* Moving changes where an army is, not whose it is.
LEMMA MovementQuiet ==
    ASSUME NEW s, NEW orders, Shaped(s)
    PROVE  LET t == ResolveMovementPhase(s, orders)
           IN  Quiet(s, t) /\ ArmyOwners(t) \subseteq ArmyOwners(s)
<1> DEFINE Closer(a) == IF a.destination = None THEN a
                        ELSE IF a.ticks = 1
                             THEN [a EXCEPT !.location = a.destination, !.destination = None, !.ticks = 0]
                             ELSE [a EXCEPT !.ticks = @ - 1]
           t == AdvanceTransit(s)
           Marched(a) == IF Ordered(orders, a)
                         THEN LET to == (CHOOSE o \in MovesOf(orders, a) : TRUE).destination
                              IN  [a EXCEPT !.location = None, !.destination = to,
                                            !.ticks = Distance(a.location, to)]
                         ELSE a
           u == StartMovements(t, orders)
<1>1. t = [s EXCEPT !.armies = {Closer(a) : a \in s.armies}]
  BY DEF AdvanceTransit
<1>2. \A a \in s.armies : IsArmy(Closer(a)) /\ Closer(a).owner = a.owner
  BY DEF Shaped, IsArmy, ArmyFields
<1>3. Quiet(s, t) /\ ArmyOwners(t) \subseteq ArmyOwners(s)
  <2> HIDE DEF Closer, t
  <2>1. /\ t = [f \in Fields |-> t[f]]
        /\ t.armies = {Closer(a) : a \in s.armies}
        /\ t.owner = s.owner /\ t.owned = s.owned /\ t.eliminated = s.eliminated
    BY <1>1 DEF Shaped, Fields
  <2>2. \A a \in t.armies : IsArmy(a)
    BY <2>1, <1>2
  <2>3. \A p \in ArmyOwners(t) : p \in ArmyOwners(s)
    BY <2>1, <1>2 DEF ArmyOwners
  <2> QED BY <2>1, <2>2, <2>3 DEF Quiet, Shaped
<1>4. u = [t EXCEPT !.armies = {Marched(a) : a \in t.armies}]
  BY DEF StartMovements
<1>5. \A a \in t.armies : IsArmy(Marched(a)) /\ Marched(a).owner = a.owner
  <2> HIDE DEF t
  <2>2. \A a \in t.armies : IsArmy(a)
    BY <1>3 DEF Quiet, Shaped
  <2>3. ASSUME NEW a \in t.armies PROVE IsArmy(Marched(a)) /\ Marched(a).owner = a.owner
    <3>1. CASE Ordered(orders, a)
      <4> DEFINE to == (CHOOSE o \in MovesOf(orders, a) : TRUE).destination
                 far == Distance(a.location, to)
      <4>1. Marched(a) = [a EXCEPT !.location = None, !.destination = to, !.ticks = far]
        BY <3>1
      <4>2. IsArmy(a)
        BY <2>2
      <4> HIDE DEF to, far, Marched
      <4>3. IsArmy([a EXCEPT !.location = None, !.destination = to, !.ticks = far])
            /\ [a EXCEPT !.location = None, !.destination = to, !.ticks = far].owner = a.owner
        BY <4>2 DEF IsArmy, ArmyFields
      <4> QED BY <4>1, <4>3
    <3>2. CASE ~Ordered(orders, a)
      BY <2>2, <3>2
    <3> QED BY <3>1, <3>2
  <2> QED BY <2>3
<1>6. Quiet(t, u) /\ ArmyOwners(u) \subseteq ArmyOwners(t)
  <2> HIDE DEF Marched, t, u
  <2>1. /\ u = [f \in Fields |-> u[f]]
        /\ u.armies = {Marched(a) : a \in t.armies}
        /\ u.owner = t.owner /\ u.owned = t.owned /\ u.eliminated = t.eliminated
    BY <1>3, <1>4 DEF Quiet, Shaped, Fields
  <2>2. \A a \in u.armies : IsArmy(a)
    BY <2>1, <1>5
  <2>3. \A p \in ArmyOwners(u) : p \in ArmyOwners(t)
    BY <2>1, <1>5 DEF ArmyOwners
  <2> QED BY <2>1, <2>2, <2>3 DEF Quiet, Shaped
<1>7. Quiet(s, u) /\ ArmyOwners(u) \subseteq ArmyOwners(s)
  <2> HIDE DEF t, u
  <2> QED BY <1>3, <1>6, QuietTrans
<1> QED BY <1>7 DEF ResolveMovementPhase
-----------------------------------------------------------------------------
\* What the phases after movement keep: who fights and who rules are players.
Peopled(s) ==
    /\ s.owner \in [Cities -> Players \cup {None}]
    /\ ArmyOwners(s) \subseteq Players

\* Nobody comes into the game who was not in it.
Alive(s, p) == p \in ArmyOwners(s) \/ \E c \in Cities : s.owner[c] = p
NoneReturns(s, t) == \A p \in Players : Alive(t, p) => Alive(s, p)

\* Losses change how many troops an army has, and only take armies off the board.
LEMMA LossesOnly ==
    ASSUME NEW s, Shaped(s)
    PROVE  LET t == ResolveContestedCities(s)
           IN  /\ Shaped(t) /\ t.owner = s.owner /\ t.owned = s.owned /\ t.eliminated = s.eliminated
               /\ ArmyOwners(t) \subseteq ArmyOwners(s)
<1> DEFINE left == {b \in s.armies : b.troops > Loss(s, b)}
           Hurt(a) == [a EXCEPT !.troops = @ - Loss(s, a)]
           t == ResolveContestedCities(s)
<1>1. t = [s EXCEPT !.armies = {Hurt(a) : a \in left}]
  BY DEF ResolveContestedCities, WithLosses
<1>2. \A a \in left : IsArmy(Hurt(a)) /\ Hurt(a).owner = a.owner /\ a \in s.armies
  BY DEF Shaped, IsArmy, ArmyFields
<1> HIDE DEF t, Hurt, left
<1>3. /\ t = [f \in Fields |-> t[f]]
      /\ t.armies = {Hurt(a) : a \in left}
      /\ t.owner = s.owner /\ t.owned = s.owned /\ t.eliminated = s.eliminated
  BY <1>1 DEF Shaped, Fields
<1>4. \A a \in t.armies : IsArmy(a)
  BY <1>2, <1>3
<1>5. ArmyOwners(t) \subseteq ArmyOwners(s)
  BY <1>2, <1>3 DEF ArmyOwners
<1> QED BY <1>3, <1>4, <1>5 DEF Shaped, t

\* A city goes to a player with an army in it, or stays whose it was.
LEMMA TakerIsThere ==
    ASSUME NEW s, Peopled(s), NEW c \in Cities
    PROVE  Taker(s, c) = s.owner[c] \/ Taker(s, c) \in ArmyOwners(s)
<1> DEFINE there == OwnersOf(StationedAt(s, c))
<1>1. there \subseteq ArmyOwners(s)
  BY DEF OwnersOf, StationedAt, ArmyOwners
<1>2. CASE Cardinality(there) = 1
  <2>1. Taker(s, c) = CHOOSE p \in there : TRUE
    BY <1>2 DEF Taker
  <2>2. IsFiniteSet(there) => there # {}
    BY <1>2, FS_EmptySet
  <2>3. CASE there # {}
    BY <2>1, <2>3, <1>1
  <2>4. CASE there = {}
    BY <2>2, <2>4, FS_EmptySet
  <2> QED BY <2>3, <2>4
<1>3. CASE Cardinality(there) # 1
  BY <1>3 DEF Taker
<1> QED BY <1>2, <1>3

\* Control passes and both records of it follow.
LEMMA ControlListed ==
    ASSUME NEW s, Shaped(s), Peopled(s), Listed(s)
    PROVE  LET t == TransferUncontestedControl(s)
           IN  /\ Shaped(t) /\ Peopled(t) /\ Listed(t) /\ NoneReturns(s, t) /\ t.eliminated = s.eliminated
               /\ \A c \in Cities : t.owner[c] = s.owner[c] \/ t.owner[c] \in ArmyOwners(s)
<1> DEFINE owner == [c \in Cities |-> Taker(s, c)]
           owned == OwnedAfter(s, owner)
           t == TransferUncontestedControl(s)
<1>1. t = [s EXCEPT !.owner = owner, !.owned = owned]
  BY DEF TransferUncontestedControl
<1>2. \A c \in Cities : owner[c] = s.owner[c] \/ owner[c] \in ArmyOwners(s)
  BY TakerIsThere
<1>3. owned = [p \in Players |-> {c \in Cities : owner[c] = p}]
  <2>1. \A p \in Players : s.owned[p] = {c \in Cities : s.owner[c] = p}
    BY DEF Listed, CitiesOf
  <2>2. ASSUME NEW p \in Players
        PROVE  (s.owned[p] \ {c \in Cities : s.owner[c] = p /\ owner[c] # p})
               \cup {c \in Cities : owner[c] = p /\ s.owner[c] # p} = {c \in Cities : owner[c] = p}
    <3> HIDE DEF owner
    <3> QED BY <2>1
  <2> HIDE DEF owner
  <2> QED BY <2>2 DEF OwnedAfter
<1>4. owner \in [Cities -> Players \cup {None}]
  <2>1. \A c \in Cities : Taker(s, c) \in Players \cup {None}
    BY TakerIsThere DEF Peopled
  <2> QED BY <2>1
<1> HIDE DEF t, owner, owned
<1>5. /\ t = [f \in Fields |-> t[f]]
      /\ t.owner = owner /\ t.owned = owned /\ t.armies = s.armies /\ t.eliminated = s.eliminated
  BY <1>1 DEF Shaped, Fields
<1>6. Shaped(t) /\ Peopled(t)
  BY <1>4, <1>5 DEF Shaped, Peopled, ArmyOwners
<1>7. Listed(t)
  BY <1>3, <1>5 DEF Listed, CitiesOf
<1>8. NoneReturns(s, t)
  BY <1>2, <1>5 DEF NoneReturns, Alive, ArmyOwners
<1> QED BY <1>2, <1>5, <1>6, <1>7, <1>8 DEF t

\* Siege and decay lower fortifications and nothing else.
LEMMA DegradedOnly ==
    ASSUME NEW s, NEW cities, Shaped(s)
    PROVE  LET t == Degraded(s, cities)
           IN  /\ Shaped(t) /\ t.owner = s.owner /\ t.owned = s.owned /\ t.armies = s.armies
               /\ t.eliminated = s.eliminated
<1> DEFINE t == Degraded(s, cities)
<1>1. PICK x : t = [s EXCEPT !.upgrades = x]
  BY DEF Degraded
<1> HIDE DEF t
<1>2. /\ Shaped(t) /\ t.owner = s.owner /\ t.owned = s.owned /\ t.armies = s.armies
      /\ t.eliminated = s.eliminated
  BY <1>1 DEF Shaped, Fields
<1> QED BY <1>2 DEF t

\* The last phase marks who is out of play.
LEMMA AttritionMarks ==
    ASSUME NEW s, NEW unpaid, NEW besieged, Shaped(s), Peopled(s), Listed(s)
    PROVE  LET t == ResolveAttritionPhase(s, unpaid, besieged)
           IN  /\ Shaped(t) /\ Peopled(t) /\ Listed(t) /\ NoneReturns(s, t)
               /\ t.eliminated = [p \in Players |-> ~Alive(t, p)]
               /\ t.owner = s.owner /\ ArmyOwners(t) \subseteq ArmyOwners(s)
<1> DEFINE Lost(a) == IF Starving(s, a.owner) THEN 1 ELSE 0
           left == {b \in s.armies : b.troops > Lost(b)}
           Hurt(a) == [a EXCEPT !.troops = @ - Lost(a)]
           starved == [s EXCEPT !.armies = {Hurt(a) : a \in left}]
           decayed == Degraded(starved, DegradedUnpaid(starved, unpaid, besieged))
           t == ResolveAttritionPhase(s, unpaid, besieged)
<1>1. t = [decayed EXCEPT !.eliminated = [p \in Players |-> OutOfPlay(decayed, p)]]
  BY DEF ResolveAttritionPhase, WithLosses
<1>2. \A a \in left : IsArmy(Hurt(a)) /\ Hurt(a).owner = a.owner /\ a \in s.armies
  BY DEF Shaped, IsArmy, ArmyFields
<1>3. /\ Shaped(starved) /\ starved.owner = s.owner /\ starved.owned = s.owned
      /\ ArmyOwners(starved) \subseteq ArmyOwners(s)
  <2> HIDE DEF Hurt, left
  <2>1. /\ starved = [f \in Fields |-> starved[f]]
        /\ starved.armies = {Hurt(a) : a \in left}
        /\ starved.owner = s.owner /\ starved.owned = s.owned
    BY DEF Shaped, Fields
  <2> HIDE DEF starved
  <2>2. \A a \in starved.armies : IsArmy(a)
    BY <1>2, <2>1
  <2>3. ArmyOwners(starved) \subseteq ArmyOwners(s)
    BY <1>2, <2>1 DEF ArmyOwners
  <2> QED BY <2>1, <2>2, <2>3 DEF Shaped
<1> HIDE DEF starved
<1>4. /\ Shaped(decayed) /\ decayed.owner = s.owner /\ decayed.owned = s.owned
      /\ decayed.armies = starved.armies
  BY <1>3, DegradedOnly
<1> HIDE DEF decayed, t
<1>5. /\ Shaped(t) /\ t.owner = decayed.owner /\ t.owned = decayed.owned /\ t.armies = decayed.armies
      /\ t.eliminated = [p \in Players |-> OutOfPlay(decayed, p)]
  BY <1>1, <1>4 DEF Shaped, Fields
<1>6. Peopled(t) /\ Listed(t) /\ NoneReturns(s, t)
  BY <1>3, <1>4, <1>5 DEF Peopled, Listed, NoneReturns, Alive, ArmyOwners, CitiesOf
<1>7. \A p \in Players : OutOfPlay(decayed, p) <=> ~Alive(t, p)
  BY <1>5 DEF OutOfPlay, CitiesOf, Alive, ArmyOwners
<1>8. \A p \in Players : OutOfPlay(decayed, p) = ~Alive(t, p)
  BY <1>7 DEF OutOfPlay, Alive
<1>9. t.eliminated = [p \in Players |-> ~Alive(t, p)]
  BY <1>5, <1>8
<1>10. t.owner = s.owner /\ ArmyOwners(t) \subseteq ArmyOwners(s)
  BY <1>3, <1>4, <1>5 DEF ArmyOwners
<1> QED BY <1>5, <1>6, <1>9, <1>10 DEF t

\* One tick, phase after phase.
LEMMA TickKeeps ==
    ASSUME NEW s, NEW orders, Shaped(s), Peopled(s), Listed(s)
    PROVE  LET t == ResolveTick(s, orders)
           IN  /\ Shaped(t) /\ Peopled(t) /\ Listed(t) /\ NoneReturns(s, t)
               /\ t.eliminated = [p \in Players |-> ~Alive(t, p)]
<1> DEFINE unpaid == UnpaidFortifications(s)
           paid == ResolveResourcePhase(s)
           built == ResolveBuildPhase(paid, orders)
           moved == ResolveMovementPhase(built, orders)
           hurt == ResolveContestedCities(moved)
           fought == TransferUncontestedControl(hurt)
           besieged == DegradedBySiege(fought)
           sieged == ResolveSiegePhase(fought)
           t == ResolveAttritionPhase(sieged, unpaid, besieged)
<1>1. Quiet(s, paid)
  BY ResourceQuiet
<1>2. Quiet(paid, built)
  BY <1>1, BuildQuiet DEF Quiet
<1>3. Quiet(built, moved)
  BY <1>2, MovementQuiet DEF Quiet
<1>4. Quiet(s, moved)
  <2> HIDE DEF paid, built, moved
  <2> QED BY <1>1, <1>2, <1>3, QuietTrans
<1>5. Shaped(moved) /\ Peopled(moved) /\ Listed(moved) /\ NoneReturns(s, moved)
  <2> HIDE DEF moved
  <2> QED BY <1>4 DEF Quiet, Peopled, Listed, NoneReturns, Alive, ArmyOwners, CitiesOf
<1>6. Shaped(hurt) /\ Peopled(hurt) /\ Listed(hurt) /\ NoneReturns(moved, hurt)
  <2> HIDE DEF moved
  <2>1. /\ Shaped(hurt) /\ hurt.owner = moved.owner /\ hurt.owned = moved.owned
        /\ ArmyOwners(hurt) \subseteq ArmyOwners(moved)
    BY <1>5, LossesOnly
  <2> HIDE DEF hurt
  <2> QED BY <1>5, <2>1 DEF Peopled, Listed, NoneReturns, Alive, CitiesOf
<1>7. Shaped(fought) /\ Peopled(fought) /\ Listed(fought) /\ NoneReturns(hurt, fought)
  <2> HIDE DEF hurt
  <2> QED BY <1>6, ControlListed
<1>8. Shaped(sieged) /\ Peopled(sieged) /\ Listed(sieged) /\ NoneReturns(fought, sieged)
  <2> HIDE DEF fought
  <2>1. /\ Shaped(sieged) /\ sieged.owner = fought.owner /\ sieged.owned = fought.owned
        /\ sieged.armies = fought.armies
    BY <1>7, DegradedOnly DEF ResolveSiegePhase
  <2> HIDE DEF sieged
  <2> QED BY <1>7, <2>1 DEF Peopled, Listed, NoneReturns, Alive, CitiesOf, ArmyOwners
<1>9. /\ Shaped(t) /\ Peopled(t) /\ Listed(t) /\ NoneReturns(sieged, t)
      /\ t.eliminated = [p \in Players |-> ~Alive(t, p)]
  <2> HIDE DEF sieged, unpaid, besieged
  <2> QED BY <1>8, AttritionMarks
<1>10. NoneReturns(s, t)
  <2> HIDE DEF moved, hurt, fought, sieged, t
  <2> QED BY <1>5, <1>6, <1>7, <1>8, <1>9 DEF NoneReturns
<1>11. t = ResolveTick(s, orders)
  BY DEF ResolveTick, ResolveCombatPhase
<1> QED BY <1>9, <1>10, <1>11

-----------------------------------------------------------------------------
\* The inductive invariant: the shape of the board, its two records of ownership, and
\* marks that after the first tick tell who is alive.
BoardInv ==
    /\ tick \in Nat
    /\ Shaped(state) /\ Peopled(state) /\ Listed(state)
    /\ tick = 0 => state.eliminated = [p \in Players |-> FALSE]
    /\ tick > 0 => state.eliminated = [p \in Players |-> ~Alive(state, p)]

LEMMA InitBoard == Init => BoardInv
<1> SUFFICES ASSUME Init PROVE BoardInv
  OBVIOUS
<1>1. /\ state = [f \in Fields |-> state[f]]
      /\ state.owned = StartingCities /\ state.armies = {}
      /\ state.owner = [c \in Cities |-> IF \E p \in Players : c \in StartingCities[p]
                                         THEN CHOOSE p \in Players : c \in StartingCities[p] ELSE None]
      /\ state.eliminated = [p \in Players |-> FALSE]
  BY DEF Init, Fields
<1>2. \A c \in Cities : IF \E p \in Players : c \in StartingCities[p]
                        THEN state.owner[c] \in Players /\ c \in StartingCities[state.owner[c]]
                        ELSE state.owner[c] = None
  BY <1>1
<1>3. \A p \in Players : CitiesOf(state, p) = StartingCities[p]
  BY <1>2, StartAssumption, NoneAssumption DEF CitiesOf
<1>4. Listed(state)
  BY <1>1, <1>3, StartAssumption DEF Listed
<1>5. Shaped(state) /\ Peopled(state)
  BY <1>1, <1>2 DEF Shaped, Peopled, ArmyOwners
<1> QED BY <1>1, <1>4, <1>5 DEF BoardInv, Init

LEMMA NextBoard == BoardInv /\ [Next]_vars => BoardInv'
<1> SUFFICES ASSUME BoardInv, [Next]_vars PROVE BoardInv'
  OBVIOUS
<1>1. CASE UNCHANGED vars
  BY <1>1 DEF BoardInv, vars
<1>2. CASE Tick
  <2>1. PICK orders : state' = ResolveTick(state, orders)
    BY <1>2 DEF Tick
  <2>2. tick' = tick + 1
    BY <1>2 DEF Tick
  <2>3. /\ Shaped(state') /\ Peopled(state') /\ Listed(state')
        /\ state'.eliminated = [p \in Players |-> ~Alive(state', p)]
    BY <2>1, TickKeeps DEF BoardInv
  <2>4. tick' \in Nat /\ ~(tick' = 0)
    BY <2>2 DEF BoardInv
  <2> QED BY <2>3, <2>4, Zenon DEF BoardInv
<1> QED BY <1>1, <1>2 DEF Next

THEOREM BoardInductive == Spec => []BoardInv
BY InitBoard, NextBoard, PTL DEF Spec

\* For every map and every choice of orders, a player's list of cities is the set of
\* cities it owns (_transfer_uncontested_city_control).
THEOREM OwnershipIsConsistent == Spec => []OwnershipConsistent
<1>1. BoardInv => OwnershipConsistent
  BY DEF BoardInv, Listed, OwnershipConsistent
<1> QED BY <1>1, BoardInductive, PTL

\* The mark of elimination says exactly who has neither a city nor an army
\* (_resolve_attrition_phase).
THEOREM EliminationIsConsistent == Spec => []EliminationConsistent
<1>1. BoardInv => EliminationConsistent
  <2> SUFFICES ASSUME BoardInv, tick > 0, NEW p \in Players
               PROVE  state.eliminated[p] <=> CitiesOf(state, p) = {} /\ \A a \in state.armies : a.owner # p
    BY DEF EliminationConsistent
  <2>1. state.eliminated[p] <=> ~Alive(state, p)
    BY DEF BoardInv
  <2> QED BY <2>1 DEF Alive, ArmyOwners, CitiesOf
<1> QED BY <1>1, BoardInductive, PTL

\* Nobody who is out of the match comes back: no phase gives a city or an army to a
\* player who has neither.
THEOREM EliminationStays == Spec => EliminationIsFinal
<1>1. BoardInv /\ [Next]_vars =>
        [\A p \in Players : state.eliminated[p] => state'.eliminated[p]]_vars
  <2> SUFFICES ASSUME BoardInv, Tick, NEW p \in Players, state.eliminated[p]
               PROVE  state'.eliminated[p]
    BY DEF Next
  <2>1. PICK orders : state' = ResolveTick(state, orders)
    BY DEF Tick
  <2>2. /\ NoneReturns(state, state')
        /\ state'.eliminated = [q \in Players |-> ~Alive(state', q)]
    BY <2>1, TickKeeps DEF BoardInv
  <2>3. ~Alive(state, p)
    <3>1. CASE tick = 0
      <4>1. ~state.eliminated[p]
        BY <3>1, Zenon DEF BoardInv
      <4> QED BY <4>1
    <3>2. CASE tick > 0
      BY <3>2, Zenon DEF BoardInv
    <3> QED BY <3>1, <3>2 DEF BoardInv
  <2> QED BY <2>2, <2>3 DEF NoneReturns
<1> QED BY <1>1, BoardInductive, PTL DEF Spec, EliminationIsFinal

\* Cities, lists and elimination marks tell one story.
THEOREM BoardIsConsistent == Spec => []BoardConsistent
<1>1. OwnershipConsistent /\ EliminationConsistent => BoardConsistent
  BY DEF BoardConsistent
<1> QED
  BY <1>1, OwnershipIsConsistent, EliminationIsConsistent, PTL
-----------------------------------------------------------------------------
(* Where armies come from.                                                 *)

\* One army before and after a phase that leaves it where it was.
SameArmy(a, b) ==
    a.id = b.id /\ a.owner = b.owner /\ a.location = b.location /\ a.destination = b.destination

InPlace(s, t) == \A a \in t.armies : \E b \in s.armies : SameArmy(a, b)

\* The build phase leaves armies where they are; a new one stands in its owner's city.
LEMMA BuildInPlace ==
    ASSUME NEW s, NEW orders, Shaped(s)
    PROVE  \A a \in ResolveBuildPhase(ResolveResourcePhase(s), orders).armies :
               \/ \E b \in s.armies : SameArmy(a, b)
               \/ a.location \in Cities /\ a.destination = None /\ a.owner = s.owner[a.location]
<1> DEFINE paid == ResolveResourcePhase(s)
           advanced == AdvanceBuildQueues(paid)
           recruited == ProcessRecruitment(advanced, orders)
           upgrading == StartUpgrades(recruited, paid, orders)
           built == ProcessTransfers(upgrading, orders)
<1>1. Shaped(paid) /\ paid.owner = s.owner /\ paid.armies = s.armies
  <2>1. PICK x : paid = [s EXCEPT !.resources = x]
    BY DEF ResolveResourcePhase
  <2> QED BY <2>1, ResourceQuiet DEF Shaped, Quiet, Fields
<1>2. Shaped(advanced) /\ advanced.owner = s.owner /\ advanced.armies = s.armies
  <2>1. PICK x, y : advanced = [paid EXCEPT !.upgrades = x, !.queue = y]
    BY DEF AdvanceBuildQueues
  <2> HIDE DEF paid
  <2> QED BY <1>1, <2>1, QueuesQuiet DEF Shaped, Quiet, Fields
<1>3. Shaped(recruited)
  <2> HIDE DEF advanced
  <2> QED BY <1>2, RecruitmentQuiet DEF Quiet
<1>4. Shaped(upgrading) /\ upgrading.armies = recruited.armies
  <2>1. PICK x, y : upgrading = [recruited EXCEPT !.resources = x, !.queue = y]
    BY DEF StartUpgrades
  <2> HIDE DEF recruited, paid
  <2> QED BY <1>3, <2>1, UpgradesQuiet DEF Shaped, Quiet, Fields
<1>5. built.armies = recruited.armies
  <2>1. PICK x : built = [upgrading EXCEPT !.resources = x]
    BY DEF ProcessTransfers
  <2> HIDE DEF upgrading, recruited
  <2> QED BY <1>4, <2>1 DEF Shaped, Fields
<1>6. \A a \in recruited.armies : \/ \E b \in advanced.armies : SameArmy(a, b)
                                  \/ /\ a.location \in Cities /\ a.destination = None
                                     /\ a.owner = advanced.owner[a.location]
  <2> HIDE DEF advanced
  <2> DEFINE Joins(a) == /\ a.destination = None
                         /\ a \in FriendlyStationed(advanced, a.location)
                         /\ \A b \in FriendlyStationed(advanced, a.location) : ~SortsBefore(b.id, a.id)
             founding == {c \in Cities : /\ advanced.owner[c] # None
                                         /\ FriendlyStationed(advanced, c) = {}
                                         /\ Recruits(orders, advanced.owner[c], c) > 0}
             Grown(a) == IF Joins(a)
                         THEN [a EXCEPT !.troops = @ + Recruits(orders, a.owner, a.location)] ELSE a
             New(c) == NewArmy(advanced, advanced.owner[c], c, Recruits(orders, advanced.owner[c], c))
             armies == {Grown(a) : a \in advanced.armies} \cup {New(c) : c \in founding}
  <2>1. PICK x : recruited = [advanced EXCEPT !.resources = x, !.armies = armies]
    BY DEF ProcessRecruitment
  <2>2. \A b \in advanced.armies : SameArmy(Grown(b), b)
    BY <1>2 DEF Shaped, IsArmy, ArmyFields, SameArmy
  <2>3. \A c \in founding : /\ New(c).location = c /\ New(c).destination = None
                           /\ New(c).owner = advanced.owner[c] /\ c \in Cities
    BY DEF NewArmy
  <2> HIDE DEF recruited, Grown, New, founding
  <2>4. recruited.armies = armies
    BY <1>2, <2>1 DEF Shaped, Fields
  <2> QED BY <2>2, <2>3, <2>4
<1>7. ResolveBuildPhase(paid, orders) = built
  BY DEF ResolveBuildPhase
<1> HIDE DEF paid, advanced, recruited, upgrading, built
<1>8. \A a \in built.armies : \/ \E b \in s.armies : SameArmy(a, b)
                              \/ /\ a.location \in Cities /\ a.destination = None
                                 /\ a.owner = s.owner[a.location]
  BY <1>2, <1>5, <1>6
<1> QED BY <1>7, <1>8 DEF paid

\* An army that stands in a city after the movement phase was there or on its way there:
\* nobody marches off and arrives in one tick.
LEMMA MarchTakesTime ==
    ASSUME NEW s, NEW orders, Shaped(s),
           NEW a \in ResolveMovementPhase(s, orders).armies, a.location # None
    PROVE  \E b \in s.armies : /\ b.id = a.id /\ b.owner = a.owner
                               /\ a.location \in {b.location, b.destination}
<1> DEFINE Closer(b) == IF b.destination = None THEN b
                        ELSE IF b.ticks = 1
                             THEN [b EXCEPT !.location = b.destination, !.destination = None, !.ticks = 0]
                             ELSE [b EXCEPT !.ticks = @ - 1]
           t == AdvanceTransit(s)
           Marched(b) == IF Ordered(orders, b)
                         THEN LET to == (CHOOSE o \in MovesOf(orders, b) : TRUE).destination
                              IN  [b EXCEPT !.location = None, !.destination = to,
                                            !.ticks = Distance(b.location, to)]
                         ELSE b
           u == StartMovements(t, orders)
<1>1. t = [s EXCEPT !.armies = {Closer(b) : b \in s.armies}]
  BY DEF AdvanceTransit
<1>2. \A b \in s.armies : /\ IsArmy(Closer(b)) /\ Closer(b).id = b.id /\ Closer(b).owner = b.owner
                          /\ Closer(b).location \in {b.location, b.destination}
  <2>1. ASSUME NEW b \in s.armies
        PROVE  /\ IsArmy(Closer(b)) /\ Closer(b).id = b.id /\ Closer(b).owner = b.owner
               /\ Closer(b).location \in {b.location, b.destination}
    <3>1. IsArmy(b)
      BY DEF Shaped
    <3>2. CASE b.destination = None
      BY <3>1, <3>2
    <3>3. CASE b.destination # None /\ b.ticks = 1
      BY <3>1, <3>3 DEF IsArmy, ArmyFields
    <3>4. CASE b.destination # None /\ b.ticks # 1
      BY <3>1, <3>4 DEF IsArmy, ArmyFields
    <3> QED BY <3>2, <3>3, <3>4
  <2> QED BY <2>1
<1>3. t = [f \in Fields |-> t[f]] /\ t.armies = {Closer(b) : b \in s.armies}
  <2> HIDE DEF Closer, t
  <2> QED BY <1>1 DEF Shaped, Fields
<1>4. u = [t EXCEPT !.armies = {Marched(b) : b \in t.armies}]
  BY DEF StartMovements
<1>5. u.armies = {Marched(b) : b \in t.armies}
  <2> HIDE DEF Marched, t, u
  <2> QED BY <1>3, <1>4 DEF Fields
<1>6. PICK b \in t.armies : a = Marched(b)
  <2> HIDE DEF Marched, t, u
  <2>1. a \in u.armies
    BY DEF u, t, ResolveMovementPhase
  <2> QED BY <1>5, <2>1
<1>7. ~Ordered(orders, b)
  <2>1. SUFFICES ASSUME Ordered(orders, b) PROVE FALSE
    OBVIOUS
  <2> DEFINE to == (CHOOSE o \in MovesOf(orders, b) : TRUE).destination
             far == Distance(b.location, to)
  <2>2. a = [b EXCEPT !.location = None, !.destination = to, !.ticks = far]
    BY <1>6, <2>1
  <2>3. IsArmy(b)
    <3> HIDE DEF Closer, t
    <3> QED BY <1>2, <1>3
  <2> HIDE DEF to, far
  <2> QED BY <2>2, <2>3 DEF IsArmy, ArmyFields
<1>8. a = b
  BY <1>6, <1>7
<1> HIDE DEF Closer, t, Marched, u
<1> QED BY <1>2, <1>3, <1>8

LEMMA CombatInPlace ==
    ASSUME NEW s, Shaped(s), Peopled(s), Listed(s)
    PROVE  InPlace(s, ResolveCombatPhase(s))
<1> DEFINE left == {b \in s.armies : b.troops > Loss(s, b)}
           Hurt(a) == [a EXCEPT !.troops = @ - Loss(s, a)]
           t == ResolveContestedCities(s)
           u == TransferUncontestedControl(t)
<1>1. t = [s EXCEPT !.armies = {Hurt(a) : a \in left}]
  BY DEF ResolveContestedCities, WithLosses
<1>2. \A a \in left : SameArmy(Hurt(a), a) /\ a \in s.armies
  BY DEF Shaped, IsArmy, ArmyFields, SameArmy
<1>3. t = [f \in Fields |-> t[f]] /\ t.armies = {Hurt(a) : a \in left}
  <2> HIDE DEF Hurt, left, t
  <2> QED BY <1>1 DEF Shaped, Fields
<1>4. PICK x, y : u = [t EXCEPT !.owner = x, !.owned = y]
  BY DEF TransferUncontestedControl
<1>5. u.armies = t.armies
  <2> HIDE DEF t, u
  <2> QED BY <1>3, <1>4 DEF Fields
<1>6. InPlace(s, u)
  <2> HIDE DEF t, u, Hurt, left
  <2> QED BY <1>2, <1>3, <1>5 DEF InPlace
<1> QED BY <1>6 DEF ResolveCombatPhase

LEMMA AttritionInPlace ==
    ASSUME NEW s, NEW unpaid, NEW besieged, Shaped(s)
    PROVE  InPlace(s, ResolveAttritionPhase(ResolveSiegePhase(s), unpaid, besieged))
<1> DEFINE r == ResolveSiegePhase(s)
           Lost(a) == IF Starving(r, a.owner) THEN 1 ELSE 0
           left == {b \in r.armies : b.troops > Lost(b)}
           Hurt(a) == [a EXCEPT !.troops = @ - Lost(a)]
           starved == [r EXCEPT !.armies = {Hurt(a) : a \in left}]
           decayed == Degraded(starved, DegradedUnpaid(starved, unpaid, besieged))
           t == ResolveAttritionPhase(r, unpaid, besieged)
<1>0. Shaped(r) /\ r.armies = s.armies
  BY DegradedOnly DEF ResolveSiegePhase
<1> HIDE DEF r
<1>1. t = [decayed EXCEPT !.eliminated = [p \in Players |-> OutOfPlay(decayed, p)]]
  BY DEF ResolveAttritionPhase, WithLosses
<1>2. \A a \in left : IsArmy(Hurt(a)) /\ SameArmy(Hurt(a), a) /\ a \in r.armies
  BY <1>0 DEF Shaped, IsArmy, ArmyFields, SameArmy
<1>3. Shaped(starved) /\ starved.armies = {Hurt(a) : a \in left}
  <2> HIDE DEF Hurt, left
  <2>1. starved = [f \in Fields |-> starved[f]] /\ starved.armies = {Hurt(a) : a \in left}
    BY <1>0 DEF Shaped, Fields
  <2> HIDE DEF starved
  <2> QED BY <1>2, <2>1 DEF Shaped
<1> HIDE DEF starved
<1>4. Shaped(decayed) /\ decayed.armies = starved.armies
  BY <1>3, DegradedOnly
<1> HIDE DEF decayed, t
<1>5. t.armies = decayed.armies
  BY <1>1, <1>4 DEF Shaped, Fields
<1> HIDE DEF Hurt, left
<1>6. InPlace(s, t)
  BY <1>0, <1>2, <1>3, <1>4, <1>5 DEF InPlace
<1> QED BY <1>6 DEF t, r
-----------------------------------------------------------------------------
(* The fog.                                                                *)

\* Where an army of the board after a tick stood or went before it, unless it was recruited
\* in a city of its owner.
LEMMA TickTraced ==
    ASSUME NEW s, NEW orders, Shaped(s), Peopled(s), Listed(s),
           NEW a \in ResolveTick(s, orders).armies, a.location \in Cities
    PROVE  \/ \E b \in s.armies : /\ b.id = a.id /\ b.owner = a.owner
                                  /\ a.location \in {b.location, b.destination}
           \/ a.owner = s.owner[a.location]
<1> DEFINE unpaid == UnpaidFortifications(s)
           paid == ResolveResourcePhase(s)
           built == ResolveBuildPhase(paid, orders)
           moved == ResolveMovementPhase(built, orders)
           fought == ResolveCombatPhase(moved)
           besieged == DegradedBySiege(fought)
           t == ResolveAttritionPhase(ResolveSiegePhase(fought), unpaid, besieged)
<1>1. Quiet(s, paid)
  BY ResourceQuiet
<1>2. Quiet(paid, built)
  BY <1>1, BuildQuiet DEF Quiet
<1>3. Quiet(built, moved)
  BY <1>2, MovementQuiet DEF Quiet
<1>4. Shaped(built) /\ Shaped(moved) /\ Peopled(moved) /\ Listed(moved)
  <2> HIDE DEF paid, built, moved
  <2> QED BY <1>1, <1>2, <1>3 DEF Quiet, Peopled, Listed, ArmyOwners, CitiesOf
<1>5. InPlace(moved, fought) /\ Shaped(fought)
  <2> HIDE DEF moved
  <2> DEFINE hurt == ResolveContestedCities(moved)
  <2>1. /\ Shaped(hurt) /\ hurt.owner = moved.owner /\ hurt.owned = moved.owned
        /\ ArmyOwners(hurt) \subseteq ArmyOwners(moved)
    BY <1>4, LossesOnly
  <2>2. Shaped(TransferUncontestedControl(hurt))
    <3> HIDE DEF hurt
    <3>1. Peopled(hurt) /\ Listed(hurt)
      BY <1>4, <2>1 DEF Peopled, Listed, CitiesOf
    <3> QED BY <2>1, <3>1, ControlListed
  <2> QED BY <1>4, <2>2, CombatInPlace DEF ResolveCombatPhase
<1>6. InPlace(fought, t)
  <2> HIDE DEF fought, unpaid, besieged
  <2> QED BY <1>5, AttritionInPlace
<1>7. a \in t.armies
  BY DEF ResolveTick
<1>8. \A b \in built.armies : \/ \E d \in s.armies : SameArmy(b, d)
                              \/ /\ b.location \in Cities /\ b.destination = None
                                 /\ b.owner = s.owner[b.location]
  BY BuildInPlace
<1>9. \A b \in moved.armies : b.location # None =>
          \E d \in built.armies : /\ d.id = b.id /\ d.owner = b.owner
                                  /\ b.location \in {d.location, d.destination}
  <2> HIDE DEF built
  <2> QED BY <1>4, MarchTakesTime
<1> HIDE DEF paid, built, moved, fought, besieged, unpaid, t
<1>10. PICK b \in moved.armies : SameArmy(a, b)
  BY <1>5, <1>6, <1>7 DEF InPlace, SameArmy
<1>11. PICK d \in built.armies : /\ d.id = b.id /\ d.owner = b.owner
                                 /\ b.location \in {d.location, d.destination}
  BY <1>9, <1>10, NoneAssumption DEF SameArmy
<1>12. a.id = d.id /\ a.owner = d.owner /\ a.location \in {d.location, d.destination}
  BY <1>10, <1>11 DEF SameArmy
<1> QED BY <1>8, <1>12, NoneAssumption DEF SameArmy
\* An army that comes to stand in a city of a player's side, and is not of that side, was in
\* the city or on its way to it, and so on the map of everyone who sees the city.
THEOREM ArmiesAreSeenComing == Spec => EarlyWarning
<1>1. BoardInv /\ [Next]_vars =>
        [\A p \in Players, a \in state'.armies :
           a.location \in FullVisibilityCities(state, p) /\ a.owner \notin AlliedPlayerIds(state, p)
           => \E shown \in ProjectAgentState(state, p).armies :
                  shown.id = a.id /\ a.location \in {shown.location, shown.destination}]_vars
  <2> SUFFICES ASSUME BoardInv, Tick, NEW p \in Players, NEW a \in state'.armies,
                      a.location \in FullVisibilityCities(state, p),
                      a.owner \notin AlliedPlayerIds(state, p)
               PROVE  \E shown \in ProjectAgentState(state, p).armies :
                          shown.id = a.id /\ a.location \in {shown.location, shown.destination}
    BY DEF Next
  <2>1. PICK orders : state' = ResolveTick(state, orders)
    BY DEF Tick
  <2>2. a.location \in Cities /\ a.owner # state.owner[a.location]
    BY DEF FullVisibilityCities
  <2>3. PICK b \in state.armies : /\ b.id = a.id /\ b.owner = a.owner
                                  /\ a.location \in {b.location, b.destination}
    BY <2>1, <2>2, TickTraced DEF BoardInv
  <2>4. ArmyIsVisible(state, p, b)
    BY <2>3 DEF ArmyIsVisible, VisibleCities
  <2>5. ProjectArmy(state, p, b) \in ProjectAgentState(state, p).armies
    BY <2>4 DEF ProjectAgentState, VisibleArmies
  <2>6. /\ ProjectArmy(state, p, b).id = b.id
        /\ ProjectArmy(state, p, b).location = b.location
        /\ ProjectArmy(state, p, b).destination = b.destination
    BY DEF ProjectArmy
  <2> QED BY <2>3, <2>5, <2>6
<1> QED BY <1>1, BoardInductive, PTL DEF Spec, EarlyWarning

\* What the code computes of who is allied and what is in sight, in the words of the design.
LEMMA InSightIsVisible ==
    ASSUME NEW s, NEW p \in Players
    PROVE  /\ AlliedPlayerIds(s, p) = Side(s, p)
           /\ FullVisibilityCities(s, p) = Held(s, p)
           /\ VisibleCities(s, p) = InSight(s, p)
<1>1. AlliedPlayerIds(s, p) = Side(s, p)
  BY DEF AlliedPlayerIds, Side, Allied
<1>2. FullVisibilityCities(s, p) = Held(s, p)
  BY <1>1 DEF FullVisibilityCities, Held
<1>3. VisibleCities(s, p) = InSight(s, p)
  <2>1. Held(s, p) \subseteq Cities
    BY DEF Held
  <2>2. ASSUME NEW d PROVE d \in AdjacentCities(Held(s, p)) => d \in InSight(s, p)
    BY DEF AdjacentCities, Neighbours, InSight
  <2>3. ASSUME NEW d \in Cities, NEW e \in Edges, d \in e.ends, e.ends \cap Held(s, p) # {}
        PROVE  d \in Held(s, p) \cup AdjacentCities(Held(s, p))
    <3>1. PICK x \in Cities, y \in Cities : e.ends = {x, y}
      BY EdgesAssumption
    <3>2. PICK c \in Held(s, p) : c \in e.ends
      BY <2>3
    <3>3. d = c \/ e.ends = {c, d}
      BY <2>3, <3>1, <3>2
    <3>4. e.ends = {c, d} => d \in Neighbours(c)
      BY DEF Neighbours
    <3> QED BY <3>2, <3>3, <3>4 DEF AdjacentCities
  <2> QED BY <1>2, <2>2, <2>3 DEF VisibleCities, InSight
<1> QED BY <1>1, <1>2, <1>3

\* The side of a player sees alike.
LEMMA AlliesSeeAlike ==
    ASSUME NEW s, NEW p \in Players, NEW q \in Players, Allied(s, p, q)
    PROVE  /\ ProjectAgentState(s, p).cities = ProjectAgentState(s, q).cities
           /\ VisibleArmies(s, p) = VisibleArmies(s, q)
<1>1. AlliedPlayerIds(s, p) = AlliedPlayerIds(s, q)
  BY DEF AlliedPlayerIds, Allied
<1>2. /\ FullVisibilityCities(s, p) = FullVisibilityCities(s, q)
      /\ VisibleCities(s, p) = VisibleCities(s, q)
  BY <1>1 DEF FullVisibilityCities, VisibleCities
<1>3. \A c \in Cities : ProjectCity(s, p, c) = ProjectCity(s, q, c)
  BY <1>2 DEF ProjectCity
<1>4. \A a : ProjectArmy(s, p, a) = ProjectArmy(s, q, a) /\ (ArmyIsVisible(s, p, a) <=> ArmyIsVisible(s, q, a))
  BY <1>1, <1>2 DEF ProjectArmy, ArmyIsVisible
<1>5. \A c \in VisibleCities(s, p) : c \in Cities
  BY DEF VisibleCities, FullVisibilityCities, AdjacentCities, Neighbours
<1>6. ProjectAgentState(s, p).cities = ProjectAgentState(s, q).cities
  BY <1>2, <1>3, <1>5 DEF ProjectAgentState
<1>7. VisibleArmies(s, p) = VisibleArmies(s, q)
  BY <1>4 DEF VisibleArmies
<1> QED BY <1>6, <1>7

\* A player is shown the same of a state and of that state with the hidden parts erased.
LEMMA ErasedLooksTheSame ==
    ASSUME NEW s, Shaped(s), Peopled(s), NEW p \in Players
    PROVE  ProjectAgentState(s, p) = ProjectAgentState(Erased(s, p), p)
<1> DEFINE t == Erased(s, p)
           kept == {b \in s.armies : \/ b.owner \in Side(s, p)
                                     \/ {b.location, b.destination} \cap InSight(s, p) # {}}
           Masked(a) == IF a.owner \in Side(s, p) THEN a ELSE [a EXCEPT !.troops = 1]
<1>1. /\ t.resources[p] = s.resources[p]
      /\ t.alliance = [q \in Players |-> IF q \in Side(s, p) THEN s.alliance[q] ELSE None]
      /\ t.owner = [c \in Cities |-> IF c \in InSight(s, p) THEN s.owner[c] ELSE None]
      /\ \A c \in Held(s, p) : c \in Cities => t.upgrades[c] = s.upgrades[c] /\ t.queue[c] = s.queue[c]
      /\ t.armies = {Masked(a) : a \in kept}
  <2> HIDE DEF Masked, kept
  <2>1. t = [s EXCEPT
        !.resources = [q \in Players |-> IF q = p THEN @[q] ELSE StartingResources],
        !.alliance = [q \in Players |-> IF q \in Side(s, p) THEN @[q] ELSE None],
        !.owner = [c \in Cities |-> IF c \in InSight(s, p) THEN @[c] ELSE None],
        !.upgrades = [c \in Cities |-> IF c \in Held(s, p) THEN @[c] ELSE [k \in Tracks |-> 0]],
        !.queue = [c \in Cities |-> IF c \in Held(s, p) THEN @[c] ELSE <<>>],
        !.armies = {Masked(a) : a \in kept}]
    BY DEF Erased, Masked, kept
  <2> HIDE DEF t
  <2> QED BY <2>1 DEF Shaped, Fields
<1> HIDE DEF t
<1>2. p \in Side(s, p) /\ Side(s, p) \subseteq Players
  BY DEF Side
<1>3. Side(t, p) = Side(s, p)
  BY <1>1, <1>2 DEF Side, Allied
<1>4. Held(t, p) = Held(s, p)
  <2>1. Held(s, p) \subseteq InSight(s, p)
    BY DEF InSight
  <2>2. None \notin Side(s, p)
    BY <1>2, NoneAssumption
  <2> QED BY <1>1, <1>3, <2>1, <2>2 DEF Held
<1>5. InSight(t, p) = InSight(s, p)
  BY <1>4 DEF InSight
<1>6. /\ AlliedPlayerIds(t, p) = AlliedPlayerIds(s, p)
      /\ FullVisibilityCities(t, p) = FullVisibilityCities(s, p)
      /\ VisibleCities(t, p) = VisibleCities(s, p)
  BY <1>3, <1>4, <1>5, InSightIsVisible
<1>7. \A c \in VisibleCities(s, p) : ProjectCity(t, p, c) = ProjectCity(s, p, c)
  <2>1. VisibleCities(s, p) = InSight(s, p) /\ FullVisibilityCities(s, p) = Held(s, p)
    BY InSightIsVisible
  <2>2. InSight(s, p) \subseteq Cities
    BY DEF InSight, Held
  <2> QED BY <1>1, <1>6, <2>1, <2>2 DEF ProjectCity
<1>8. kept = {b \in s.armies : ArmyIsVisible(s, p, b)}
  BY InSightIsVisible DEF ArmyIsVisible
<1>9. \A a \in kept : /\ ArmyIsVisible(t, p, Masked(a))
                      /\ ProjectArmy(t, p, Masked(a)) = ProjectArmy(s, p, a)
  <2>1. \A a \in kept : /\ Masked(a).id = a.id /\ Masked(a).owner = a.owner
                        /\ Masked(a).location = a.location /\ Masked(a).destination = a.destination
                        /\ Masked(a).ticks = a.ticks
                        /\ a.owner \in Side(s, p) => Masked(a).troops = a.troops
    BY DEF Shaped, IsArmy, ArmyFields
  <2>2. AlliedPlayerIds(s, p) = Side(s, p)
    BY InSightIsVisible
  <2> HIDE DEF Masked
  <2>3. \A a \in kept : ArmyIsVisible(t, p, Masked(a))
    BY <1>6, <1>8, <2>1 DEF ArmyIsVisible
  <2>4. \A a \in kept : ProjectArmy(t, p, Masked(a)) = ProjectArmy(s, p, a)
    BY <1>6, <2>1, <2>2 DEF ProjectArmy
  <2> QED BY <2>3, <2>4
<1>10. VisibleArmies(t, p) = VisibleArmies(s, p)
  <2> HIDE DEF Masked, kept
  <2> QED BY <1>1, <1>8, <1>9 DEF VisibleArmies
<1>11. t.alliance[p] = s.alliance[p]
  BY <1>1, <1>2
<1>12. ProjectAgentState(t, p) = ProjectAgentState(s, p)
  BY <1>1, <1>6, <1>7, <1>10, <1>11 DEF ProjectAgentState
<1> QED BY <1>12 DEF t

\* For every map and every course of a match, the fog hides what it should and shows what it
\* must (project_agent_state).
THEOREM FogIsRight == Spec => FogHolds
<1>1. BoardInv => FogHides /\ AlliesShareOneMap
  BY ErasedLooksTheSame, AlliesSeeAlike DEF BoardInv, FogHides, AlliesShareOneMap
<1> QED BY <1>1, BoardInductive, ArmiesAreSeenComing, PTL DEF FogHolds
-----------------------------------------------------------------------------
(* What each phase leaves alone.                                           *)

OnlyChanges(s, t, F) == Shaped(t) /\ \A f \in Fields \ F : t[f] = s[f]

LEMMA ResourceChanges ==
    ASSUME NEW s, Shaped(s) PROVE OnlyChanges(s, ResolveResourcePhase(s), {"resources"})
<1> DEFINE t == ResolveResourcePhase(s)
<1>1. PICK x : t = [s EXCEPT !.resources = x]
  BY DEF ResolveResourcePhase
<1>2. Shaped(t)
  BY ResourceQuiet DEF Quiet
<1> HIDE DEF t
<1>3. OnlyChanges(s, t, {"resources"})
  BY <1>1, <1>2 DEF OnlyChanges, Shaped, Fields
<1> QED BY <1>3 DEF t

LEMMA QueuesChange ==
    ASSUME NEW s, Shaped(s) PROVE OnlyChanges(s, AdvanceBuildQueues(s), {"upgrades", "queue"})
<1> DEFINE t == AdvanceBuildQueues(s)
<1>1. PICK x, y : t = [s EXCEPT !.upgrades = x, !.queue = y]
  BY DEF AdvanceBuildQueues
<1>2. Shaped(t)
  BY QueuesQuiet DEF Quiet
<1> HIDE DEF t
<1>3. OnlyChanges(s, t, {"upgrades", "queue"})
  BY <1>1, <1>2 DEF OnlyChanges, Shaped, Fields
<1> QED BY <1>3 DEF t

LEMMA RecruitmentChanges ==
    ASSUME NEW s, NEW orders, Shaped(s)
    PROVE  OnlyChanges(s, ProcessRecruitment(s, orders), {"resources", "armies"})
<1> DEFINE t == ProcessRecruitment(s, orders)
<1>1. PICK x, y : t = [s EXCEPT !.resources = x, !.armies = y]
  BY DEF ProcessRecruitment
<1>2. Shaped(t)
  BY RecruitmentQuiet DEF Quiet
<1> HIDE DEF t
<1>3. OnlyChanges(s, t, {"resources", "armies"})
  BY <1>1, <1>2 DEF OnlyChanges, Shaped, Fields
<1> QED BY <1>3 DEF t

LEMMA UpgradesChange ==
    ASSUME NEW s, NEW atStart, NEW orders, Shaped(s)
    PROVE  OnlyChanges(s, StartUpgrades(s, atStart, orders), {"resources", "queue"})
<1> DEFINE t == StartUpgrades(s, atStart, orders)
<1>1. PICK x, y : t = [s EXCEPT !.resources = x, !.queue = y]
  BY DEF StartUpgrades
<1>2. Shaped(t)
  BY UpgradesQuiet DEF Quiet
<1> HIDE DEF t
<1>3. OnlyChanges(s, t, {"resources", "queue"})
  BY <1>1, <1>2 DEF OnlyChanges, Shaped, Fields
<1> QED BY <1>3 DEF t

LEMMA TransfersChange ==
    ASSUME NEW s, NEW orders, Shaped(s)
    PROVE  OnlyChanges(s, ProcessTransfers(s, orders), {"resources"})
<1> DEFINE t == ProcessTransfers(s, orders)
<1>1. PICK x : t = [s EXCEPT !.resources = x]
  BY DEF ProcessTransfers
<1>2. Shaped(t)
  BY TransfersQuiet DEF Quiet
<1> HIDE DEF t
<1>3. OnlyChanges(s, t, {"resources"})
  BY <1>1, <1>2 DEF OnlyChanges, Shaped, Fields
<1> QED BY <1>3 DEF t

LEMMA TransitChanges ==
    ASSUME NEW s, Shaped(s) PROVE OnlyChanges(s, AdvanceTransit(s), {"armies"})
<1> DEFINE Closer(b) == IF b.destination = None THEN b
                        ELSE IF b.ticks = 1
                             THEN [b EXCEPT !.location = b.destination, !.destination = None, !.ticks = 0]
                             ELSE [b EXCEPT !.ticks = @ - 1]
           t == AdvanceTransit(s)
<1>1. t = [s EXCEPT !.armies = {Closer(b) : b \in s.armies}]
  BY DEF AdvanceTransit
<1>2. \A b \in s.armies : IsArmy(Closer(b))
  BY DEF Shaped, IsArmy, ArmyFields
<1> HIDE DEF t, Closer
<1>3. OnlyChanges(s, t, {"armies"})
  BY <1>1, <1>2 DEF OnlyChanges, Shaped, Fields
<1> QED BY <1>3 DEF t

LEMMA MarchChanges ==
    ASSUME NEW s, NEW orders, Shaped(s) PROVE OnlyChanges(s, StartMovements(s, orders), {"armies"})
<1> DEFINE To(b) == (CHOOSE o \in MovesOf(orders, b) : TRUE).destination
           Far(b) == Distance(b.location, To(b))
           Marched(b) == IF Ordered(orders, b)
                         THEN [b EXCEPT !.location = None, !.destination = To(b), !.ticks = Far(b)]
                         ELSE b
           t == StartMovements(s, orders)
<1>1. t = [s EXCEPT !.armies = {Marched(b) : b \in s.armies}]
  BY DEF StartMovements
<1>2. \A b \in s.armies : IsArmy(Marched(b))
  <2> HIDE DEF To, Far
  <2> QED BY DEF Shaped, IsArmy, ArmyFields
<1> HIDE DEF t, Marched
<1>3. OnlyChanges(s, t, {"armies"})
  BY <1>1, <1>2 DEF OnlyChanges, Shaped, Fields
<1> QED BY <1>3 DEF t

LEMMA CombatChanges ==
    ASSUME NEW s, Shaped(s) PROVE OnlyChanges(s, ResolveContestedCities(s), {"armies"})
<1> DEFINE t == ResolveContestedCities(s)
<1>1. PICK x : t = [s EXCEPT !.armies = x]
  BY DEF ResolveContestedCities
<1>2. Shaped(t)
  BY LossesOnly
<1> HIDE DEF t
<1>3. OnlyChanges(s, t, {"armies"})
  BY <1>1, <1>2 DEF OnlyChanges, Shaped, Fields
<1> QED BY <1>3 DEF t

LEMMA ControlChanges ==
    ASSUME NEW s, Shaped(s), Peopled(s), Listed(s)
    PROVE  OnlyChanges(s, TransferUncontestedControl(s), {"owner", "owned"})
<1> DEFINE t == TransferUncontestedControl(s)
<1>1. PICK x, y : t = [s EXCEPT !.owner = x, !.owned = y]
  BY DEF TransferUncontestedControl
<1>2. Shaped(t)
  BY ControlListed
<1> HIDE DEF t
<1>3. OnlyChanges(s, t, {"owner", "owned"})
  BY <1>1, <1>2 DEF OnlyChanges, Shaped, Fields
<1> QED BY <1>3 DEF t

LEMMA DegradedChanges ==
    ASSUME NEW s, NEW cities, Shaped(s) PROVE OnlyChanges(s, Degraded(s, cities), {"upgrades"})
<1> DEFINE t == Degraded(s, cities)
<1>1. PICK x : t = [s EXCEPT !.upgrades = x]
  BY DEF Degraded
<1>2. Shaped(t)
  BY DegradedOnly
<1> HIDE DEF t
<1>3. OnlyChanges(s, t, {"upgrades"})
  BY <1>1, <1>2 DEF OnlyChanges, Shaped, Fields
<1> QED BY <1>3 DEF t
-----------------------------------------------------------------------------
(* What is kept of a list.                                                 *)

\* g[i] is what is kept of the first i elements of s.
Keeps(g, s, K, n) == g = [i \in 0..n |-> IF i = 0 THEN <<>> ELSE AppendIf(g[i - 1], s[i], K)]

LEMMA KeepsExists ==
    ASSUME NEW N \in Nat, NEW s, NEW K
    PROVE  \E g : Keeps(g, s, K, N)
<1> DEFINE G == {n \in 0..N : \E g : Keeps(g, s, K, n)}
<1>1. 0 \in G
  <2> DEFINE g == [i \in 0..0 |-> <<>>]
  <2>1. Keeps(g, s, K, 0)
    BY DEF Keeps
  <2> HIDE DEF g
  <2> QED BY <2>1
<1>2. ASSUME NEW n \in 0..(N - 1), n \in G PROVE n + 1 \in G
  <2>1. PICK g : Keeps(g, s, K, n)
    BY <1>2
  <2>2. \A i \in 0..n : g[i] = IF i = 0 THEN <<>> ELSE AppendIf(g[i - 1], s[i], K)
    BY <2>1 DEF Keeps
  <2> DEFINE h == [i \in 0..(n + 1) |-> IF i = n + 1 THEN AppendIf(g[n], s[n + 1], K) ELSE g[i]]
  <2>3. \A i \in 0..(n + 1) : h[i] = IF i = 0 THEN <<>> ELSE AppendIf(h[i - 1], s[i], K)
    BY <2>2
  <2>4. h = [i \in 0..(n + 1) |-> h[i]]
    OBVIOUS
  <2> HIDE DEF h
  <2>5. Keeps(h, s, K, n + 1)
    BY <2>3, <2>4 DEF Keeps
  <2> QED BY <2>5
<1>3. N \in G
  <2> HIDE DEF G
  <2> QED BY <1>1, <1>2, UpToInduction
<1> QED BY <1>3

\* What is kept of a list, one element after the other.
LEMMA OnlyIsKept ==
    ASSUME NEW s, Len(s) \in Nat, NEW K
    PROVE  \E g : Only(s, K) = g[Len(s)] /\ g[0] = <<>> /\ \A i \in 1..Len(s) : g[i] = AppendIf(g[i - 1], s[i], K)
<1> DEFINE N == Len(s)
           kept == CHOOSE g : Keeps(g, s, K, N)
<1>1. Only(s, K) = kept[N]
  BY DEF Only, Keeps
<1>2. Keeps(kept, s, K, N)
  BY KeepsExists
<1> HIDE DEF kept
<1>3. kept[0] = <<>> /\ \A i \in 1..N : kept[i] = AppendIf(kept[i - 1], s[i], K)
  BY <1>2 DEF Keeps
<1> QED BY <1>1, <1>3

LEMMA OnlyKeeps ==
    ASSUME NEW T, NEW s \in Seq(T), NEW K
    PROVE  /\ Only(s, K) \in Seq(T \cap K)
           /\ \E at \in [DOMAIN Only(s, K) -> DOMAIN s] :
                  /\ \A i \in DOMAIN Only(s, K) : Only(s, K)[i] = s[at[i]]
                  /\ \A i, j \in DOMAIN Only(s, K) : at[i] = at[j] => i = j
<1> DEFINE N == Len(s)
<1>1. N \in Nat /\ DOMAIN s = 1..N /\ \A i \in 1..N : s[i] \in T
  OBVIOUS
<1>2. PICK kept : Only(s, K) = kept[N] /\ kept[0] = <<>> /\ \A i \in 1..N : kept[i] = AppendIf(kept[i - 1], s[i], K)
  BY OnlyIsKept
<1> DEFINE Good(n) == /\ kept[n] \in Seq(T \cap K)
                      /\ \E at \in [1..Len(kept[n]) -> 1..n] :
                             /\ \A i \in 1..Len(kept[n]) : kept[n][i] = s[at[i]]
                             /\ \A i, j \in 1..Len(kept[n]) : at[i] = at[j] => i = j
           G == {n \in 0..N : Good(n)}
<1>4. 0 \in G
  <2>1. kept[0] = <<>> /\ kept[0] \in Seq(T \cap K)
    BY <1>2
  <2>2. 1..Len(kept[0]) = {}
    BY <2>1
  <2>3. [i \in {} |-> 0] \in [1..Len(kept[0]) -> 1..0] 
    BY <2>2
  <2>4. Good(0)
    BY <2>1, <2>2, <2>3
  <2> HIDE DEF Good
  <2> QED BY <1>1, <2>4
<1>5. ASSUME NEW n \in 0..(N - 1), n \in G PROVE n + 1 \in G
  <2> DEFINE q == kept[n]
             m == n + 1
             r == kept[m]
  <2>1. m \in 1..N /\ m - 1 = n /\ s[m] \in T
    BY <1>1
  <2>2. r = AppendIf(q, s[m], K)
    <3> HIDE DEF m, N
    <3> QED BY <1>2, <2>1
  <2>3. q \in Seq(T \cap K)
    BY <1>5
  <2>4. PICK at \in [1..Len(q) -> 1..n] : /\ \A i \in 1..Len(q) : q[i] = s[at[i]]
                                          /\ \A i, j \in 1..Len(q) : at[i] = at[j] => i = j
    BY <1>5
  <2> HIDE DEF q, r
  <2>5. CASE s[m] \in K
    <3>1. r = Append(q, s[m]) /\ r \in Seq(T \cap K) /\ Len(r) = Len(q) + 1
      BY <2>1, <2>2, <2>3, <2>5 DEF AppendIf
    <3> DEFINE to == [i \in 1..Len(r) |-> IF i = Len(r) THEN m ELSE at[i]]
    <3>2. to \in [1..Len(r) -> 1..m]
      BY <2>1, <2>3, <2>4, <3>1
    <3>3. \A i \in 1..Len(r) : r[i] = s[to[i]]
      BY <2>1, <2>3, <2>4, <3>1
    <3>4. \A i, j \in 1..Len(r) : to[i] = to[j] => i = j
      <4>1. Len(q) \in Nat
        BY <2>3
      <4>2. \A i \in 1..Len(q) : at[i] # m
        BY <2>1, <2>4
      <4>3. \A i \in 1..Len(r) : i = Len(r) \/ i \in 1..Len(q)
        BY <3>1, <4>1
      <4> HIDE DEF m
      <4> QED BY <2>4, <4>2, <4>3
    <3> HIDE DEF to, m
    <3>5. Good(m)
      BY <3>1, <3>2, <3>3, <3>4 DEF r
    <3> HIDE DEF Good
    <3> QED BY <2>1, <3>5 DEF m
  <2>6. CASE s[m] \notin K
    <3>1. r = q
      BY <2>2, <2>6 DEF AppendIf
    <3>2. at \in [1..Len(q) -> 1..m]
      BY <2>1, <2>4
    <3> HIDE DEF m
    <3>3. Good(m)
      BY <2>3, <2>4, <3>1, <3>2 DEF r
    <3> HIDE DEF Good
    <3> QED BY <2>1, <3>3 DEF m
  <2> QED BY <2>5, <2>6
<1>6. N \in G
  <2> HIDE DEF G, N
  <2> QED BY <1>1, <1>4, <1>5, UpToInduction
<1>7. Good(N)
  BY <1>6
<1>8. Only(s, K) \in Seq(T \cap K) /\ DOMAIN Only(s, K) = 1..Len(kept[N])
  BY <1>2, <1>7
<1>9. PICK at \in [1..Len(kept[N]) -> 1..N] :
          /\ \A i \in 1..Len(kept[N]) : kept[N][i] = s[at[i]]
          /\ \A i, j \in 1..Len(kept[N]) : at[i] = at[j] => i = j
  BY <1>7
<1> HIDE DEF N, G, Good
<1>10. at \in [DOMAIN Only(s, K) -> DOMAIN s]
  BY <1>1, <1>8
<1>11. \A i \in DOMAIN Only(s, K) : Only(s, K)[i] = s[at[i]]
  BY <1>2, <1>8, <1>9
<1>12. \A i, j \in DOMAIN Only(s, K) : at[i] = at[j] => i = j
  BY <1>8, <1>9
<1> QED BY <1>8, <1>10, <1>11, <1>12, Zenon
-----------------------------------------------------------------------------
(* What validation accepts.                                                *)

\* g[n] is what is accepted of the first n orders.
Weighs(g, orders, budget, allowed, repeats, cost, N) ==
    g = [n \in 0..N |-> IF n = 0 THEN [accepted |-> <<>>, budget |-> budget]
                        ELSE Weighed(g[n - 1], orders[n], allowed, repeats, cost)]

LEMMA WeighsExists ==
    ASSUME NEW N \in Nat, NEW orders, NEW budget, NEW allowed, NEW repeats, NEW cost
    PROVE  \E g : Weighs(g, orders, budget, allowed, repeats, cost, N)
<1> DEFINE none == [accepted |-> <<>>, budget |-> budget]
           After(acc, n) == Weighed(acc, orders[n], allowed, repeats, cost)
           W(g, n) == Weighs(g, orders, budget, allowed, repeats, cost, n)
           G == {n \in 0..N : \E g : W(g, n)}
<1>1. 0 \in G
  <2> DEFINE g == [i \in 0..0 |-> none]
  <2>1. W(g, 0)
    BY DEF Weighs
  <2> HIDE DEF g, W
  <2> QED BY <2>1
<1>2. ASSUME NEW n \in 0..(N - 1), n \in G PROVE n + 1 \in G
  <2>1. PICK g : W(g, n)
    BY <1>2
  <2>2. \A i \in 0..n : g[i] = IF i = 0 THEN none ELSE After(g[i - 1], i)
    BY <2>1 DEF Weighs
  <2> DEFINE h == [i \in 0..(n + 1) |-> IF i = n + 1 THEN After(g[n], n + 1) ELSE g[i]]
  <2>3. \A i \in 0..(n + 1) : h[i] = IF i = 0 THEN none ELSE After(h[i - 1], i)
    <3> HIDE DEF none, After
    <3> QED BY <2>2
  <2>4. h = [i \in 0..(n + 1) |-> h[i]]
    OBVIOUS
  <2>5. W(h, n + 1)
    <3> HIDE DEF h
    <3>1. h = [i \in 0..(n + 1) |-> IF i = 0 THEN none ELSE After(h[i - 1], i)]
      <4> HIDE DEF none, After
      <4> QED BY <2>3, <2>4
    <3> QED BY <3>1 DEF Weighs
  <2> HIDE DEF h, W
  <2> QED BY <2>5
<1>3. N \in G
  <2> HIDE DEF G
  <2> QED BY <1>1, <1>2, UpToInduction
<1> HIDE DEF W
<1>4. \E g : W(g, N)
  BY <1>3
<1> QED BY <1>4 DEF W

\* What is admitted of a list is what weighing its orders one after the other comes to.
LEMMA AdmitWeighs ==
    ASSUME NEW orders, Len(orders) \in Nat, NEW budget, NEW allowed, NEW repeats, NEW cost
    PROVE  \E g : /\ Admit(orders, budget, allowed, repeats, cost) = g[Len(orders)]
                  /\ Weighs(g, orders, budget, allowed, repeats, cost, Len(orders))
<1> DEFINE N == Len(orders)
           after == CHOOSE g : Weighs(g, orders, budget, allowed, repeats, cost, N)
<1>1. Admit(orders, budget, allowed, repeats, cost) = after[N]
  BY DEF Admit, Weighs
<1>2. Weighs(after, orders, budget, allowed, repeats, cost, N)
  BY WeighsExists
<1> HIDE DEF after
<1> QED BY <1>1, <1>2

RepeatsNone(o, accepted, repeats) == \A i \in DOMAIN accepted : <<accepted[i], o>> \notin repeats

\* An order is either passed over or accepted and paid for.
LEMMA WeighedCases ==
    ASSUME NEW acc, NEW o, NEW allowed, NEW repeats, NEW cost,
           NEW next, next = Weighed(acc, o, allowed, repeats, cost)
    PROVE  \/ next = acc
           \/ /\ o \in allowed
              /\ RepeatsNone(o, acc.accepted, repeats)
              /\ CanAfford(acc.budget, cost[o])
              /\ next.accepted = Append(acc.accepted, o)
              /\ \A good \in Goods : next.budget[good] = acc.budget[good] - cost[o][good]
<1> DEFINE a == Append(acc.accepted, o)
           b == [g \in Goods |-> acc.budget[g] - cost[o][g]]
           ok == /\ o \in allowed
                 /\ \A i \in DOMAIN acc.accepted : <<acc.accepted[i], o>> \notin repeats
                 /\ CanAfford(acc.budget, cost[o])
<1>1. next = IF ok THEN [accepted |-> a, budget |-> b] ELSE acc
  BY DEF Weighed
<1>2. \A good \in Goods : b[good] = acc.budget[good] - cost[o][good]
  OBVIOUS
<1>3. CASE ok
  <2> HIDE DEF a, b
  <2>1. next.accepted = a /\ next.budget = b
    <3> HIDE DEF ok
    <3> QED BY <1>1, <1>3
  <2> QED BY <1>2, <1>3, <2>1 DEF a, RepeatsNone
<1>4. CASE ~ok
  <2> HIDE DEF ok
  <2> QED BY <1>1, <1>4
<1> QED BY <1>3, <1>4

LEMMA AppendFacts ==
    ASSUME NEW T, NEW a \in Seq(T), NEW o, o \in T
    PROVE  /\ Append(a, o) \in Seq(T)
           /\ Len(a) \in Nat
           /\ DOMAIN a = 1..Len(a)
           /\ DOMAIN Append(a, o) = 1..(Len(a) + 1)
           /\ Len(Append(a, o)) = Len(a) + 1
           /\ Append(a, o)[Len(a) + 1] = o
           /\ \A i \in 1..Len(a) : Append(a, o)[i] = a[i] /\ a[i] \in T
OBVIOUS

\* Only orders that are allowed are accepted, and none that repeats another.
LEMMA AdmittedAreAllowed ==
    ASSUME NEW T, NEW orders \in Seq(T), NEW budget, NEW allowed, NEW repeats, NEW cost
    PROVE  LET accepted == Admit(orders, budget, allowed, repeats, cost).accepted
           IN  /\ accepted \in Seq(T \cap allowed)
               /\ \A i, j \in DOMAIN accepted : i < j => <<accepted[i], accepted[j]>> \notin repeats
<1> DEFINE N == Len(orders)
<1>1. N \in Nat /\ \A i \in 1..N : orders[i] \in T
  OBVIOUS
<1>w. PICK g : /\ Admit(orders, budget, allowed, repeats, cost) = g[N]
               /\ Weighs(g, orders, budget, allowed, repeats, cost, N)
  <2>1. Len(orders) \in Nat
    BY <1>1
  <2> QED BY <2>1, AdmitWeighs, Zenon
<1>2. /\ Admit(orders, budget, allowed, repeats, cost) = g[N]
      /\ g[0] = [accepted |-> <<>>, budget |-> budget]
      /\ \A n \in 1..N : g[n] = Weighed(g[n - 1], orders[n], allowed, repeats, cost)
  <2> HIDE DEF N
  <2>1. Weighs(g, orders, budget, allowed, repeats, cost, N)
    BY <1>w, Zenon
  <2>2. /\ g[0] = [accepted |-> <<>>, budget |-> budget]
        /\ \A n \in 1..N : g[n] = Weighed(g[n - 1], orders[n], allowed, repeats, cost)
    BY <1>1, <2>1 DEF Weighs
  <2> QED BY <1>w, <2>2, Zenon
<1> DEFINE Good(a) == /\ a \in Seq(T \cap allowed)
                      /\ \A i, j \in 1..Len(a) : i < j => <<a[i], a[j]>> \notin repeats
           G == {n \in 0..N : Good(g[n].accepted)}
<1>3. 0 \in G
  <2>1. g[0].accepted = <<>>
    BY <1>2
  <2>2. Good(<<>>)
    OBVIOUS
  <2> HIDE DEF Good
  <2> QED BY <1>1, <2>1, <2>2
<1>4. ASSUME NEW n \in 0..(N - 1), n \in G PROVE n + 1 \in G
  <2> DEFINE a == g[n].accepted
             o == orders[n + 1]
             b == g[n + 1].accepted
  <2>1. n + 1 \in 1..N /\ (n + 1) - 1 = n /\ o \in T
    BY <1>1
  <2>2. Good(a)
    BY <1>4
  <2>3. g[n + 1] = Weighed(g[n], o, allowed, repeats, cost)
    <3> HIDE DEF N
    <3> QED BY <1>2, <2>1
  <2>4. \/ b = a
        \/ /\ b = Append(a, o) /\ o \in allowed
           /\ \A i \in DOMAIN a : <<a[i], o>> \notin repeats
    <3> DEFINE r == g[n]
               q == g[n + 1]
    <3> HIDE DEF r, q, o
    <3>1. q = Weighed(r, o, allowed, repeats, cost)
      BY <2>3 DEF r, q
    <3>2. \/ q = r
          \/ /\ o \in allowed /\ q.accepted = Append(r.accepted, o)
             /\ RepeatsNone(o, r.accepted, repeats)
      BY <3>1, WeighedCases
    <3> QED BY <3>2 DEF r, q, RepeatsNone
  <2> HIDE DEF a, b, o
  <2>5. Good(b)
    <3>1. CASE b = a
      BY <2>2, <3>1
    <3>2. CASE /\ b = Append(a, o) /\ o \in allowed
               /\ \A i \in DOMAIN a : <<a[i], o>> \notin repeats
      <4> DEFINE K == T \cap allowed
      <4>a. a \in Seq(K) /\ o \in K
        BY <2>1, <2>2, <3>2
      <4> HIDE DEF K
      <4>1. /\ b \in Seq(K) /\ Len(b) = Len(a) + 1 /\ DOMAIN a = 1..Len(a) /\ Len(a) \in Nat
            /\ b[Len(a) + 1] = o /\ \A i \in 1..Len(a) : b[i] = a[i]
        BY <3>2, <4>a, AppendFacts
      <4>2. ASSUME NEW i \in 1..Len(b), NEW j \in 1..Len(b), i < j PROVE <<b[i], b[j]>> \notin repeats
        <5>1. CASE j = Len(a) + 1
          BY <3>2, <4>1, <4>2, <5>1
        <5>2. CASE j # Len(a) + 1
          <6>1. i \in 1..Len(a) /\ j \in 1..Len(a)
            BY <4>1, <4>2, <5>2
          <6> QED BY <2>2, <4>1, <4>2, <6>1
        <5> QED BY <5>1, <5>2
      <4> QED BY <4>1, <4>2 DEF K
    <3> QED BY <2>4, <3>1, <3>2
  <2> HIDE DEF Good
  <2>6. n + 1 \in 0..N
    BY <1>1
  <2> QED BY <2>5, <2>6 DEF b
<1>5. N \in G
  <2> HIDE DEF G, N, Good
  <2>1. N \in Nat
    BY <1>1
  <2>2. \A n \in 0..(N - 1) : n \in G => n + 1 \in G
    BY <1>4
  <2>3. \A n \in 0..N : n \in G
    BY <1>3, <2>1, <2>2, UpToInduction
  <2> QED BY <2>1, <2>3
<1>6. Good(g[N].accepted)
  BY <1>5
<1> DEFINE all == g[N].accepted
<1>7. DOMAIN all = 1..Len(all)
  <2> HIDE DEF all
  <2> QED BY <1>6 DEF all
<1> HIDE DEF N, G
<1>8. /\ all \in Seq(T \cap allowed)
      /\ \A i, j \in DOMAIN all : i < j => <<all[i], all[j]>> \notin repeats
  BY <1>6, <1>7
<1>9. Admit(orders, budget, allowed, repeats, cost).accepted = all
  <2> HIDE DEF Good
  <2> QED BY <1>2 DEF all, N
<1> HIDE DEF all, Good
<1> QED BY <1>8, <1>9

\* What a list of accepted orders costs of one good.
Due(accepted, cost, good) == SumFunction([i \in DOMAIN accepted |-> cost[accepted[i]][good]])

\* What there is of a good is left alone, or something is paid out of what covers it.
Left(rest, whole) == rest \in Int /\ (rest = whole \/ rest >= 0)

\* What is accepted is paid for: the budget is left with the difference.
LEMMA AdmittedAreCovered ==
    ASSUME NEW T, NEW orders \in Seq(T), NEW budget, NEW allowed, NEW repeats, NEW cost,
           NEW good \in Goods, budget[good] \in Int, \A o \in T : cost[o][good] \in Nat
    PROVE  LET r == Admit(orders, budget, allowed, repeats, cost)
           IN  /\ Left(r.budget[good], budget[good])
               /\ r.budget[good] + Due(r.accepted, cost, good) = budget[good]
<1> DEFINE N == Len(orders)
<1>1. N \in Nat /\ \A i \in 1..N : orders[i] \in T
  OBVIOUS
<1>w. PICK g : /\ Admit(orders, budget, allowed, repeats, cost) = g[N]
               /\ Weighs(g, orders, budget, allowed, repeats, cost, N)
  <2>1. Len(orders) \in Nat
    BY <1>1
  <2> QED BY <2>1, AdmitWeighs, Zenon
<1>2. /\ Admit(orders, budget, allowed, repeats, cost) = g[N]
      /\ g[0] = [accepted |-> <<>>, budget |-> budget]
      /\ \A n \in 1..N : g[n] = Weighed(g[n - 1], orders[n], allowed, repeats, cost)
  <2> HIDE DEF N
  <2>1. Weighs(g, orders, budget, allowed, repeats, cost, N)
    BY <1>w, Zenon
  <2>2. /\ g[0] = [accepted |-> <<>>, budget |-> budget]
        /\ \A n \in 1..N : g[n] = Weighed(g[n - 1], orders[n], allowed, repeats, cost)
    BY <1>1, <2>1 DEF Weighs
  <2> QED BY <1>w, <2>2, Zenon
<1> DEFINE Price(a) == [i \in DOMAIN a |-> cost[a[i]][good]]
           Good(r) == /\ r.accepted \in Seq(T) /\ Left(r.budget[good], budget[good])
                      /\ r.budget[good] + SumFunction(Price(r.accepted)) = budget[good]
           G == {n \in 0..N : Good(g[n])}
<1>3. 0 \in G
  <2>1. g[0].accepted = <<>> /\ g[0].budget = budget
    BY <1>2
  <2>2. DOMAIN Price(<<>>) = {}
    OBVIOUS
  <2>3. SumFunction(Price(<<>>)) = 0
    <3> HIDE DEF Price
    <3>1. SumFunction(Price(<<>>)) = SumFunctionOnSet(Price(<<>>), {})
      BY <2>2 DEF SumFunction
    <3> QED BY <3>1, SumEmpty
  <2>4. Good(g[0])
    <3> HIDE DEF Price
    <3> QED BY <2>1, <2>3 DEF Left
  <2> HIDE DEF Good
  <2> QED BY <1>1, <2>4
<1>4. ASSUME NEW n \in 0..(N - 1), n \in G PROVE n + 1 \in G
  <2> DEFINE r == g[n]
             o == orders[n + 1]
             q == g[n + 1]
  <2>1. n + 1 \in 1..N /\ (n + 1) - 1 = n /\ o \in T
    BY <1>1
  <2>2. Good(r)
    BY <1>4
  <2>3. q = Weighed(r, o, allowed, repeats, cost)
    <3> HIDE DEF N
    <3> QED BY <1>2, <2>1
  <2> HIDE DEF r, o, q
  <2>4. Good(q)
    <3>1. CASE q = r
      BY <2>2, <3>1
    <3>2. CASE q # r
      <4> DEFINE a == r.accepted
                 b == q.accepted
                 m == Len(a)
      <4>1. b = Append(a, o) /\ CanAfford(r.budget, cost[o]) /\ q.budget[good] = r.budget[good] - cost[o][good]
        BY <2>3, <3>2, WeighedCases
      <4>2. cost[o][good] \in Nat /\ r.budget[good] >= cost[o][good]
        BY <2>1, <4>1 DEF CanAfford
      <4>3. a \in Seq(T) /\ b \in Seq(T) /\ m \in Nat /\ DOMAIN a = 1..m /\ DOMAIN b = 1..(m + 1)
            /\ b[m + 1] = o /\ \A i \in 1..m : b[i] = a[i] /\ a[i] \in T
        <5>1. a \in Seq(T)
          BY <2>2
        <5> HIDE DEF a, b
        <5> QED BY <2>1, <4>1, <5>1, AppendFacts DEF m
      <4>4. \A i \in 1..(m + 1) : Price(b)[i] \in Int
        <5>1. \A i \in 1..(m + 1) : b[i] \in T
          <6> HIDE DEF m, a, b
          <6> QED BY <2>1, <4>3
        <5> HIDE DEF m, a, b
        <5> QED BY <4>3, <5>1
      <4>5. SumFunctionOnSet(Price(b), 1..(m + 1)) = SumFunctionOnSet(Price(b), 1..m) + Price(b)[m + 1]
        <5> HIDE DEF Price, m, b
        <5> QED BY <4>3, <4>4, SumAppend
      <4>6. \A i \in 1..m : Price(b)[i] = Price(a)[i]
        <5> HIDE DEF m, a, b
        <5> QED BY <4>3
      <4>7. SumFunctionOnSet(Price(b), 1..m) = SumFunctionOnSet(Price(a), 1..m)
        <5>1. IsFiniteSet(1..m)
          <6> HIDE DEF m, a, b, Price
          <6> QED BY <4>3, FS_Interval
        <5> HIDE DEF Price, m, a, b
        <5> QED BY <4>6, <5>1, SumSame
      <4>8. DOMAIN Price(a) = 1..m /\ DOMAIN Price(b) = 1..(m + 1) /\ Price(b)[m + 1] = cost[o][good]
        <5> HIDE DEF m, a, b
        <5> QED BY <4>3
      <4>9. SumFunction(Price(b)) = SumFunction(Price(a)) + cost[o][good]
        <5> HIDE DEF Price, m, a, b
        <5>1. SumFunction(Price(a)) = SumFunctionOnSet(Price(a), 1..m)
          BY <4>8, Zenon DEF SumFunction
        <5>2. SumFunction(Price(b)) = SumFunctionOnSet(Price(b), 1..(m + 1))
          BY <4>8, Zenon DEF SumFunction
        <5> QED BY <4>5, <4>7, <4>8, <5>1, <5>2
      <4>10. SumFunction(Price(a)) \in Int
        <5>1. \A i \in 1..m : Price(a)[i] \in Int
          <6> HIDE DEF m, a, b
          <6> QED BY <4>3
        <5>2. IsFiniteSet(1..m)
          <6> HIDE DEF m, a, b, Price
          <6> QED BY <4>3, FS_Interval
        <5> HIDE DEF Price, m, a
        <5>3. SumFunctionOnSet(Price(a), 1..m) \in Int
          BY <5>1, <5>2, SumType
        <5> QED BY <4>8, <5>3, Zenon DEF SumFunction
      <4> HIDE DEF Price
      <4>11. /\ Left(q.budget[good], budget[good])
             /\ q.budget[good] + SumFunction(Price(b)) = budget[good]
        BY <2>2, <4>1, <4>2, <4>9, <4>10 DEF Left
      <4> QED BY <4>3, <4>11
    <3> QED BY <3>1, <3>2
  <2> HIDE DEF Good
  <2>5. n + 1 \in 0..N
    BY <1>1
  <2> QED BY <2>4, <2>5 DEF q
<1>5. N \in G
  <2> HIDE DEF G, N, Good
  <2>1. N \in Nat
    BY <1>1
  <2>2. \A n \in 0..(N - 1) : n \in G => n + 1 \in G
    BY <1>4
  <2>3. \A n \in 0..N : n \in G
    BY <1>3, <2>1, <2>2, UpToInduction
  <2> QED BY <2>1, <2>3
<1>6. Good(g[N])
  BY <1>5
<1> HIDE DEF N, G
<1>7. Left(g[N].budget[good], budget[good]) /\ g[N].budget[good] + Due(g[N].accepted, cost, good) = budget[good]
  BY <1>6 DEF Due
<1> QED BY <1>2, <1>7
-----------------------------------------------------------------------------
(* Upgrades under construction.                                            *)

Tiers == [Tracks -> 0..3]

\* What a queue of a city with tiers u may hold: one item per track, above the tier the city
\* has, and next to it unless siege lowers the track.
SoundQueue(q, u) ==
    /\ q \in Seq(QueueItem)
    /\ \A i, j \in DOMAIN q : q[i].track = q[j].track => i = j
    /\ \A i \in DOMAIN q : q[i].tier > u[q[i].track]
    /\ \A i \in DOMAIN q : q[i].track # "fortification" => q[i].tier = u[q[i].track] + 1

\* From tiers u to tiers v by building alone.
Rises(u, v) == \A t \in Tracks : v[t] >= u[t] /\ (t # "fortification" => v[t] - u[t] \in {0, 1})

\* A city without work on a track keeps its tier.
LEMMA TierBuilt ==
    ASSUME NEW q \in Seq(QueueItem), NEW t, NEW tier
    PROVE  \/ TierAfter(q, t, tier) = tier
           \/ \E i \in DOMAIN q : q[i].track = t /\ Finished(q[i]) /\ TierAfter(q, t, tier) = q[i].tier
<1> DEFINE done == {i \in DOMAIN q : q[i].track = t /\ Finished(q[i])}
<1>1. CASE done = {}
  BY <1>1 DEF TierAfter
<1>2. CASE done # {}
  <2>1. Len(q) \in Nat /\ done \in SUBSET (0..Len(q))
    OBVIOUS
  <2>2. \E x \in done : \A y \in done : y <= x
    <3> HIDE DEF done
    <3> QED BY <1>2, <2>1, GreatestBoundedNatural
  <2>3. \A x, y \in done : y <= x <=> x >= y
    BY <2>1
  <2>4. Max(done) \in done
    <3> HIDE DEF done
    <3> QED BY <2>2, <2>3 DEF Max
  <2>5. TierAfter(q, t, tier) = q[Max(done)].tier
    BY <1>2 DEF TierAfter
  <2> QED BY <2>4, <2>5
<1> QED BY <1>1, <1>2

LEMMA ListFacts ==
    ASSUME NEW n \in Nat, NEW S, NEW r, r = [i \in 1..n |-> r[i]], \A i \in 1..n : r[i] \in S
    PROVE  r \in Seq(S) /\ Len(r) = n /\ DOMAIN r = 1..n
<1>1. r \in [1..n -> S] /\ DOMAIN r = 1..n
  OBVIOUS
<1> QED BY <1>1

Unfinished(q) == {item \in ToSet(q) : ~Finished(item)}
Rest(q) == Only(q, Unfinished(q))
QueueAfter(q) == [i \in DOMAIN Rest(q) |-> [Rest(q)[i] EXCEPT !.ticks = @ - 1]]
TiersAfter(q, u) == [t \in Tracks |-> TierAfter(q, t, u[t])]

LEMMA ItemAdvances ==
    ASSUME NEW x \in QueueItem, x.ticks # 1, NEW y, y = [x EXCEPT !.ticks = @ - 1]
    PROVE  y \in QueueItem /\ y.track = x.track /\ y.tier = x.tier
<1>1. /\ x = [track |-> x.track, tier |-> x.tier, ticks |-> x.ticks]
      /\ x.track \in Tracks /\ x.tier \in 1..3 /\ x.ticks \in Nat \ {0}
  BY DEF QueueItem
<1>2. y = [track |-> x.track, tier |-> x.tier, ticks |-> x.ticks - 1]
  BY <1>1
<1>3. x.ticks - 1 \in Nat \ {0}
  BY <1>1
<1>4. y.track = x.track /\ y.tier = x.tier /\ y.ticks = x.ticks - 1
  BY <1>2
<1> QED BY <1>1, <1>2, <1>3, <1>4 DEF QueueItem

\* An item of the queue after the advance is an unfinished one of before.
LEMMA QueueFrom ==
    ASSUME NEW q \in Seq(QueueItem)
    PROVE  /\ QueueAfter(q) \in Seq(QueueItem)
           /\ \E at \in [DOMAIN QueueAfter(q) -> DOMAIN q] :
                  /\ \A i \in DOMAIN QueueAfter(q) :
                         /\ ~Finished(q[at[i]])
                         /\ QueueAfter(q)[i].track = q[at[i]].track
                         /\ QueueAfter(q)[i].tier = q[at[i]].tier
                  /\ \A i, j \in DOMAIN QueueAfter(q) : at[i] = at[j] => i = j
<1> DEFINE rest == Rest(q)
           r == QueueAfter(q)
<1>1. rest \in Seq(QueueItem \cap Unfinished(q))
  BY OnlyKeeps DEF Rest
<1>2. PICK at \in [DOMAIN rest -> DOMAIN q] :
          /\ \A i \in DOMAIN rest : rest[i] = q[at[i]]
          /\ \A i, j \in DOMAIN rest : at[i] = at[j] => i = j
  BY OnlyKeeps DEF Rest
<1>3. DOMAIN rest = 1..Len(rest) /\ Len(rest) \in Nat
  BY <1>1
<1>4. \A i \in DOMAIN rest : rest[i] \in QueueItem /\ rest[i] \in Unfinished(q)
  BY <1>1
<1>5. DOMAIN r = DOMAIN rest /\ \A i \in DOMAIN rest : r[i] = [rest[i] EXCEPT !.ticks = @ - 1]
  BY DEF QueueAfter
<1>6. r = [i \in DOMAIN r |-> r[i]]
  BY DEF QueueAfter
<1> HIDE DEF rest, r
<1>7. ASSUME NEW i \in DOMAIN rest
      PROVE  r[i] \in QueueItem /\ r[i].track = rest[i].track /\ r[i].tier = rest[i].tier
  <2>1. rest[i].ticks # 1
    BY <1>4 DEF Unfinished, Finished
  <2> QED BY <1>4, <1>5, <2>1, ItemAdvances
<1>8. r \in Seq(QueueItem)
  <2> DEFINE n == Len(rest)
  <2>1. n \in Nat /\ r = [i \in 1..n |-> r[i]] /\ \A i \in 1..n : r[i] \in QueueItem
    BY <1>3, <1>5, <1>6, <1>7
  <2> HIDE DEF n
  <2> QED BY <2>1, ListFacts
<1>9. \A i \in DOMAIN r : /\ ~Finished(q[at[i]])
                          /\ r[i].track = q[at[i]].track
                          /\ r[i].tier = q[at[i]].tier
  BY <1>2, <1>4, <1>5, <1>7 DEF Unfinished
<1>10. at \in [DOMAIN r -> DOMAIN q] /\ \A i, j \in DOMAIN r : at[i] = at[j] => i = j
  BY <1>2, <1>5
<1>11. /\ r \in Seq(QueueItem)
       /\ \E to \in [DOMAIN r -> DOMAIN q] :
              /\ \A i \in DOMAIN r : /\ ~Finished(q[to[i]])
                                     /\ r[i].track = q[to[i]].track
                                     /\ r[i].tier = q[to[i]].tier
              /\ \A i, j \in DOMAIN r : to[i] = to[j] => i = j
  BY <1>8, <1>9, <1>10
<1> QED BY <1>11 DEF r

\* Work that advances stays sound and is built one tier after the other.
LEMMA QueueAdvances ==
    ASSUME NEW u \in Tiers, NEW q, SoundQueue(q, u)
    PROVE  LET v == TiersAfter(q, u)
               r == QueueAfter(q)
           IN  /\ v \in Tiers /\ SoundQueue(r, v) /\ Rises(u, v)
               /\ \A t \in Tracks : (\A i \in DOMAIN q : q[i].track # t) =>
                      v[t] = u[t] /\ \A i \in DOMAIN r : r[i].track # t
<1> DEFINE v == TiersAfter(q, u)
           r == QueueAfter(q)
<1>1. q \in Seq(QueueItem) /\ \A i \in DOMAIN q : q[i] \in QueueItem
  BY DEF SoundQueue
<1>2. v = [t \in Tracks |-> v[t]]
  BY DEF TiersAfter
<1>3. \A t \in Tracks : \/ v[t] = u[t]
                        \/ \E i \in DOMAIN q : q[i].track = t /\ Finished(q[i]) /\ v[t] = q[i].tier
  BY <1>1, TierBuilt DEF TiersAfter
<1>4. r \in Seq(QueueItem)
  BY <1>1, QueueFrom
<1>5. PICK at \in [DOMAIN r -> DOMAIN q] :
          /\ \A i \in DOMAIN r : /\ ~Finished(q[at[i]])
                                 /\ r[i].track = q[at[i]].track
                                 /\ r[i].tier = q[at[i]].tier
          /\ \A i, j \in DOMAIN r : at[i] = at[j] => i = j
  BY <1>1, QueueFrom
<1> HIDE DEF v, r
<1>6. \A i, j \in DOMAIN q : q[i].track = q[j].track => i = j
  BY DEF SoundQueue
<1>7. ASSUME NEW i \in DOMAIN r, NEW j \in DOMAIN r, r[i].track = r[j].track PROVE i = j
  <2>1. at[i] \in DOMAIN q /\ at[j] \in DOMAIN q /\ q[at[i]].track = q[at[j]].track
    BY <1>5, <1>7
  <2> QED BY <1>5, <1>6, <2>1
<1>8. \A t \in Tracks : u[t] \in 0..3
  BY DEF Tiers
<1>9. \A i \in DOMAIN q : /\ q[i].track \in Tracks /\ q[i].tier \in 1..3
                          /\ q[i].tier > u[q[i].track]
                          /\ q[i].track # "fortification" => q[i].tier = u[q[i].track] + 1
  BY <1>1 DEF SoundQueue, QueueItem
<1>10. \A t \in Tracks : /\ v[t] \in 0..3 /\ v[t] >= u[t]
                         /\ t # "fortification" => v[t] - u[t] \in {0, 1}
  BY <1>3, <1>8, <1>9
<1>11. ASSUME NEW i \in DOMAIN r
       PROVE  /\ at[i] \in DOMAIN q
              /\ v[r[i].track] = u[r[i].track]
  <2>1. at[i] \in DOMAIN q /\ r[i].track = q[at[i]].track /\ ~Finished(q[at[i]])
    BY <1>5
  <2>2. r[i].track \in Tracks
    BY <1>9, <2>1
  <2>3. \A k \in DOMAIN q : q[k].track = r[i].track => ~Finished(q[k])
    BY <1>6, <2>1
  <2> QED BY <1>3, <2>1, <2>2, <2>3
<1>12. ASSUME NEW i \in DOMAIN r
       PROVE  /\ r[i].tier > v[r[i].track]
              /\ r[i].track # "fortification" => r[i].tier = v[r[i].track] + 1
  BY <1>5, <1>9, <1>11
<1>13. v \in Tiers
  BY <1>2, <1>10 DEF Tiers
<1>14. SoundQueue(r, v)
  BY <1>4, <1>7, <1>12 DEF SoundQueue
<1>15. Rises(u, v)
  BY <1>10 DEF Rises
<1>16. \A t \in Tracks : (\A i \in DOMAIN q : q[i].track # t) =>
           v[t] = u[t] /\ \A i \in DOMAIN r : r[i].track # t
  BY <1>3, <1>5
<1> QED BY <1>13, <1>14, <1>15, <1>16 DEF v, r

\* Work on tracks that had none joins the queue.
LEMMA QueueStarts ==
    ASSUME NEW u, NEW q, NEW b, SoundQueue(q, u), SoundQueue(b, u),
           \A i \in DOMAIN q, j \in DOMAIN b : q[i].track # b[j].track
    PROVE  SoundQueue(q \o b, u)
<1> DEFINE r == q \o b
           m == Len(q)
<1>1. q \in Seq(QueueItem) /\ b \in Seq(QueueItem)
  BY DEF SoundQueue
<1>2. r \in Seq(QueueItem) /\ DOMAIN r = 1..(m + Len(b)) /\ m \in Nat /\ Len(b) \in Nat
      /\ DOMAIN q = 1..m /\ DOMAIN b = 1..Len(b)
  BY <1>1
<1>3. /\ \A i \in 1..m : r[i] = q[i]
      /\ \A i \in 1..(m + Len(b)) : i > m => i - m \in 1..Len(b) /\ r[i] = b[i - m]
  BY <1>1
<1> HIDE DEF r, m
<1>4. \A i \in DOMAIN r : \/ i \in DOMAIN q /\ r[i] = q[i]
                          \/ i > m /\ i - m \in DOMAIN b /\ r[i] = b[i - m]
  BY <1>2, <1>3
<1>5. ASSUME NEW i \in DOMAIN r, NEW j \in DOMAIN r, r[i].track = r[j].track PROVE i = j
  <2>1. i \in Nat /\ j \in Nat
    BY <1>2
  <2>2. CASE i \in DOMAIN q /\ r[i] = q[i]
    BY <1>2, <1>4, <1>5, <2>2 DEF SoundQueue
  <2>3. CASE i > m /\ i - m \in DOMAIN b /\ r[i] = b[i - m]
    <3>1. CASE j \in DOMAIN q /\ r[j] = q[j]
      BY <1>2, <1>5, <2>3, <3>1
    <3>2. CASE j > m /\ j - m \in DOMAIN b /\ r[j] = b[j - m]
      <4>1. i - m = j - m
        BY <1>5, <2>3, <3>2 DEF SoundQueue
      <4> QED BY <1>2, <2>1, <4>1
    <3> QED BY <1>4, <3>1, <3>2
  <2> QED BY <1>4, <2>2, <2>3
<1>6. \A i \in DOMAIN r : /\ r[i].tier > u[r[i].track]
                          /\ r[i].track # "fortification" => r[i].tier = u[r[i].track] + 1
  BY <1>4 DEF SoundQueue
<1>7. SoundQueue(r, u)
  BY <1>2, <1>5, <1>6 DEF SoundQueue
<1> QED BY <1>7 DEF r

\* Work on a fortification outlasts the siege of the city.
LEMMA QueueDegrades ==
    ASSUME NEW u \in Tiers, u["fortification"] > 0, NEW q, SoundQueue(q, u),
           NEW v, v = Lowered(u)
    PROVE  v \in Tiers /\ SoundQueue(q, v)
<1>1. \A t \in Tracks : v[t] = IF t = "fortification" THEN u[t] - 1 ELSE u[t]
  BY DEF Tiers, Lowered
<1>2. v \in Tiers
  BY DEF Tiers, Tracks, Lowered
<1>3. \A i \in DOMAIN q : q[i].track \in Tracks /\ q[i].tier \in 1..3 /\ u[q[i].track] \in 0..3
  <2>1. \A i \in DOMAIN q : q[i] \in QueueItem
    BY DEF SoundQueue
  <2>2. \A t \in Tracks : u[t] \in 0..3
    BY DEF Tiers
  <2> QED BY <2>1, <2>2 DEF QueueItem
<1>4. SoundQueue(q, v)
  BY <1>1, <1>3 DEF SoundQueue
<1> QED BY <1>2, <1>4

\* What validation leaves of a list of upgrades.
AcceptedUpgrades(s, p, seq) ==
    /\ seq \in Seq(ToSet(seq))
    /\ \A o \in ToSet(seq) : o.track \in Tracks /\ o.tier \in 1..3 /\ CanUpgrade(s, p, o)
    /\ \A i, j \in DOMAIN seq : seq[i].city = seq[j].city /\ seq[i].track = seq[j].track => i = j

\* Whatever is taken from a list is a list of what was taken.
LEMMA TakenList ==
    ASSUME NEW T, NEW seq \in Seq(T)
    PROVE  /\ seq \in Seq(ToSet(seq)) /\ ToSet(seq) \subseteq T
           /\ \A i \in DOMAIN seq : seq[i] \in ToSet(seq) /\ i \in Nat
<1>1. Len(seq) \in Nat /\ seq = [i \in 1..Len(seq) |-> seq[i]] /\ DOMAIN seq = 1..Len(seq)
      /\ \A i \in 1..Len(seq) : seq[i] \in T
  OBVIOUS
<1>2. \A i \in 1..Len(seq) : seq[i] \in ToSet(seq)
  BY <1>1 DEF ToSet
<1>3. seq \in Seq(ToSet(seq))
  <2> DEFINE n == Len(seq)
  <2>1. n \in Nat /\ seq = [i \in 1..n |-> seq[i]] /\ \A i \in 1..n : seq[i] \in ToSet(seq)
    BY <1>1, <1>2
  <2> HIDE DEF n
  <2> QED BY <2>1, ListFacts
<1>4. ToSet(seq) \subseteq T
  BY <1>1 DEF ToSet
<1> QED BY <1>1, <1>2, <1>3, <1>4

Repeated(x, y, repeats) == <<x, y>> \in repeats /\ <<y, x>> \in repeats

\* Two orders for one target are not both accepted.
LEMMA AcceptedApart ==
    ASSUME NEW T, NEW orders \in Seq(T), NEW budget, NEW allowed, NEW repeats, NEW cost
    PROVE  LET accepted == Admit(orders, budget, allowed, repeats, cost).accepted
           IN  /\ accepted \in Seq(ToSet(accepted))
               /\ ToSet(accepted) \subseteq T /\ ToSet(accepted) \subseteq allowed
               /\ \A i, j \in DOMAIN accepted : Repeated(accepted[i], accepted[j], repeats) => i = j
<1> DEFINE accepted == Admit(orders, budget, allowed, repeats, cost).accepted
<1>1. /\ accepted \in Seq(T \cap allowed)
      /\ \A i, j \in DOMAIN accepted : i < j => <<accepted[i], accepted[j]>> \notin repeats
  BY AdmittedAreAllowed
<1> DEFINE K == T \cap allowed
<1>2. accepted \in Seq(K)
  BY <1>1
<1>3. K \subseteq T /\ K \subseteq allowed
  OBVIOUS
<1> HIDE DEF K
<1>4. /\ accepted \in Seq(ToSet(accepted)) /\ ToSet(accepted) \subseteq K
      /\ \A i \in DOMAIN accepted : i \in Nat
  BY <1>2, TakenList
<1>5. ASSUME NEW i \in DOMAIN accepted, NEW j \in DOMAIN accepted,
             Repeated(accepted[i], accepted[j], repeats)
      PROVE  i = j
  <2>1. i \in Nat /\ j \in Nat
    BY <1>4
  <2>2. ~(i < j) /\ ~(j < i)
    BY <1>1, <1>5 DEF Repeated
  <2> QED BY <2>1, <2>2
<1> HIDE DEF accepted
<1>6. /\ accepted \in Seq(ToSet(accepted))
      /\ ToSet(accepted) \subseteq T /\ ToSet(accepted) \subseteq allowed
      /\ \A i, j \in DOMAIN accepted : Repeated(accepted[i], accepted[j], repeats) => i = j
  BY <1>3, <1>4, <1>5
<1> QED BY <1>6 DEF accepted

LEMMA UpgradesAccepted ==
    ASSUME NEW s, NEW p, NEW b, IsOrderBatch(b)
    PROVE  AcceptedUpgrades(s, p, ValidateOrders(s, p, b).upgrades)
<1> DEFINE all == b.upgrades
           allowed == {o \in ToSet(all) : CanUpgrade(s, p, o)}
           repeats == Repeats(all, LAMBDA o : <<o.city, o.track>>)
           cost == [o \in ToSet(all) |-> UpgradeCost(o.track, o.tier)]
           seq == ValidateOrders(s, p, b).upgrades
<1>1. PICK budget : seq = Admit(all, budget, allowed, repeats, cost).accepted
  BY DEF ValidateOrders
<1>2. all \in Seq(ToSet(all)) /\ \A o \in ToSet(all) : o.track \in Tracks /\ o.tier \in 1..3
  BY DEF IsOrderBatch
<1>3. \A x, y \in ToSet(all) : x.city = y.city /\ x.track = y.track => Repeated(x, y, repeats)
  BY DEF Repeats, Repeated
<1>4. \A o \in allowed : o \in ToSet(all) /\ CanUpgrade(s, p, o)
  OBVIOUS
<1> HIDE DEF all, allowed, repeats, cost, seq
<1>5. /\ seq \in Seq(ToSet(seq)) /\ ToSet(seq) \subseteq allowed
      /\ \A i, j \in DOMAIN seq : Repeated(seq[i], seq[j], repeats) => i = j
  <2> DEFINE T == ToSet(all)
  <2>1. all \in Seq(T)
    BY <1>2
  <2> HIDE DEF T
  <2>2. /\ seq \in Seq(ToSet(seq)) /\ ToSet(seq) \subseteq T /\ ToSet(seq) \subseteq allowed
        /\ \A i, j \in DOMAIN seq : Repeated(seq[i], seq[j], repeats) => i = j
    <3> DEFINE taken == Admit(all, budget, allowed, repeats, cost).accepted
    <3>1. /\ taken \in Seq(ToSet(taken)) /\ ToSet(taken) \subseteq T /\ ToSet(taken) \subseteq allowed
          /\ \A i, j \in DOMAIN taken : Repeated(taken[i], taken[j], repeats) => i = j
      BY <2>1, AcceptedApart
    <3> HIDE DEF taken
    <3>2. seq = taken
      BY <1>1 DEF taken
    <3> QED BY <3>1, <3>2
  <2> QED BY <2>2
<1>6. \A i \in DOMAIN seq : seq[i] \in ToSet(seq)
  BY DEF ToSet
<1>7. ASSUME NEW i \in DOMAIN seq, NEW j \in DOMAIN seq, seq[i].city = seq[j].city, seq[i].track = seq[j].track
      PROVE  i = j
  <2>1. seq[i] \in ToSet(all) /\ seq[j] \in ToSet(all)
    BY <1>4, <1>5, <1>6
  <2>2. Repeated(seq[i], seq[j], repeats)
    BY <1>3, <1>7, <2>1
  <2> QED BY <1>5, <2>2
<1>8. AcceptedUpgrades(s, p, seq)
  BY <1>2, <1>4, <1>5, <1>7 DEF AcceptedUpgrades
<1> QED BY <1>8 DEF seq

\* The items that the accepted upgrades of a list start in city c.
Chosen(s, seq, c) == {o \in {x \in ToSet(seq) : StartsUpgrade(s, x)} : o.city = c}
NewItems(s, seq, c) ==
    LET items == Only(seq, Chosen(s, seq, c))
    IN  [i \in DOMAIN items |->
            [track |-> items[i].track, tier |-> items[i].tier, ticks |-> items[i].tier]]

LEMMA NewItemsSound ==
    ASSUME NEW s, NEW p, NEW seq, AcceptedUpgrades(s, p, seq), NEW c \in Cities, NEW u \in Tiers,
           \A t \in Tracks : (\A k \in DOMAIN s.queue[c] : s.queue[c][k].track # t) =>
               u[t] = s.upgrades[c][t]
    PROVE  /\ SoundQueue(NewItems(s, seq, c), u)
           /\ \A i \in DOMAIN NewItems(s, seq, c) : \A k \in DOMAIN s.queue[c] :
                  s.queue[c][k].track # NewItems(s, seq, c)[i].track
<1> DEFINE items == Only(seq, Chosen(s, seq, c))
           r == NewItems(s, seq, c)
<1>1. seq \in Seq(ToSet(seq))
  BY DEF AcceptedUpgrades
<1>2. items \in Seq(ToSet(seq) \cap Chosen(s, seq, c))
  BY <1>1, OnlyKeeps
<1>3. PICK at \in [DOMAIN items -> DOMAIN seq] :
          /\ \A i \in DOMAIN items : items[i] = seq[at[i]]
          /\ \A i, j \in DOMAIN items : at[i] = at[j] => i = j
  BY <1>1, OnlyKeeps
<1>4. DOMAIN items = 1..Len(items) /\ Len(items) \in Nat
  BY <1>2
<1>5. \A i \in DOMAIN items : items[i] \in ToSet(seq) /\ items[i] \in Chosen(s, seq, c)
  BY <1>2
<1>6. /\ r = [i \in DOMAIN items |-> r[i]]
      /\ \A i \in DOMAIN items :
             r[i] = [track |-> items[i].track, tier |-> items[i].tier, ticks |-> items[i].tier]
  BY DEF NewItems
<1> HIDE DEF items, r
<1>7. ASSUME NEW i \in DOMAIN items
      PROVE  /\ items[i].track \in Tracks /\ items[i].tier \in 1..3 /\ items[i].city = c
             /\ CanUpgrade(s, p, items[i]) /\ StartsUpgrade(s, items[i])
  BY <1>5, <1>7 DEF AcceptedUpgrades, Chosen
<1>8. ASSUME NEW i \in DOMAIN items
      PROVE  /\ r[i] \in QueueItem
             /\ r[i].track = items[i].track /\ r[i].tier = items[i].tier
             /\ r[i].tier = u[r[i].track] + 1
             /\ \A k \in DOMAIN s.queue[c] : s.queue[c][k].track # r[i].track
  <2>1. r[i] = [track |-> items[i].track, tier |-> items[i].tier, ticks |-> items[i].tier]
    BY <1>6
  <2>2. r[i] \in QueueItem /\ r[i].track = items[i].track /\ r[i].tier = items[i].tier
    BY <1>7, <2>1 DEF QueueItem
  <2>3. \A k \in DOMAIN s.queue[c] : s.queue[c][k].track # items[i].track
    BY <1>7 DEF StartsUpgrade
  <2>4. items[i].tier = s.upgrades[c][items[i].track] + 1
    BY <1>7 DEF CanUpgrade
  <2>5. u[items[i].track] = s.upgrades[c][items[i].track]
    BY <1>7, <2>3
  <2> QED BY <2>2, <2>3, <2>4, <2>5
<1>9. r \in Seq(QueueItem) /\ DOMAIN r = DOMAIN items
  <2> DEFINE n == Len(items)
  <2>1. n \in Nat /\ r = [i \in 1..n |-> r[i]] /\ DOMAIN items = 1..n
    BY <1>4, <1>6
  <2>2. \A i \in 1..n : r[i] \in QueueItem
    BY <1>8, <2>1
  <2> HIDE DEF n
  <2> QED BY <2>1, <2>2, ListFacts
<1>10. ASSUME NEW i \in DOMAIN r, NEW j \in DOMAIN r, r[i].track = r[j].track PROVE i = j
  <2>1. items[i].city = c /\ items[j].city = c /\ items[i].track = items[j].track
    BY <1>7, <1>8, <1>9, <1>10
  <2>2. at[i] \in DOMAIN seq /\ at[j] \in DOMAIN seq /\ items[i] = seq[at[i]] /\ items[j] = seq[at[j]]
    BY <1>3, <1>9
  <2>3. at[i] = at[j]
    BY <2>1, <2>2 DEF AcceptedUpgrades
  <2> QED BY <1>3, <1>9, <2>3
<1>11. \A t \in Tracks : u[t] \in 0..3
  BY DEF Tiers
<1>12. \A i \in DOMAIN r : r[i].tier > u[r[i].track]
  BY <1>7, <1>8, <1>9, <1>11
<1>13. SoundQueue(r, u)
  BY <1>8, <1>9, <1>10, <1>12 DEF SoundQueue
<1> QED BY <1>8, <1>9, <1>13 DEF r

\* Upgrades under construction and the tiers they lead to fit together all over the map.
Works(s) ==
    /\ s.upgrades \in [Cities -> Tiers]
    /\ \A c \in Cities : SoundQueue(s.queue[c], s.upgrades[c])

\* The build phase finishes and starts work.
LEMMA BuildWorks ==
    ASSUME NEW s, NEW orders, Shaped(s), Works(s), s.owner \in [Cities -> Players \cup {None}],
           \A p \in Players : AcceptedUpgrades(s, p, orders[p].upgrades)
    PROVE  LET t == ResolveBuildPhase(s, orders)
           IN  /\ Works(t) /\ t.owner = s.owner
               /\ \A c \in Cities : Rises(s.upgrades[c], t.upgrades[c])
<1> DEFINE advanced == AdvanceBuildQueues(s)
           recruited == ProcessRecruitment(advanced, orders)
           upgrading == StartUpgrades(recruited, s, orders)
           t == ProcessTransfers(upgrading, orders)
<1>1. /\ advanced.upgrades = [c \in Cities |-> TiersAfter(s.queue[c], s.upgrades[c])]
      /\ advanced.queue = [c \in Cities |-> QueueAfter(s.queue[c])]
  <2> DEFINE tiers == [c \in Cities |-> TiersAfter(s.queue[c], s.upgrades[c])]
             queue == [c \in Cities |-> QueueAfter(s.queue[c])]
  <2>1. advanced = [s EXCEPT !.upgrades = tiers, !.queue = queue]
    BY DEF AdvanceBuildQueues, TiersAfter, QueueAfter, Rest, Unfinished
  <2> HIDE DEF advanced, tiers, queue
  <2>2. advanced.upgrades = tiers /\ advanced.queue = queue
    BY <2>1 DEF Shaped, Fields
  <2> QED BY <2>2 DEF tiers, queue
<1>2. Shaped(advanced) /\ advanced.owner = s.owner
  BY QueuesQuiet DEF Quiet
<1>3. /\ Shaped(recruited) /\ recruited.owner = s.owner
      /\ recruited.upgrades = advanced.upgrades /\ recruited.queue = advanced.queue
  <2> HIDE DEF advanced
  <2> QED BY <1>2, RecruitmentChanges DEF OnlyChanges, Fields
<1>4. Shaped(upgrading) /\ upgrading.owner = s.owner /\ upgrading.upgrades = advanced.upgrades
  <2> HIDE DEF recruited
  <2> QED BY <1>3, UpgradesChange DEF OnlyChanges, Fields
<1>5. upgrading.queue = [c \in Cities |->
          IF s.owner[c] = None THEN advanced.queue[c]
          ELSE advanced.queue[c] \o NewItems(s, orders[s.owner[c]].upgrades, c)]
  <2> DEFINE queue == [c \in Cities |->
                 IF recruited.owner[c] = None THEN recruited.queue[c]
                 ELSE recruited.queue[c] \o NewItems(s, orders[recruited.owner[c]].upgrades, c)]
  <2>1. PICK x : upgrading = [recruited EXCEPT !.resources = x, !.queue = queue]
    BY DEF StartUpgrades, NewItems, Chosen
  <2> HIDE DEF upgrading, recruited, queue
  <2>2. upgrading.queue = queue
    BY <1>3, <2>1 DEF Shaped, Fields
  <2> QED BY <1>3, <2>2 DEF queue
<1>6. /\ t.owner = s.owner /\ t.upgrades = advanced.upgrades /\ t.queue = upgrading.queue
  <2> HIDE DEF upgrading
  <2> QED BY <1>4, TransfersChange DEF OnlyChanges, Fields
<1> HIDE DEF advanced, recruited, upgrading
<1>7. ASSUME NEW c \in Cities
      PROVE  /\ advanced.upgrades[c] \in Tiers
             /\ SoundQueue(advanced.queue[c], advanced.upgrades[c])
             /\ Rises(s.upgrades[c], advanced.upgrades[c])
             /\ \A k \in Tracks : (\A i \in DOMAIN s.queue[c] : s.queue[c][i].track # k) =>
                    /\ advanced.upgrades[c][k] = s.upgrades[c][k]
                    /\ \A i \in DOMAIN advanced.queue[c] : advanced.queue[c][i].track # k
  <2>1. s.upgrades[c] \in Tiers /\ SoundQueue(s.queue[c], s.upgrades[c])
    BY DEF Works
  <2>2. /\ advanced.upgrades[c] = TiersAfter(s.queue[c], s.upgrades[c])
        /\ advanced.queue[c] = QueueAfter(s.queue[c])
    BY <1>1
  <2> QED BY <2>1, <2>2, QueueAdvances
<1>8. ASSUME NEW c \in Cities
      PROVE  SoundQueue(upgrading.queue[c], advanced.upgrades[c])
  <2>1. CASE s.owner[c] = None
    BY <1>5, <1>7, <2>1
  <2>2. CASE s.owner[c] # None
    <3> DEFINE seq == orders[s.owner[c]].upgrades
               new == NewItems(s, seq, c)
    <3>1. AcceptedUpgrades(s, s.owner[c], seq)
      BY <2>2
    <3>2. /\ SoundQueue(new, advanced.upgrades[c])
          /\ \A i \in DOMAIN new : \A k \in DOMAIN s.queue[c] : s.queue[c][k].track # new[i].track
      <4> HIDE DEF seq
      <4> QED BY <1>7, <3>1, NewItemsSound
    <3>3. upgrading.queue[c] = advanced.queue[c] \o new
      BY <1>5, <2>2
    <3> HIDE DEF seq, new
    <3>4. \A i \in DOMAIN new : new[i].track \in Tracks
      <4>1. \A i \in DOMAIN new : new[i] \in QueueItem
        BY <3>2 DEF SoundQueue
      <4> QED BY <4>1 DEF QueueItem
    <3>5. \A i \in DOMAIN advanced.queue[c], j \in DOMAIN new : advanced.queue[c][i].track # new[j].track
      BY <1>7, <3>2, <3>4
    <3> QED BY <1>7, <3>2, <3>3, <3>5, QueueStarts
  <2> QED BY <2>1, <2>2
<1>9. advanced.upgrades \in [Cities -> Tiers]
  <2>1. advanced.upgrades = [c \in Cities |-> advanced.upgrades[c]]
    BY <1>1
  <2> QED BY <1>7, <2>1
<1>10. Works(t)
  <2> HIDE DEF t
  <2> QED BY <1>6, <1>8, <1>9 DEF Works
<1>11. t = ResolveBuildPhase(s, orders)
  BY DEF ResolveBuildPhase, advanced, recruited, upgrading
<1> HIDE DEF t
<1> QED BY <1>6, <1>7, <1>10, <1>11

\* Siege and decay lower fortifications that stand.
LEMMA DegradedWorks ==
    ASSUME NEW s, NEW cities, Shaped(s), Works(s), \A c \in cities : s.upgrades[c]["fortification"] > 0
    PROVE  LET t == Degraded(s, cities)
           IN  /\ Works(t)
               /\ \A c \in Cities : t.upgrades[c] =
                      IF c \in cities THEN Lowered(s.upgrades[c]) ELSE s.upgrades[c]
<1> DEFINE t == Degraded(s, cities)
           tiers == [c \in Cities |->
               IF c \in cities THEN Lowered(s.upgrades[c]) ELSE s.upgrades[c]]
<1>1. t = [s EXCEPT !.upgrades = tiers]
  BY DEF Degraded
<1> HIDE DEF t, tiers
<1>2. t.upgrades = tiers /\ t.queue = s.queue
  BY <1>1 DEF Shaped, Fields
<1>3. ASSUME NEW c \in Cities PROVE tiers[c] \in Tiers /\ SoundQueue(t.queue[c], tiers[c])
  <2>1. s.upgrades[c] \in Tiers /\ SoundQueue(s.queue[c], s.upgrades[c])
    BY DEF Works
  <2>2. CASE c \in cities
    <3>1. tiers[c] = Lowered(s.upgrades[c]) /\ s.upgrades[c]["fortification"] > 0
      BY <2>2 DEF tiers
    <3> QED BY <1>2, <2>1, <3>1, QueueDegrades
  <2>3. CASE c \notin cities
    BY <1>2, <2>1, <2>3 DEF tiers
  <2> QED BY <2>2, <2>3
<1>4. tiers = [c \in Cities |-> tiers[c]]
  BY DEF tiers
<1>5. Works(t)
  BY <1>2, <1>3, <1>4 DEF Works
<1> QED BY <1>2, <1>5 DEF t, tiers

\* What decays for want of upkeep was not lowered by a siege in the same tick.
LEMMA AttritionWorks ==
    ASSUME NEW s, NEW unpaid, NEW besieged, Shaped(s), Works(s)
    PROVE  LET t == ResolveAttritionPhase(s, unpaid, besieged)
           IN  /\ Works(t)
               /\ \A c \in Cities : \/ t.upgrades[c] = s.upgrades[c]
                                    \/ c \notin besieged /\ t.upgrades[c] = Lowered(s.upgrades[c])
<1> DEFINE Lost(a) == IF Starving(s, a.owner) THEN 1 ELSE 0
           left == {b \in s.armies : b.troops > Lost(b)}
           Hurt(a) == [a EXCEPT !.troops = @ - Lost(a)]
           starved == [s EXCEPT !.armies = {Hurt(a) : a \in left}]
           cities == DegradedUnpaid(starved, unpaid, besieged)
           decayed == Degraded(starved, cities)
           t == ResolveAttritionPhase(s, unpaid, besieged)
<1>1. t = [decayed EXCEPT !.eliminated = [p \in Players |-> OutOfPlay(decayed, p)]]
  BY DEF ResolveAttritionPhase, WithLosses
<1>2. \A a \in left : IsArmy(Hurt(a))
  BY DEF Shaped, IsArmy, ArmyFields
<1>3. Shaped(starved) /\ starved.upgrades = s.upgrades /\ starved.queue = s.queue
  <2> HIDE DEF Hurt, left
  <2>1. /\ starved = [f \in Fields |-> starved[f]]
        /\ starved.armies = {Hurt(a) : a \in left}
        /\ starved.upgrades = s.upgrades /\ starved.queue = s.queue
    BY DEF Shaped, Fields
  <2> HIDE DEF starved
  <2> QED BY <1>2, <2>1 DEF Shaped
<1> HIDE DEF starved
<1>4. Works(starved)
  BY <1>3 DEF Works
<1>5. \A c \in cities : starved.upgrades[c]["fortification"] > 0 /\ c \notin besieged
  BY DEF DegradedUnpaid
<1> HIDE DEF cities
<1>6. /\ Works(decayed) /\ Shaped(decayed)
      /\ \A c \in Cities : decayed.upgrades[c] =
             IF c \in cities THEN Lowered(starved.upgrades[c]) ELSE starved.upgrades[c]
  BY <1>3, <1>4, <1>5, DegradedWorks, DegradedOnly
<1> HIDE DEF decayed, t
<1>7. t.upgrades = decayed.upgrades /\ t.queue = decayed.queue
  BY <1>1, <1>6 DEF Shaped, Fields
<1>8. Works(t)
  BY <1>6, <1>7 DEF Works
<1>9. \A c \in Cities : \/ t.upgrades[c] = s.upgrades[c]
                        \/ c \notin besieged /\ t.upgrades[c] = Lowered(s.upgrades[c])
  BY <1>3, <1>5, <1>6, <1>7
<1> QED BY <1>8, <1>9 DEF t

\* What a tick makes of the upgrades.
TierRule(u, v) == /\ v["fortification"] >= u["fortification"] - 1
                  /\ \A t \in Tracks \ {"fortification"} : v[t] - u[t] \in {0, 1}

LEMMA TierRuleLowered ==
    ASSUME NEW u \in Tiers, NEW v \in Tiers, NEW w \in Tiers, Rises(u, v), w = v \/ w = Lowered(v)
    PROVE  TierRule(u, w)
<1>1. u["fortification"] \in Nat /\ v["fortification"] \in Nat
  BY DEF Tiers, Tracks
<1>2. w["fortification"] >= v["fortification"] - 1 /\ \A t \in Tracks \ {"fortification"} : w[t] = v[t]
  BY <1>1 DEF Tiers, Lowered, Tracks
<1>3. w["fortification"] \in Nat
  BY DEF Tiers, Tracks
<1> QED BY <1>1, <1>2, <1>3 DEF Rises, TierRule, Tracks

LEMMA TickWorks ==
    ASSUME NEW s, NEW orders, Shaped(s), Peopled(s), Listed(s), Works(s),
           \A p \in Players : AcceptedUpgrades(s, p, orders[p].upgrades)
    PROVE  LET t == ResolveTick(s, orders)
           IN  Works(t) /\ \A c \in Cities : TierRule(s.upgrades[c], t.upgrades[c])
<1> DEFINE unpaid == UnpaidFortifications(s)
           paid == ResolveResourcePhase(s)
           built == ResolveBuildPhase(paid, orders)
           transit == AdvanceTransit(built)
           moved == StartMovements(transit, orders)
           hurt == ResolveContestedCities(moved)
           fought == TransferUncontestedControl(hurt)
           besieged == DegradedBySiege(fought)
           sieged == Degraded(fought, besieged)
           t == ResolveAttritionPhase(sieged, unpaid, besieged)
<1>1. /\ Shaped(paid) /\ paid.owner = s.owner /\ paid.owned = s.owned
      /\ paid.upgrades = s.upgrades /\ paid.queue = s.queue /\ paid.armies = s.armies
  BY ResourceChanges DEF OnlyChanges, Fields
<1>2. /\ Works(paid)
      /\ \A p \in Players : AcceptedUpgrades(paid, p, orders[p].upgrades)
  <2> HIDE DEF paid
  <2>1. Works(paid)
    BY <1>1 DEF Works
  <2>2. ASSUME NEW p \in Players PROVE AcceptedUpgrades(paid, p, orders[p].upgrades)
    <3> DEFINE seq == orders[p].upgrades
    <3>1. AcceptedUpgrades(s, p, seq)
      OBVIOUS
    <3> HIDE DEF seq
    <3>2. \A o : CanUpgrade(s, p, o) <=> CanUpgrade(paid, p, o)
      BY <1>1 DEF CanUpgrade, CitiesOf
    <3>3. AcceptedUpgrades(paid, p, seq)
      BY <3>1, <3>2 DEF AcceptedUpgrades
    <3> QED BY <3>3 DEF seq
  <2> QED BY <2>1, <2>2
<1>3. /\ Works(built) /\ built.owner = s.owner
      /\ \A c \in Cities : Rises(s.upgrades[c], built.upgrades[c])
  <2> HIDE DEF paid
  <2> QED BY <1>1, <1>2, BuildWorks DEF Peopled
<1>4. Quiet(s, built)
  <2>1. Quiet(s, paid) /\ Quiet(paid, built)
    BY <1>1, ResourceQuiet, BuildQuiet
  <2> HIDE DEF paid, built
  <2> QED BY <2>1, QuietTrans
<1>5. Quiet(built, moved) /\ moved.upgrades = built.upgrades /\ moved.queue = built.queue
  <2> HIDE DEF built
  <2>1. Shaped(built)
    BY <1>4 DEF Quiet
  <2>2. Shaped(transit) /\ transit.upgrades = built.upgrades /\ transit.queue = built.queue
    BY <2>1, TransitChanges DEF OnlyChanges, Fields
  <2>3. Quiet(built, moved)
    BY <2>1, MovementQuiet DEF ResolveMovementPhase
  <2> HIDE DEF transit
  <2>4. moved.upgrades = transit.upgrades /\ moved.queue = transit.queue
    BY <2>2, MarchChanges DEF OnlyChanges, Fields
  <2> QED BY <2>2, <2>3, <2>4
<1>6. Shaped(moved) /\ Peopled(moved) /\ Listed(moved)
  <2> HIDE DEF built, moved
  <2> QED BY <1>4, <1>5 DEF Quiet, Peopled, Listed, ArmyOwners, CitiesOf
<1>7. /\ Shaped(hurt) /\ Peopled(hurt) /\ Listed(hurt)
      /\ hurt.upgrades = moved.upgrades /\ hurt.queue = moved.queue
  <2> HIDE DEF moved
  <2>1. /\ Shaped(hurt) /\ hurt.owner = moved.owner /\ hurt.owned = moved.owned
        /\ ArmyOwners(hurt) \subseteq ArmyOwners(moved)
    BY <1>6, LossesOnly
  <2>2. hurt.upgrades = moved.upgrades /\ hurt.queue = moved.queue
    BY <1>6, CombatChanges DEF OnlyChanges, Fields
  <2> HIDE DEF hurt
  <2> QED BY <1>6, <2>1, <2>2 DEF Peopled, Listed, CitiesOf
<1>8. Shaped(fought) /\ fought.upgrades = hurt.upgrades /\ fought.queue = hurt.queue
  <2> HIDE DEF hurt
  <2> QED BY <1>7, ControlChanges DEF OnlyChanges, Fields
<1> HIDE DEF paid, built, transit, moved, hurt, fought, unpaid
<1>9. Works(fought) /\ \A c \in Cities : Rises(s.upgrades[c], fought.upgrades[c])
  BY <1>3, <1>5, <1>7, <1>8 DEF Works
<1>10. \A c \in besieged : fought.upgrades[c]["fortification"] > 0
  BY DEF DegradedBySiege
<1> HIDE DEF besieged
<1>11. /\ Shaped(sieged) /\ Works(sieged)
       /\ \A c \in Cities : sieged.upgrades[c] =
              IF c \in besieged THEN Lowered(fought.upgrades[c]) ELSE fought.upgrades[c]
  BY <1>8, <1>9, <1>10, DegradedOnly, DegradedWorks
<1> HIDE DEF sieged
<1>12. /\ Works(t)
       /\ \A c \in Cities : \/ t.upgrades[c] = sieged.upgrades[c]
                            \/ c \notin besieged /\ t.upgrades[c] = Lowered(sieged.upgrades[c])
  BY <1>11, AttritionWorks
<1>13. ASSUME NEW c \in Cities PROVE TierRule(s.upgrades[c], t.upgrades[c])
  <2>1. t.upgrades[c] = fought.upgrades[c] \/ t.upgrades[c] = Lowered(fought.upgrades[c])
    BY <1>11, <1>12
  <2>2. s.upgrades[c] \in Tiers /\ fought.upgrades[c] \in Tiers /\ t.upgrades[c] \in Tiers
    BY <1>9, <1>12 DEF Works
  <2> HIDE DEF t
  <2> QED BY <1>9, <2>1, <2>2, TierRuleLowered
<1>14. t = ResolveTick(s, orders)
  BY DEF ResolveTick, ResolveMovementPhase, ResolveCombatPhase, ResolveSiegePhase,
         unpaid, paid, built, transit, moved, hurt, fought, besieged, sieged
<1> HIDE DEF t
<1> QED BY <1>12, <1>13, <1>14

\* The orders of a tick are what validation leaves of batches that the order models let in.
LEMMA TickOrders ==
    ASSUME Tick
    PROVE  \E queued : /\ \A p \in Players : IsOrderBatch(queued[p])
                       /\ state' = ResolveTick(state, [p \in Players |-> ValidateOrders(state, p, queued[p])])
<1>1. PICK queued \in [Players -> UNION {Batches[p] : p \in Players}] :
          /\ \A p \in Players : queued[p] \in Batches[p]
          /\ state' = ResolveTick(state, [p \in Players |-> ValidateOrders(state, p, queued[p])])
  BY DEF Tick
<1> QED BY <1>1, BatchesAssumption

WorksInv == BoardInv /\ Works(state)

LEMMA InitWorks == Init => Works(state)
<1> SUFFICES ASSUME Init PROVE Works(state)
  OBVIOUS
<1>1. /\ state.upgrades = [c \in Cities |-> [t \in Tracks |-> 0]]
      /\ state.queue = [c \in Cities |-> <<>>]
  BY DEF Init
<1>2. [t \in Tracks |-> 0] \in Tiers
  BY DEF Tiers
<1>3. ASSUME NEW u PROVE SoundQueue(<<>>, u)
  BY DEF SoundQueue
<1> QED BY <1>1, <1>2, <1>3 DEF Works

LEMMA NextWorks ==
    ASSUME WorksInv, Tick
    PROVE  /\ WorksInv'
           /\ \A c \in Cities : TierRule(state.upgrades[c], state'.upgrades[c])
<1>1. PICK queued : /\ \A p \in Players : IsOrderBatch(queued[p])
                    /\ state' = ResolveTick(state, [p \in Players |-> ValidateOrders(state, p, queued[p])])
  BY TickOrders
<1> DEFINE orders == [p \in Players |-> ValidateOrders(state, p, queued[p])]
<1>2. ASSUME NEW p \in Players PROVE AcceptedUpgrades(state, p, orders[p].upgrades)
  <2>1. orders[p] = ValidateOrders(state, p, queued[p])
    OBVIOUS
  <2> HIDE DEF orders
  <2> QED BY <1>1, <2>1, UpgradesAccepted
<1>3. state' = ResolveTick(state, orders)
  BY <1>1
<1> HIDE DEF orders
<1>4. Works(state') /\ \A c \in Cities : TierRule(state.upgrades[c], state'.upgrades[c])
  BY <1>2, <1>3, TickWorks DEF WorksInv, BoardInv
<1>5. BoardInv'
  BY NextBoard DEF WorksInv, Next
<1> QED BY <1>4, <1>5 DEF WorksInv

THEOREM WorksInductive == Spec => []WorksInv
<1>1. Init => WorksInv
  BY InitBoard, InitWorks DEF WorksInv
<1>2. WorksInv /\ [Next]_vars => WorksInv'
  <2>1. WorksInv /\ UNCHANGED vars => WorksInv'
    BY DEF WorksInv, BoardInv, vars
  <2> QED BY <2>1, NextWorks DEF Next
<1> QED BY <1>1, <1>2, PTL DEF Spec

\* For every map and every choice of orders a city works on one upgrade per track at a time:
\* one that is under construction is not started, and so not paid for, again
\* (_start_upgrade_orders).
THEOREM UpgradesAreStartedOnce == Spec => []OneUpgradePerTrack
<1>1. WorksInv => OneUpgradePerTrack
  BY DEF WorksInv, Works, SoundQueue, OneUpgradePerTrack
<1> QED BY <1>1, WorksInductive, PTL

\* Tiers go up one after the other, and siege and unpaid upkeep together take one a tick
\* (_advance_build_queues, _degrade_besieged_fortifications, _degrade_unpaid_fortifications).
THEOREM TiersGoByRule == Spec => TiersByRule
<1>1. WorksInv /\ [Next]_vars =>
          [\A c \in Cities, t \in Tracks \ {"fortification"} :
               state'.upgrades[c][t] - state.upgrades[c][t] \in {0, 1}]_vars
  BY NextWorks DEF Next, TierRule
<1>2. WorksInv /\ [Next]_vars =>
          [\A c \in Cities :
               state'.upgrades[c].fortification >= state.upgrades[c].fortification - 1]_vars
  BY NextWorks DEF Next, TierRule
<1> QED BY <1>1, <1>2, WorksInductive, PTL DEF Spec, TiersByRule, BuiltInOrder, FortificationFallsByOne
-----------------------------------------------------------------------------
(* Production reserved and spent.                                          *)

\* A sum of naturals along a list.
LEMMA ListSum ==
    ASSUME NEW n \in Nat, NEW f, DOMAIN f = 1..n, \A i \in 1..n : f[i] \in Nat
    PROVE  SumFunction(f) = SumFunctionOnSet(f, 1..n) /\ SumFunction(f) \in Nat
<1>1. IsFiniteSet(1..n) /\ \A i \in 1..n : f[i] \in Int /\ f[i] >= 0
  BY FS_Interval
<1>2. SumFunctionOnSet(f, 1..n) \in Int /\ SumFunctionOnSet(f, 1..n) >= 0
  BY <1>1, SumType
<1>3. SumFunction(f) = SumFunctionOnSet(f, 1..n)
  BY Zenon DEF SumFunction
<1> QED BY <1>2, <1>3

\* A budget to take the cost of a list of orders from, and what admission makes of it.
Payable(T, orders, budget, cost, good) ==
    /\ orders \in Seq(T) /\ good \in Goods
    /\ budget[good] \in Int /\ \A o \in T : cost[o][good] \in Nat
IsPaid(r, T, budget, cost, good) ==
    /\ r.accepted \in Seq(ToSet(r.accepted)) /\ ToSet(r.accepted) \subseteq T
    /\ Left(r.budget[good], budget[good]) /\ Due(r.accepted, cost, good) \in Nat
    /\ r.budget[good] + Due(r.accepted, cost, good) = budget[good]

\* What is accepted of a list costs what the budget loses.
LEMMA AdmittedArePaid ==
    ASSUME NEW T, NEW orders, NEW budget, NEW allowed, NEW repeats, NEW cost, NEW good,
           Payable(T, orders, budget, cost, good)
    PROVE  IsPaid(Admit(orders, budget, allowed, repeats, cost), T, budget, cost, good)
<1> USE DEF Payable
<1> DEFINE r == Admit(orders, budget, allowed, repeats, cost)
           prices == [i \in DOMAIN r.accepted |-> cost[r.accepted[i]][good]]
<1>1. r.accepted \in Seq(ToSet(r.accepted)) /\ ToSet(r.accepted) \subseteq T
  BY AcceptedApart
<1>2. /\ Left(r.budget[good], budget[good])
      /\ r.budget[good] + Due(r.accepted, cost, good) = budget[good]
  BY AdmittedAreCovered
<1> DEFINE n == Len(r.accepted)
<1> HIDE DEF r
<1>3. n \in Nat /\ DOMAIN prices = 1..n /\ \A i \in 1..n : prices[i] \in Nat
  <2>1. n \in Nat /\ DOMAIN r.accepted = 1..n /\ \A i \in 1..n : r.accepted[i] \in T
    BY <1>1
  <2> HIDE DEF n
  <2> QED BY <2>1
<1>4. SumFunction(prices) \in Nat
  <2> HIDE DEF prices, n
  <2> QED BY <1>3, ListSum
<1>5. Due(r.accepted, cost, good) \in Nat
  BY <1>4 DEF Due
<1> HIDE DEF n
<1>6. IsPaid(r, T, budget, cost, good)
  BY <1>1, <1>2, <1>5 DEF IsPaid
<1> QED BY <1>6 DEF r

\* What accepted orders cost of a good.
RecruitsDue(seq, g) == SumFunction([i \in DOMAIN seq |-> RecruitmentCost(seq[i].troops)[g]])
UpgradesDue(seq, g) == SumFunction([i \in DOMAIN seq |-> UpgradeCost(seq[i].track, seq[i].tier)[g]])
TransfersDue(seq, g) == SumFunction([i \in DOMAIN seq |-> TransferCost(seq[i])[g]])

\* They cost no more of it than the stock they were weighed against, and nothing if it is owed.
Covered(stock, orders, g) ==
    /\ RecruitsDue(orders.recruitment, g) \in Nat
    /\ UpgradesDue(orders.upgrades, g) \in Nat
    /\ TransfersDue(orders.transfers, g) \in Nat
    /\ RecruitsDue(orders.recruitment, g) + UpgradesDue(orders.upgrades, g)
       + TransfersDue(orders.transfers, g) <= AtLeastZero(stock[g])

LEMMA CostsAreNatural ==
    ASSUME NEW g \in Goods
    PROVE  /\ \A n \in Nat : RecruitmentCost(n)[g] \in Nat
           /\ \A t \in Tracks, k \in 1..3 : UpgradeCost(t, k)[g] \in Nat
           /\ \A o : o.resource \in Goods /\ o.amount \in Nat =>
                  TransferCost(o)[g] = IF o.resource = g THEN o.amount ELSE 0
<1>1. \A n \in Nat : RecruitmentCost(n)[g] \in Nat
  BY DEF RecruitmentCost, NoCost, Goods
<1>2. ASSUME NEW t \in Tracks, NEW k \in 1..3 PROVE UpgradeCost(t, k)[g] \in Nat
  <2> DEFINE base == [economy |-> 7, military |-> 8, fortification |-> 6][t]
  <2>1. base \in Nat
    BY DEF Tracks
  <2>2. UpgradeCost(t, k)[g] = IF g = "production" THEN base + 4 * (k - 1) ELSE 0
    BY DEF UpgradeCost, NoCost, Goods
  <2> HIDE DEF base
  <2> QED BY <2>1, <2>2
<1>3. \A o : o.resource \in Goods /\ o.amount \in Nat =>
          TransferCost(o)[g] = IF o.resource = g THEN o.amount ELSE 0
  BY DEF TransferCost, NoCost, Goods
<1> QED BY <1>1, <1>2, <1>3

LEMMA AcceptedAreCovered ==
    ASSUME NEW s, NEW p, NEW b, IsOrderBatch(b), NEW good \in Goods, s.resources[p][good] \in Int
    PROVE  LET v == ValidateOrders(s, p, b)
           IN  /\ Covered(s.resources[p], v, good)
               /\ v.recruitment \in Seq(ToSet(v.recruitment)) /\ ToSet(v.recruitment) \subseteq ToSet(b.recruitment)
               /\ v.transfers \in Seq(ToSet(v.transfers)) /\ ToSet(v.transfers) \subseteq ToSet(b.transfers)
<1> DEFINE R == ToSet(b.recruitment)
           U == ToSet(b.upgrades)
           T == ToSet(b.transfers)
           rcost == [o \in R |-> RecruitmentCost(o.troops)]
           ucost == [o \in U |-> UpgradeCost(o.track, o.tier)]
           tcost == [o \in T |-> TransferCost(o)]
           rset == {o \in R : o.city \in CitiesOf(s, p)}
           uset == {o \in U : CanUpgrade(s, p, o)}
           tset == {o \in T : CanTransfer(s, p, o)}
           urep == Repeats(b.upgrades, LAMBDA o : <<o.city, o.track>>)
           r == Admit(b.recruitment, s.resources[p], rset, {}, rcost)
           rleft == r.budget
           u == Admit(b.upgrades, rleft, uset, urep, ucost)
           uleft == u.budget
           t == Admit(b.transfers, uleft, tset, {}, tcost)
           v == ValidateOrders(s, p, b)
<1>1. v.recruitment = r.accepted /\ v.upgrades = u.accepted /\ v.transfers = t.accepted
  BY DEF ValidateOrders
<1>2. /\ b.recruitment \in Seq(R) /\ b.upgrades \in Seq(U) /\ b.transfers \in Seq(T)
      /\ \A o \in R : o.troops \in Nat
      /\ \A o \in U : o.track \in Tracks /\ o.tier \in 1..3
      /\ \A o \in T : o.resource \in Goods /\ o.amount \in Nat
  BY DEF IsOrderBatch
<1> HIDE DEF v
<1>3. /\ \A o \in R : rcost[o] = RecruitmentCost(o.troops) /\ rcost[o][good] \in Nat
      /\ \A o \in U : ucost[o] = UpgradeCost(o.track, o.tier) /\ ucost[o][good] \in Nat
      /\ \A o \in T : tcost[o] = TransferCost(o) /\ tcost[o][good] \in Nat
  <2>1. \A o \in R : rcost[o] = RecruitmentCost(o.troops) /\ rcost[o][good] \in Nat
    <3> HIDE DEF R
    <3> QED BY <1>2, CostsAreNatural
  <2>2. \A o \in U : ucost[o] = UpgradeCost(o.track, o.tier) /\ ucost[o][good] \in Nat
    <3> HIDE DEF U
    <3> QED BY <1>2, CostsAreNatural
  <2>3. \A o \in T : tcost[o] = TransferCost(o) /\ tcost[o][good] \in Nat
    <3> HIDE DEF T
    <3>1. \A o \in T : TransferCost(o)[good] = IF o.resource = good THEN o.amount ELSE 0
      BY <1>2, CostsAreNatural
    <3> QED BY <1>2, <3>1
  <2> QED BY <2>1, <2>2, <2>3
<1> HIDE DEF R, U, T, rcost, ucost, tcost, rset, uset, tset, urep
<1>5. IsPaid(r, R, s.resources[p], rcost, good)
  <2>1. Payable(R, b.recruitment, s.resources[p], rcost, good)
    BY <1>2, <1>3 DEF Payable
  <2> QED BY <2>1, AdmittedArePaid
<1> HIDE DEF r, rleft
<1>6. IsPaid(u, U, rleft, ucost, good)
  <2>1. Payable(U, b.upgrades, rleft, ucost, good)
    BY <1>2, <1>3, <1>5 DEF Payable, IsPaid, Left, rleft
  <2> QED BY <2>1, AdmittedArePaid
<1> HIDE DEF u, uleft
<1>7. IsPaid(t, T, uleft, tcost, good)
  <2>1. Payable(T, b.transfers, uleft, tcost, good)
    BY <1>2, <1>3, <1>6 DEF Payable, IsPaid, Left, uleft
  <2> QED BY <2>1, AdmittedArePaid
<1> HIDE DEF t
<1>8. [i \in DOMAIN r.accepted |-> rcost[r.accepted[i]][good]]
      = [i \in DOMAIN r.accepted |-> RecruitmentCost(r.accepted[i].troops)[good]]
  <2>1. \A i \in DOMAIN r.accepted : r.accepted[i] \in R
    BY <1>5 DEF ToSet, IsPaid
  <2> QED BY <1>3, <2>1
<1>9. [i \in DOMAIN u.accepted |-> ucost[u.accepted[i]][good]]
      = [i \in DOMAIN u.accepted |-> UpgradeCost(u.accepted[i].track, u.accepted[i].tier)[good]]
  <2>1. \A i \in DOMAIN u.accepted : u.accepted[i] \in U
    BY <1>6 DEF ToSet, IsPaid
  <2> QED BY <1>3, <2>1
<1>10. [i \in DOMAIN t.accepted |-> tcost[t.accepted[i]][good]]
       = [i \in DOMAIN t.accepted |-> TransferCost(t.accepted[i])[good]]
  <2>1. \A i \in DOMAIN t.accepted : t.accepted[i] \in T
    BY <1>7 DEF ToSet, IsPaid
  <2> QED BY <1>3, <2>1
<1>11. /\ Due(r.accepted, rcost, good) = RecruitsDue(r.accepted, good)
       /\ Due(u.accepted, ucost, good) = UpgradesDue(u.accepted, good)
       /\ Due(t.accepted, tcost, good) = TransfersDue(t.accepted, good)
  BY <1>8, <1>9, <1>10, Zenon DEF RecruitsDue, UpgradesDue, TransfersDue, Due
<1>12. /\ RecruitsDue(r.accepted, good) \in Nat /\ UpgradesDue(u.accepted, good) \in Nat
       /\ TransfersDue(t.accepted, good) \in Nat
       /\ RecruitsDue(r.accepted, good) + UpgradesDue(u.accepted, good) + TransfersDue(t.accepted, good)
          <= AtLeastZero(s.resources[p][good])
  <2>2. /\ Left(rleft[good], s.resources[p][good]) /\ Due(r.accepted, rcost, good) \in Nat
        /\ rleft[good] + Due(r.accepted, rcost, good) = s.resources[p][good]
    BY <1>5 DEF rleft, IsPaid
  <2>3. /\ Left(uleft[good], rleft[good]) /\ Due(u.accepted, ucost, good) \in Nat
        /\ uleft[good] + Due(u.accepted, ucost, good) = rleft[good]
    BY <1>6 DEF uleft, IsPaid
  <2>4. /\ Left(t.budget[good], uleft[good]) /\ Due(t.accepted, tcost, good) \in Nat
        /\ t.budget[good] + Due(t.accepted, tcost, good) = uleft[good]
    BY <1>7 DEF IsPaid
  <2> QED BY <1>11, <2>2, <2>3, <2>4 DEF Left, AtLeastZero
<1>13. Covered(s.resources[p], v, good)
  BY <1>1, <1>12 DEF Covered
<1> QED BY <1>1, <1>5, <1>7, <1>13 DEF v, R, T, IsPaid

\* The production that the accepted upgrades of a list take, those that do not start costing nothing.
StartedCost(s, seq) ==
    SumFunction([i \in DOMAIN seq |->
        IF seq[i] \in {x \in ToSet(seq) : StartsUpgrade(s, x)}
        THEN UpgradeCost(seq[i].track, seq[i].tier)["production"] ELSE 0])

LEMMA StartedCostsLess ==
    ASSUME NEW s, NEW r, NEW p, NEW seq, AcceptedUpgrades(r, p, seq)
    PROVE  /\ StartedCost(s, seq) \in Nat
           /\ StartedCost(s, seq) <= UpgradesDue(seq, "production")
<1> DEFINE n == Len(seq)
           K == {x \in ToSet(seq) : StartsUpgrade(s, x)}
           full == [i \in DOMAIN seq |-> UpgradeCost(seq[i].track, seq[i].tier)["production"]]
           part == [i \in DOMAIN seq |->
                       IF seq[i] \in K THEN UpgradeCost(seq[i].track, seq[i].tier)["production"] ELSE 0]
<1>1. n \in Nat /\ DOMAIN seq = 1..n
  BY DEF AcceptedUpgrades
<1>2. \A i \in 1..n : UpgradeCost(seq[i].track, seq[i].tier)["production"] \in Nat
  <2>1. \A i \in 1..n : seq[i].track \in Tracks /\ seq[i].tier \in 1..3
    BY <1>1 DEF AcceptedUpgrades, ToSet
  <2> QED BY <2>1, CostsAreNatural DEF Goods
<1>3. /\ DOMAIN full = 1..n /\ DOMAIN part = 1..n
      /\ \A i \in 1..n : full[i] \in Nat /\ part[i] \in Nat /\ part[i] <= full[i]
  <2> HIDE DEF K, n
  <2> QED BY <1>1, <1>2
<1> HIDE DEF full, part, n, K
<1>4. SumFunction(part) = SumFunctionOnSet(part, 1..n) /\ SumFunction(part) \in Nat
  BY <1>1, <1>3, ListSum
<1>5. SumFunction(full) = SumFunctionOnSet(full, 1..n)
  BY <1>1, <1>3, ListSum
<1>6. IsFiniteSet(1..n)
  BY <1>1, FS_Interval
<1>7. \A i \in 1..n : part[i] \in Int /\ full[i] \in Int /\ part[i] <= full[i]
  BY <1>3
<1>8. SumFunctionOnSet(part, 1..n) <= SumFunctionOnSet(full, 1..n)
  BY <1>6, <1>7, SumMonotone
<1>9. StartedCost(s, seq) = SumFunction(part)
  BY Zenon DEF StartedCost, part, K
<1>10. UpgradesDue(seq, "production") = SumFunction(full)
  BY Zenon DEF UpgradesDue, full
<1> QED BY <1>4, <1>5, <1>8, <1>9, <1>10

\* A sum of naturals over a finite set.
LEMMA SetSum ==
    ASSUME NEW S, IsFiniteSet(S), NEW f, DOMAIN f = S, \A x \in S : f[x] \in Nat
    PROVE  SumFunction(f) = SumFunctionOnSet(f, S) /\ SumFunction(f) \in Nat
<1>1. \A x \in S : f[x] \in Int /\ f[x] >= 0
  OBVIOUS
<1>2. SumFunctionOnSet(f, S) \in Int /\ SumFunctionOnSet(f, S) >= 0
  BY <1>1, SumType
<1>3. SumFunction(f) = SumFunctionOnSet(f, S)
  BY Zenon DEF SumFunction
<1> QED BY <1>2, <1>3

\* What validation leaves of a list of transfers.
AcceptedTransfers(seq) ==
    /\ seq \in Seq(ToSet(seq))
    /\ \A o \in ToSet(seq) : o.resource \in Goods /\ o.amount \in Nat

LEMMA SentIsDue ==
    ASSUME NEW orders, NEW p, NEW g \in Goods, AcceptedTransfers(orders[p].transfers)
    PROVE  Sent(orders, p, g) = TransfersDue(orders[p].transfers, g)
<1> DEFINE seq == orders[p].transfers
           sent == [i \in DOMAIN seq |-> IF seq[i].resource = g THEN seq[i].amount ELSE 0]
           due == [i \in DOMAIN seq |-> TransferCost(seq[i])[g]]
<1>1. \A i \in DOMAIN seq : seq[i].resource \in Goods /\ seq[i].amount \in Nat
  BY DEF AcceptedTransfers, ToSet
<1> HIDE DEF seq
<1>2. \A i \in DOMAIN seq : TransferCost(seq[i])[g]
                            = IF seq[i].resource = g THEN seq[i].amount ELSE 0
  BY <1>1, CostsAreNatural
<1>3. sent = due
  BY <1>2
<1>4. Sent(orders, p, g) = SumFunction(sent)
  BY Zenon DEF Sent, TotalOf, seq
<1>5. TransfersDue(orders[p].transfers, g) = SumFunction(due)
  BY Zenon DEF TransfersDue, seq
<1> HIDE DEF sent, due
<1> QED BY <1>3, <1>4, <1>5

LEMMA ReceivedIsNatural ==
    ASSUME NEW orders, \A q \in Players : AcceptedTransfers(orders[q].transfers), NEW p, NEW g
    PROVE  Received(orders, p, g) \in Nat
<1> DEFINE from(q) == [i \in DOMAIN orders[q].transfers |->
                          IF orders[q].transfers[i].resource = g /\ orders[q].transfers[i].to = p
                          THEN orders[q].transfers[i].amount ELSE 0]
           sums == [q \in Players |-> SumFunction(from(q))]
<1>1. ASSUME NEW q \in Players PROVE SumFunction(from(q)) \in Nat
  <2> DEFINE seq == orders[q].transfers
             n == Len(seq)
             f == from(q)
  <2>1. n \in Nat /\ DOMAIN seq = 1..n /\ \A i \in 1..n : seq[i].amount \in Nat
    <3>1. AcceptedTransfers(seq)
      OBVIOUS
    <3> HIDE DEF seq
    <3>2. n \in Nat /\ DOMAIN seq = 1..n
      BY <3>1 DEF AcceptedTransfers
    <3>3. \A i \in DOMAIN seq : seq[i].amount \in Nat
      BY <3>1 DEF AcceptedTransfers, ToSet
    <3> QED BY <3>2, <3>3
  <2>2. DOMAIN f = 1..n /\ \A i \in 1..n : f[i] \in Nat
    <3> HIDE DEF n
    <3> QED BY <2>1
  <2> HIDE DEF f, n
  <2>3. SumFunction(f) \in Nat
    BY <2>1, <2>2, ListSum
  <2> QED BY <2>3 DEF f
<1>2. DOMAIN sums = Players /\ \A q \in Players : sums[q] \in Nat
  <2> HIDE DEF from
  <2> QED BY <1>1
<1>3. Received(orders, p, g) = SumFunction(sums)
  BY Zenon DEF Received, TotalOver, TotalOf
<1> HIDE DEF sums
<1> QED BY <1>2, <1>3, SetSum, PlayersAssumption

\* The cities of a set can be listed in the order of their ids.
LEMMA OrderIsAList ==
    ASSUME NEW S, S \subseteq Cities
    PROVE  InOrder(S) \in Seq(S)
<1> DEFINE ahead == [c \in S |-> {d \in S : d < c}]
           n == Cardinality(S)
<1>1. IsFiniteSet(S) /\ n \in Nat /\ S \subseteq Nat
  BY CitiesAssumption, FS_Subset, FS_CardinalityType
<1>2. Ranks(ahead, S)
  <2>1. \A c \in S : ahead[c] \subseteq S /\ c \notin ahead[c]
    BY <1>1
  <2>2. \A c, d \in S : d \in ahead[c] <=> d < c
    OBVIOUS
  <2>3. \A c, d \in S : d \in ahead[c] => ahead[d] \subseteq ahead[c]
    <3> HIDE DEF ahead
    <3>1. ASSUME NEW c \in S, NEW d \in S, d \in ahead[c], NEW e \in ahead[d] PROVE e \in ahead[c]
      <4>1. e \in S /\ e < d /\ d < c /\ c \in Nat /\ d \in Nat /\ e \in Nat
        BY <1>1, <2>1, <2>2, <3>1
      <4> QED BY <2>2, <4>1
    <3> QED BY <3>1
  <2>4. \A c, d \in S : c # d => c \in ahead[d] \/ d \in ahead[c]
    BY <1>1, <2>2
  <2> HIDE DEF ahead
  <2> QED BY <2>1, <2>3, <2>4 DEF Ranks
<1>3. PICK list \in [1..n -> S] : \A i, j \in 1..n : i < j => list[i] \in ahead[list[j]]
  <2> HIDE DEF ahead
  <2> QED BY <1>1, <1>2, RankedList
<1> HIDE DEF n
<1>4. \A i, j \in DOMAIN list : i < j => list[i] < list[j]
  BY <1>3
<1>5. InOrder(S) \in [1..n -> S]
  BY <1>3, <1>4 DEF InOrder, n
<1> QED BY <1>1, <1>5

\* What upkeep leaves of the money is a number.
LEMMA UpkeepLeaves ==
    ASSUME NEW s, Works(s), NEW p, NEW money \in Int
    PROVE  FortificationUpkeep(s, p, money).money \in Int
<1> DEFINE fortified == {c \in CitiesOf(s, p) : s.upgrades[c].fortification > 0}
           cost == [c \in fortified |-> [NoCost EXCEPT !["money"] = s.upgrades[c].fortification]]
           budget == [NoCost EXCEPT !["money"] = money]
           paid == Admit(InOrder(fortified), budget, fortified, {}, cost)
<1>1. fortified \subseteq Cities
  BY DEF CitiesOf
<1>2. \A c \in fortified : cost[c]["money"] \in Nat
  <2>1. ASSUME NEW c \in Cities PROVE s.upgrades[c].fortification \in Nat
    BY DEF Works, Tiers, Tracks
  <2> QED BY <1>1, <2>1 DEF NoCost, Goods
<1>3. "money" \in Goods /\ budget["money"] \in Int
  BY DEF NoCost, Goods
<1>4. InOrder(fortified) \in Seq(fortified)
  <2> HIDE DEF fortified
  <2> QED BY <1>1, OrderIsAList
<1>5. FortificationUpkeep(s, p, money).money = paid.budget["money"]
  BY DEF FortificationUpkeep
<1> HIDE DEF fortified, cost, budget
<1>6. Left(paid.budget["money"], budget["money"])
  BY <1>2, <1>3, <1>4, AdmittedAreCovered
<1> QED BY <1>5, <1>6 DEF Left

\* Every player has a stock, and no production is owed.
Stocked(s) ==
    /\ s.resources \in [Players -> [Goods -> Int]]
    /\ \A p \in Players : s.resources[p]["production"] >= 0

\* What the cities of a player yield, and what they and its armies eat.
LEMMA YieldsAreNatural ==
    ASSUME NEW s, Works(s), Stocked(s), NEW p \in Players, NEW g \in Goods
    PROVE  Income(s, p)[g] \in Int /\ Income(s, p)[g] >= s.resources[p][g]
<1> DEFINE S == CitiesOf(s, p)
           f == [c \in S |-> CityYield(s, c)[g]]
<1>1. ASSUME NEW c \in Cities PROVE CityYield(s, c)[g] \in Nat
  <2> DEFINE base == Yield[c][g]
             bonus == 3 + s.upgrades[c].economy
             product == base * bonus
  <2>1. base \in Nat
    BY YieldAssumption
  <2>2. bonus \in Nat
    BY DEF Works, Tiers, Tracks
  <2>3. product \in Nat
    <3> HIDE DEF base, bonus
    <3> QED BY <2>1, <2>2
  <2>4. CityYield(s, c)[g] = IF g = PrimaryResource(c) THEN product \div 3 ELSE base
    BY DEF CityYield
  <2> HIDE DEF product, base
  <2>5. product \div 3 \in Nat
    BY <2>3
  <2> QED BY <2>1, <2>4, <2>5
<1>2. IsFiniteSet(S)
  BY CitiesAssumption, FS_Subset DEF CitiesOf
<1>3. DOMAIN f = S /\ \A c \in S : f[c] \in Nat
  BY <1>1 DEF CitiesOf
<1>4. Income(s, p)[g] = s.resources[p][g] + SumFunction(f)
  BY DEF Income, TotalOver
<1> HIDE DEF f, S
<1>5. SumFunction(f) \in Nat
  BY <1>2, <1>3, SetSum
<1> QED BY <1>4, <1>5 DEF Stocked

LEMMA UpkeepIsNatural ==
    ASSUME NEW s, IsFiniteSet(s.armies), \A a \in s.armies : a.troops \in Nat, NEW p
    PROVE  FoodUpkeep(s, p) \in Nat
<1> DEFINE S == CitiesOf(s, p)
           A == {a \in s.armies : a.owner = p}
           eaten == [c \in S |-> Population[c]]
           troops == [a \in A |-> a.troops]
<1>1. IsFiniteSet(S) /\ IsFiniteSet(A)
  BY CitiesAssumption, FS_Subset DEF CitiesOf
<1>2. /\ DOMAIN eaten = S /\ \A c \in S : eaten[c] \in Nat
      /\ DOMAIN troops = A /\ \A a \in A : troops[a] \in Nat
  BY YieldAssumption DEF CitiesOf
<1>3. FoodUpkeep(s, p) = SumFunction(eaten) + SumFunction(troops)
  BY Zenon DEF FoodUpkeep, TotalOver
<1> HIDE DEF eaten, troops, S, A
<1>4. SumFunction(eaten) \in Nat /\ SumFunction(troops) \in Nat
  BY <1>1, <1>2, SetSum
<1> QED BY <1>3, <1>4

\* The resource phase pays out production and takes none, and leaves no food and no money owed.
LEMMA ResourceStock ==
    ASSUME NEW s, Shaped(s), Works(s), Stocked(s),
           IsFiniteSet(s.armies), \A a \in s.armies : a.troops \in Nat
    PROVE  LET t == ResolveResourcePhase(s)
           IN  /\ Stocked(t)
               /\ \A p \in Players : s.resources[p]["production"] <= t.resources[p]["production"]
               /\ \A p \in Players, g \in Upkept : t.resources[p][g] >= 0
<1> DEFINE t == ResolveResourcePhase(s)
           food(p) == AtLeastZero(Income(s, p)["food"] - FoodUpkeep(s, p))
           production(p) == Income(s, p)["production"]
           money(p) == AtLeastZero(FortificationUpkeep(s, p, Income(s, p)["money"]).money)
           stock == [p \in Players |-> [food |-> food(p), production |-> production(p), money |-> money(p)]]
<1>1. "food" \in Goods /\ "production" \in Goods /\ "money" \in Goods
  BY DEF Goods
<1>2. ASSUME NEW p \in Players
      PROVE  /\ food(p) \in Int /\ food(p) >= 0
             /\ production(p) \in Int /\ production(p) >= s.resources[p]["production"]
             /\ money(p) \in Int /\ money(p) >= 0
  <2>1. /\ Income(s, p)["food"] \in Int /\ Income(s, p)["money"] \in Int
        /\ production(p) \in Int /\ production(p) >= s.resources[p]["production"]
    BY <1>1, YieldsAreNatural
  <2>2. FoodUpkeep(s, p) \in Nat
    BY UpkeepIsNatural
  <2>3. FortificationUpkeep(s, p, Income(s, p)["money"]).money \in Int
    BY <2>1, UpkeepLeaves
  <2> QED BY <2>1, <2>2, <2>3 DEF AtLeastZero
<1>3. t = [s EXCEPT !.resources = stock]
  BY DEF ResolveResourcePhase
<1> HIDE DEF food, production, money
<1>4. /\ stock \in [Players -> [Goods -> Int]]
      /\ \A p \in Players : /\ stock[p]["food"] = food(p) /\ stock[p]["production"] = production(p)
                            /\ stock[p]["money"] = money(p)
  <2>1. ASSUME NEW p \in Players
        PROVE  [food |-> food(p), production |-> production(p), money |-> money(p)] \in [Goods -> Int]
    BY <1>2 DEF Goods
  <2> QED BY <2>1
<1> HIDE DEF stock, t
<1>5. t.resources = stock
  BY <1>3 DEF Shaped, Fields
<1>6. \A p \in Players : /\ t.resources[p]["production"] >= 0
                         /\ s.resources[p]["production"] <= t.resources[p]["production"]
  BY <1>1, <1>2, <1>4, <1>5 DEF Stocked
<1>7. \A p \in Players, g \in Upkept : t.resources[p][g] >= 0
  BY <1>2, <1>4, <1>5 DEF Upkept, Goods
<1> QED BY <1>4, <1>5, <1>6, <1>7 DEF Stocked, t

\* Nothing is spent in the build phase but what validation reserved of the stock it found.
LEMMA BuildStock ==
    ASSUME NEW s, NEW orders, Shaped(s), Stocked(s),
           NEW found \in [Players -> [Goods -> Int]],
           \A p \in Players : /\ \A g \in Goods : Covered(found[p], orders[p], g)
                              /\ \E r : AcceptedUpgrades(r, p, orders[p].upgrades)
                              /\ AcceptedTransfers(orders[p].transfers)
    PROVE  LET t == ResolveBuildPhase(s, orders)
           IN  /\ t.resources \in [Players -> [Goods -> Int]]
               /\ \A p \in Players, g \in Goods :
                      t.resources[p][g] >= s.resources[p][g] - AtLeastZero(found[p][g])
<1> DEFINE advanced == AdvanceBuildQueues(s)
           recruited == ProcessRecruitment(advanced, orders)
           upgrading == StartUpgrades(recruited, s, orders)
           t == ProcessTransfers(upgrading, orders)
<1>1. Shaped(advanced) /\ advanced.resources = s.resources
  BY QueuesChange DEF OnlyChanges, Fields
<1>2. Shaped(recruited)
  <2> HIDE DEF advanced
  <2> QED BY <1>1, RecruitmentChanges DEF OnlyChanges
<1>3. Shaped(upgrading)
  <2> HIDE DEF recruited
  <2> QED BY <1>2, UpgradesChange DEF OnlyChanges
<1>4. recruited.resources = [p \in Players |-> [g \in Goods |->
          s.resources[p][g] - TotalOf(orders[p].recruitment, LAMBDA o : RecruitmentCost(o.troops)[g])]]
  <2> DEFINE stock == [p \in Players |-> [g \in Goods |->
          advanced.resources[p][g] - TotalOf(orders[p].recruitment, LAMBDA o : RecruitmentCost(o.troops)[g])]]
  <2>1. PICK x : recruited = [advanced EXCEPT !.resources = stock, !.armies = x]
    BY DEF ProcessRecruitment
  <2> HIDE DEF stock, recruited, advanced
  <2>2. recruited.resources = stock
    BY <1>1, <2>1 DEF Shaped, Fields
  <2> QED BY <1>1, <2>2 DEF stock
<1>5. upgrading.resources = [p \in Players |->
          Spent(recruited.resources[p], StartedCost(s, orders[p].upgrades))]
  <2> DEFINE stock == [p \in Players |-> Spent(recruited.resources[p], StartedCost(s, orders[p].upgrades))]
  <2>1. PICK x : upgrading = [recruited EXCEPT !.resources = stock, !.queue = x]
    BY DEF StartUpgrades, StartedCost, TotalOf
  <2> HIDE DEF stock, upgrading, recruited
  <2>2. upgrading.resources = stock
    BY <1>2, <2>1 DEF Shaped, Fields
  <2> QED BY <2>2 DEF stock
<1>6. t.resources = [p \in Players |-> [g \in Goods |->
          upgrading.resources[p][g] - Sent(orders, p, g) + Received(orders, p, g)]]
  <2> DEFINE stock == [p \in Players |-> [g \in Goods |->
          upgrading.resources[p][g] - Sent(orders, p, g) + Received(orders, p, g)]]
  <2>1. t = [upgrading EXCEPT !.resources = stock]
    BY DEF ProcessTransfers
  <2> HIDE DEF stock, t, upgrading
  <2>2. t.resources = stock
    BY <1>3, <2>1 DEF Shaped, Fields
  <2> QED BY <2>2 DEF stock
<1> HIDE DEF advanced, recruited, upgrading, t
<1>7. ASSUME NEW p \in Players, NEW g \in Goods
      PROVE  /\ t.resources[p][g] \in Int
             /\ t.resources[p][g] >= s.resources[p][g] - AtLeastZero(found[p][g])
  <2> DEFINE spent == TotalOf(orders[p].recruitment, LAMBDA o : RecruitmentCost(o.troops)[g])
             started == IF g = "production" THEN StartedCost(s, orders[p].upgrades) ELSE 0
  <2>2. spent = RecruitsDue(orders[p].recruitment, g)
    BY Zenon DEF TotalOf, RecruitsDue
  <2>3. recruited.resources[p][g] = s.resources[p][g] - spent /\ DOMAIN recruited.resources[p] = Goods
    BY <1>4
  <2> HIDE DEF spent
  <2>8. /\ StartedCost(s, orders[p].upgrades) \in Nat
        /\ StartedCost(s, orders[p].upgrades) <= UpgradesDue(orders[p].upgrades, "production")
    BY StartedCostsLess
  <2>9. Covered(found[p], orders[p], g) /\ s.resources[p][g] \in Int /\ found[p][g] \in Int
    BY DEF Stocked
  <2>a. started \in Nat /\ started <= UpgradesDue(orders[p].upgrades, g)
    BY <2>8, <2>9 DEF Covered
  <2>4. upgrading.resources[p][g] = recruited.resources[p][g] - started
    <3>1. upgrading.resources[p] = Spent(recruited.resources[p], StartedCost(s, orders[p].upgrades))
      BY <1>5
    <3>2. recruited.resources[p][g] \in Int
      BY <2>2, <2>3, <2>9 DEF Covered
    <3> QED BY <2>3, <3>1, <3>2 DEF Spent
  <2> HIDE DEF started
  <2>5. t.resources[p][g]
        = upgrading.resources[p][g] - Sent(orders, p, g) + Received(orders, p, g)
    BY <1>6
  <2>6. Sent(orders, p, g) = TransfersDue(orders[p].transfers, g)
    BY SentIsDue
  <2>7. Received(orders, p, g) \in Nat
    BY ReceivedIsNatural
  <2>b. AtLeastZero(found[p][g]) \in Int
    BY <2>9 DEF AtLeastZero
  <2> QED BY <2>2, <2>3, <2>4, <2>5, <2>6, <2>7, <2>9, <2>a, <2>b DEF Covered
<1>8. t.resources \in [Players -> [Goods -> Int]]
  <2>1. \A p \in Players : DOMAIN t.resources[p] = Goods
    BY <1>6
  <2>2. \A p \in Players : t.resources[p] = [g \in Goods |-> t.resources[p][g]]
    BY <1>6
  <2>3. \A p \in Players : t.resources[p] \in [Goods -> Int]
    BY <1>7, <2>1, <2>2
  <2>4. DOMAIN t.resources = Players /\ t.resources = [p \in Players |-> t.resources[p]]
    BY <1>6
  <2> QED BY <2>3, <2>4
<1> QED BY <1>7, <1>8 DEF ResolveBuildPhase, t, advanced, recruited, upgrading
-----------------------------------------------------------------------------
(* The armies on the board.                                                *)

\* An army of a player, at a city or on the way to one, its id naming its owner.
Fit(a) ==
    /\ IsArmy(a)
    /\ a.id \in ArmyId /\ a.owner \in Players /\ a.id.owner = a.owner
    /\ a.troops \in Nat \ {0}
    /\ IF a.destination = None THEN a.location \in Cities /\ a.ticks = 0
       ELSE a.location = None /\ a.destination \in Cities /\ a.ticks \in Nat \ {0}

Fielded(armies) ==
    /\ IsFiniteSet(armies)
    /\ \A a \in armies : Fit(a)
    /\ \A a, b \in armies : a.id = b.id => a = b

\* A phase that treats every army by itself and leaves its id alone keeps the armies fielded.
ImageOf(f, S) == {f[a] : a \in S}
Treats(f, S) == \A a \in S : Fit(f[a]) /\ f[a].id = a.id

LEMMA ImageFielded ==
    ASSUME NEW A, Fielded(A), NEW S, S \subseteq A, NEW f, Treats(f, S)
    PROVE  Fielded(ImageOf(f, S))
<1> DEFINE B == ImageOf(f, S)
<1>1. IsFiniteSet(S)
  BY FS_Subset DEF Fielded
<1>2. IsFiniteSet(B)
  <2> DEFINE g == [a \in S |-> f[a]]
  <2>1. g \in Surjection(S, B)
    BY DEF Surjection, ImageOf
  <2> HIDE DEF g
  <2> QED BY <1>1, <2>1, FS_Surjection
<1>3. \A b \in B : Fit(b)
  BY DEF ImageOf, Treats
<1>4. ASSUME NEW b \in B, NEW d \in B, b.id = d.id PROVE b = d
  <2>1. PICK x \in S : b = f[x]
    BY DEF ImageOf
  <2>2. PICK y \in S : d = f[y]
    BY DEF ImageOf
  <2>3. x.id = y.id /\ x \in A /\ y \in A
    BY <1>4, <2>1, <2>2 DEF Treats
  <2>4. x = y
    BY <2>3 DEF Fielded
  <2> QED BY <2>1, <2>2, <2>4
<1> QED BY <1>2, <1>3, <1>4 DEF Fielded

LEMMA FitTroops ==
    ASSUME NEW a, Fit(a), NEW n \in Nat \ {0}, NEW b, b = [a EXCEPT !.troops = n]
    PROVE  Fit(b) /\ b.id = a.id
<1>1. /\ IsArmy(b) /\ b.id = a.id /\ b.owner = a.owner /\ b.troops = n
      /\ b.location = a.location /\ b.destination = a.destination /\ b.ticks = a.ticks
  BY DEF Fit, IsArmy, ArmyFields
<1> QED BY <1>1 DEF Fit

Spot(l, d, n) == IF d = None THEN l \in Cities /\ n = 0 ELSE l = None /\ d \in Cities /\ n \in Nat \ {0}
Placed(a, l, d, n) == [a EXCEPT !.location = l, !.destination = d, !.ticks = n]

LEMMA FitPlace ==
    ASSUME NEW a, Fit(a), NEW l, NEW d, NEW n, Spot(l, d, n)
    PROVE  Fit(Placed(a, l, d, n)) /\ Placed(a, l, d, n).id = a.id
<1> DEFINE b == Placed(a, l, d, n)
<1>1. /\ IsArmy(b) /\ b.id = a.id /\ b.owner = a.owner /\ b.troops = a.troops
      /\ b.location = l /\ b.destination = d /\ b.ticks = n
  BY DEF Fit, IsArmy, ArmyFields, Placed
<1> HIDE DEF b
<1>2. Fit(b)
  BY <1>1 DEF Fit, Spot
<1> QED BY <1>1, <1>2 DEF b

Closer(a) ==
    IF a.destination = None THEN a
    ELSE IF a.ticks = 1
         THEN [a EXCEPT !.location = a.destination, !.destination = None, !.ticks = 0]
         ELSE [a EXCEPT !.ticks = @ - 1]

LEMMA FitCloser == ASSUME NEW a, Fit(a) PROVE Fit(Closer(a)) /\ Closer(a).id = a.id
<1>1. CASE a.destination = None
  BY <1>1 DEF Closer
<1>2. CASE a.destination # None /\ a.ticks = 1
  <2>1. Closer(a) = Placed(a, a.destination, None, 0)
    BY <1>2 DEF Closer, Placed
  <2>2. Spot(a.destination, None, 0)
    BY <1>2 DEF Fit, Spot
  <2> QED BY <2>1, <2>2, FitPlace
<1>3. CASE a.destination # None /\ a.ticks # 1
  <2>1. Closer(a) = [a EXCEPT !.ticks = a.ticks - 1]
    BY <1>3 DEF Closer
  <2>2. /\ IsArmy(Closer(a)) /\ Closer(a).id = a.id /\ Closer(a).owner = a.owner
        /\ Closer(a).troops = a.troops /\ Closer(a).location = a.location
        /\ Closer(a).destination = a.destination /\ Closer(a).ticks = a.ticks - 1
    BY <2>1 DEF Fit, IsArmy, ArmyFields
  <2>3. a.ticks - 1 \in Nat \ {0}
    BY <1>3 DEF Fit
  <2> QED BY <1>3, <2>2, <2>3 DEF Fit
<1> QED BY <1>1, <1>2, <1>3

LEMMA TransitFields ==
    ASSUME NEW s, Shaped(s), Fielded(s.armies) PROVE Fielded(AdvanceTransit(s).armies)
<1> DEFINE t == AdvanceTransit(s)
           A == s.armies
           f == [a \in A |-> Closer(a)]
<1>1. t = [s EXCEPT !.armies = {Closer(a) : a \in s.armies}]
  BY DEF AdvanceTransit, Closer
<1> HIDE DEF t
<1>2. t.armies = {Closer(a) : a \in A}
  BY <1>1 DEF Shaped, Fields
<1>3. t.armies = ImageOf(f, A)
  BY <1>2 DEF ImageOf
<1>4. Treats(f, A)
  BY FitCloser DEF Fielded, Treats
<1> HIDE DEF f, A
<1>5. Fielded(t.armies)
  BY <1>3, <1>4, ImageFielded DEF A
<1> QED BY <1>5 DEF t

\* What validation leaves of a list of moves: one order per army.
AcceptedMoves(seq) ==
    /\ seq \in Seq(ToSet(seq))
    /\ \A i, j \in DOMAIN seq : seq[i].army = seq[j].army => i = j

LEMMA MovesAccepted ==
    ASSUME NEW s, NEW p, NEW b, IsOrderBatch(b)
    PROVE  AcceptedMoves(ValidateOrders(s, p, b).movements)
<1> DEFINE all == b.movements
           allowed == {o \in ToSet(all) : CanMove(s, p, o)}
           repeats == Repeats(all, LAMBDA o : o.army)
           cost == [o \in ToSet(all) |-> NoCost]
           seq == ValidateOrders(s, p, b).movements
<1>1. seq = Admit(all, NoCost, allowed, repeats, cost).accepted
  BY DEF ValidateOrders
<1>2. all \in Seq(ToSet(all))
  BY DEF IsOrderBatch
<1>3. \A x, y \in ToSet(all) : x.army = y.army => Repeated(x, y, repeats)
  BY DEF Repeats, Repeated
<1> HIDE DEF all, allowed, repeats, cost, seq
<1>4. /\ seq \in Seq(ToSet(seq)) /\ ToSet(seq) \subseteq ToSet(all)
      /\ \A i, j \in DOMAIN seq : Repeated(seq[i], seq[j], repeats) => i = j
  <2> DEFINE T == ToSet(all)
             taken == Admit(all, NoCost, allowed, repeats, cost).accepted
  <2>1. all \in Seq(T)
    BY <1>2
  <2> HIDE DEF T
  <2>2. /\ taken \in Seq(ToSet(taken)) /\ ToSet(taken) \subseteq T /\ ToSet(taken) \subseteq allowed
        /\ \A i, j \in DOMAIN taken : Repeated(taken[i], taken[j], repeats) => i = j
    BY <2>1, AcceptedApart
  <2> HIDE DEF taken
  <2>3. seq = taken
    BY <1>1 DEF taken
  <2> QED BY <2>2, <2>3 DEF T
<1>5. \A i \in DOMAIN seq : seq[i] \in ToSet(all)
  BY <1>4 DEF ToSet
<1>6. ASSUME NEW i \in DOMAIN seq, NEW j \in DOMAIN seq, seq[i].army = seq[j].army PROVE i = j
  BY <1>3, <1>4, <1>5, <1>6
<1>7. AcceptedMoves(seq)
  BY <1>4, <1>6 DEF AcceptedMoves
<1> QED BY <1>7 DEF seq

MarchTo(orders, a) == (CHOOSE o \in MovesOf(orders, a) : TRUE).destination
Marched(orders, a) ==
    IF Ordered(orders, a)
    THEN [a EXCEPT !.location = None, !.destination = MarchTo(orders, a),
                   !.ticks = Distance(a.location, MarchTo(orders, a))]
    ELSE a

LEMMA FitMarched ==
    ASSUME NEW orders, NEW a, Fit(a), AcceptedMoves(orders[a.owner].movements)
    PROVE  Fit(Marched(orders, a)) /\ Marched(orders, a).id = a.id
<1>1. CASE ~Ordered(orders, a)
  BY <1>1 DEF Marched
<1>2. CASE Ordered(orders, a)
  <2> DEFINE to == MarchTo(orders, a)
             far == Distance(a.location, to)
  <2>1. PICK o \in MovesOf(orders, a) : \E e \in Edges : e.ends = {a.location, o.destination}
    BY <1>2 DEF Ordered
  <2>2. \A x \in MovesOf(orders, a) : x = o
    <3> DEFINE seq == orders[a.owner].movements
    <3>1. \A x \in MovesOf(orders, a) : x.army = a.id /\ \E i \in DOMAIN seq : x = seq[i]
      BY DEF MovesOf, ToSet
    <3>2. \A i, j \in DOMAIN seq : seq[i].army = seq[j].army => i = j
      BY DEF AcceptedMoves
    <3> HIDE DEF seq
    <3> QED BY <2>1, <3>1, <3>2
  <2>3. to = o.destination
    BY <2>1, <2>2 DEF MarchTo
  <2>4. PICK e \in Edges : e.ends = {a.location, to} /\ Distance(a.location, to) = e.ticks
    BY <2>1, <2>3 DEF Distance
  <2>5. e.ticks \in Nat \ {0} /\ \E c, d \in Cities : e.ends = {c, d}
    BY EdgesAssumption
  <2>6. to \in Cities
    BY <2>4, <2>5
  <2>7. Marched(orders, a) = Placed(a, None, to, far)
    BY <1>2 DEF Marched, Placed
  <2> HIDE DEF to, far
  <2>8. far \in Nat \ {0}
    BY <2>4, <2>5 DEF far
  <2>9. to # None
    BY <2>6, NoneAssumption
  <2>10. Spot(None, to, far)
    BY <2>6, <2>8, <2>9 DEF Spot
  <2> QED BY <2>7, <2>10, FitPlace
<1> QED BY <1>1, <1>2

LEMMA MarchFields ==
    ASSUME NEW s, NEW orders, Shaped(s), Fielded(s.armies),
           \A p \in Players : AcceptedMoves(orders[p].movements)
    PROVE  Fielded(StartMovements(s, orders).armies)
<1> DEFINE t == StartMovements(s, orders)
           A == s.armies
           f == [a \in A |-> Marched(orders, a)]
<1>1. t = [s EXCEPT !.armies = {Marched(orders, a) : a \in s.armies}]
  BY DEF StartMovements, Marched, MarchTo
<1> HIDE DEF t
<1>2. t.armies = {Marched(orders, a) : a \in A}
  BY <1>1 DEF Shaped, Fields
<1>3. t.armies = ImageOf(f, A)
  BY <1>2 DEF ImageOf
<1>4. Treats(f, A)
  <2>1. \A a \in A : Fit(a) /\ AcceptedMoves(orders[a.owner].movements)
    BY DEF Fielded, Fit
  <2> QED BY <2>1, FitMarched DEF Treats
<1> HIDE DEF f, A
<1>5. Fielded(t.armies)
  BY <1>3, <1>4, ImageFielded DEF A
<1> QED BY <1>5 DEF t

\* The least free number of a city's recruits exists: fewer numbers are taken than there are.
LEMMA NextIdIsFree ==
    ASSUME NEW s, Fielded(s.armies), NEW p \in Players, NEW c \in Cities
    PROVE  LET id == NextArmyId(s, p, c)
           IN  /\ id \in ArmyId /\ id.owner = p /\ id.city = c
               /\ \A a \in s.armies : a.id # id
<1> DEFINE mine == {b \in s.armies : b.id.owner = p /\ b.id.city = c}
           taken == {a.id.number : a \in mine}
           N == Cardinality(taken)
           free == {n \in 1..(N + 1) : n \notin taken}
           Least(n) == n \notin taken /\ \A k \in 1..(n - 1) : k \in taken
           least == CHOOSE n \in 1..(N + 1) : Least(n)
           id == NextArmyId(s, p, c)
<1>1. IsFiniteSet(mine)
  BY FS_Subset DEF Fielded
<1>2. IsFiniteSet(taken) /\ N \in Nat
  <2> DEFINE g == [a \in mine |-> a.id.number]
  <2>1. g \in Surjection(mine, taken)
    BY DEF Surjection
  <2> HIDE DEF g, mine, taken
  <2>2. IsFiniteSet(taken)
    BY <1>1, <2>1, FS_Surjection
  <2> QED BY <2>2, FS_CardinalityType DEF N
<1>3. free # {}
  <2> HIDE DEF taken
  <2>1. SUFFICES ASSUME free = {} PROVE FALSE
    OBVIOUS
  <2>2. 1..(N + 1) \subseteq taken
    BY <2>1
  <2>3. Cardinality(1..(N + 1)) = N + 1
    BY <1>2, FS_Interval
  <2>4. Cardinality(1..(N + 1)) <= N
    BY <1>2, <2>2, FS_Subset
  <2> QED BY <1>2, <2>3, <2>4
<1>4. \E n \in 1..(N + 1) : Least(n)
  <2> HIDE DEF taken, N
  <2>1. free \in SUBSET Nat
    BY <1>2
  <2>2. PICK n \in free : \A y \in free : n <= y
    <3> HIDE DEF free
    <3> QED BY <1>3, <2>1, LeastNatural
  <2>3. ASSUME NEW k \in 1..(n - 1) PROVE k \in taken
    <3>1. k \in 1..(N + 1) /\ ~(n <= k)
      BY <1>2, <2>2
    <3> QED BY <2>2, <3>1
  <2> QED BY <2>2, <2>3
<1> HIDE DEF N
<1>5. least \in 1..(N + 1) /\ least \notin taken
  <2> HIDE DEF taken
  <2> QED BY <1>4
<1>6. id = [owner |-> p, city |-> c, number |-> least]
  BY DEF NextArmyId, N
<1> HIDE DEF least, id
<1>7. id \in ArmyId /\ id.owner = p /\ id.city = c /\ id.number = least
  BY <1>2, <1>5, <1>6 DEF ArmyId
<1>8. ASSUME NEW a \in s.armies, a.id = id PROVE FALSE
  <2>1. a \in mine
    BY <1>7, <1>8
  <2>2. least \in taken
    BY <1>7, <1>8, <2>1
  <2> QED BY <1>5, <2>2
<1> QED BY <1>7, <1>8 DEF id

\* What validation leaves of a list of recruitment orders.
AcceptedRecruits(seq) ==
    /\ seq \in Seq(ToSet(seq))
    /\ \A o \in ToSet(seq) : o.troops \in Nat

LEMMA RecruitsAreNatural ==
    ASSUME NEW orders, NEW p, AcceptedRecruits(orders[p].recruitment), NEW c
    PROVE  Recruits(orders, p, c) \in Nat
<1> DEFINE seq == orders[p].recruitment
           n == Len(seq)
           f == [i \in DOMAIN seq |-> IF seq[i].city = c THEN seq[i].troops ELSE 0]
<1>1. n \in Nat /\ DOMAIN seq = 1..n /\ \A i \in 1..n : seq[i].troops \in Nat
  <2>1. AcceptedRecruits(seq)
    OBVIOUS
  <2> HIDE DEF seq
  <2>2. n \in Nat /\ DOMAIN seq = 1..n
    BY <2>1 DEF AcceptedRecruits
  <2>3. \A i \in DOMAIN seq : seq[i].troops \in Nat
    BY <2>1 DEF AcceptedRecruits, ToSet
  <2> QED BY <2>2, <2>3
<1>2. Recruits(orders, p, c) = SumFunction(f)
  BY Zenon DEF Recruits, TotalOf
<1> HIDE DEF n
<1>3. DOMAIN f = 1..n /\ \A i \in 1..n : f[i] \in Nat
  <2> HIDE DEF seq
  <2> QED BY <1>1
<1> HIDE DEF f
<1> QED BY <1>1, <1>2, <1>3, ListSum

\* Recruits join an army or found one under an id of its own.
Joins(s, a) ==
    /\ a.destination = None
    /\ a \in FriendlyStationed(s, a.location)
    /\ \A b \in FriendlyStationed(s, a.location) : ~SortsBefore(b.id, a.id)
Reinforced(a, troops) == [a EXCEPT !.troops = @ + troops]
Grown(s, orders, a) ==
    IF Joins(s, a) THEN Reinforced(a, Recruits(orders, a.owner, a.location)) ELSE a
FoundedIn(s, orders) ==
    {c \in Cities : /\ s.owner[c] # None
                    /\ FriendlyStationed(s, c) = {}
                    /\ Recruits(orders, s.owner[c], c) > 0}
Founded(s, orders, c) == NewArmy(s, s.owner[c], c, Recruits(orders, s.owner[c], c))

LEMMA FitGrown ==
    ASSUME NEW s, NEW orders, NEW a, Fit(a),
           \A p \in Players : AcceptedRecruits(orders[p].recruitment)
    PROVE  Fit(Grown(s, orders, a)) /\ Grown(s, orders, a).id = a.id
<1> DEFINE more == Recruits(orders, a.owner, a.location)
           total == a.troops + more
<1>1. more \in Nat
  BY RecruitsAreNatural DEF Fit
<1>2. total \in Nat \ {0}
  <2> HIDE DEF more
  <2> QED BY <1>1 DEF Fit
<1>3. Reinforced(a, more) = [a EXCEPT !.troops = total]
  BY DEF Reinforced
<1>4. Fit(Reinforced(a, more)) /\ Reinforced(a, more).id = a.id
  <2> HIDE DEF total, more
  <2> QED BY <1>2, <1>3, FitTroops
<1> QED BY <1>4 DEF Grown

LEMMA FitFounded ==
    ASSUME NEW s, Fielded(s.armies), s.owner \in [Cities -> Players \cup {None}], NEW orders,
           \A p \in Players : AcceptedRecruits(orders[p].recruitment), NEW c \in FoundedIn(s, orders)
    PROVE  LET a == Founded(s, orders, c)
           IN  Fit(a) /\ a.id.city = c /\ \A b \in s.armies : b.id # a.id
<1> DEFINE p == s.owner[c]
           troops == Recruits(orders, p, c)
           id == NextArmyId(s, p, c)
           a == NewArmy(s, p, c, troops)
<1>1. c \in Cities /\ p \in Players /\ troops \in Nat \ {0}
  BY RecruitsAreNatural DEF FoundedIn
<1>2. id \in ArmyId /\ id.owner = p /\ id.city = c /\ \A b \in s.armies : b.id # id
  <2> HIDE DEF p
  <2> QED BY <1>1, NextIdIsFree
<1>3. a = [id |-> id, owner |-> p, troops |-> troops, location |-> c, destination |-> None, ticks |-> 0]
  BY DEF NewArmy
<1>4. a = Founded(s, orders, c)
  BY DEF Founded
<1> HIDE DEF id, p, troops, a
<1>5. /\ IsArmy(a) /\ a.id = id /\ a.owner = p /\ a.troops = troops
      /\ a.location = c /\ a.destination = None /\ a.ticks = 0
  BY <1>3 DEF IsArmy, ArmyFields
<1>6. Fit(a)
  BY <1>1, <1>2, <1>5 DEF Fit
<1> QED BY <1>2, <1>4, <1>5, <1>6

LEMMA RecruitmentFields ==
    ASSUME NEW s, Shaped(s), Fielded(s.armies), s.owner \in [Cities -> Players \cup {None}], NEW orders,
           \A p \in Players : AcceptedRecruits(orders[p].recruitment)
    PROVE  Fielded(ProcessRecruitment(s, orders).armies)
<1> DEFINE t == ProcessRecruitment(s, orders)
           A == s.armies
           f == [a \in A |-> Grown(s, orders, a)]
           S == FoundedIn(s, orders)
           n == [c \in S |-> Founded(s, orders, c)]
           old == ImageOf(f, A)
           new == ImageOf(n, S)
<1>1. t.armies = old \cup new
  <2> DEFINE stock == [p \in Players |-> [g \in Goods |->
                s.resources[p][g] - TotalOf(orders[p].recruitment, LAMBDA o : RecruitmentCost(o.troops)[g])]]
             all == {Grown(s, orders, a) : a \in s.armies} \cup {Founded(s, orders, c) : c \in S}
  <2>1. t = [s EXCEPT !.resources = stock, !.armies = all]
    BY DEF ProcessRecruitment, Grown, Joins, Reinforced, FoundedIn, Founded
  <2>2. all = old \cup new
    BY DEF ImageOf
  <2> HIDE DEF t, stock, all
  <2>3. t.armies = all
    BY <2>1 DEF Shaped, Fields
  <2> QED BY <2>2, <2>3
<1>2. Treats(f, A)
  BY FitGrown DEF Fielded, Treats
<1>3. Fielded(old) /\ \A a \in old : \E b \in s.armies : a.id = b.id
  <2> HIDE DEF f
  <2>1. Fielded(old)
    BY <1>2, ImageFielded
  <2>2. \A a \in old : \E b \in A : a.id = b.id
    BY <1>2 DEF ImageOf, Treats
  <2> QED BY <2>1, <2>2
<1>4. \A c \in S : Fit(n[c]) /\ n[c].id.city = c /\ \A b \in s.armies : b.id # n[c].id
  <2> HIDE DEF S
  <2> QED BY FitFounded DEF S
<1>5. IsFiniteSet(new)
  <2>1. IsFiniteSet(S)
    <3>1. S \subseteq Cities
      BY DEF FoundedIn
    <3> HIDE DEF S
    <3> QED BY <3>1, CitiesAssumption, FS_Subset
  <2>2. n \in Surjection(S, new)
    BY DEF Surjection, ImageOf
  <2> HIDE DEF n, S, new
  <2> QED BY <2>1, <2>2, FS_Surjection
<1> HIDE DEF f, n, S, old, t
<1>6. \A a \in new : Fit(a) /\ \A b \in s.armies : b.id # a.id
  BY <1>4 DEF ImageOf
<1>7. ASSUME NEW a \in new, NEW b \in new, a.id = b.id PROVE a = b
  <2>1. PICK c \in S : a = n[c]
    BY DEF ImageOf
  <2>2. PICK d \in S : b = n[d]
    BY DEF ImageOf
  <2>3. c = d
    BY <1>4, <1>7, <2>1, <2>2
  <2> QED BY <2>1, <2>2, <2>3
<1> HIDE DEF new
<1>8. IsFiniteSet(t.armies)
  <2>1. IsFiniteSet(old)
    BY <1>3 DEF Fielded
  <2>2. IsFiniteSet(old \cup new)
    BY <1>5, <2>1, FS_Union
  <2> QED BY <1>1, <2>2
<1>9. \A a \in t.armies : Fit(a)
  BY <1>1, <1>3, <1>6 DEF Fielded
<1>10. ASSUME NEW a \in t.armies, NEW b \in t.armies, a.id = b.id PROVE a = b
  <2>1. CASE a \in old /\ b \in old
    BY <1>3, <1>10, <2>1 DEF Fielded
  <2>2. CASE a \in new /\ b \in new
    BY <1>7, <1>10, <2>2
  <2>3. ~(a \in old /\ b \in new) /\ ~(a \in new /\ b \in old)
    BY <1>3, <1>6, <1>10
  <2> QED BY <1>1, <2>1, <2>2, <2>3
<1>11. Fielded(t.armies)
  BY <1>8, <1>9, <1>10 DEF Fielded
<1> QED BY <1>11 DEF t

-----------------------------------------------------------------------------
(* Losses are shared out in full.                                          *)

\* The armies of one player at one city.
Party(G, p) ==
    /\ IsFiniteSet(G)
    /\ \A a \in G : Fit(a) /\ a.owner = p
    /\ \A a, b \in G : a.id = b.id => a = b

Share(G, total, a) == (total * a.troops) \div TroopsOf(G)
Remainder(G, total, a) == (total * a.troops) % TroopsOf(G)
AheadOf(G, total, a) ==
    {b \in G : \/ Remainder(G, total, b) > Remainder(G, total, a)
               \/ Remainder(G, total, b) = Remainder(G, total, a) /\ SortsBefore(b.id, a.id)}
Shared(G, total) == SumFunction([a \in G |-> Share(G, total, a)])

LEMMA LossParts ==
    ASSUME NEW G, NEW total, NEW a
    PROVE  AllocatedLoss(G, total, a)
           = Share(G, total, a) + (IF Cardinality(AheadOf(G, total, a)) < total - Shared(G, total) THEN 1 ELSE 0)
BY Zenon DEF AllocatedLoss, Share, Remainder, AheadOf, Shared, TotalOver

LEMMA TroopsAdd ==
    ASSUME NEW G, NEW p, Party(G, p)
    PROVE  /\ TroopsOf(G) \in Nat
           /\ TroopsOf(G) = SumFunctionOnSet([a \in G |-> a.troops], G)
           /\ G # {} => TroopsOf(G) > 0
<1> DEFINE f == [a \in G |-> a.troops]
<1>1. IsFiniteSet(G) /\ DOMAIN f = G /\ \A a \in G : f[a] \in Nat \ {0}
  BY DEF Party, Fit
<1>2. TroopsOf(G) = SumFunction(f)
  BY Zenon DEF TroopsOf, TotalOver
<1> HIDE DEF f
<1>3. SumFunction(f) = SumFunctionOnSet(f, G) /\ SumFunction(f) \in Nat
  BY <1>1, SetSum
<1>4. ASSUME NEW x \in G PROVE SumFunctionOnSet(f, G) > 0
  <2> DEFINE T == G \ {x}
  <2>1. SumFunctionOnSet(f, G) = f[x] + SumFunctionOnSet(f, G \ {x})
    BY <1>1, SumRemove
  <2>2. IsFiniteSet(T) /\ \A y \in T : f[y] \in Int /\ f[y] >= 0
    BY <1>1, FS_Subset
  <2> HIDE DEF T
  <2>3. SumFunctionOnSet(f, T) \in Int /\ SumFunctionOnSet(f, T) >= 0
    BY <2>2, SumType
  <2> QED BY <1>1, <2>1, <2>3 DEF T
<1> QED BY <1>2, <1>3, <1>4 DEF f

\* Division with remainder.
LEMMA Divided ==
    ASSUME NEW n \in Nat, NEW d \in Nat \ {0}
    PROVE  /\ n \div d \in Nat /\ n % d \in Nat /\ n % d < d
           /\ n = d * (n \div d) + (n % d)
OBVIOUS

LEMMA SharesDivide ==
    ASSUME NEW G, NEW p, Party(G, p), NEW total \in Nat, NEW a \in G
    PROVE  LET T == TroopsOf(G)
           IN  /\ T \in Nat \ {0} /\ Share(G, total, a) \in Nat /\ Remainder(G, total, a) \in 0..(T - 1)
               /\ total * a.troops = T * Share(G, total, a) + Remainder(G, total, a)
<1> DEFINE T == TroopsOf(G)
           n == total * a.troops
<1>1. T \in Nat \ {0}
  <2> HIDE DEF T
  <2>1. T \in Nat /\ (G # {} => T > 0)
    BY TroopsAdd DEF T
  <2> QED BY <2>1
<1>2. a.troops \in Nat
  BY DEF Party, Fit
<1>3. n \in Nat
  BY <1>2
<1> HIDE DEF T, n
<1>4. /\ n \div T \in Nat /\ n % T \in Nat /\ n % T < T
      /\ n = T * (n \div T) + (n % T)
  BY <1>1, <1>3, Divided
<1>5. Share(G, total, a) = n \div T /\ Remainder(G, total, a) = n % T
  BY Zenon DEF Share, Remainder, T, n
<1>6. /\ Share(G, total, a) \in Nat /\ Remainder(G, total, a) \in 0..(T - 1)
      /\ n = T * Share(G, total, a) + Remainder(G, total, a)
  BY <1>1, <1>4, <1>5
<1> QED BY <1>1, <1>6 DEF T, n

\* What the division leaves over is at most one troop for each army.
LEMMA LeftOver ==
    ASSUME NEW G, NEW p, Party(G, p), NEW total \in Nat
    PROVE  /\ Shared(G, total) = SumFunctionOnSet([a \in G |-> Share(G, total, a)], G)
           /\ Shared(G, total) \in Nat
           /\ G # {} => total - Shared(G, total) \in 0..Cardinality(G)
           /\ total = TroopsOf(G) => total - Shared(G, total) <= 0
<1> DEFINE T == TroopsOf(G)
           troops == [a \in G |-> a.troops]
           share == [a \in G |-> Share(G, total, a)]
           rem == [a \in G |-> Remainder(G, total, a)]
           scaled == [a \in G |-> total * troops[a]]
           times == [a \in G |-> T * share[a]]
           most == [a \in G |-> IF a \in G THEN 1 ELSE 0]
           limit == [a \in G |-> (T - 1) * most[a]]
           left == total - Shared(G, total)
<1>1. IsFiniteSet(G)
  BY DEF Party
<1>2. /\ DOMAIN share = G /\ \A a \in G : share[a] \in Nat
      /\ \A a \in G : rem[a] \in 0..(T - 1)
      /\ \A a \in G : scaled[a] = times[a] + rem[a]
  BY SharesDivide
<1>3. /\ \A a \in G : troops[a] \in Int /\ scaled[a] = total * troops[a] /\ scaled[a] \in Int
      /\ \A a \in G : times[a] = T * share[a]
  BY DEF Party, Fit
<1>4. \A a \in G : limit[a] = (T - 1) * most[a] /\ most[a] = IF a \in G THEN 1 ELSE 0
  OBVIOUS
<1>5. Shared(G, total) = SumFunction(share)
  BY Zenon DEF Shared
<1>6. T \in Nat /\ T = SumFunctionOnSet(troops, G) /\ (G # {} => T > 0)
  BY TroopsAdd
<1> HIDE DEF share, T, troops, rem, scaled, times, most, limit
<1>7. SumFunction(share) = SumFunctionOnSet(share, G) /\ SumFunction(share) \in Nat
  BY <1>1, <1>2, SetSum
<1>8. SumFunctionOnSet(scaled, G) = total * T
  <2>1. SumFunctionOnSet(scaled, G) = total * SumFunctionOnSet(troops, G)
    BY <1>1, <1>3, SumTimes
  <2> QED BY <1>6, <2>1, Zenon
<1>9. SumFunctionOnSet(times, G) = T * SumFunctionOnSet(share, G)
  <2>1. T \in Int /\ \A a \in G : share[a] \in Int
    BY <1>2, <1>6
  <2> QED BY <1>1, <1>3, <2>1, SumTimes
<1>10. SumFunctionOnSet(scaled, G) = SumFunctionOnSet(times, G) + SumFunctionOnSet(rem, G)
  <2>1. \A a \in G : times[a] \in Int /\ rem[a] \in Int
    BY <1>2, <1>3, <1>6
  <2> QED BY <1>1, <1>2, <2>1, SumPlus
<1>11. SumFunctionOnSet(most, G) = Cardinality(G)
  <2>1. SumFunctionOnSet(most, G) = Cardinality(G \cap G)
    BY <1>1, <1>4, SumCounts
  <2> QED BY <2>1
<1>12. Cardinality(G) \in Nat
  BY <1>1, FS_CardinalityType
<1>13. SumFunctionOnSet(limit, G) = (T - 1) * Cardinality(G)
  <2>1. T - 1 \in Int /\ \A a \in G : most[a] \in Int
    BY <1>4, <1>6
  <2>2. SumFunctionOnSet(limit, G) = (T - 1) * SumFunctionOnSet(most, G)
    BY <1>1, <1>4, <2>1, SumTimes
  <2> QED BY <1>11, <2>2, Zenon
<1>14. SumFunctionOnSet(rem, G) <= SumFunctionOnSet(limit, G)
  <2>1. \A a \in G : rem[a] \in Int /\ limit[a] \in Int /\ rem[a] <= limit[a]
    BY <1>2, <1>4, <1>6
  <2> QED BY <1>1, <2>1, SumMonotone
<1>15. SumFunctionOnSet(rem, G) \in Int /\ SumFunctionOnSet(rem, G) >= 0
  <2>1. \A a \in G : rem[a] \in Int /\ rem[a] >= 0
    BY <1>2, <1>6
  <2> QED BY <1>1, <2>1, SumType
<1> DEFINE S == SumFunctionOnSet(share, G)
           R == SumFunctionOnSet(rem, G)
           N == Cardinality(G)
<1>16. S \in Nat /\ R \in Int /\ N \in Nat /\ 0 <= R /\ R <= (T - 1) * N /\ total * T = T * S + R
  BY <1>7, <1>8, <1>9, <1>10, <1>12, <1>13, <1>14, <1>15
<1>17. left = total - S
  BY <1>5, <1>7
<1> HIDE DEF S, R, N, left
<1>18. left \in Int /\ T * left = R
  <2>1. T * (total - S) = total * T - T * S
    BY <1>6, <1>16
  <2> QED BY <1>6, <1>16, <1>17, <2>1
<1>19. ASSUME T > 0 PROVE left \in 0..N
  <2>1. left >= 0
    <3>1. left < 0 => T * left < 0
      BY <1>6, <1>18, <1>19
    <3> QED BY <1>16, <1>18, <3>1
  <2>2. left <= N
    <3>1. SUFFICES ASSUME left > N PROVE FALSE
      BY <1>16, <1>18
    <3>2. T * left >= T * N
      BY <1>6, <1>16, <1>18, <1>19, <3>1
    <3>3. T * N = (T - 1) * N + N
      BY <1>6, <1>16
    <3>4. N = 0 /\ R <= 0
      <4> DEFINE tl == T * left
                 tn == T * N
                 m == (T - 1) * N
      <4>1. tl \in Int /\ tn \in Int /\ m \in Int
        BY <1>6, <1>16, <1>18
      <4>2. tl >= tn /\ tn = m + N /\ tl = R /\ R <= m
        BY <1>16, <1>18, <3>2, <3>3
      <4>3. N = 0 => m = 0
        BY <1>6
      <4> HIDE DEF tl, tn, m
      <4> QED BY <1>16, <4>1, <4>2, <4>3
    <3>6. T * left > 0
      BY <1>6, <1>18, <1>19, <3>1, <3>4
    <3> QED BY <1>16, <1>18, <3>4, <3>6
  <2> QED BY <1>16, <1>18, <2>1, <2>2
<1>20. ASSUME total = T PROVE left <= 0
  <2>1. ASSUME NEW a \in G PROVE troops[a] <= share[a]
    <3> DEFINE m == troops[a]
               n == share[a]
               o == rem[a]
    <3>1. T * m = T * n + o /\ m \in Int /\ n \in Int /\ o \in 0..(T - 1)
      BY <1>2, <1>3, <1>20
    <3> HIDE DEF m, n, o
    <3>2. SUFFICES ASSUME m > n PROVE FALSE
      BY <3>1 DEF m, n
    <3>3. T * m >= T * n + T
      BY <1>6, <3>1, <3>2
    <3>4. T * m \in Int /\ T * n \in Int
      BY <1>6, <3>1
    <3> QED BY <1>6, <3>1, <3>3, <3>4
  <2>2. SumFunctionOnSet(troops, G) <= SumFunctionOnSet(share, G)
    <3>1. \A a \in G : troops[a] \in Int /\ share[a] \in Int /\ troops[a] <= share[a]
      BY <1>2, <1>3, <2>1
    <3> QED BY <1>1, <3>1, SumMonotone
  <2>3. T <= S
    BY <1>6, <2>2 DEF S
  <2> QED BY <1>6, <1>16, <1>17, <1>20, <2>3
<1>21. S = Shared(G, total) /\ N = Cardinality(G)
  BY <1>5, <1>7 DEF S, N
<1>22. Shared(G, total) = SumFunctionOnSet([a \in G |-> Share(G, total, a)], G)
  BY <1>5, <1>7 DEF share
<1> QED BY <1>6, <1>16, <1>17, <1>19, <1>20, <1>21, <1>22 DEF T

\* The armies of one player at a city are ranked by remainder and id.
LEMMA PartyRanked ==
    ASSUME NEW G, NEW p, Party(G, p), NEW total \in Nat
    PROVE  Ranks([a \in G |-> AheadOf(G, total, a)], G)
<1> DEFINE rem(a) == Remainder(G, total, a)
           Before(b, a) == rem(b) > rem(a) \/ (rem(b) = rem(a) /\ SortsBefore(b.id, a.id))
           ahead == [a \in G |-> AheadOf(G, total, a)]
<1>1. \A a \in G : rem(a) \in Int
  BY SharesDivide
<1>2. \A a \in G : a.id.city \in Int /\ a.id.number \in Int
  <2>1. \A a \in G : a.id \in ArmyId
    BY DEF Party, Fit
  <2>2. \A i \in ArmyId : i.city \in Cities /\ i.number \in Nat
    BY DEF ArmyId
  <2>3. \A c \in Cities : c \in Int
    BY CitiesAssumption
  <2> QED BY <2>1, <2>2, <2>3
<1>3. ASSUME NEW a \in G, NEW b \in G, a # b PROVE a.id.city # b.id.city \/ a.id.number # b.id.number
  <2>1. a.id # b.id /\ a.id \in ArmyId /\ b.id \in ArmyId /\ a.id.owner = b.id.owner
    BY <1>3 DEF Party, Fit
  <2> QED BY <2>1 DEF ArmyId
<1>4. \A a, b \in G : b \in ahead[a] <=> Before(b, a)
  BY DEF AheadOf
<1>5. \A a \in G : ahead[a] \subseteq G
  BY DEF AheadOf
<1> HIDE DEF ahead, rem
<1>6. \A a \in G : ~Before(a, a)
  BY <1>1, <1>2 DEF SortsBefore
<1>7. \A a, b \in G : a # b => Before(a, b) \/ Before(b, a)
  BY <1>1, <1>2, <1>3 DEF SortsBefore
<1>8. \A a, b, c \in G : Before(c, b) /\ Before(b, a) => Before(c, a)
  BY <1>1, <1>2 DEF SortsBefore
<1> HIDE DEF Before
<1>9. ASSUME NEW a \in G, NEW b \in G, b \in ahead[a] PROVE ahead[b] \subseteq ahead[a]
  BY <1>4, <1>5, <1>8, <1>9
<1>10. Ranks(ahead, G)
  BY <1>4, <1>5, <1>6, <1>7, <1>9 DEF Ranks
<1> QED BY <1>10 DEF ahead

LEMMA LossIsNatural ==
    ASSUME NEW G, NEW p, Party(G, p), NEW total \in Nat, NEW a \in G
    PROVE  AllocatedLoss(G, total, a) \in Nat
<1>1. Share(G, total, a) \in Nat
  BY SharesDivide
<1> QED BY <1>1, LossParts

LEMMA LossesAddUp ==
    ASSUME NEW G, NEW p, Party(G, p), NEW total \in 1..TroopsOf(G)
    PROVE  /\ TotalOver(G, LAMBDA a : AllocatedLoss(G, total, a)) = total
           /\ \A a \in G : AllocatedLoss(G, total, a) <= a.troops
<1> DEFINE T == TroopsOf(G)
           left == total - Shared(G, total)
           ahead == [a \in G |-> AheadOf(G, total, a)]
           K == {a \in G : Cardinality(ahead[a]) < left}
           share == [a \in G |-> Share(G, total, a)]
           extra == [a \in G |-> IF a \in K THEN 1 ELSE 0]
           loss == [a \in G |-> AllocatedLoss(G, total, a)]
<1>1. IsFiniteSet(G) /\ T \in Nat /\ total \in Nat /\ 0 < total /\ total <= T
  <2>1. T \in Nat
    <3> HIDE DEF T
    <3> QED BY TroopsAdd DEF T
  <2> HIDE DEF T
  <2> QED BY <2>1 DEF Party, T
<1>2. G # {}
  <2>1. SUFFICES ASSUME G = {} PROVE FALSE
    OBVIOUS
  <2>2. T = SumFunctionOnSet([a \in G |-> a.troops], G)
    BY TroopsAdd
  <2>3. T = 0
    BY <2>1, <2>2, SumEmpty
  <2> QED BY <1>1, <2>3
<1>3. /\ Shared(G, total) = SumFunctionOnSet(share, G) /\ Shared(G, total) \in Nat
      /\ left \in 0..Cardinality(G) /\ (total = T => left <= 0)
  <2>1. total \in Nat
    BY <1>1
  <2> HIDE DEF left, T, share
  <2> QED BY <1>2, <2>1, LeftOver DEF left, T, share
<1>4. left \in Nat /\ left <= Cardinality(G)
  <2>1. Cardinality(G) \in Nat
    BY <1>1, FS_CardinalityType
  <2> HIDE DEF left
  <2> QED BY <1>3, <2>1
<1>5. Cardinality(K) = left
  <2>1. Ranks(ahead, G)
    BY <1>1, PartyRanked
  <2> HIDE DEF left, ahead
  <2> QED BY <1>1, <1>4, <2>1, RankCounts
<1>6. \A a \in G : loss[a] = share[a] + extra[a]
  BY LossParts
<1>7. \A a \in G : share[a] \in Nat /\ extra[a] \in Nat
  BY <1>1, SharesDivide
<1>8. K \subseteq G
  OBVIOUS
<1>9. \A a \in G : extra[a] = IF a \in K THEN 1 ELSE 0
  OBVIOUS
<1>10. TotalOver(G, LAMBDA a : AllocatedLoss(G, total, a)) = SumFunction(loss)
  BY Zenon DEF TotalOver
<1>11. DOMAIN loss = G
  OBVIOUS
<1>12. ASSUME NEW a \in G PROVE loss[a] <= a.troops
  <2> DEFINE m == a.troops
             n == Share(G, total, a)
             o == Remainder(G, total, a)
  <2>1. m \in Nat \ {0}
    BY DEF Party, Fit
  <2>2. T \in Nat \ {0} /\ n \in Nat /\ o \in 0..(T - 1) /\ total * m = T * n + o
    BY <1>1, SharesDivide
  <2>3. loss[a] = n + extra[a] /\ extra[a] \in 0..1 /\ (total = T => extra[a] = 0)
    <3>1. loss[a] = n + extra[a] /\ extra[a] = IF a \in K THEN 1 ELSE 0
      BY <1>6
    <3>2. ASSUME total = T PROVE a \notin K
      <4>1. left = 0
        BY <1>3, <1>4, <3>2
      <4>2. ahead[a] \subseteq G
        BY DEF AheadOf
      <4> HIDE DEF left, ahead
      <4>3. Cardinality(ahead[a]) \in Nat
        BY <1>1, <4>2, FS_Subset, FS_CardinalityType
      <4> QED BY <4>1, <4>3
    <3> HIDE DEF K, extra, loss, n
    <3> QED BY <3>1, <3>2
  <2> HIDE DEF m, n, o, T, extra, loss
  <2>4. CASE total = T
    <3>1. n <= m
      <4>1. SUFFICES ASSUME n > m PROVE FALSE
        BY <2>1, <2>2
      <4>2. T * n >= T * m + T
        BY <2>1, <2>2, <4>1
      <4>3. T * n \in Int /\ T * m \in Int
        BY <2>1, <2>2
      <4> QED BY <2>2, <2>4, <4>2, <4>3
    <3> QED BY <2>1, <2>2, <2>3, <2>4, <3>1 DEF m
  <2>5. CASE total < T
    <3>1. n < m
      <4>1. SUFFICES ASSUME n >= m PROVE FALSE
        BY <2>1, <2>2
      <4>2. T * n >= T * m
        BY <2>1, <2>2, <4>1
      <4>3. total * m < T * m
        BY <1>1, <2>1, <2>2, <2>5
      <4>4. T * n \in Int /\ T * m \in Int /\ total * m \in Int
        BY <1>1, <2>1, <2>2
      <4> QED BY <2>2, <4>2, <4>3, <4>4
    <3> QED BY <2>1, <2>2, <2>3, <3>1 DEF m
  <2> QED BY <1>1, <2>2, <2>4, <2>5
<1> HIDE DEF loss, share, extra, K, left
<1>13. SumFunction(loss) = SumFunctionOnSet(loss, G)
  <2>1. \A a \in G : loss[a] \in Nat
    BY <1>6, <1>7
  <2> QED BY <1>1, <1>11, <2>1, SetSum
<1>14. SumFunctionOnSet(loss, G) = SumFunctionOnSet(share, G) + SumFunctionOnSet(extra, G)
  <2>1. \A a \in G : share[a] \in Int /\ extra[a] \in Int
    BY <1>7
  <2> QED BY <1>1, <1>6, <2>1, SumPlus
<1>15. SumFunctionOnSet(extra, G) = left
  <2>1. SumFunctionOnSet(extra, G) = Cardinality(G \cap K)
    BY <1>1, <1>9, SumCounts
  <2>2. G \cap K = K
    BY <1>8
  <2> QED BY <1>5, <2>1, <2>2
<1>16. SumFunction(loss) = total
  BY <1>1, <1>3, <1>13, <1>14, <1>15 DEF left
<1>17. \A a \in G : AllocatedLoss(G, total, a) <= a.troops
  BY <1>12 DEF loss
<1> QED BY <1>10, <1>16, <1>17

\* What is wanted of losses is a fact of every fielded board.
LEMMA FieldedLosses ==
    ASSUME Fielded(state.armies)
    PROVE  CasualtiesShared
<1> SUFFICES ASSUME NEW c \in Cities, NEW p \in Players,
                    NEW total \in 1..TroopsOf({a \in StationedAt(state, c) : a.owner = p})
             PROVE  LET group == {a \in StationedAt(state, c) : a.owner = p}
                    IN  /\ TotalOver(group, LAMBDA a : AllocatedLoss(group, total, a)) = total
                        /\ \A a \in group : AllocatedLoss(group, total, a) <= a.troops
  BY Zenon DEF CasualtiesShared
<1> DEFINE G == {a \in StationedAt(state, c) : a.owner = p}
<1>1. G \subseteq state.armies /\ \A a \in G : a.owner = p
  BY DEF StationedAt
<1>2. total \in 1..TroopsOf(G)
  OBVIOUS
<1> HIDE DEF G
<1>3. Party(G, p)
  BY <1>1, FS_Subset DEF Fielded, Party
<1>4. /\ TotalOver(G, LAMBDA a : AllocatedLoss(G, total, a)) = total
      /\ \A a \in G : AllocatedLoss(G, total, a) <= a.troops
  BY <1>2, <1>3, LossesAddUp
<1> QED BY <1>4 DEF G

\* Losses leave fit armies, whatever number they are.
Weakened(a, troops) == [a EXCEPT !.troops = @ - troops]
LossesOf(A, lost) == ImageOf([a \in A |-> Weakened(a, lost[a])], {a \in A : a.troops > lost[a]})

LEMMA LossesField ==
    ASSUME NEW A, Fielded(A), NEW lost, \A a \in A : lost[a] \in Int
    PROVE  Fielded(LossesOf(A, lost))
<1> DEFINE f == [a \in A |-> Weakened(a, lost[a])]
           S == {a \in A : a.troops > lost[a]}
<1>1. ASSUME NEW a \in S PROVE Fit(f[a]) /\ f[a].id = a.id
  <2> DEFINE left == a.troops - lost[a]
             b == Weakened(a, lost[a])
  <2>1. Fit(a)
    BY DEF Fielded
  <2>2. left \in Nat \ {0}
    BY <2>1 DEF Fit
  <2>3. b = [a EXCEPT !.troops = left]
    BY DEF Weakened
  <2>4. f[a] = b
    OBVIOUS
  <2> HIDE DEF left, f, b
  <2>5. Fit(b) /\ b.id = a.id
    BY <2>1, <2>2, <2>3, FitTroops
  <2> QED BY <2>4, <2>5
<1>2. S \subseteq A
  OBVIOUS
<1> HIDE DEF f, S
<1>3. Treats(f, S)
  BY <1>1 DEF Treats
<1>4. Fielded(ImageOf(f, S))
  BY <1>2, <1>3, ImageFielded
<1> QED BY <1>4 DEF LossesOf, f, S

LEMMA StrengthIsNatural ==
    ASSUME NEW s, Works(s), NEW c \in Cities, NEW p, NEW troops \in Nat
    PROVE  EffectiveStrength(s, c, p, troops) \in Nat
<1> DEFINE k == s.upgrades[c].fortification
           gain == <<10, 13, 17, 25>>[k + 1]
           n == troops * 12 * gain
<1>1. k \in 0..3
  BY DEF Works, Tiers, Tracks
<1>2. gain \in Nat
  <2> HIDE DEF k
  <2>1. k = 0 \/ k = 1 \/ k = 2 \/ k = 3
    BY <1>1
  <2> QED BY <2>1
<1> HIDE DEF gain
<1>3. n \in Nat
  <2>1. troops * 12 \in Nat
    OBVIOUS
  <2> QED BY <1>2, <2>1
<1>4. EffectiveStrength(s, c, p, troops) = IF p = s.owner[c] THEN n \div 100 ELSE troops
  BY Zenon DEF EffectiveStrength, gain
<1> HIDE DEF n
<1>5. n \div 100 \in Nat
  BY <1>3
<1> QED BY <1>4, <1>5

LEMMA CasualtiesAreNatural ==
    ASSUME NEW s, Works(s), Fielded(s.armies), NEW c \in Cities, NEW p
    PROVE  Casualties(s, c, p) \in Nat
<1> DEFINE present == StationedAt(s, c)
           party(q) == {a \in present : a.owner = q}
           others == OwnersOf(present) \ {p}
           f == [q \in others |-> EffectiveStrength(s, c, q, TroopsOf(party(q)))]
           own == TroopsOf(party(p))
           opposing == SumFunction(f)
<1>1. ASSUME NEW q PROVE TroopsOf(party(q)) \in Nat
  <2>1. party(q) \subseteq s.armies /\ \A a \in party(q) : a.owner = q
    BY DEF StationedAt
  <2> DEFINE G == party(q)
  <2> HIDE DEF G
  <2>2. Party(G, q)
    <3>1. G \subseteq s.armies /\ \A a \in G : a.owner = q
      BY <2>1 DEF G
    <3> QED BY <3>1, FS_Subset DEF Fielded, Party
  <2>3. TroopsOf(G) \in Nat
    BY <2>2, TroopsAdd
  <2> QED BY <2>3 DEF G
<1> HIDE DEF party
<1>2. others \subseteq Players
  BY DEF OwnersOf, StationedAt, Fielded, Fit
<1>3. IsFiniteSet(others)
  <2> HIDE DEF others
  <2> QED BY <1>2, PlayersAssumption, FS_Subset
<1>4. DOMAIN f = others /\ \A q \in others : f[q] \in Nat
  <2> HIDE DEF others
  <2> QED BY <1>1, StrengthIsNatural
<1>5. opposing \in Nat
  <2> HIDE DEF f, others
  <2> QED BY <1>3, <1>4, SetSum
<1>6. Casualties(s, c, p) = IF opposing \div 10 < own THEN opposing \div 10 ELSE own
  BY Zenon DEF Casualties, TotalOver, party
<1>7. own \in Nat
  BY <1>1
<1> HIDE DEF opposing, own
<1> QED BY <1>5, <1>6, <1>7

LEMMA CombatFields ==
    ASSUME NEW s, Shaped(s), Works(s), Fielded(s.armies)
    PROVE  Fielded(ResolveContestedCities(s).armies)
<1> DEFINE t == ResolveContestedCities(s)
           A == s.armies
           lost == [a \in A |-> Loss(s, a)]
<1>1. ASSUME NEW a \in A PROVE Loss(s, a) \in Int
  <2> DEFINE G == {b \in StationedAt(s, a.location) : b.owner = a.owner}
             total == Casualties(s, a.location, a.owner)
  <2>1. CASE a.destination = None /\ Contested(s, a.location)
    <3>1. Fit(a)
      BY DEF Fielded
    <3>2. a.location \in Cities /\ a \in G
      BY <2>1, <3>1 DEF Fit, StationedAt
    <3>3. G \subseteq A /\ \A b \in G : b.owner = a.owner
      BY DEF StationedAt
    <3>4. total \in Nat
      BY <3>2, CasualtiesAreNatural
    <3>5. Loss(s, a) = AllocatedLoss(G, total, a)
      BY <2>1 DEF Loss
    <3> HIDE DEF G, total
    <3>6. Party(G, a.owner)
      BY <3>3, FS_Subset DEF Fielded, Party
    <3>7. AllocatedLoss(G, total, a) \in Nat
      BY <3>2, <3>4, <3>6, LossIsNatural
    <3> QED BY <3>5, <3>7
  <2>2. CASE ~(a.destination = None /\ Contested(s, a.location))
    BY <2>2 DEF Loss
  <2> QED BY <2>1, <2>2
<1>2. t.armies = LossesOf(A, lost)
  <2> DEFINE all == WithLosses(A, LAMBDA a : Loss(s, a))
  <2>1. t = [s EXCEPT !.armies = all]
    BY DEF ResolveContestedCities
  <2>2. all = LossesOf(A, lost)
    BY DEF WithLosses, LossesOf, ImageOf, Weakened
  <2> HIDE DEF t, all
  <2>3. t.armies = all
    BY <2>1 DEF Shaped, Fields
  <2> QED BY <2>2, <2>3
<1>3. \A a \in A : lost[a] \in Int
  BY <1>1
<1> HIDE DEF t, lost
<1>4. Fielded(t.armies)
  BY <1>2, <1>3, LossesField
<1> QED BY <1>4 DEF t

\* An attrition phase takes at most a troop from an army and touches nothing else of it.
LEMMA AttritionFields ==
    ASSUME NEW s, Shaped(s), Fielded(s.armies), NEW unpaid, NEW besieged
    PROVE  LET t == ResolveAttritionPhase(s, unpaid, besieged)
           IN  /\ Shaped(t) /\ Fielded(t.armies)
               /\ t.resources = s.resources /\ t.alliance = s.alliance
<1> DEFINE A == s.armies
           lost == [a \in A |-> IF Starving(s, a.owner) THEN 1 ELSE 0]
           all == WithLosses(A, LAMBDA a : IF Starving(s, a.owner) THEN 1 ELSE 0)
           starved == [s EXCEPT !.armies = all]
           lowered == DegradedUnpaid(starved, unpaid, besieged)
           decayed == Degraded(starved, lowered)
           marks == [p \in Players |-> OutOfPlay(decayed, p)]
           t == ResolveAttritionPhase(s, unpaid, besieged)
<1>1. t = [decayed EXCEPT !.eliminated = marks]
  BY DEF ResolveAttritionPhase
<1>2. all = LossesOf(A, lost)
  BY DEF WithLosses, LossesOf, ImageOf, Weakened
<1>3. Fielded(all)
  <2>1. \A a \in A : lost[a] \in Int
    OBVIOUS
  <2> HIDE DEF lost, all
  <2> QED BY <1>2, <2>1, LossesField
<1> HIDE DEF all
<1>4. Shaped(starved) /\ starved.armies = all /\ starved.resources = s.resources /\ starved.alliance = s.alliance
  <2>1. \A a \in all : IsArmy(a)
    BY <1>3 DEF Fielded, Fit
  <2> QED BY <2>1 DEF Shaped, Fields
<1> HIDE DEF starved, lowered
<1>5. /\ Shaped(decayed) /\ decayed.armies = all
      /\ decayed.resources = s.resources /\ decayed.alliance = s.alliance
  BY <1>4, DegradedChanges DEF OnlyChanges, Fields
<1> HIDE DEF decayed, marks, t
<1>6. /\ Shaped(t) /\ t.armies = all
      /\ t.resources = s.resources /\ t.alliance = s.alliance
  BY <1>1, <1>5 DEF Shaped, Fields
<1> QED BY <1>3, <1>6 DEF t

-----------------------------------------------------------------------------
(* A whole tick keeps the board sound.                                     *)

\* The build phase adds recruits.
LEMMA BuildFields ==
    ASSUME NEW s, Shaped(s), Fielded(s.armies), s.owner \in [Cities -> Players \cup {None}], NEW orders,
           \A p \in Players : AcceptedRecruits(orders[p].recruitment)
    PROVE  LET t == ResolveBuildPhase(s, orders)
           IN  Shaped(t) /\ Fielded(t.armies) /\ t.alliance = s.alliance
<1> DEFINE advanced == AdvanceBuildQueues(s)
           recruited == ProcessRecruitment(advanced, orders)
           upgrading == StartUpgrades(recruited, s, orders)
           t == ProcessTransfers(upgrading, orders)
<1>1. /\ Shaped(advanced) /\ advanced.armies = s.armies
      /\ advanced.owner = s.owner /\ advanced.alliance = s.alliance
  BY QueuesChange DEF OnlyChanges, Fields
<1> HIDE DEF advanced
<1>2. Shaped(recruited) /\ recruited.alliance = advanced.alliance
  BY <1>1, RecruitmentChanges DEF OnlyChanges, Fields
<1>3. Fielded(recruited.armies)
  BY <1>1, RecruitmentFields
<1> HIDE DEF recruited
<1>4. /\ Shaped(upgrading) /\ upgrading.alliance = recruited.alliance
      /\ upgrading.armies = recruited.armies
  BY <1>2, UpgradesChange DEF OnlyChanges, Fields
<1> HIDE DEF upgrading
<1>5. Shaped(t) /\ t.alliance = upgrading.alliance /\ t.armies = upgrading.armies
  BY <1>4, TransfersChange DEF OnlyChanges, Fields
<1> HIDE DEF t
<1>6. Shaped(t) /\ Fielded(t.armies) /\ t.alliance = s.alliance
  BY <1>1, <1>2, <1>3, <1>4, <1>5
<1> QED BY <1>6 DEF ResolveBuildPhase, t, upgrading, recruited, advanced

\* What the orders of a tick are after validation.
Accepted(s, p, o) ==
    /\ AcceptedUpgrades(s, p, o.upgrades)
    /\ AcceptedMoves(o.movements)
    /\ AcceptedRecruits(o.recruitment)
    /\ AcceptedTransfers(o.transfers)
    /\ \A g \in Goods : Covered(s.resources[p], o, g)

LEMMA OrdersAccepted ==
    ASSUME NEW s, Stocked(s), NEW p \in Players, NEW b, IsOrderBatch(b)
    PROVE  Accepted(s, p, ValidateOrders(s, p, b))
<1> DEFINE v == ValidateOrders(s, p, b)
<1>1. \A g \in Goods : s.resources[p][g] \in Int
  BY DEF Stocked
<1>2. /\ \A g \in Goods : Covered(s.resources[p], v, g)
      /\ v.recruitment \in Seq(ToSet(v.recruitment)) /\ ToSet(v.recruitment) \subseteq ToSet(b.recruitment)
      /\ v.transfers \in Seq(ToSet(v.transfers)) /\ ToSet(v.transfers) \subseteq ToSet(b.transfers)
  <2>1. "food" \in Goods
    BY DEF Goods
  <2> HIDE DEF v
  <2>2. ASSUME NEW g \in Goods
        PROVE  /\ Covered(s.resources[p], v, g)
               /\ v.recruitment \in Seq(ToSet(v.recruitment)) /\ ToSet(v.recruitment) \subseteq ToSet(b.recruitment)
               /\ v.transfers \in Seq(ToSet(v.transfers)) /\ ToSet(v.transfers) \subseteq ToSet(b.transfers)
    BY <1>1, AcceptedAreCovered DEF v
  <2> QED BY <2>1, <2>2
<1>3. AcceptedUpgrades(s, p, v.upgrades)
  BY UpgradesAccepted
<1>4. AcceptedMoves(v.movements)
  BY MovesAccepted
<1> HIDE DEF v
<1>5. \A o \in ToSet(b.recruitment) : o.troops \in Nat
  BY DEF IsOrderBatch
<1>6. \A o \in ToSet(b.transfers) : o.resource \in Goods /\ o.amount \in Nat
  BY DEF IsOrderBatch
<1>7. AcceptedRecruits(v.recruitment) /\ AcceptedTransfers(v.transfers)
  BY <1>2, <1>5, <1>6 DEF AcceptedRecruits, AcceptedTransfers
<1>8. Accepted(s, p, v)
  BY <1>2, <1>3, <1>4, <1>7 DEF Accepted
<1> QED BY <1>8 DEF v

LEMMA TickSound ==
    ASSUME NEW s, NEW orders, Shaped(s), Peopled(s), Listed(s), Works(s), Stocked(s), Fielded(s.armies),
           \A p \in Players : Accepted(s, p, orders[p])
    PROVE  LET t == ResolveTick(s, orders)
           IN  /\ Stocked(t) /\ Fielded(t.armies) /\ t.alliance = s.alliance
               /\ \A p \in Players, g \in Upkept :
                      t.resources[p][g] < 0 => s.resources[p][g] >= -t.resources[p][g]
<1> DEFINE unpaid == UnpaidFortifications(s)
           paid == ResolveResourcePhase(s)
           built == ResolveBuildPhase(paid, orders)
           transit == AdvanceTransit(built)
           moved == StartMovements(transit, orders)
           hurt == ResolveContestedCities(moved)
           fought == TransferUncontestedControl(hurt)
           besieged == DegradedBySiege(fought)
           sieged == Degraded(fought, besieged)
           t == ResolveAttritionPhase(sieged, unpaid, besieged)
<1>1. /\ Shaped(paid) /\ paid.owner = s.owner /\ paid.owned = s.owned /\ paid.alliance = s.alliance
      /\ paid.upgrades = s.upgrades /\ paid.queue = s.queue /\ paid.armies = s.armies
  BY ResourceChanges DEF OnlyChanges, Fields
<1>2. /\ Stocked(paid)
      /\ \A p \in Players : s.resources[p]["production"] <= paid.resources[p]["production"]
      /\ \A p \in Players, g \in Upkept : paid.resources[p][g] >= 0
  <2>1. IsFiniteSet(s.armies) /\ \A a \in s.armies : a.troops \in Nat
    BY DEF Fielded, Fit
  <2> QED BY <2>1, ResourceStock
<1>3. Quiet(s, paid)
  BY ResourceQuiet
<1> HIDE DEF paid
<1>4. Works(paid) /\ paid.owner \in [Cities -> Players \cup {None}]
  BY <1>1 DEF Works, Peopled
<1>5. ASSUME NEW p \in Players PROVE AcceptedUpgrades(paid, p, orders[p].upgrades)
  <2> DEFINE seq == orders[p].upgrades
  <2>1. AcceptedUpgrades(s, p, seq)
    BY DEF Accepted
  <2> HIDE DEF seq
  <2>2. \A x : CanUpgrade(s, p, x) <=> CanUpgrade(paid, p, x)
    BY <1>1 DEF CanUpgrade, CitiesOf
  <2>3. AcceptedUpgrades(paid, p, seq)
    BY <2>1, <2>2 DEF AcceptedUpgrades
  <2> QED BY <2>3 DEF seq
<1>6. /\ \A p \in Players : AcceptedMoves(orders[p].movements)
      /\ \A p \in Players : AcceptedRecruits(orders[p].recruitment)
      /\ \A p \in Players : AcceptedTransfers(orders[p].transfers)
  BY DEF Accepted
<1>7. /\ built.resources \in [Players -> [Goods -> Int]]
      /\ \A p \in Players, g \in Goods :
             built.resources[p][g] >= paid.resources[p][g] - AtLeastZero(s.resources[p][g])
  <2>1. s.resources \in [Players -> [Goods -> Int]]
    BY DEF Stocked
  <2>2. \A p \in Players : \A g \in Goods : Covered(s.resources[p], orders[p], g)
    BY DEF Accepted
  <2> HIDE DEF built
  <2> QED BY <1>1, <1>2, <1>5, <1>6, <2>1, <2>2, BuildStock DEF built
<1>8. Shaped(built) /\ Fielded(built.armies) /\ built.alliance = s.alliance
  BY <1>1, <1>4, <1>6, BuildFields
<1>9. Works(built)
  BY <1>1, <1>4, <1>5, BuildWorks
<1>10. Quiet(s, built)
  <2>1. Quiet(paid, built)
    BY <1>1, BuildQuiet
  <2> HIDE DEF built
  <2> QED BY <1>3, <2>1, QuietTrans
<1> HIDE DEF built
<1>11. /\ Shaped(transit) /\ transit.resources = built.resources /\ transit.alliance = built.alliance
       /\ transit.upgrades = built.upgrades /\ transit.queue = built.queue
  BY <1>8, TransitChanges DEF OnlyChanges, Fields
<1>12. Fielded(transit.armies)
  BY <1>8, TransitFields
<1>13. Quiet(built, moved)
  BY <1>8, MovementQuiet DEF ResolveMovementPhase
<1> HIDE DEF transit
<1>14. /\ Shaped(moved) /\ moved.resources = transit.resources /\ moved.alliance = transit.alliance
       /\ moved.upgrades = transit.upgrades /\ moved.queue = transit.queue
  BY <1>11, MarchChanges DEF OnlyChanges, Fields
<1>15. Fielded(moved.armies)
  BY <1>6, <1>11, <1>12, MarchFields
<1> HIDE DEF moved
<1>16. Works(moved) /\ Peopled(moved) /\ Listed(moved)
  <2>1. Works(moved)
    BY <1>9, <1>11, <1>14 DEF Works
  <2>2. Peopled(moved) /\ Listed(moved)
    BY <1>10, <1>13 DEF Quiet, Peopled, Listed, ArmyOwners, CitiesOf
  <2> QED BY <2>1, <2>2
<1>17. Fielded(hurt.armies)
  BY <1>14, <1>15, <1>16, CombatFields
<1>18. Shaped(hurt) /\ hurt.resources = moved.resources /\ hurt.alliance = moved.alliance
  BY <1>14, CombatChanges DEF OnlyChanges, Fields
<1>19. Peopled(hurt) /\ Listed(hurt)
  <2>1. /\ hurt.owner = moved.owner /\ hurt.owned = moved.owned
        /\ ArmyOwners(hurt) \subseteq ArmyOwners(moved)
    BY <1>14, LossesOnly
  <2> HIDE DEF hurt
  <2> QED BY <1>16, <2>1 DEF Peopled, Listed, CitiesOf
<1> HIDE DEF hurt
<1>20. /\ Shaped(fought) /\ fought.armies = hurt.armies
       /\ fought.resources = hurt.resources /\ fought.alliance = hurt.alliance
  BY <1>18, <1>19, ControlChanges DEF OnlyChanges, Fields
<1> HIDE DEF fought, besieged, unpaid
<1>21. /\ Shaped(sieged) /\ sieged.armies = fought.armies
       /\ sieged.resources = fought.resources /\ sieged.alliance = fought.alliance
  BY <1>20, DegradedChanges DEF OnlyChanges, Fields
<1> HIDE DEF sieged
<1>22. Fielded(sieged.armies)
  BY <1>17, <1>20, <1>21
<1>23. /\ Fielded(t.armies)
       /\ t.resources = sieged.resources /\ t.alliance = sieged.alliance
  BY <1>21, <1>22, AttritionFields
<1>24. t = ResolveTick(s, orders)
  BY DEF ResolveTick, ResolveMovementPhase, ResolveCombatPhase, ResolveSiegePhase,
         unpaid, paid, built, transit, moved, hurt, fought, besieged, sieged
<1> HIDE DEF t
<1>25. t.resources = built.resources /\ t.alliance = s.alliance
  BY <1>8, <1>11, <1>14, <1>18, <1>20, <1>21, <1>23
<1>26. Stocked(t)
  <2>1. ASSUME NEW p \in Players PROVE t.resources[p]["production"] >= 0
    <3>1. "production" \in Goods
      BY DEF Goods
    <3>2. /\ s.resources[p]["production"] \in Int /\ s.resources[p]["production"] >= 0
          /\ paid.resources[p]["production"] \in Int
          /\ s.resources[p]["production"] <= paid.resources[p]["production"]
      BY <1>2, <3>1 DEF Stocked
    <3>3. /\ t.resources[p]["production"] \in Int
          /\ t.resources[p]["production"]
             >= paid.resources[p]["production"] - AtLeastZero(s.resources[p]["production"])
      BY <1>7, <1>25, <3>1
    <3> QED BY <3>2, <3>3 DEF AtLeastZero
  <2> QED BY <1>7, <1>25, <2>1 DEF Stocked
<1>27. ASSUME NEW p \in Players, NEW g \in Upkept, t.resources[p][g] < 0
       PROVE  s.resources[p][g] >= -t.resources[p][g]
  <2>1. g \in Goods
    BY DEF Upkept
  <2>2. /\ s.resources[p][g] \in Int /\ paid.resources[p][g] \in Int /\ t.resources[p][g] \in Int
        /\ paid.resources[p][g] >= 0
        /\ t.resources[p][g] >= paid.resources[p][g] - AtLeastZero(s.resources[p][g])
    BY <1>2, <1>7, <1>25, <2>1 DEF Stocked
  <2> QED BY <1>27, <2>2 DEF AtLeastZero
<1> QED BY <1>23, <1>24, <1>25, <1>26, <1>27

-----------------------------------------------------------------------------
\* The board's strengthened invariant: work in progress fits the tiers, production is not
\* owed, armies are fit and their ids apart, alliances and the tick stay in range.
SoundInv ==
    /\ WorksInv
    /\ Stocked(state)
    /\ Fielded(state.armies)
    /\ state.alliance \in [Players -> Alliances \cup {None}]
    /\ tick \in 0..MaxTick

LEMMA InitSound == Init => SoundInv
<1> SUFFICES ASSUME Init PROVE SoundInv
  OBVIOUS
<1>1. WorksInv
  BY InitBoard, InitWorks DEF WorksInv
<1>2. /\ state.resources = [p \in Players |-> StartingResources]
      /\ state.armies = {}
      /\ state.alliance \in [Players -> Alliances \cup {None}]
      /\ tick \in 0..MaxTick
  BY BoundsAssumption DEF Init
<1>3. Stocked(state)
  BY <1>2, StartAssumption DEF Stocked, Goods
<1>4. Fielded(state.armies)
  BY <1>2, FS_EmptySet DEF Fielded
<1> QED BY <1>1, <1>2, <1>3, <1>4 DEF SoundInv

LEMMA NextSound ==
    ASSUME SoundInv, Tick
    PROVE  /\ SoundInv'
           /\ \A p \in Players, g \in Upkept :
                  state'.resources[p][g] < 0 => state.resources[p][g] >= -state'.resources[p][g]
<1>1. PICK queued : /\ \A p \in Players : IsOrderBatch(queued[p])
                    /\ state' = ResolveTick(state, [p \in Players |-> ValidateOrders(state, p, queued[p])])
  BY TickOrders
<1> DEFINE orders == [p \in Players |-> ValidateOrders(state, p, queued[p])]
<1>2. ASSUME NEW p \in Players PROVE Accepted(state, p, orders[p])
  <2>1. orders[p] = ValidateOrders(state, p, queued[p])
    OBVIOUS
  <2>2. Stocked(state) /\ IsOrderBatch(queued[p])
    BY <1>1 DEF SoundInv
  <2> HIDE DEF orders
  <2> QED BY <2>1, <2>2, OrdersAccepted
<1>3. state' = ResolveTick(state, orders)
  BY <1>1
<1> HIDE DEF orders
<1>4. /\ Stocked(state') /\ Fielded(state'.armies) /\ state'.alliance = state.alliance
      /\ \A p \in Players, g \in Upkept :
             state'.resources[p][g] < 0 => state.resources[p][g] >= -state'.resources[p][g]
  BY <1>2, <1>3, TickSound DEF SoundInv, WorksInv, BoardInv
<1>5. WorksInv'
  BY NextWorks DEF SoundInv
<1>6. tick' \in 0..MaxTick
  BY BoundsAssumption DEF SoundInv, Tick
<1> QED BY <1>4, <1>5, <1>6 DEF SoundInv

THEOREM SoundInductive == Spec => []SoundInv
<1>1. SoundInv /\ [Next]_vars => SoundInv'
  <2>1. SoundInv /\ UNCHANGED vars => SoundInv'
    BY DEF SoundInv, WorksInv, BoardInv, vars
  <2> QED BY <2>1, NextSound DEF Next
<1> QED BY <1>1, InitSound, PTL DEF Spec

LEMMA SoundTypes == SoundInv => TypeOK
<1> SUFFICES ASSUME SoundInv PROVE TypeOK
  OBVIOUS
<1>1. state.resources \in [Players -> [Goods -> Int]] /\ tick \in 0..MaxTick
  BY DEF SoundInv, Stocked
<1>2. state.owner \in [Cities -> Players \cup {None}]
  BY DEF SoundInv, WorksInv, BoardInv, Peopled
<1>3. state.owned \in [Players -> SUBSET Cities]
  BY DEF SoundInv, WorksInv, BoardInv, Listed, CitiesOf
<1>4. /\ state.upgrades \in [Cities -> [Tracks -> 0..3]]
      /\ \A c \in Cities : state.queue[c] \in Seq(QueueItem)
  BY DEF SoundInv, WorksInv, Works, Tiers, SoundQueue
<1>5. \A a \in state.armies : Fit(a)
  BY DEF SoundInv, Fielded
<1>6. ASSUME NEW a \in state.armies PROVE a \in Army
  <2>1. /\ a = [id |-> a.id, owner |-> a.owner, troops |-> a.troops, location |-> a.location,
                destination |-> a.destination, ticks |-> a.ticks]
    BY <1>5 DEF Fit, IsArmy, ArmyFields
  <2>2. /\ a.id \in ArmyId /\ a.owner \in Players /\ a.troops \in Nat \ {0}
        /\ a.location \in Cities \cup {None} /\ a.destination \in Cities \cup {None} /\ a.ticks \in Nat
    BY <1>5 DEF Fit
  <2> QED BY <2>1, <2>2 DEF Army
<1>7. \A a \in state.armies : IF a.destination = None THEN a.location # None /\ a.ticks = 0
                                                      ELSE a.location = None /\ a.ticks > 0
  BY <1>5, NoneAssumption DEF Fit
<1>8. \A a, b \in state.armies : a.id = b.id => a = b
  BY DEF SoundInv, Fielded
<1>9. state.eliminated \in [Players -> BOOLEAN]
  <2>1. tick = 0 \/ tick > 0
    BY <1>1
  <2>2. CASE tick = 0
    BY <2>2 DEF SoundInv, WorksInv, BoardInv
  <2>3. CASE tick > 0
    <3>1. state.eliminated = [p \in Players |-> ~Alive(state, p)]
      BY <2>3 DEF SoundInv, WorksInv, BoardInv
    <3> QED BY <3>1
  <2> QED BY <2>1, <2>2, <2>3
<1>10. state.alliance \in [Players -> Alliances \cup {None}]
  BY DEF SoundInv
<1>11. state.armies \subseteq Army
  BY <1>6
<1> QED BY <1>1, <1>2, <1>3, <1>4, <1>7, <1>8, <1>9, <1>10, <1>11 DEF TypeOK

\* Tiers, troops and queues stay in range, and no two armies have one id, in every tick of every
\* match (models/state.py; _next_recruitment_army_id).  Of the stocks it says no more than that
\* they are numbers.
THEOREM StateIsTyped == Spec => []TypeOK
BY SoundInductive, SoundTypes, PTL

\* No tick spends production that validation did not find in stock, however many orders of a
\* player and transfers between players meet in it (_can_afford, _spend_budget,
\* _process_transfer_orders).
THEOREM ProductionIsCovered == Spec => []ProductionCovered
<1>1. SoundInv => ProductionCovered
  BY DEF SoundInv, Stocked, ProductionCovered
<1> QED BY <1>1, SoundInductive, PTL

\* Whatever a player loses at a city is shared out to the last troop among its armies there
\* (_allocate_proportional_casualties).
THEOREM LossesAreShared == Spec => []CasualtiesShared
<1>1. SoundInv => CasualtiesShared
  BY FieldedLosses DEF SoundInv
<1> QED BY <1>1, SoundInductive, PTL

\* A tick that leaves food or money owed found at least as much of it in stock: validation
\* reserves orders against the stock it finds, and the resource phase, which clamps both at
\* zero, comes before they are spent (_can_afford, _resolve_resource_phase,
\* _process_recruitment_orders, _process_transfer_orders).
THEOREM DebtsPass == Spec => OverdraftsPass
<1>1. SoundInv /\ [Next]_vars =>
          [\A p \in Players, g \in Upkept :
               state'.resources[p][g] < 0 => state.resources[p][g] >= -state'.resources[p][g]]_vars
  BY NextSound DEF Next
<1> QED BY <1>1, SoundInductive, PTL DEF Spec, OverdraftsPass

\* Together: what no phase of resolve_tick may break, on every map and for all orders, and how
\* far and how long food and money may be overdrawn.
THEOREM BoardIsSound == Spec => BoardSound
BY StateIsTyped, ProductionIsCovered, UpgradesAreStartedOnce, LossesAreShared, DebtsPass, PTL
   DEF BoardSound
-----------------------------------------------------------------------------
(* A seat that nobody joined.                                              *)

Raises(orders, p) == \E c \in Cities : Recruits(orders, p, c) > 0

\* Only those who have an army or recruit one have an army after the build phase.
LEMMA BuildRaises ==
    ASSUME NEW s, NEW orders, Shaped(s)
    PROVE  \A p \in ArmyOwners(ResolveBuildPhase(s, orders)) : p \in ArmyOwners(s) \/ Raises(orders, p)
<1> DEFINE advanced == AdvanceBuildQueues(s)
           recruited == ProcessRecruitment(advanced, orders)
           upgrading == StartUpgrades(recruited, s, orders)
           t == ProcessTransfers(upgrading, orders)
<1>1. Shaped(advanced) /\ ArmyOwners(advanced) = ArmyOwners(s)
  BY QueuesChange DEF OnlyChanges, Fields, ArmyOwners
<1> HIDE DEF advanced
<1>2. /\ Shaped(recruited)
      /\ \A p \in ArmyOwners(recruited) : p \in ArmyOwners(advanced) \/ Raises(orders, p)
  BY <1>1, RecruitmentQuiet DEF Quiet, Raises
<1> HIDE DEF recruited
<1>3. Shaped(upgrading) /\ ArmyOwners(upgrading) = ArmyOwners(recruited)
  BY <1>2, UpgradesChange DEF OnlyChanges, Fields, ArmyOwners
<1> HIDE DEF upgrading
<1>4. ArmyOwners(t) = ArmyOwners(upgrading)
  BY <1>3, TransfersChange DEF OnlyChanges, Fields, ArmyOwners
<1> HIDE DEF t
<1>5. \A p \in ArmyOwners(t) : p \in ArmyOwners(s) \/ Raises(orders, p)
  BY <1>1, <1>2, <1>3, <1>4
<1> QED BY <1>5 DEF ResolveBuildPhase, t, upgrading, recruited, advanced

\* What the attrition phase leaves alone, whatever the siege and the unpaid fortifications.
AttritionLeaves(s) ==
    \A unpaid, besieged :
        LET t == ResolveAttritionPhase(s, unpaid, besieged)
        IN  t.owner = s.owner /\ ArmyOwners(t) \subseteq ArmyOwners(s)

LEMMA AttritionSpares == ASSUME NEW s, Shaped(s), Peopled(s), Listed(s) PROVE AttritionLeaves(s)
<1>1. ASSUME NEW unpaid, NEW besieged
      PROVE  LET t == ResolveAttritionPhase(s, unpaid, besieged)
             IN  t.owner = s.owner /\ ArmyOwners(t) \subseteq ArmyOwners(s)
  <2> DEFINE t == ResolveAttritionPhase(s, unpaid, besieged)
  <2>1. /\ Shaped(t) /\ Peopled(t) /\ Listed(t) /\ NoneReturns(s, t)
        /\ t.eliminated = [p \in Players |-> ~Alive(t, p)]
        /\ t.owner = s.owner /\ ArmyOwners(t) \subseteq ArmyOwners(s)
    BY AttritionMarks
  <2> QED BY <2>1
<1> QED BY <1>1 DEF AttritionLeaves

\* Who has or recruits armies: only those come to have an army or another's city in a tick.
LEMMA TickRaises ==
    ASSUME NEW s, NEW orders, Shaped(s), Peopled(s), Listed(s)
    PROVE  LET t == ResolveTick(s, orders)
               Active == {p \in Players : p \in ArmyOwners(s) \/ Raises(orders, p)}
           IN  /\ ArmyOwners(t) \subseteq Active
               /\ \A c \in Cities : t.owner[c] = s.owner[c] \/ t.owner[c] \in Active
<1> DEFINE unpaid == UnpaidFortifications(s)
           paid == ResolveResourcePhase(s)
           built == ResolveBuildPhase(paid, orders)
           moved == ResolveMovementPhase(built, orders)
           hurt == ResolveContestedCities(moved)
           fought == TransferUncontestedControl(hurt)
           besieged == DegradedBySiege(fought)
           sieged == ResolveSiegePhase(fought)
           t == ResolveAttritionPhase(sieged, unpaid, besieged)
           Active == {p \in Players : p \in ArmyOwners(s) \/ Raises(orders, p)}
<1>1. Quiet(s, paid) /\ Shaped(paid) /\ ArmyOwners(paid) = ArmyOwners(s)
  BY ResourceQuiet, ResourceChanges DEF OnlyChanges, Fields, ArmyOwners
<1> HIDE DEF paid
<1>2. /\ Quiet(paid, built) /\ Shaped(built)
      /\ \A p \in ArmyOwners(built) : p \in ArmyOwners(paid) \/ Raises(orders, p)
  BY <1>1, BuildQuiet, BuildRaises DEF Quiet
<1> HIDE DEF built
<1>3. Quiet(built, moved) /\ ArmyOwners(moved) \subseteq ArmyOwners(built)
  BY <1>2, MovementQuiet
<1> HIDE DEF moved
<1>4. Shaped(moved) /\ Peopled(moved) /\ Listed(moved) /\ moved.owner = s.owner
  BY <1>1, <1>2, <1>3 DEF Quiet, Peopled, Listed, ArmyOwners, CitiesOf
<1>5. ArmyOwners(moved) \subseteq Active
  BY <1>1, <1>2, <1>3, <1>4 DEF Peopled
<1>6. /\ Shaped(hurt) /\ hurt.owner = moved.owner /\ hurt.owned = moved.owned
      /\ ArmyOwners(hurt) \subseteq ArmyOwners(moved)
  BY <1>4, LossesOnly
<1> HIDE DEF hurt
<1>7. Peopled(hurt) /\ Listed(hurt)
  BY <1>4, <1>6 DEF Peopled, Listed, CitiesOf
<1>8. /\ Shaped(fought) /\ Peopled(fought) /\ Listed(fought)
      /\ \A c \in Cities : fought.owner[c] = hurt.owner[c] \/ fought.owner[c] \in ArmyOwners(hurt)
  BY <1>6, <1>7, ControlListed
<1>9. fought.armies = hurt.armies
  BY <1>6, <1>7, ControlChanges DEF OnlyChanges, Fields
<1> HIDE DEF fought
<1>10. /\ Shaped(sieged) /\ sieged.owner = fought.owner /\ sieged.owned = fought.owned
       /\ sieged.armies = fought.armies
  BY <1>8, DegradedOnly DEF ResolveSiegePhase
<1>11. Peopled(sieged) /\ Listed(sieged)
  <2> HIDE DEF sieged
  <2> QED BY <1>8, <1>10 DEF Peopled, Listed, CitiesOf, ArmyOwners
<1> HIDE DEF unpaid, besieged
<1>12. t.owner = sieged.owner /\ ArmyOwners(t) \subseteq ArmyOwners(sieged)
  <2> HIDE DEF sieged
  <2>1. AttritionLeaves(sieged)
    BY <1>10, <1>11, AttritionSpares
  <2> QED BY <2>1 DEF AttritionLeaves
<1>13. t = ResolveTick(s, orders)
  BY DEF ResolveTick, ResolveCombatPhase, paid, built, moved, hurt, fought, unpaid, besieged
<1> HIDE DEF sieged, t
<1>14. ArmyOwners(t) \subseteq Active
  BY <1>5, <1>6, <1>9, <1>10, <1>12 DEF ArmyOwners
<1>15. \A c \in Cities : t.owner[c] = s.owner[c] \/ t.owner[c] \in Active
  BY <1>4, <1>5, <1>6, <1>8, <1>10, <1>12
<1> QED BY <1>13, <1>14, <1>15

\* The recruitments accepted of a batch are admitted one after the other.
LEMMA RecruitsAdmitted ==
    ASSUME NEW s, NEW p, NEW b
    PROVE  \E budget, allowed, cost :
               ValidateOrders(s, p, b).recruitment = Admit(b.recruitment, budget, allowed, {}, cost).accepted
<1> DEFINE budget == s.resources[p]
           allowed == {o \in ToSet(b.recruitment) : o.city \in CitiesOf(s, p)}
           cost == [o \in ToSet(b.recruitment) |-> RecruitmentCost(o.troops)]
<1>1. ValidateOrders(s, p, b).recruitment = Admit(b.recruitment, budget, allowed, {}, cost).accepted
  BY DEF ValidateOrders
<1> HIDE DEF budget, allowed, cost
<1> QED BY <1>1

\* Who orders nothing recruits nothing.
LEMMA IdleRaiseNone ==
    ASSUME NEW s, NEW p, NEW orders, orders[p] = ValidateOrders(s, p, NoOrders)
    PROVE  ~Raises(orders, p)
<1> DEFINE accepted == orders[p].recruitment
<1>1. accepted = <<>>
  <2> DEFINE all == NoOrders.recruitment
  <2>1. PICK budget, allowed, cost : accepted = Admit(all, budget, allowed, {}, cost).accepted
    BY RecruitsAdmitted
  <2>2. all = <<>> /\ Len(<<>>) = 0
    BY DEF NoOrders
  <2> HIDE DEF all, accepted
  <2>3. Len(all) \in Nat /\ Len(all) = 0
    BY <2>2
  <2>4. PICK g : /\ Admit(all, budget, allowed, {}, cost) = g[Len(all)]
                 /\ Weighs(g, all, budget, allowed, {}, cost, Len(all))
    BY <2>3, AdmitWeighs
  <2>5. Admit(all, budget, allowed, {}, cost).accepted = <<>>
    BY <2>3, <2>4 DEF Weighs
  <2> QED BY <2>1, <2>5
<1>2. ASSUME NEW c \in Cities PROVE Recruits(orders, p, c) = 0
  <2> DEFINE f == [i \in DOMAIN accepted |->
                      IF accepted[i].city = c THEN accepted[i].troops ELSE 0]
  <2>1. Recruits(orders, p, c) = SumFunction(f)
    BY DEF Recruits, TotalOf
  <2>2. DOMAIN f = {} /\ 1..0 = {}
    BY <1>1
  <2> HIDE DEF f
  <2>3. SumFunction(f) = SumFunctionOnSet(f, {})
    BY <2>2, ListSum
  <2> QED BY <2>1, <2>3, SumEmpty
<1> QED BY <1>2 DEF Raises

\* A starting city always belongs to somebody, and a seat that nobody joined has no army and
\* no city but those it was dealt.
AbsentInv ==
    /\ BoardInv
    /\ \A p \in Players : \A c \in StartingCities[p] : state.owner[c] \in Players
    /\ \A p \in Absent : p \notin ArmyOwners(state) /\ CitiesOf(state, p) \subseteq StartingCities[p]

LEMMA InitAbsent == Init => AbsentInv
<1> SUFFICES ASSUME Init PROVE AbsentInv
  OBVIOUS
<1>1. /\ state.armies = {} /\ state.owned = StartingCities
      /\ state.owner = [c \in Cities |-> IF \E p \in Players : c \in StartingCities[p]
                                         THEN CHOOSE p \in Players : c \in StartingCities[p] ELSE None]
  BY DEF Init
<1>2. BoardInv
  BY InitBoard
<1>3. \A p \in Players : CitiesOf(state, p) = StartingCities[p]
  BY <1>1, <1>2 DEF BoardInv, Listed
<1>4. \A p \in Players : \A c \in StartingCities[p] : c \in Cities /\ state.owner[c] \in Players
  BY <1>3, StartAssumption DEF CitiesOf
<1> QED BY <1>1, <1>2, <1>3, <1>4 DEF AbsentInv, Absent, ArmyOwners

LEMMA NextAbsent == ASSUME AbsentInv, Tick PROVE AbsentInv'
<1>1. PICK queued \in [Players -> UNION {Batches[p] : p \in Players}] :
          /\ \A p \in Players : queued[p] \in Batches[p]
          /\ state' = ResolveTick(state, [p \in Players |-> ValidateOrders(state, p, queued[p])])
  BY DEF Tick
<1> DEFINE orders == [p \in Players |-> ValidateOrders(state, p, queued[p])]
           Active == {p \in Players : p \in ArmyOwners(state) \/ Raises(orders, p)}
<1>2. \A p \in Absent : p \in Players /\ orders[p] = ValidateOrders(state, p, NoOrders)
  BY <1>1 DEF Absent
<1>3. state' = ResolveTick(state, orders)
  BY <1>1
<1> HIDE DEF orders
<1>4. \A p \in Absent : p \notin Active
  BY <1>2, IdleRaiseNone DEF AbsentInv
<1>5. /\ ArmyOwners(state') \subseteq Active
      /\ \A c \in Cities : state'.owner[c] = state.owner[c] \/ state'.owner[c] \in Active
  BY <1>3, TickRaises DEF AbsentInv, BoardInv
<1>6. \A p \in Players : StartingCities[p] \subseteq Cities
  BY StartAssumption
<1>7. BoardInv'
  BY NextBoard DEF AbsentInv, Next
<1>8. \A p \in Players : \A c \in StartingCities[p] : state'.owner[c] \in Players
  BY <1>5, <1>6 DEF AbsentInv
<1>9. \A p \in Absent : p \notin ArmyOwners(state') /\ CitiesOf(state', p) \subseteq StartingCities[p]
  <2> HIDE DEF Active
  <2> QED BY <1>4, <1>5 DEF AbsentInv, CitiesOf
<1> QED BY <1>7, <1>8, <1>9 DEF AbsentInv, ArmyOwners, Absent, CitiesOf

\* If all others had fewer cities than a seat that has no more than it was dealt, somebody's
\* starting cities would belong to nobody.
LEMMA AbsentBehind == AbsentInv => AbsentNeverLeads
<1> SUFFICES ASSUME AbsentInv, DealtEvenly, NEW p \in Absent,
                    \A q \in Players \ {p} : ~(Cardinality(CitiesOf(state, q)) >= Cardinality(CitiesOf(state, p)))
             PROVE  FALSE
  BY DEF AbsentNeverLeads
<1> DEFINE others == Players \ {p}
           held == [q \in Players |-> CitiesOf(state, q)]
           j == Cardinality(CitiesOf(state, p))
           k == Cardinality(StartingCities[p])
           a == Cardinality(others)
<1>1. p \in Players /\ \E q \in Players : q # p
  BY DEF Absent, DealtEvenly
<1>2. IsFiniteSet(Players) /\ IsFiniteSet(others) /\ Cardinality(Players) = a + 1 /\ a \in Nat /\ a >= 1
  <2>1. IsFiniteSet(Players) /\ IsFiniteSet(others) /\ a = Cardinality(Players) - 1
    BY <1>1, PlayersAssumption, FS_RemoveElement
  <2>2. a \in Nat /\ Cardinality(Players) \in Nat /\ (a = 0 => others = {})
    BY <2>1, FS_CardinalityType, FS_EmptySet
  <2> QED BY <1>1, <2>1, <2>2
<1>3. \A q \in Players : /\ IsFiniteSet(held[q]) /\ Cardinality(held[q]) \in Nat
                         /\ IsFiniteSet(StartingCities[q]) /\ Cardinality(StartingCities[q]) = k
  <2>1. ASSUME NEW q \in Players
        PROVE  held[q] \in SUBSET Cities /\ StartingCities[q] \in SUBSET Cities
               /\ Cardinality(StartingCities[q]) = k
    BY <1>1, StartAssumption DEF CitiesOf, DealtEvenly
  <2> HIDE DEF held
  <2> QED BY <2>1, CitiesAssumption, FS_Subset, FS_CardinalityType
<1>4. j \in Nat /\ k \in Nat /\ j <= k
  BY <1>1, <1>3, FS_Subset, FS_CardinalityType DEF AbsentInv
<1>5. \A q \in others : Cardinality(held[q]) \in Nat /\ Cardinality(held[q]) < j
  BY <1>3, <1>4
<1>6. j - 1 \in Nat /\ \A q \in others : Cardinality(held[q]) <= j - 1
  BY <1>1, <1>4, <1>5
<1>7. /\ IsFiniteSet(PartsOf(held, others))
      /\ Cardinality(PartsOf(held, others)) <= (j - 1) * a
  <2> HIDE DEF held, j
  <2> QED BY <1>2, <1>3, <1>6, PartsAtMost
<1>8. /\ IsFiniteSet(PartsOf(StartingCities, Players))
      /\ Cardinality(PartsOf(StartingCities, Players)) = k * (a + 1)
  <2> HIDE DEF k, a
  <2>1. \A q, r \in Players : q # r => StartingCities[q] \cap StartingCities[r] = {}
    BY StartAssumption
  <2>2. \A q \in Players : IsFiniteSet(StartingCities[q]) /\ Cardinality(StartingCities[q]) = k
    BY <1>3
  <2>3. /\ IsFiniteSet(PartsOf(StartingCities, Players))
        /\ Cardinality(PartsOf(StartingCities, Players)) = k * Cardinality(Players)
    BY <1>2, <1>4, <2>1, <2>2, PartsAdd
  <2> QED BY <1>2, <2>3
<1>9. PartsOf(StartingCities, Players) \subseteq held[p] \cup PartsOf(held, others)
  <2>1. ASSUME NEW c \in PartsOf(StartingCities, Players)
        PROVE  c \in held[p] \cup PartsOf(held, others)
    <3>1. c \in Cities /\ state.owner[c] \in Players
      BY <2>1, StartAssumption DEF PartsOf, AbsentInv
    <3>2. c \in held[state.owner[c]]
      BY <3>1 DEF CitiesOf
    <3> QED BY <3>1, <3>2 DEF PartsOf
  <2> QED BY <2>1
<1>10. k * (a + 1) <= j + (j - 1) * a
  <2> DEFINE A == held[p]
             B == PartsOf(held, others)
             C == PartsOf(StartingCities, Players)
  <2>1. IsFiniteSet(A) /\ IsFiniteSet(B) /\ Cardinality(A) = j /\ C \subseteq A \cup B
    BY <1>1, <1>3, <1>7, <1>9
  <2>2. Cardinality(B) <= (j - 1) * a /\ Cardinality(C) = k * (a + 1)
    BY <1>7, <1>8
  <2> HIDE DEF A, B, C, j, k, a, held
  <2>3. /\ IsFiniteSet(A \cup B) /\ IsFiniteSet(A \cap B)
        /\ Cardinality(A \cup B) = Cardinality(A) + Cardinality(B) - Cardinality(A \cap B)
    BY <2>1, FS_Union, FS_Subset
  <2>4. /\ Cardinality(C) <= Cardinality(A \cup B)
        /\ Cardinality(A \cap B) \in Nat /\ Cardinality(B) \in Nat
        /\ Cardinality(C) \in Nat /\ Cardinality(A \cup B) \in Nat
    BY <2>1, <2>3, FS_Subset, FS_CardinalityType
  <2>5. (j - 1) * a \in Nat /\ k * (a + 1) \in Nat
    BY <1>2, <1>4, <1>6
  <2> QED BY <1>4, <2>1, <2>2, <2>3, <2>4, <2>5
<1> HIDE DEF j, k, a
<1>11. /\ (j - 1) * a = j * a - a /\ k * (a + 1) = k * a + k
       /\ j * a \in Nat /\ k * a \in Nat
  BY <1>2, <1>4
<1>12. j * a <= k * a
  <2>1. k - j \in Nat /\ (k - j) * a \in Nat /\ (k - j) * a = k * a - j * a
    BY <1>2, <1>4
  <2> QED BY <1>11, <2>1
<1> QED BY <1>2, <1>4, <1>10, <1>11, <1>12

\* Where every seat was dealt as many cities, a seat nobody joined never leads the board alone,
\* on any map and for all orders of the others (persist_advanced_match_tick).
THEOREM AbsentSeatNeverLeads == Spec => []AbsentNeverLeads
<1>1. AbsentInv /\ [Next]_vars => AbsentInv'
  <2>1. AbsentInv /\ UNCHANGED vars => AbsentInv'
    BY DEF AbsentInv, BoardInv, Absent, vars
  <2> QED BY <2>1, NextAbsent DEF Next
<1> QED BY <1>1, InitAbsent, AbsentBehind, PTL DEF Spec
=============================================================================
