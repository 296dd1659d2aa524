------------------------------ MODULE Warfare ------------------------------
(***************************************************************************)
(* The rules of war: movement, combat, siege and attrition, as operators   *)
(* on a match state.  Besides the fields Economy names a state has         *)
(*   owned[p]       the cities listed as player p's own                    *)
(*   eliminated[p]  whether p is out of the match                          *)
(***************************************************************************)
EXTENDS Economy

-----------------------------------------------------------------------------
(* The movement phase.                                                     *)

Distance(c, d) == (CHOOSE e \in Edges : e.ends = {c, d}).ticks

\* Armies on the way come a tick closer; those that arrive stand in their city.
AdvanceTransit(s) ==
    [s EXCEPT !.armies =
        {IF a.destination = None THEN a
         ELSE IF a.ticks = 1
              THEN [a EXCEPT !.location = a.destination, !.destination = None, !.ticks = 0]
              ELSE [a EXCEPT !.ticks = @ - 1] : a \in @}]

MovesOf(orders, a) ==
    {o \in ToSet(orders[a.owner].movements) : o.army = a.id}

Ordered(orders, a) ==
    /\ a.destination = None
    /\ \E o \in MovesOf(orders, a) : \E e \in Edges : e.ends = {a.location, o.destination}

StartMovements(s, orders) ==
    [s EXCEPT !.armies =
        {IF Ordered(orders, a)
         THEN LET to == (CHOOSE o \in MovesOf(orders, a) : TRUE).destination
              IN  [a EXCEPT !.location = None, !.destination = to,
                            !.ticks = Distance(a.location, to)]
         ELSE a : a \in @}]

ResolveMovementPhase(s, orders) == StartMovements(AdvanceTransit(s), orders)

-----------------------------------------------------------------------------
(* The combat phase.                                                       *)

TroopsOf(armies) == TotalOver(armies, LAMBDA a : a.troops)

OwnersOf(armies) == {a.owner : a \in armies}

\* A defender fights at 1.2 times its number, times what the fortification gives.
EffectiveStrength(s, c, p, troops) ==
    IF p = s.owner[c]
    THEN (troops * 12 * <<10, 13, 17, 25>>[s.upgrades[c].fortification + 1]) \div 100
    ELSE troops

\* The troops player p loses at city c to all the others there.
Casualties(s, c, p) ==
    LET present == StationedAt(s, c)
        own == TroopsOf({a \in present : a.owner = p})
        opposing == TotalOver(OwnersOf(present) \ {p}, LAMBDA q :
                        EffectiveStrength(s, c, q, TroopsOf({a \in present : a.owner = q})))
    IN  IF opposing \div 10 < own THEN opposing \div 10 ELSE own

\* Losses are shared in proportion to size; what the division leaves over goes to
\* the largest remainders, the lower id first.
AllocatedLoss(group, total, a) ==
    LET troops == TroopsOf(group)
        share(b) == (total * b.troops) \div troops
        remainder(b) == (total * b.troops) % troops
        left == total - TotalOver(group, share)
        ahead == {b \in group : \/ remainder(b) > remainder(a)
                                \/ remainder(b) = remainder(a) /\ SortsBefore(b.id, a.id)}
    IN  share(a) + (IF Cardinality(ahead) < left THEN 1 ELSE 0)

Contested(s, c) == Cardinality(OwnersOf(StationedAt(s, c))) > 1

Loss(s, a) ==
    IF a.destination = None /\ Contested(s, a.location)
    THEN AllocatedLoss({b \in StationedAt(s, a.location) : b.owner = a.owner},
                       Casualties(s, a.location, a.owner), a)
    ELSE 0

WithLosses(armies, Lost(_)) ==
    {[a EXCEPT !.troops = @ - Lost(a)] : a \in {b \in armies : b.troops > Lost(b)}}

ResolveContestedCities(s) == [s EXCEPT !.armies = WithLosses(@, LAMBDA a : Loss(s, a))]

\* Slip: whose armies all march away gives up the city they leave.
TakerAbandons(s, c) ==
    LET there == OwnersOf(StationedAt(s, c))
    IN  IF Cardinality(there) = 1 THEN CHOOSE p \in there : TRUE
        ELSE IF there = {} /\ \E a \in s.armies : a.owner = s.owner[c] THEN None
        ELSE s.owner[c]

\* Cities taken, by the one player whose armies stand there.
Taker(s, c) ==
    LET there == OwnersOf(StationedAt(s, c))
    IN  IF Cardinality(there) = 1 THEN CHOOSE p \in there : TRUE ELSE s.owner[c]

\* Slip: the previous owner keeps the city in its list.
OwnedAfterGainsOnly(s, owner) == [p \in Players |-> s.owned[p] \cup {c \in Cities : owner[c] = p}]

OwnedAfter(s, owner) ==
    [p \in Players |->
        (s.owned[p] \ {c \in Cities : s.owner[c] = p /\ owner[c] # p})
        \cup {c \in Cities : owner[c] = p /\ s.owner[c] # p}]

TransferUncontestedControl(s) ==
    LET owner == [c \in Cities |-> Taker(s, c)]
    IN  [s EXCEPT !.owner = owner, !.owned = OwnedAfter(s, owner)]

ResolveCombatPhase(s) == TransferUncontestedControl(ResolveContestedCities(s))

-----------------------------------------------------------------------------
(* The siege and attrition phases.                                         *)

Neighbours(c) == {d \in Cities : \E e \in Edges : e.ends = {c, d}}

SameCoalition(s, p, q) == p = q \/ Allied(s, p, q)

Besieged(s, c) ==
    /\ s.owner[c] # None
    /\ Neighbours(c) # {}
    /\ \A d \in Neighbours(c) : s.owner[d] # None => ~SameCoalition(s, s.owner[c], s.owner[d])

DegradedBySiege(s) == {c \in Cities : s.upgrades[c].fortification > 0 /\ Besieged(s, c)}

Lowered(tiers) == [tiers EXCEPT !.fortification = @ - 1]

Degraded(s, cities) ==
    [s EXCEPT !.upgrades = [c \in Cities |-> IF c \in cities THEN Lowered(@[c]) ELSE @[c]]]

ResolveSiegePhase(s) == Degraded(s, DegradedBySiege(s))

Starving(s, p) == s.resources[p].food = 0

\* Slip: what the siege took is not remembered.
DegradedUnpaidAgain(s, unpaid, besieged) ==
    {c \in unpaid : s.upgrades[c].fortification > 0}

\* The unpaid fortifications that the siege phase has not already lowered.
DegradedUnpaid(s, unpaid, besieged) ==
    {c \in unpaid \ besieged : s.upgrades[c].fortification > 0}

\* Slip: only the loss of all cities is looked at.
OutOfPlayLandless(s, p) == CitiesOf(s, p) = {}

OutOfPlay(s, p) == CitiesOf(s, p) = {} /\ {a \in s.armies : a.owner = p} = {}

ResolveAttritionPhase(s, unpaid, besieged) ==
    LET starved == [s EXCEPT !.armies =
                        WithLosses(@, LAMBDA a : IF Starving(s, a.owner) THEN 1 ELSE 0)]
        decayed == Degraded(starved, DegradedUnpaid(starved, unpaid, besieged))
    IN  [decayed EXCEPT !.eliminated = [p \in Players |-> OutOfPlay(decayed, p)]]

-----------------------------------------------------------------------------
\* resolve_tick; orders[p] are what validation left of player p's orders.
ResolveTick(s, orders) ==
    LET unpaid == UnpaidFortifications(s)
        paid == ResolveResourcePhase(s)
        built == ResolveBuildPhase(paid, orders)
        moved == ResolveMovementPhase(built, orders)
        fought == ResolveCombatPhase(moved)
        besieged == DegradedBySiege(fought)
    IN  ResolveAttritionPhase(ResolveSiegePhase(fought), unpaid, besieged)
============================================================================
