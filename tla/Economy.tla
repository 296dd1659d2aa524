------------------------------ MODULE Economy ------------------------------
(***************************************************************************)
(* The rules of the economy: which orders of a tick are accepted, what the *)
(* resource phase pays out and takes, and what the build phase spends.     *)
(*                                                                         *)
(* The module has no variables.  Its operators take a match state s with   *)
(* the fields                                                              *)
(*   resources[p][g]  the stock player p has of good g                     *)
(*   owner[c]         who owns city c                                      *)
(*   upgrades[c][t]   the tier of track t in city c                        *)
(*   queue[c]         the upgrades under construction in city c            *)
(*   alliance[p]      the alliance of player p                             *)
(*   armies           a set of armies, at a city or on the way to one      *)
(* Players and cities are numbers, in the order in which their ids sort.   *)
(***************************************************************************)
EXTENDS Integers, Sequences, FiniteSets, SequencesExt

CONSTANTS
    Players,
    Cities,
    Edges,       \* the edges of the map: [ends : two cities, ticks : > 0, mode]
    Yield,       \* Yield[c][g]: what city c yields of good g in a tick
    Population,  \* Population[c]: the food the people of city c eat in a tick
    None         \* Python's None

Goods == {"food", "production", "money"}
Tracks == {"economy", "military", "fortification"}

ASSUME PlayersAssumption == Players \subseteq Nat /\ IsFiniteSet(Players)
ASSUME CitiesAssumption == Cities \subseteq Nat /\ IsFiniteSet(Cities)
ASSUME NoneAssumption == None \notin Players \cup Cities
ASSUME EdgesAssumption ==
    /\ IsFiniteSet(Edges)
    /\ Edges \subseteq [ends : {{c, d} : c, d \in Cities}, ticks : Nat \ {0}, mode : {"land", "sea"}]
ASSUME YieldAssumption ==
    Yield \in [Cities -> [Goods -> Nat]] /\ Population \in [Cities -> Nat]

TotalOver(S, Amount(_)) == SumFunction([x \in S |-> Amount(x)])
TotalOf(orders, Amount(_)) == SumFunction([i \in DOMAIN orders |-> Amount(orders[i])])

\* The elements of a sequence that are in a set, in their order.
AppendIf(seq, x, S) == IF x \in S THEN Append(seq, x) ELSE seq
Only(seq, S) ==
    LET kept[n \in 0..Len(seq)] == IF n = 0 THEN <<>> ELSE AppendIf(kept[n - 1], seq[n], S)
    IN  kept[Len(seq)]

CitiesOf(s, p) == {c \in Cities : s.owner[c] = p}

-----------------------------------------------------------------------------
(* Validation: orders are weighed against the stock before the tick.       *)

NoCost == [g \in Goods |-> 0]
RecruitmentCost(troops) == [NoCost EXCEPT !["food"] = troops, !["production"] = 5 * troops]
UpgradeCost(track, tier) ==
    [NoCost EXCEPT !["production"] =
        [economy |-> 7, military |-> 8, fortification |-> 6][track] + 4 * (tier - 1)]
TransferCost(o) == [NoCost EXCEPT ![o.resource] = o.amount]

CanAfford(budget, cost) == \A g \in Goods : budget[g] >= cost[g]

\* An order is accepted if it is allowed, repeats no accepted one and its cost is still there.
Weighed(acc, o, allowed, repeats, cost) ==
    IF /\ o \in allowed
       /\ \A i \in DOMAIN acc.accepted : <<acc.accepted[i], o>> \notin repeats
       /\ CanAfford(acc.budget, cost[o])
    THEN [accepted |-> Append(acc.accepted, o),
          budget |-> [g \in Goods |-> acc.budget[g] - cost[o][g]]]
    ELSE acc

\* The orders accepted one after the other, and what they leave of the budget.
Admit(orders, budget, allowed, repeats, cost) ==
    LET after[n \in 0..Len(orders)] ==
            IF n = 0 THEN [accepted |-> <<>>, budget |-> budget]
            ELSE Weighed(after[n - 1], orders[n], allowed, repeats, cost)
    IN  after[Len(orders)]

Repeats(orders, Target(_)) ==
    {pair \in ToSet(orders) \X ToSet(orders) : Target(pair[1]) = Target(pair[2])}

CanMove(s, p, o) ==
    \E a \in s.armies :
        /\ a.id = o.army
        /\ a.owner = p
        /\ a.destination = None
        /\ \E e \in Edges : e.ends = {a.location, o.destination}

CanUpgrade(s, p, o) ==
    o.city \in CitiesOf(s, p) /\ o.tier = s.upgrades[o.city][o.track] + 1

Allied(s, p, q) == s.alliance[p] # None /\ s.alliance[p] = s.alliance[q]
Enemies(s, p, q) == s.alliance[p] # None /\ s.alliance[q] # None /\ ~Allied(s, p, q)

\* The owners whose land a convoy from p to q may cross.
RouteOwners(s, p, q) ==
    {p, q} \cup (IF Allied(s, p, q) THEN {r \in Players : s.alliance[r] = s.alliance[p]} ELSE {})

LandNeighbours(S) == {d \in Cities : \E c \in S, e \in Edges : e.mode = "land" /\ e.ends = {c, d}}

\* The search over land, one ring of cities after the other.
HasConnectedLandRoute(s, p, q) ==
    LET passable == UNION {CitiesOf(s, r) : r \in RouteOwners(s, p, q)}
        ring[n \in Nat] == IF n = 0 THEN CitiesOf(s, p)
                           ELSE LET near == ring[n - 1]
                                IN  near \cup (LandNeighbours(near) \cap passable)
    IN  ring[Cardinality(Cities)] \cap CitiesOf(s, q) # {}

CanTransfer(s, p, o) ==
    /\ o.to \in Players
    /\ ~Enemies(s, p, o.to)
    /\ o.resource \in {"food", "production"} => HasConnectedLandRoute(s, p, o.to)

\* validate_order_envelope for player p: moves, which cost nothing, then recruitment, then
\* upgrades, then transfers, out of one budget.
ValidateOrders(s, p, orders) ==
    LET moves == Admit(orders.movements, NoCost,
                       {o \in ToSet(orders.movements) : CanMove(s, p, o)},
                       Repeats(orders.movements, LAMBDA o : o.army),
                       [o \in ToSet(orders.movements) |-> NoCost])
        recruits == Admit(orders.recruitment, s.resources[p],
                          {o \in ToSet(orders.recruitment) : o.city \in CitiesOf(s, p)}, {},
                          [o \in ToSet(orders.recruitment) |-> RecruitmentCost(o.troops)])
        upgrades == Admit(orders.upgrades, recruits.budget,
                          {o \in ToSet(orders.upgrades) : CanUpgrade(s, p, o)},
                          Repeats(orders.upgrades, LAMBDA o : <<o.city, o.track>>),
                          [o \in ToSet(orders.upgrades) |-> UpgradeCost(o.track, o.tier)])
        transfers == Admit(orders.transfers, upgrades.budget,
                           {o \in ToSet(orders.transfers) : CanTransfer(s, p, o)}, {},
                           [o \in ToSet(orders.transfers) |-> TransferCost(o)])
    IN  [movements |-> moves.accepted, recruitment |-> recruits.accepted,
         upgrades |-> upgrades.accepted, transfers |-> transfers.accepted]

-----------------------------------------------------------------------------
(* The resource phase.                                                     *)

PrimaryResource(c) ==
    LET best == {g \in Goods : \A h \in Goods : Yield[c][h] <= Yield[c][g]}
    IN  IF "food" \in best THEN "food"
        ELSE IF "production" \in best THEN "production" ELSE "money"

CityYield(s, c) ==
    [g \in Goods |-> IF g = PrimaryResource(c)
                     THEN (Yield[c][g] * (3 + s.upgrades[c].economy)) \div 3
                     ELSE Yield[c][g]]

\* Slip: what upkeep leaves is taken as it is.
AsItIs(n) == n

AtLeastZero(n) == IF n < 0 THEN 0 ELSE n

\* Cities in the order of their ids.
InOrder(S) ==
    CHOOSE list \in [1..Cardinality(S) -> S] : \A i, j \in DOMAIN list : i < j => list[i] < list[j]

\* A tier costs one coin a tick.  City after city is paid out of the money if it covers it; what
\* is left of the money, and the fortified cities whose upkeep it did not cover.
FortificationUpkeep(s, p, money) ==
    LET fortified == {c \in CitiesOf(s, p) : s.upgrades[c].fortification > 0}
        paid == Admit(InOrder(fortified), [NoCost EXCEPT !["money"] = money], fortified, {},
                      [c \in fortified |-> [NoCost EXCEPT !["money"] = s.upgrades[c].fortification]])
    IN  [money |-> paid.budget["money"], unpaid |-> fortified \ ToSet(paid.accepted)]

Income(s, p) ==
    [g \in Goods |-> s.resources[p][g]
                     + TotalOver(CitiesOf(s, p), LAMBDA c : CityYield(s, c)[g])]

FoodUpkeep(s, p) ==
    TotalOver(CitiesOf(s, p), LAMBDA c : Population[c])
    + TotalOver({a \in s.armies : a.owner = p}, LAMBDA a : a.troops)

UnpaidFortifications(s) ==
    UNION {FortificationUpkeep(s, p, Income(s, p)["money"]).unpaid : p \in Players}

ResolveResourcePhase(s) ==
    [s EXCEPT !.resources =
        [p \in Players |->
            [food |-> AtLeastZero(Income(s, p)["food"] - FoodUpkeep(s, p)),
             production |-> Income(s, p)["production"],
             money |-> AtLeastZero(FortificationUpkeep(s, p, Income(s, p)["money"]).money)]]]

-----------------------------------------------------------------------------
(* The build phase; orders[p] are the accepted orders of player p.         *)

Finished(item) == item.ticks = 1

\* The tier of a track after the finished upgrades of a queue, the last of which counts.
TierAfter(queue, track, tier) ==
    LET done == {i \in DOMAIN queue : queue[i].track = track /\ Finished(queue[i])}
    IN  IF done = {} THEN tier ELSE queue[Max(done)].tier

AdvanceBuildQueues(s) ==
    [s EXCEPT
        !.upgrades = [c \in Cities |-> [t \in Tracks |-> TierAfter(s.queue[c], t, s.upgrades[c][t])]],
        !.queue = [c \in Cities |->
            LET rest == Only(s.queue[c], {item \in ToSet(s.queue[c]) : ~Finished(item)})
            IN  [i \in DOMAIN rest |-> [rest[i] EXCEPT !.ticks = @ - 1]]]]

\* Ids sort by city and then by number: recruitment:<owner>:<city>:<number>.
SortsBefore(i, j) == i.city < j.city \/ (i.city = j.city /\ i.number < j.number)

StationedAt(s, c) == {a \in s.armies : a.location = c /\ a.destination = None}

FriendlyStationed(s, c) == {a \in StationedAt(s, c) : a.owner = s.owner[c]}

NextArmyId(s, p, c) ==
    LET taken == {a.id.number : a \in {b \in s.armies : b.id.owner = p /\ b.id.city = c}}
    IN  [owner |-> p, city |-> c,
         number |-> CHOOSE n \in 1..(Cardinality(taken) + 1) :
                        n \notin taken /\ \A k \in 1..(n - 1) : k \in taken]

\* All recruits of a city join its first stationed army, or found one.
Recruits(orders, p, c) ==
    TotalOf(orders[p].recruitment, LAMBDA o : IF o.city = c THEN o.troops ELSE 0)

NewArmy(s, p, c, troops) ==
    [id |-> NextArmyId(s, p, c), owner |-> p, troops |-> troops,
     location |-> c, destination |-> None, ticks |-> 0]

ProcessRecruitment(s, orders) ==
    LET Joins(a) == /\ a.destination = None
                    /\ a \in FriendlyStationed(s, a.location)
                    /\ \A b \in FriendlyStationed(s, a.location) : ~SortsBefore(b.id, a.id)
        founding == {c \in Cities : /\ s.owner[c] # None
                                    /\ FriendlyStationed(s, c) = {}
                                    /\ Recruits(orders, s.owner[c], c) > 0}
    IN  [s EXCEPT
            !.resources = [p \in Players |-> [g \in Goods |->
                @[p][g] - TotalOf(orders[p].recruitment, LAMBDA o : RecruitmentCost(o.troops)[g])]],
            !.armies = {IF Joins(a) THEN [a EXCEPT !.troops = @ + Recruits(orders, a.owner, a.location)]
                        ELSE a : a \in @}
                       \cup {NewArmy(s, s.owner[c], c, Recruits(orders, s.owner[c], c)) : c \in founding}]

\* s is the state at the start of the phase, before queues advance.
StartsUpgrade(s, o) == \A i \in DOMAIN s.queue[o.city] : s.queue[o.city][i].track # o.track

Spent(stock, production) == [stock EXCEPT !["production"] = @ - production]

StartUpgrades(s, atStart, orders) ==
    LET Starting(p) == {o \in ToSet(orders[p].upgrades) : StartsUpgrade(atStart, o)}
        Items(c) == Only(orders[s.owner[c]].upgrades, {o \in Starting(s.owner[c]) : o.city = c})
    IN  [s EXCEPT
            !.resources = [p \in Players |-> Spent(@[p],
                TotalOf(orders[p].upgrades,
                        LAMBDA o : IF o \in Starting(p)
                                   THEN UpgradeCost(o.track, o.tier)["production"] ELSE 0))],
            !.queue = [c \in Cities |->
                IF s.owner[c] = None THEN @[c]
                ELSE @[c] \o [i \in DOMAIN Items(c) |->
                                 [track |-> Items(c)[i].track, tier |-> Items(c)[i].tier,
                                  ticks |-> Items(c)[i].tier]]]]

Sent(orders, p, g) ==
    TotalOf(orders[p].transfers, LAMBDA o : IF o.resource = g THEN o.amount ELSE 0)
Received(orders, p, g) ==
    TotalOver(Players, LAMBDA q : TotalOf(orders[q].transfers,
                                  LAMBDA o : IF o.resource = g /\ o.to = p THEN o.amount ELSE 0))

ProcessTransfers(s, orders) ==
    [s EXCEPT !.resources = [p \in Players |-> [g \in Goods |->
        @[p][g] - Sent(orders, p, g) + Received(orders, p, g)]]]

ResolveBuildPhase(s, orders) ==
    LET advanced == AdvanceBuildQueues(s)
        recruited == ProcessRecruitment(advanced, orders)
        upgrading == StartUpgrades(recruited, s, orders)
    IN  ProcessTransfers(upgrading, orders)
============================================================================
