---------------------------- MODULE TickResolver ----------------------------
(***************************************************************************)
(* The board of one match, tick after tick: resolve_tick on the orders     *)
(* that validation accepted.  Treaties and Coalitions follow what players  *)
(* agree on between ticks; here alliances stay as they are, and the        *)
(* victory phase, which reads the board and changes none of it, is left to *)
(* Coalitions.                                                             *)
(***************************************************************************)
EXTENDS Warfare

CONSTANTS
    StartingCities,     \* StartingCities[p]: the cities player p starts with
    StartingResources,  \* what every player starts with
    Batches,            \* Batches[p]: the orders player p may have queued in a tick
    Alliances,          \* the ids of alliances
    MaxTick             \* bound on the ticks of a behaviour

ASSUME StartAssumption ==
    /\ StartingCities \in [Players -> SUBSET Cities]
    /\ \A p, q \in Players : p # q => StartingCities[p] \cap StartingCities[q] = {}
    /\ StartingResources \in [Goods -> Nat]

\* What the order models let in: counts are positive, and tracks, tiers and resources are those
\* there are.  Armies, cities and players may be anything.
IsOrderBatch(b) ==
    /\ \A f \in {"movements", "recruitment", "upgrades", "transfers"} : b[f] \in Seq(ToSet(b[f]))
    /\ \A o \in ToSet(b.recruitment) : o.troops \in Nat \ {0}
    /\ \A o \in ToSet(b.upgrades) : o.track \in Tracks /\ o.tier \in 1..3
    /\ \A o \in ToSet(b.transfers) : o.resource \in Goods /\ o.amount \in Nat \ {0}

ASSUME BatchesAssumption == \A p \in Players : \A b \in Batches[p] : IsOrderBatch(b)
ASSUME BoundsAssumption == MaxTick \in Nat /\ None \notin Alliances

VARIABLES tick, state
vars == <<tick, state>>

-----------------------------------------------------------------------------

\* initialize_match_state, with the alliances the players have agreed on.
Init ==
    /\ tick = 0
    /\ state \in
        [resources : {[p \in Players |-> StartingResources]},
         owner : {[c \in Cities |-> IF \E p \in Players : c \in StartingCities[p]
                                    THEN CHOOSE p \in Players : c \in StartingCities[p] ELSE None]},
         owned : {StartingCities},
         upgrades : {[c \in Cities |-> [t \in Tracks |-> 0]]},
         queue : {[c \in Cities |-> <<>>]},
         armies : {{}},
         alliance : [Players -> Alliances \cup {None}],
         eliminated : {[p \in Players |-> FALSE]}]

Tick ==
    /\ tick < MaxTick
    /\ tick' = tick + 1
    /\ \E queued \in {f \in [Players -> UNION {Batches[p] : p \in Players}] :
                         \A p \in Players : f[p] \in Batches[p]} :
           state' = ResolveTick(state, [p \in Players |-> ValidateOrders(state, p, queued[p])])

Next == Tick
Spec == Init /\ [][Next]_vars

\* The runtime keeps ticking an active match.
FairSpec == Spec /\ WF_vars(Tick)

-----------------------------------------------------------------------------
(* What the resolver guarantees.                                           *)

ArmyId == [owner : Players, city : Cities, number : Nat \ {0}]
Army == [id : ArmyId, owner : Players, troops : Nat \ {0}, location : Cities \cup {None},
         destination : Cities \cup {None}, ticks : Nat]
QueueItem == [track : Tracks, tier : 1..3, ticks : Nat \ {0}]

\* What the model classes of MatchState declare (models/state.py), as far as the resolver keeps
\* it: tiers in range, troops and remaining ticks positive, an army either at a city or on the
\* way, and no two armies of one id; and of the stocks, which the classes want to be zero or
\* more, that they are numbers.  Of the three goods only production is never owed, see
\* ProductionCovered; what becomes of food and money is in OverdraftsPass.
TypeOK ==
    /\ tick \in 0..MaxTick
    /\ state.resources \in [Players -> [Goods -> Int]]
    /\ state.owner \in [Cities -> Players \cup {None}]
    /\ state.owned \in [Players -> SUBSET Cities]
    /\ state.upgrades \in [Cities -> [Tracks -> 0..3]]
    /\ \A c \in Cities : state.queue[c] \in Seq(QueueItem)
    /\ state.armies \subseteq Army
    /\ \A a, b \in state.armies : a.id = b.id => a = b
    /\ \A a \in state.armies : IF a.destination = None THEN a.location # None /\ a.ticks = 0
                                                       ELSE a.location = None /\ a.ticks > 0
    /\ state.alliance \in [Players -> Alliances \cup {None}]
    /\ state.eliminated \in [Players -> BOOLEAN]

\* The goods that upkeep is taken out of.
Upkept == Goods \ {"production"}

\* Orders are weighed against the stock before the upkeep of the tick is taken out of it, so food
\* and money can be overdrawn: by no more than what was in stock, and never two ticks running,
\* as who owes anything has no costly order accepted and the next upkeep ends at zero or more.
OverdraftsPass ==
    [][\A p \in Players, g \in Upkept :
           state'.resources[p][g] < 0 => state.resources[p][g] >= -state'.resources[p][g]]_vars

\* Production has no upkeep, so what validation reserves is there when the build phase
\* spends it, however many orders of a player and transfers between players meet in a tick.
ProductionCovered == \A p \in Players : state.resources[p]["production"] >= 0

\* A player's list of cities and the cities' owners tell the same story.
OwnershipConsistent == \A p \in Players : state.owned[p] = CitiesOf(state, p)

\* A player is marked eliminated exactly when it has neither a city nor an army.
EliminationConsistent ==
    tick > 0 => \A p \in Players :
        state.eliminated[p] <=> CitiesOf(state, p) = {} /\ \A a \in state.armies : a.owner # p

\* However large the losses of a player at a city are, they are shared out to the last
\* troop among its armies there, and no army loses more than it has.
CasualtiesShared ==
    \A c \in Cities, p \in Players :
        LET group == {a \in StationedAt(state, c) : a.owner = p}
        IN  \A total \in 1..TroopsOf(group) :
                /\ TotalOver(group, LAMBDA a : AllocatedLoss(group, total, a)) = total
                /\ \A a \in group : AllocatedLoss(group, total, a) <= a.troops

\* A city works on one upgrade per track at a time, so none is paid for twice.
OneUpgradePerTrack ==
    \A c \in Cities : \A i, j \in DOMAIN state.queue[c] :
        state.queue[c][i].track = state.queue[c][j].track => i = j

NoOrders == [movements |-> <<>>, recruitment |-> <<>>, upgrades |-> <<>>, transfers |-> <<>>]

\* The seats nobody joined: no player row, and nobody to give orders.
Absent == {p \in Players : Batches[p] = {NoOrders}}

\* A match that somebody joined, in which every seat was dealt as many cities.
DealtEvenly ==
    /\ Absent # Players
    /\ \A p, q \in Players : Cardinality(StartingCities[p]) = Cardinality(StartingCities[q])

\* A seat nobody joined never holds more cities than everyone else, whoever of the others'
\* armies fall, so it cannot be the winner of a terminal tick, for whom persistence would find
\* no player row.
AbsentNeverLeads ==
    DealtEvenly => \A p \in Absent : \E q \in Players \ {p} :
        Cardinality(CitiesOf(state, q)) >= Cardinality(CitiesOf(state, p))

\* Who is out of the match stays out.
EliminationIsFinal ==
    [][\A p \in Players : state.eliminated[p] => state'.eliminated[p]]_vars

\* Siege and unpaid upkeep together cost a fortification one tier a tick, not two.
FortificationFallsByOne ==
    [][\A c \in Cities : state'.upgrades[c].fortification >= state.upgrades[c].fortification - 1]_vars

\* The tracks no siege lowers are built one tier after the other.
BuiltInOrder ==
    [][\A c \in Cities, t \in Tracks \ {"fortification"} :
           state'.upgrades[c][t] - state.upgrades[c][t] \in {0, 1}]_vars

\* No production is spent that is not there and nobody dies twice: tiers, troops and queues keep
\* their shapes, production covers what was accepted, a city builds one upgrade per track, and
\* losses are shared out in full.  Food and money may be overdrawn, against what the model
\* classes declare, and OverdraftsPass says how far and how long.
BoardSound ==
    /\ [](TypeOK /\ ProductionCovered /\ OneUpgradePerTrack /\ CasualtiesShared)
    /\ OverdraftsPass

\* Cities, players' lists and elimination marks tell one story, though combat, siege and
\* attrition each edit some of them.
BoardConsistent == OwnershipConsistent /\ EliminationConsistent

\* Tiers go up one after the other where nothing lowers them, and down by one a tick at most.
TiersByRule == BuiltInOrder /\ FortificationFallsByOne
============================================================================
