----------------------------- MODULE Regression -----------------------------
(***************************************************************************)
(* The simulation regression harness: resolve_tick with its victory phase, *)
(* from the three curated boards, and the checks the harness makes of      *)
(* every snapshot.  The harness scripts a handful of orders at fixed       *)
(* ticks; here the orders of a board may come at any tick or not at all.   *)
(*                                                                         *)
(* Besides the fields Warfare names a state has victory, a record of the   *)
(* leading coalition, the cities it holds and the countdown.               *)
(***************************************************************************)
EXTENDS Warfare

CONSTANTS
    Scenario,   \* one of the three boards below
    Red, Blue,  \* the alliances of the third board
    Ghost,      \* the id of a player and of a city there is none of
    MaxTick     \* bound on the ticks of a simulation

\* The names are distinct, and none of them is a number of a player or city.
NamesAssumption ==
    /\ Cardinality({None, Ghost, Red, Blue}) = 4
    /\ {None, Ghost, Red, Blue} \cap (Players \cup Cities) = {}

VARIABLES tick, state
vars == <<tick, state>>

-----------------------------------------------------------------------------
(* The boards.  Players and cities are numbered as their ids sort, and so  *)
(* are the armies of a player: they have the number in place of a name.    *)

Goods3(food, production, money) == [food |-> food, production |-> production, money |-> money]
Road(c, d) == [ends |-> {c, d}, ticks |-> 1, mode |-> "land"]
Id(p, n) == [owner |-> p, city |-> 1, number |-> n]
Stands(p, n, troops, c) ==
    [id |-> Id(p, n), owner |-> p, troops |-> troops, location |-> c, destination |-> None, ticks |-> 0]

\* What a player of a board may order in a tick: any of the moves, and any of the upgrades.
Batch(moves, upgrades) ==
    [movements |-> [i \in DOMAIN moves |-> [army |-> Id(moves[i][1], moves[i][2]),
                                            destination |-> moves[i][3]]],
     recruitment |-> <<>>, upgrades |-> upgrades, transfers |-> <<>>]

Board(owner, fortification, armies, resources, alliance) ==
    [owner |-> owner,
     owned |-> [p \in 1..2 |-> {c \in DOMAIN owner : owner[c] = p}],
     upgrades |-> [c \in DOMAIN owner |->
        [economy |-> 0, military |-> 0, fortification |-> fortification[c]]],
     queue |-> [c \in DOMAIN owner |-> <<>>],
     armies |-> armies, resources |-> resources, alliance |-> alliance,
     eliminated |-> <<FALSE, FALSE>>,
     victory |-> [leading |-> None, held |-> 0, countdown |-> None]]

\* alpha, bravo, charlie and delta.
FrontierCampaign ==
    [threshold |-> 3,
     edges |-> {Road(1, 2), Road(2, 3), Road(1, 4)},
     yield |-> <<Goods3(1, 3, 1), Goods3(1, 1, 1), Goods3(1, 1, 3), Goods3(3, 1, 1)>>,
     board |-> Board(<<1, 2, 1, None>>, <<0, 2, 0, 0>>,
                     {Stands(1, 2, 60, 1), Stands(1, 1, 6, 3), Stands(2, 1, 20, 2)},
                     <<Goods3(500, 20, 20), Goods3(4, 5, 3)>>, <<None, None>>),
     batches |-> <<{Batch(<<>>, <<>>),
                    Batch(<<<<1, 2, 2>>>>, <<>>),
                    Batch(<<<<1, 2, 2>>>>, <<[city |-> 3, track |-> "fortification", tier |-> 1]>>),
                    Batch(<<<<1, 2, 2>>, <<1, 1, 1>>>>, <<>>),
                    Batch(<<<<1, 1, 4>>>>, <<>>)},
                   {Batch(<<>>, <<>>), Batch(<<<<2, 1, 3>>>>, <<>>)}>>]

\* east, north and south.
AttritionPressure ==
    [threshold |-> 2,
     edges |-> {Road(2, 3), Road(1, 3)},
     yield |-> <<Goods3(1, 1, 3), Goods3(1, 1, 1), Goods3(1, 2, 1)>>,
     board |-> Board(<<None, 1, 2>>, <<0, 0, 0>>, {Stands(1, 1, 3, 2), Stands(2, 1, 5, 3)},
                     <<Goods3(0, 3, 3), Goods3(8, 4, 4)>>, <<None, None>>),
     batches |-> <<{Batch(<<>>, <<>>), Batch(<<<<1, 1, 3>>>>, <<>>)},
                   {Batch(<<>>, <<>>), Batch(<<<<2, 1, 2>>>>, <<>>), Batch(<<<<2, 1, 1>>>>, <<>>)}>>]

\* alpha, bravo, charlie and delta, in a row.
VictoryCountdown ==
    [threshold |-> 3,
     edges |-> {Road(1, 2), Road(2, 3), Road(3, 4)},
     yield |-> [c \in 1..4 |-> Goods3(1, 1, 1)],
     board |-> Board(<<1, 1, 2, 1>>, <<0, 0, 0, 0>>, {Stands(1, 1, 14, 1), Stands(2, 1, 7, 3)},
                     <<Goods3(20, 10, 10), Goods3(20, 10, 10)>>, <<Red, Blue>>),
     batches |-> <<{Batch(<<>>, <<>>), Batch(<<<<1, 1, 2>>>>, <<>>)},
                   {Batch(<<>>, <<>>), Batch(<<<<2, 1, 4>>>>, <<>>)}>>]

-----------------------------------------------------------------------------
(* The victory phase and a tick of the simulation.                         *)

Coalition(s, p) == IF s.alliance[p] = None THEN p ELSE s.alliance[p]

Holders(s) == {Coalition(s, p) : p \in {q \in Players : CitiesOf(s, q) # {}}}
Holds(s, k) == Cardinality({c \in Cities : s.owner[c] \in Players /\ Coalition(s, s.owner[c]) = k})

MostHeld(s) == CHOOSE n \in 0..Cardinality(Cities) :
    /\ \A k \in Holders(s) : Holds(s, k) <= n
    /\ n > 0 => \E k \in Holders(s) : Holds(s, k) = n
Leaders(s) == {k \in Holders(s) : Holds(s, k) = MostHeld(s)}

\* Slip: of several coalitions in the lead one is taken for the leader.
LeadingCoalitionOfSeveral(s) == IF Holders(s) = {} THEN None ELSE CHOOSE k \in Leaders(s) : TRUE

LeadingCoalition(s) ==
    IF Cardinality(Leaders(s)) = 1 THEN CHOOSE k \in Leaders(s) : TRUE ELSE None

UpdatedVictoryCountdown(victory, leading, held) ==
    IF leading = None \/ held < Scenario.threshold THEN None
    ELSE IF victory.leading = None THEN Scenario.threshold
    ELSE IF victory.leading # leading THEN None
    ELSE IF victory.countdown = None THEN Scenario.threshold
    ELSE AtLeastZero(victory.countdown - 1)

ResolveVictoryPhase(s) ==
    [s EXCEPT !.victory =
        [leading |-> LeadingCoalition(s), held |-> MostHeld(s),
         countdown |-> UpdatedVictoryCountdown(@, LeadingCoalition(s), MostHeld(s))]]

Init == tick = 0 /\ state = Scenario.board

\* The orders of a tick, each envelope validated against the state before it.
OrderProvider(s, orders) == [p \in Players |-> ValidateOrders(s, p, orders[p])]

SimulatedTick ==
    /\ tick < MaxTick
    /\ tick' = tick + 1
    /\ \E first \in Scenario.batches[1], second \in Scenario.batches[2] :
           state' = ResolveVictoryPhase(ResolveTick(state, OrderProvider(state, <<first, second>>)))

Next == SimulatedTick
Spec == Init /\ [][Next]_vars

-----------------------------------------------------------------------------
(* The checks of the harness: the set of invariants a state breaks.        *)

Broken(name, breach) == IF breach THEN {name} ELSE {}

CityFailures(s) ==
    Broken("city-owner-exists", \E c \in Cities : s.owner[c] \notin Players \cup {None})

ArmyFailures(s) ==
    Broken("army-owner-exists", \E a \in s.armies : a.owner \notin Players)
    \cup Broken("army-troops-positive", \E a \in s.armies : a.troops <= 0)
    \cup Broken("army-location-exists", \E a \in s.armies : a.location \notin Cities \cup {None})
    \cup Broken("army-destination-exists", \E a \in s.armies : a.destination \notin Cities \cup {None})

HasPresence(s, p) == CitiesOf(s, p) # {} \/ \E a \in s.armies : a.owner = p

ResourceFailures(s, p) ==
    UNION {Broken("player-resource-non-negative", s.resources[p][g] < 0) : g \in Goods}

PlayerFailures(s, p) ==
    ResourceFailures(s, p)
    \cup Broken("player-city-reference-exists", ~(s.owned[p] \subseteq Cities))
    \cup Broken("player-city-ownership-consistent", s.owned[p] # CitiesOf(s, p))
    \cup Broken("player-elimination-consistent", s.eliminated[p] = HasPresence(s, p))

VictoryFailures(s) ==
    LET expected == IF Cardinality(Leaders(s)) = 1 THEN Leaders(s) ELSE {None}
    IN  Broken("victory-threshold-in-range", Scenario.threshold > Cardinality(Cities))
        \cup Broken("victory-cities-held-consistent", s.victory.held # MostHeld(s))
        \cup IF s.victory.leading = None
             THEN Broken("victory-countdown-requires-leader", s.victory.countdown # None)
             ELSE Broken("victory-leader-consistent", s.victory.leading \notin expected)
                  \cup Broken("victory-leader-exists", s.victory.leading \notin Holders(s))
                  \cup Broken("victory-countdown-threshold-consistent",
                              s.victory.countdown # None /\ s.victory.held < Scenario.threshold)

\* _check_state_invariants; the initial state is checked without its victory record.
StateFailures(s, checkVictory) ==
    CityFailures(s) \cup ArmyFailures(s) \cup UNION {PlayerFailures(s, p) : p \in Players}
    \cup IF checkVictory THEN VictoryFailures(s) ELSE {}

-----------------------------------------------------------------------------
(* What the harness and the resolver owe each other.                       *)

\* Whenever the orders of a scenario come, the harness has nothing to report.
HarnessSilent == StateFailures(state, tick > 0) = {}

\* A simulation goes on past the end of the countdown, and the victory record stays in range.
TypeOK ==
    /\ tick \in 0..MaxTick
    /\ state.owner \in [Cities -> Players \cup {None}]
    /\ state.victory \in [leading : Players \cup {Red, Blue} \cup {None}, held : 0..Cardinality(Cities),
                          countdown : 0..Scenario.threshold \cup {None}]

\* What can go wrong with a single field of a snapshot: a city with another owner, a list of
\* cities with one more or one less, an army that is not there, of nobody or nowhere, a stock
\* overdrawn, an elimination forgotten or made up, and a victory record with a wrong count,
\* a wrong leader or a countdown for nobody.
Corrupted(s) ==
    UNION {{[s EXCEPT !.owner[c] = q] : q \in (Players \cup {None, Ghost}) \ {s.owner[c]}} : c \in Cities}
    \cup UNION {{[s EXCEPT !.owned[p] = IF c \in @ THEN @ \ {c} ELSE @ \cup {c}] :
                    p \in Players} : c \in Cities \cup {Ghost}}
    \cup UNION {{[s EXCEPT !.armies = (@ \ {a}) \cup {b}] :
                    b \in {[a EXCEPT !.troops = 0], [a EXCEPT !.owner = Ghost],
                           [a EXCEPT !.location = Ghost], [a EXCEPT !.destination = Ghost]}} : a \in s.armies}
    \cup {[s EXCEPT !.resources[p][g] = -1] : p \in Players, g \in Goods}
    \cup {[s EXCEPT !.eliminated[p] = ~@] : p \in Players}
    \cup {[s EXCEPT !.victory.held = n] : n \in (0..Cardinality(Cities)) \ {s.victory.held}}
    \cup {[s EXCEPT !.victory.leading = k] : k \in (Players \cup {Red, Blue}) \ {s.victory.leading}}
    \cup {[s EXCEPT !.victory.countdown = 1] :
              x \in {y \in {s.victory} : y.leading = None \/ y.held < Scenario.threshold}}

\* The harness reports each of these, in every state a simulation reaches.
EveryCorruptionReported ==
    tick > 0 => \A s \in Corrupted(state) : StateFailures(s, TRUE) # {}

============================================================================
