--------------------------- MODULE MCTickResolver ---------------------------
(***************************************************************************)
(* The board under the rules of TickResolver, Fog and Regression, on small *)
(* boards.  A behaviour picks its board at the start and stays with it.    *)
(*                                                                         *)
(* On four of the boards city 1 is player 1's, city 3 player 2's, and city *)
(* 2 between them is neutral or somebody's; a longer sea route joins 1 and *)
(* 3, and nobody gets to city 4.  The module itself is the board of the    *)
(* fog: four cities in a row, held by players 1, none, 2 and 3, with a     *)
(* long sea route from end to end.  On it, as on the board of the absentee *)
(* where the same is asked, nobody joined seat 3.  The last three boards   *)
(* are those of the regression harness.                                    *)
(***************************************************************************)
EXTENDS Fog

CONSTANTS a1, Red, Blue, Ghost

VARIABLES
    board,            \* the board of the behaviour
    simTick, sim      \* the tick and the state of a simulation of the harness

Edge(c, d, n, m) == [ends |-> {c, d}, ticks |-> n, mode |-> m]
Stock(f, p, m) == [food |-> f, production |-> p, money |-> m]
Orders(ms, rs, us, ts) == [movements |-> ms, recruitment |-> rs, upgrades |-> us, transfers |-> ts]

March(p, home, to) == [army |-> [owner |-> p, city |-> home, number |-> 1], destination |-> to]
Recruit(c, n) == [city |-> c, troops |-> n]
Upgrade(c, t, n) == [city |-> c, track |-> t, tier |-> n]
Send(q, g, n) == [to |-> q, resource |-> g, amount |-> n]
Idle == NoOrders

-----------------------------------------------------------------------------
(* The board of the fog.  Any players may be allied.                       *)

FogEdges == {Edge(1, 2, 1, "land"), Edge(2, 3, 1, "land"), Edge(3, 4, 2, "land"),
             Edge(1, 4, 2, "sea")}
FogCities == <<{1}, {3}, {4}>>
FogYield == [c \in Cities |-> Stock(3, 2, 0)]
FogStart == Stock(20, 60, 0)
FogTicks == 3   \* bound on the ticks of this board
FogBatches == <<
    {Idle,
     Orders(<<March(1, 1, 2)>>, <<Recruit(1, 3)>>, <<Upgrade(1, "economy", 1)>>, <<>>),
     Orders(<<March(1, 1, 4)>>, <<Recruit(1, 1)>>, <<>>, <<>>)},
    {Idle,
     Orders(<<March(2, 3, 2)>>, <<Recruit(3, 4)>>, <<Upgrade(3, "fortification", 1)>>, <<>>),
     Orders(<<March(2, 3, 4)>>, <<>>, <<>>, <<>>)},
    {Idle}>>

-----------------------------------------------------------------------------
(* The boards of TickResolver.                                             *)

MCEdges == {Edge(1, 2, 1, "land"), Edge(2, 3, 1, "land"), Edge(1, 3, 3, "sea")}
RichYield == <<Stock(3, 1, 0), Stock(1, 1, 3), Stock(1, 3, 1), Stock(0, 0, 0)>>
PoorYield == <<Stock(3, 1, 0), Stock(1, 1, 0), Stock(1, 3, 1), Stock(0, 0, 0)>>
MCPopulation == [c \in Cities |-> 4]

\* The economy: what is ordered is more than can be had, in any combination, and what upkeep
\* takes in the tick is missing when food and money are spent.
EconomyBatches == <<
    {Idle,
     Orders(<<>>, <<Recruit(1, 3), Recruit(1, 4)>>, <<>>, <<Send(2, "money", 3)>>),
     Orders(<<>>, <<>>, <<Upgrade(1, "economy", 1), Upgrade(1, "economy", 2),
                          Upgrade(1, "fortification", 1)>>,
            <<Send(2, "food", 6), Send(2, "production", 30)>>),
     Orders(<<>>, <<>>, <<Upgrade(1, "economy", 2), Upgrade(1, "economy", 3)>>, <<>>)},
    {Idle,
     Orders(<<March(2, 3, 2)>>, <<Recruit(3, 2)>>, <<Upgrade(3, "military", 1)>>, <<>>),
     Orders(<<>>, <<>>, <<>>, <<Send(1, "production", 25), Send(1, "money", 2)>>)},
    {Idle}>>
EconomyBoard == INSTANCE TickResolver WITH
    Edges <- MCEdges, Yield <- RichYield, StartingCities <- <<{1}, {3}, {}>>,
    StartingResources <- Stock(14, 46, 3), Batches <- EconomyBatches, Alliances <- {a1},
    MaxTick <- 4

\* The siege: player 1 fortifies its city, player 2 cuts it off.
SiegeBatches == <<
    {Idle,
     Orders(<<March(1, 1, 2), March(1, 1, 1)>>, <<Recruit(1, 5)>>, <<>>, <<>>),
     Orders(<<>>, <<>>, <<Upgrade(1, "fortification", 1), Upgrade(1, "fortification", 2)>>, <<>>)},
    {Idle,
     Orders(<<March(2, 3, 2)>>, <<Recruit(3, 15)>>, <<>>, <<>>),
     Orders(<<March(2, 3, 1)>>, <<>>, <<>>, <<>>)},
    {Idle}>>
SiegeBoard == INSTANCE TickResolver WITH
    Edges <- MCEdges, Yield <- PoorYield, StartingCities <- <<{1, 2}, {3}, {}>>,
    StartingResources <- Stock(90, 90, 0), Batches <- SiegeBatches, Alliances <- {}

\* The raid: each sends an army by sea to the other's only city.
RaidBatches == <<
    {Idle,
     Orders(<<>>, <<Recruit(1, 11)>>, <<>>, <<>>),
     Orders(<<March(1, 1, 3)>>, <<Recruit(1, 4)>>, <<>>, <<Send(2, "food", 9)>>)},
    {Idle,
     Orders(<<>>, <<Recruit(3, 12)>>, <<>>, <<>>),
     Orders(<<March(2, 3, 1)>>, <<>>, <<>>, <<>>)},
    {Idle}>>
RaidBoard == INSTANCE TickResolver WITH
    Edges <- MCEdges, Yield <- RichYield, StartingCities <- <<{1}, {3}, {}>>,
    StartingResources <- Stock(40, 60, 0), Batches <- RaidBatches, Alliances <- {}

\* The absentee: nobody joined seat 3; the others march on each other and on it.
AbsentBatches == <<
    {Idle,
     Orders(<<March(1, 1, 2)>>, <<Recruit(1, 11)>>, <<>>, <<>>),
     Orders(<<March(1, 1, 3)>>, <<>>, <<>>, <<Send(3, "money", 1)>>)},
    {Idle,
     Orders(<<March(2, 2, 1)>>, <<Recruit(2, 12)>>, <<>>, <<>>),
     Orders(<<March(2, 2, 3)>>, <<>>, <<>>, <<>>)},
    {Idle}>>
AbsentBoard == INSTANCE TickResolver WITH
    Edges <- MCEdges, Yield <- RichYield, StartingCities <- <<{1}, {2}, {3}>>,
    StartingResources <- Stock(40, 60, 0), Batches <- AbsentBatches, Alliances <- {}

-----------------------------------------------------------------------------
(* The boards of the regression harness, for two players.                  *)

R == INSTANCE Regression WITH
    Players <- {1, 2}, Edges <- {}, Yield <- <<>>, Population <- <<>>,
    Scenario <- <<>>, MaxTick <- 0, tick <- simTick, state <- sim

Frontier == INSTANCE Regression WITH
    Players <- {1, 2}, Cities <- 1..4, Scenario <- R!FrontierCampaign,
    Edges <- R!FrontierCampaign.edges, Yield <- R!FrontierCampaign.yield,
    Population <- [c \in 1..4 |-> 1], MaxTick <- 8, tick <- simTick, state <- sim

Attrition == INSTANCE Regression WITH
    Players <- {1, 2}, Cities <- 1..3, Scenario <- R!AttritionPressure,
    Edges <- R!AttritionPressure.edges, Yield <- R!AttritionPressure.yield,
    Population <- [c \in 1..3 |-> 1], MaxTick <- 8, tick <- simTick, state <- sim

Countdown == INSTANCE Regression WITH
    Players <- {1, 2}, Cities <- 1..4, Scenario <- R!VictoryCountdown,
    Edges <- R!VictoryCountdown.edges, Yield <- R!VictoryCountdown.yield,
    Population <- [c \in 1..4 |-> 1], MaxTick <- 8, tick <- simTick, state <- sim

ASSUME EconomyBoard!BatchesAssumption /\ SiegeBoard!BatchesAssumption
ASSUME RaidBoard!BatchesAssumption /\ AbsentBoard!BatchesAssumption
ASSUME Frontier!NamesAssumption /\ Attrition!NamesAssumption /\ Countdown!NamesAssumption

-----------------------------------------------------------------------------
allVars == <<board, vars, simTick, sim>>

MCInit ==
    \/ /\ Frontier!Init
       /\ \/ board = "fog" /\ Init
          \/ board = "economy" /\ EconomyBoard!Init
          \/ board = "siege" /\ SiegeBoard!Init
          \/ board = "raid" /\ RaidBoard!Init
          \/ board = "absentee" /\ AbsentBoard!Init
    \/ /\ RaidBoard!Init
       /\ \/ board = "frontier" /\ Frontier!Init
          \/ board = "attrition" /\ Attrition!Init
          \/ board = "countdown" /\ Countdown!Init

MCNext ==
    /\ UNCHANGED board
    /\ \/ /\ UNCHANGED <<simTick, sim>>
          /\ \/ board = "fog" /\ tick < FogTicks /\ Next
             \/ board = "economy" /\ EconomyBoard!Next
             \/ board = "siege" /\ SiegeBoard!Next
             \/ board = "raid" /\ RaidBoard!Next
             \/ board = "absentee" /\ AbsentBoard!Next
       \/ /\ UNCHANGED vars
          /\ \/ board = "frontier" /\ Frontier!Next
             \/ board = "attrition" /\ Attrition!Next
             \/ board = "countdown" /\ Countdown!Next

MCSpec == MCInit /\ [][MCNext]_allVars

\* Whatever is ordered at any tick, the harness's checks find no fault in a state the resolver
\* made from the three boards it is run on.
HarnessStaysSilent ==
    /\ board = "frontier" => Frontier!HarnessSilent
    /\ board = "attrition" => Attrition!HarnessSilent
    /\ board = "countdown" => Countdown!HarnessSilent

\* Each corruption of a single field that Regression lists, made in any state that a simulation
\* of the countdown board reaches, is reported.
CorruptionsReported == board = "countdown" => Countdown!EveryCorruptionReported

\* The harness can be relied on: it is silent on what the resolver does and loud on what it
\* must not do.
HarnessRight == HarnessStaysSilent /\ CorruptionsReported
=============================================================================
