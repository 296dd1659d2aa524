----------------------------- MODULE MCTreaties -----------------------------
(***************************************************************************)
(* Treaties on two adjacent cities.  The module itself is Treaties for two *)
(* players, a type of treaty and three armies, two of them player 1's: one *)
(* can be sent to a city where armies of both already face each other.     *)
(* Beside it are instances with an army for each of the first two players, *)
(* who can attack each other in the same tick, and with an army on the     *)
(* road while a treaty is signed: one with a second type of treaty, one    *)
(* with a third player, who can own the city an army is sent to.           *)
(***************************************************************************)
EXTENDS Treaties, TLC

CONSTANTS c1, c2, nap, trade

TwoPlayers == {1, 2}
OneType == {nap}
TwoCities == {c1, c2}
ThreeArmies == {1, 2, 3}
OwnArmy == [r \in Armies |-> IF r = 3 THEN 1 ELSE r]

\* One tick on the road, the same both ways, so the cities differ only in who is there.
ShortRoad == [c \in TwoCities |-> [d \in TwoCities |-> IF c = d THEN 0 ELSE 1]]
CitySymmetry == Permutations(TwoCities)

VARIABLES
    part,                            \* the part that moves
    book, holder, troop              \* record, cityOwner and army of the instances

instanceVars == <<book, holder, troop>>
allVars == <<part, vars, instanceVars>>

TwoTypes == INSTANCE Treaties WITH
    Players <- {1, 2}, Armies <- {1, 2}, ArmyOwner <- <<1, 2>>, Types <- {nap, trade},
    record <- book, cityOwner <- holder, army <- troop

ThirdParty == INSTANCE Treaties WITH
    Players <- {1, 2, 3}, Armies <- {1, 2}, ArmyOwner <- <<1, 2>>, Types <- {nap}, MaxTreaties <- 1,
    record <- book, cityOwner <- holder, army <- troop

Unclaimed == cityOwner = [c \in Cities |-> None]

MCInit ==
    \/ part = "three armies" /\ Init /\ TwoTypes!Init /\ holder = [c \in Cities |-> None]
    \/ part = "two types" /\ TwoTypes!Init /\ Init /\ Unclaimed
    \/ part = "third party" /\ ThirdParty!Init /\ Init /\ Unclaimed

MCNext ==
    /\ UNCHANGED part
    /\ \/ part = "three armies" /\ Next /\ UNCHANGED instanceVars
       \/ part = "two types" /\ TwoTypes!Next /\ UNCHANGED vars
       \/ part = "third party" /\ ThirdParty!Next /\ UNCHANGED vars

MCSpec == MCInit /\ [][MCNext]_allVars

\* With two types of treaties to break at once, each treaty's story is told in the world chat
\* once and in full; so is that of a treaty broken at a third player's city.
EachTypeAnnounced == part = "two types" => TwoTypes!AnnouncedInFull
OutsideAnnounced == part = "third party" => ThirdParty!AnnouncedInFull

\* Nobody is named as the one who broke a treaty without having attacked the partner's city or
\* army, also where a third player may own the city.
BlameIsEarnedThere == ThirdParty!BlameIsEarned

\* The match loop wakes up again and again.
TransitSpec == MCSpec /\ WF_vars(part = "three armies" /\ Tick)

\* A tick that breaks several treaties, or one whose parties meet at a third player's city,
\* announces each break once and blames only who attacked.
BreaksTold == [](EachTypeAnnounced /\ OutsideAnnounced) /\ BlameIsEarnedThere
=============================================================================
