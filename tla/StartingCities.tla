--------------------------- MODULE StartingCities ---------------------------
(***************************************************************************)
(* The assignment of starting cities by initialize_match_state: the cities *)
(* the roster asks for are taken first, and a depth-first search deals out *)
(* the rest, a city a player and round, so that no two players start next  *)
(* to each other.  Cities are numbers, in the order in which ids sort.     *)
(***************************************************************************)
EXTENDS Integers, FiniteSets, SequencesExt

CONSTANTS
    Players,
    Cities,
    Legal,      \* the cities the map allows to start in
    Maps,       \* the sets of edges considered; an edge is a set of two cities
    Rosters,    \* the rosters considered: sequences of [player, cities], cities possibly Unassigned
    PerPlayer,  \* MatchConfig.starting_cities_per_player
    Unassigned  \* Python's None, for an owner and for cities asked for

ASSUME CitiesAssumption == Cities \subseteq Nat /\ IsFiniteSet(Cities) /\ Legal \subseteq Cities
ASSUME MapsAssumption == \A m \in Maps : \A e \in m : \E c, d \in Cities : e = {c, d}
ASSUME PerPlayerAssumption == PerPlayer \in Nat
ASSUME UnassignedAssumption == Unassigned \notin Players /\ Unassigned \notin Cities
ASSUME RostersAssumption ==
    \A r \in Rosters : r \in Seq([player : Players, cities : Seq(Cities) \cup {Unassigned}])

VARIABLES
    edges,     \* the map
    roster,
    phase,     \* what initialize_match_state is doing
    entry,     \* the entry of the roster to be read next
    owner,     \* assigned_city_owners
    assigned,  \* assignments_by_player
    trail,     \* the cities the search has assigned, one for each slot of its order
    candidate  \* the first city the search tries for the next slot

assignVars == <<edges, roster, phase, entry, owner, assigned, trail, candidate>>

-----------------------------------------------------------------------------

Adjacency(c) == {d \in Cities : {c, d} \in edges}

AssignInit ==
    /\ edges \in Maps
    /\ roster \in Rosters
    /\ phase = IF roster # <<>> /\ PerPlayer \in 2..3 THEN "reading" ELSE "failed"
    /\ entry = 1
    /\ owner = [c \in Cities |-> Unassigned]
    /\ assigned = [p \in Players |-> <<>>]
    /\ trail = <<>>
    /\ candidate = 0

\* The city is free, and nobody but p has a city next to it.
CanAssign(c, p) ==
    /\ owner[c] = Unassigned
    /\ \A d \in Adjacency(c) : owner[d] \in {Unassigned, p}

\* The entry names a player for the first time, and cities that can be its own.
ValidEntry(e) ==
    /\ \A i \in 1..(entry - 1) : roster[i].player # e.player
    /\ e.cities # Unassigned =>
          /\ Len(e.cities) = PerPlayer
          /\ IsInjective(e.cities)
          /\ \A c \in ToSet(e.cities) : c \in Legal /\ CanAssign(c, e.player)

ReadEntry ==
    /\ phase = "reading" /\ entry <= Len(roster)
    /\ LET e == roster[entry]
       IN  IF ~ValidEntry(e)
           THEN phase' = "failed" /\ UNCHANGED <<entry, owner, assigned>>
           ELSE /\ entry' = entry + 1
                /\ IF e.cities = Unassigned
                   THEN UNCHANGED <<owner, assigned>>
                   ELSE /\ owner' = [c \in Cities |->
                                        IF c \in ToSet(e.cities) THEN e.player ELSE owner[c]]
                        /\ assigned' = [assigned EXCEPT ![e.player] = e.cities]
                /\ UNCHANGED phase
    /\ UNCHANGED <<edges, roster, trail, candidate>>

StartSearch ==
    /\ phase = "reading" /\ entry > Len(roster)
    /\ phase' = IF Len(roster) * PerPlayer > Cardinality(Legal) THEN "failed" ELSE "searching"
    /\ UNCHANGED <<edges, roster, entry, owner, assigned, trail, candidate>>

\* The places in the roster of the players that asked for no cities, in its order.
Undecided == {i \in DOMAIN roster : roster[i].cities = Unassigned}

Places ==
    CHOOSE w \in [1..Cardinality(Undecided) -> Undecided] : \A i, j \in DOMAIN w : i < j => w[i] < w[j]

Slots == PerPlayer * Cardinality(Undecided)

\* Round by round, these players.
AssignmentOrder ==
    [i \in 1..Slots |-> roster[Places[((i - 1) % Cardinality(Undecided)) + 1]].player]

Turn == AssignmentOrder[Len(trail) + 1]

Candidates == {c \in Legal : c >= candidate /\ CanAssign(c, Turn)}

AssignCity ==
    /\ phase = "searching" /\ Len(trail) < Slots
    /\ \E c \in Candidates :
           /\ \A d \in Candidates : c <= d
           /\ owner' = [owner EXCEPT ![c] = Turn]
           /\ assigned' = [assigned EXCEPT ![Turn] = Append(@, c)]
           /\ trail' = Append(trail, c)
    /\ candidate' = 0
    /\ UNCHANGED <<edges, roster, phase, entry>>

\* Slip: what did not lead anywhere is not tried again, nor is anything else.
BacktrackGivesUp ==
    /\ phase = "searching" /\ Len(trail) < Slots /\ Candidates = {}
    /\ phase' = "failed"
    /\ UNCHANGED <<edges, roster, entry, owner, assigned, trail, candidate>>

\* Slip: the city that led nowhere is tried once more.
BacktrackRetries ==
    /\ phase = "searching" /\ Len(trail) < Slots /\ Candidates = {}
    /\ IF trail = <<>>
       THEN phase' = "failed" /\ UNCHANGED <<owner, assigned, trail, candidate>>
       ELSE LET p == AssignmentOrder[Len(trail)]
            IN  /\ owner' = [owner EXCEPT ![Last(trail)] = Unassigned]
                /\ assigned' = [assigned EXCEPT ![p] = Front(@)]
                /\ trail' = Front(trail)
                /\ candidate' = Last(trail)
                /\ UNCHANGED phase
    /\ UNCHANGED <<edges, roster, entry>>

\* No city is left for the slot: the one before it tries its next city.
Backtrack ==
    /\ phase = "searching" /\ Len(trail) < Slots /\ Candidates = {}
    /\ IF trail = <<>>
       THEN phase' = "failed" /\ UNCHANGED <<owner, assigned, trail, candidate>>
       ELSE LET p == AssignmentOrder[Len(trail)]
            IN  /\ owner' = [owner EXCEPT ![Last(trail)] = Unassigned]
                /\ assigned' = [assigned EXCEPT ![p] = Front(@)]
                /\ trail' = Front(trail)
                /\ candidate' = Last(trail) + 1
                /\ UNCHANGED phase
    /\ UNCHANGED <<edges, roster, entry>>

Complete ==
    /\ phase = "searching" /\ Len(trail) = Slots
    /\ phase' = "done"
    /\ UNCHANGED <<edges, roster, entry, owner, assigned, trail, candidate>>

AssignNext == ReadEntry \/ StartSearch \/ AssignCity \/ Backtrack \/ Complete
AssignSpec == AssignInit /\ [][AssignNext]_assignVars

\* initialize_match_state is a plain function: it runs until it returns or raises.
AssignFairSpec == AssignSpec /\ WF_assignVars(AssignNext)

-----------------------------------------------------------------------------
(* What the start of a match promises.                                     *)

\* Every variable has the shape of what it stands for.
AssignTypeOK ==
    /\ edges \in Maps /\ roster \in Rosters
    /\ phase \in {"reading", "searching", "done", "failed"}
    /\ entry \in 1..(Len(roster) + 1)
    /\ owner \in [Cities -> Players \cup {Unassigned}]
    /\ assigned \in [Players -> Seq(Cities)]
    /\ trail \in Seq(Cities)
    /\ candidate \in Nat

\* No two players ever hold cities next to each other, through overrides, search and
\* backtracking alike.
Apart ==
    \A c, d \in Cities : {c, d} \in edges /\ owner[c] # Unassigned /\ owner[d] # Unassigned => owner[c] = owner[d]

\* An assignment that keeps to the roster and to the rules, given as the owner of each city.
Fair(f, r) ==
    /\ \A c \in Cities : f[c] # Unassigned => c \in Legal
    /\ \A c, d \in Cities :
           {c, d} \in edges /\ f[c] # Unassigned /\ f[d] # Unassigned => f[c] = f[d]
    /\ \A i \in DOMAIN r :
           LET own == {c \in Cities : f[c] = r[i].player}
           IN  /\ Cardinality(own) = PerPlayer
               /\ r[i].cities # Unassigned => own = ToSet(r[i].cities) /\ IsInjective(r[i].cities)
    /\ \A c \in Cities : f[c] = Unassigned \/ \E i \in DOMAIN r : r[i].player = f[c]

\* What is dealt out keeps to roster and rules, a city a player and round, and the lists of
\* the players agree with the owners of the cities, however often the search went back.
DealtFairly ==
    phase = "done" =>
        /\ Fair(owner, roster)
        /\ \A p \in Players : IsInjective(assigned[p]) /\ ToSet(assigned[p]) = {c \in Cities : owner[c] = p}

\* The start fails only for a number of cities each that is out of range, for rosters that name
\* nobody, or a player or city twice, or because there is no assignment: the search misses none.
FailsOnlyForCause ==
    /\ phase = "failed"
    /\ PerPlayer \in 2..3
    /\ roster # <<>> /\ \A i, j \in DOMAIN roster : roster[i].player = roster[j].player => i = j
    => ~\E f \in [Cities -> {roster[i].player : i \in DOMAIN roster} \cup {Unassigned}] : Fair(f, roster)

\* Wherever the search is led, the start it ends with is fair, and it is given up for a cause.
AssignmentRight == AssignTypeOK /\ Apart /\ DealtFairly /\ FailsOnlyForCause

\* Wherever the search is led, it ends.
Terminates == <>(phase \in {"done", "failed"})

============================================================================
