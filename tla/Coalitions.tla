----------------------------- MODULE Coalitions -----------------------------
(***************************************************************************)
(* Alliances and the coalition victory countdown of one match.             *)
(*                                                                         *)
(* A match record keeps, in memory, which player belongs to which alliance *)
(* (PlayerState.alliance_id), the alliance records themselves (leader and  *)
(* members) and the victory state that every alliance action and every     *)
(* tick recompute from the board.  The tick loop writes the match state to *)
(* the database; alliance actions never do.  A process restart and a       *)
(* repeated join both replace the in-memory record by the one read back.   *)
(*                                                                         *)
(* Handlers run to completion on one event loop, so one handler is one     *)
(* action.  Who captures which city in a tick is left open (any city may   *)
(* fall to any player): the resolver's combat is not this module's concern.*)
(***************************************************************************)
EXTENDS Integers, FiniteSets

CONSTANTS
    Players,    \* the seats of the match, all taken, numbered as their ids sort
    Cities,     \* the cities of the map
    Threshold,  \* VictoryState.threshold: cities needed, and countdown length
    None        \* Python's None

ASSUME PlayersAssumption == Players \subseteq Nat /\ IsFiniteSet(Players)
ASSUME CitiesAssumption == IsFiniteSet(Cities)
ASSUME ThresholdAssumption == Threshold \in Nat
ASSUME NoneAssumption ==
    /\ None \notin Nat
    /\ None \notin ({"alliance"} \X Nat) \cup ({"solo"} \X Nat)
    /\ None \notin [leader : Nat, members : SUBSET Nat]

VARIABLES
    owner,       \* owner[c]: the player that owns city c, or None
    allianceOf,  \* allianceOf[p]: PlayerState.alliance_id
    alliances,   \* alliances[a]: the record of alliance-a, None if there is none
    victory,     \* the match's VictoryState
    status,      \* MatchRecord.status
    saved,       \* the match's database row, and its alliance rows
    streak       \* history: ticks in a row the present leader met the threshold

vars == <<owner, allianceOf, alliances, victory, status, saved, streak>>

-----------------------------------------------------------------------------
(* Coalitions and what they hold.                                          *)

\* Each alliance has a member, so a free index is never beyond this range.
AllianceIndexes == 1..Cardinality(Players)

CoalitionKeys == ({"alliance"} \X AllianceIndexes) \cup ({"solo"} \X Players)

\* Slip: a player without an alliance is counted under the alliance None.
CoalitionKeyUnguarded(ally, p) == <<"alliance", ally[p]>>

CoalitionKey(ally, p) ==
    IF ally[p] # None THEN <<"alliance", ally[p]>> ELSE <<"solo", p>>

\* The keys of the coalition_city_counts dictionary, and one of its counts.
CityHolders(own, ally) ==
    {CoalitionKey(ally, own[c]) : c \in {d \in Cities : own[d] # None}}

CoalitionCityCount(own, ally, k) ==
    Cardinality({c \in Cities : own[c] # None /\ CoalitionKey(ally, own[c]) = k})

CitiesHeld(own, ally) ==
    LET counts == {CoalitionCityCount(own, ally, k) : k \in CityHolders(own, ally)}
    IN  IF counts = {} THEN 0 ELSE CHOOSE n \in counts : \A m \in counts : m <= n

Leaders(own, ally) ==
    LET held == CitiesHeld(own, ally)
    IN  {k \in CityHolders(own, ally) : CoalitionCityCount(own, ally, k) = held}

\* The only coalition with the most cities; a tie has no leader.
LeadingCoalition(own, ally) ==
    LET leaders == Leaders(own, ally)
    IN  IF \E k \in leaders : leaders = {k} THEN CHOOSE k \in leaders : TRUE ELSE None

-----------------------------------------------------------------------------
(* The two places that recompute the victory state.                        *)

NoVictory == [leading |-> None, held |-> 0, countdown |-> None]

\* Slip: a countdown survives a change of leader.
UpdatedVictoryCountdownKept(v, leading, held) ==
    IF leading = None \/ held < Threshold THEN None
    ELSE IF v.countdown = None THEN Threshold
    ELSE IF v.countdown > 0 THEN v.countdown - 1
    ELSE 0

\* Slip: the countdown stops one short of zero.
UpdatedVictoryCountdownStalls(v, leading, held) ==
    IF leading = None \/ held < Threshold THEN None
    ELSE IF v.leading = None THEN Threshold
    ELSE IF v.leading # leading THEN None
    ELSE IF v.countdown = None THEN Threshold
    ELSE IF v.countdown > 1 THEN v.countdown - 1
    ELSE v.countdown

UpdatedVictoryCountdown(v, leading, held) ==
    IF leading = None \/ held < Threshold THEN None
    ELSE IF v.leading = None THEN Threshold
    ELSE IF v.leading # leading THEN None
    ELSE IF v.countdown = None THEN Threshold
    ELSE IF v.countdown > 0 THEN v.countdown - 1
    ELSE 0

ResolveVictoryPhase(v, own, ally) ==
    LET leading == LeadingCoalition(own, ally)
        held == CitiesHeld(own, ally)
    IN  [leading |-> leading, held |-> held,
         countdown |-> UpdatedVictoryCountdown(v, leading, held)]

\* Slip: the countdown is kept without looking at the board again.
SyncVictoryStateStale(v, own, ally) ==
    [v EXCEPT !.leading = LeadingCoalition(own, ally), !.held = CitiesHeld(own, ally)]

\* sync_victory_state: the same rule without the decrement.
SyncVictoryState(v, own, ally) ==
    LET leading == LeadingCoalition(own, ally)
        held == CitiesHeld(own, ally)
    IN  [leading |-> leading, held |-> held,
         countdown |-> IF leading = None \/ held < Threshold THEN None
                       ELSE IF v.leading = None THEN Threshold
                       ELSE IF v.leading # leading THEN None
                       ELSE IF v.countdown = None THEN Threshold
                       ELSE v.countdown]

IsTerminalVictory(v) == v.leading # None /\ v.countdown = 0

-----------------------------------------------------------------------------
(* Alliance records.                                                       *)

LowestId(S) == CHOOSE p \in S : \A q \in S : p <= q

MembersOf(ally, a) == {p \in Players : ally[p] = a}

\* next_alliance_id: the smallest index that no alliance has.
IsNextAllianceId(a) ==
    /\ alliances[a] = None
    /\ \A b \in AllianceIndexes : b < a => alliances[b] # None

\* derive_alliances_from_state: the members come from the players' state, and
\* the lowest id leads whoever led before.
DeriveAlliances(ally) ==
    [a \in AllianceIndexes |->
        IF MembersOf(ally, a) = {} THEN None
        ELSE [leader |-> LowestId(MembersOf(ally, a)), members |-> MembersOf(ally, a)]]

\* merge_persisted_alliance_metadata: the rows count only if they match the
\* derived alliances one to one by their members.
MergeAllianceRows(ally, rows) ==
    LET derived == DeriveAlliances(ally)
        live == {a \in AllianceIndexes : derived[a] # None}
        RowsOf(a) == {r \in rows : r.members = derived[a].members}
    IN  IF /\ Cardinality(rows) = Cardinality(live)
           /\ \A a \in live : \E r \in RowsOf(a) : r.leader \in r.members
        THEN [a \in AllianceIndexes |->
                IF a \in live THEN CHOOSE r \in RowsOf(a) : r.leader \in r.members
                ELSE None]
        ELSE derived

-----------------------------------------------------------------------------
(* Actions.                                                                *)

\* A started or seeded match: the board may be any the map and the fixtures
\* give; nobody is allied and the victory state is still blank.
Init ==
    /\ owner \in [Cities -> Players \cup {None}]
    /\ allianceOf = [p \in Players |-> None]
    /\ alliances = [a \in AllianceIndexes |-> None]
    /\ victory = NoVictory
    /\ status = "lobby"
    /\ saved = [owner |-> owner, allianceOf |-> allianceOf, victory |-> NoVictory,
                status |-> "lobby", rows |-> {}]
    /\ streak = 0

\* Every alliance action ends in sync_victory_state on the new membership.
SyncAfter(ally) ==
    /\ allianceOf' = ally
    /\ victory' = SyncVictoryState(victory, owner, ally)
    /\ UNCHANGED <<owner, status, saved, streak>>

CreateAlliance(p) ==
    /\ allianceOf[p] = None
    /\ \E a \in AllianceIndexes :
          /\ IsNextAllianceId(a)
          /\ alliances' = [alliances EXCEPT ![a] = [leader |-> p, members |-> {p}]]
          /\ SyncAfter([allianceOf EXCEPT ![p] = a])

JoinAlliance(p, a) ==
    /\ allianceOf[p] = None
    /\ alliances[a] # None
    /\ alliances' = [alliances EXCEPT ![a].members = @ \cup {p}]
    /\ SyncAfter([allianceOf EXCEPT ![p] = a])

RemainingAlliance(alliance, p) ==
    LET rest == alliance.members \ {p}
    IN  [leader |-> IF alliance.leader = p THEN LowestId(rest) ELSE alliance.leader,
         members |-> rest]

LeaveAlliance(p) ==
    /\ allianceOf[p] # None
    /\ alliances[allianceOf[p]] # None
    /\ alliances' = [alliances EXCEPT ![allianceOf[p]] =
                        IF @.members = {p} THEN None ELSE RemainingAlliance(@, p)]
    /\ SyncAfter([allianceOf EXCEPT ![p] = None])

\* How often in a row the coalition that leads after a tick has met the threshold.
StreakAfter(v) ==
    IF v.leading = None \/ v.held < Threshold THEN 0
    ELSE IF v.leading # saved.victory.leading THEN 1
    ELSE IF streak < Threshold THEN streak + 1
    ELSE streak

\* One pass of the match loop whose persistence succeeds: the board moves, the
\* resolver's victory phase and then sync_victory_state run, the result is
\* written, and an expired countdown completes the match.
Tick ==
    /\ status = "active"
    /\ \E own \in [Cities -> Players \cup {None}] :
          /\ \A c \in Cities : own[c] = None => owner[c] = None
          /\ owner' = own
    /\ victory' = SyncVictoryState(
                      ResolveVictoryPhase(victory, owner', allianceOf), owner', allianceOf)
    /\ status' = IF IsTerminalVictory(victory') THEN "completed" ELSE "active"
    /\ saved' = [owner |-> owner', allianceOf |-> allianceOf, victory |-> victory',
                 status |-> status',
                 rows |-> IF IsTerminalVictory(victory')
                          THEN {alliances[a] : a \in {b \in AllianceIndexes : alliances[b] # None}}
                          ELSE saved.rows]
    /\ streak' = StreakAfter(victory')
    /\ UNCHANGED <<allianceOf, alliances>>

\* seed_match with a record read from the database.
SeedFromDatabase(al) ==
    /\ owner' = saved.owner
    /\ allianceOf' = saved.allianceOf
    /\ alliances' = al
    /\ victory' = saved.victory
    /\ UNCHANGED streak

\* A player who has already joined joins again.
Rejoin ==
    /\ SeedFromDatabase(DeriveAlliances(saved.allianceOf))
    /\ status' = saved.status
    /\ UNCHANGED saved

\* The process stops and another one loads its registry from the database.
Restart ==
    /\ SeedFromDatabase(MergeAllianceRows(saved.allianceOf, saved.rows))
    /\ status' = saved.status
    /\ UNCHANGED saved

\* Slip: a match can be started in any status.
StartMatchAgain ==
    /\ SeedFromDatabase(DeriveAlliances(saved.allianceOf))
    /\ status' = "active"
    /\ saved' = [saved EXCEPT !.status = "active"]

StartMatch ==
    /\ saved.status = "lobby"
    /\ SeedFromDatabase(DeriveAlliances(saved.allianceOf))
    /\ status' = "active"
    /\ saved' = [saved EXCEPT !.status = "active"]

Next ==
    \/ \E p \in Players :
          \/ CreateAlliance(p)
          \/ \E a \in AllianceIndexes : JoinAlliance(p, a)
          \/ LeaveAlliance(p)
    \/ Tick
    \/ Rejoin
    \/ Restart
    \/ StartMatch

Spec == Init /\ [][Next]_vars

\* The match loop wakes up again and again while the match is active; players
\* owe nothing.
FairSpec == Spec /\ WF_vars(Tick)

-----------------------------------------------------------------------------
(* Properties.                                                             *)

Alliance == [leader : Players, members : SUBSET Players]

VictoryState == [leading : CoalitionKeys \cup {None},
                 held : Nat,
                 countdown : Nat \cup {None}]

\* Every variable has the shape of the record it stands for.
TypeOK ==
    /\ owner \in [Cities -> Players \cup {None}]
    /\ allianceOf \in [Players -> AllianceIndexes \cup {None}]
    /\ alliances \in [AllianceIndexes -> Alliance \cup {None}]
    /\ victory \in VictoryState
    /\ status \in {"lobby", "active", "completed"}
    /\ saved \in [owner : [Cities -> Players \cup {None}],
                  allianceOf : [Players -> AllianceIndexes \cup {None}],
                  victory : VictoryState,
                  status : {"lobby", "active", "completed"},
                  rows : SUBSET Alliance]
    /\ streak \in Nat

\* The two copies of alliance membership never disagree: a player's alliance_id
\* names the alliance that lists the player, no alliance is left without
\* members, and its leader is one of them, through leaving leaders, dissolved
\* alliances whose id is reused, restarts and repeated joins.
MembershipConsistent ==
    /\ \A p \in Players, a \in AllianceIndexes :
          allianceOf[p] = a <=> (alliances[a] # None /\ p \in alliances[a].members)
    /\ \A a \in AllianceIndexes :
          alliances[a] # None => alliances[a].leader \in alliances[a].members

\* A countdown runs only for a sole leader that holds the threshold, and never
\* shows more ticks than the threshold (the harness's
\* victory-countdown-requires-leader and -threshold-consistent).
CountdownSound ==
    victory.countdown # None =>
        /\ victory.leading # None
        /\ victory.held >= Threshold
        /\ victory.countdown <= Threshold

\* What the victory state says is what the board shows, after every alliance
\* action and every tick (victory-cities-held-consistent, -leader-consistent).
\* Only a match nobody has touched still has the blank state.
VictoryMatchesBoard ==
    \/ victory = NoVictory
    \/ /\ victory.held = CitiesHeld(owner, allianceOf)
       /\ victory.leading = LeadingCoalition(owner, allianceOf)

\* What is kept twice agrees and what is computed in two places is right: membership in players
\* and alliances, and the victory state, which alliance actions and ticks each write by a rule
\* of their own.
RecordConsistent == MembershipConsistent /\ CountdownSound /\ VictoryMatchesBoard

\* Nobody wins early: the countdown has gone down at most once for every tick
\* in a row that ended with the same coalition leading at or above the
\* threshold, so a completed match was led for at least Threshold such ticks,
\* whatever alliances were made, left or reloaded in between.
SustainedControl ==
    /\ victory.countdown # None => Threshold - victory.countdown <= streak
    /\ saved.status = "completed" => Threshold <= streak

\* A completed match never becomes active again, and its stored result never
\* changes: no restart, repeated join or late alliance action touches the row.
CompletionIsFinal ==
    [][saved.status = "completed" => saved' = saved /\ status' = "completed"]_vars

\* A coalition that leads a running match at or above the threshold from some
\* point on wins: no alliance action, restart or repeated join can hold its
\* countdown up for ever.
SteadyLeaderWins ==
    \A k \in CoalitionKeys :
        <>[](status # "lobby" /\ victory.leading = k /\ victory.held >= Threshold)
        => <>(saved.status = "completed")

\* Story 6.2 says a hand-off clears the countdown "on that tick instead of
\* restarting it immediately": a tick on which the lead passes from a coalition
\* with a running countdown to another one ends without a countdown.
HandoffClearsCountdown ==
    [][ (/\ Tick
         /\ victory.leading # None
         /\ victory.countdown # None
         /\ victory'.leading \notin {None, victory.leading})
        => victory'.countdown = None ]_vars
=============================================================================
