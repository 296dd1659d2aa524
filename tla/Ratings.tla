------------------------------ MODULE Ratings ------------------------------
(***************************************************************************)
(* What a finished match does to the ratings: the terminal tick writes the *)
(* final alliances and the winner to the database and settles the match in *)
(* the same transaction, and profiles, the leaderboard and the list of     *)
(* completed matches read it back, each by a rule of its own.              *)
(*                                                                         *)
(* The board a match ends on is chosen from Finals; how it comes about is  *)
(* the matter of TickResolver and Coalitions.  Init and Next have names of *)
(* their own, so that the module can be extended along with MatchRuntime.  *)
(***************************************************************************)
EXTENDS Naturals, FiniteSets, Functions

CONSTANTS
    None,
    Users,      \* the people, who may play themselves
    Keys,       \* the API keys, each standing for one agent
    Owner,      \* Owner[k]: whose key k is
    Matches,
    Alliances,  \* the ids alliances have while a match runs
    Finals      \* the boards a match may end on

Competitors == Users \cup Keys

\* What a board says of alliances fits: none is joined before it was formed.  Competitors,
\* alliances and database rows have ids of different kinds.
RatingsAssumption ==
    /\ IsFiniteSet(Matches)
    /\ Users \cap Keys = {} /\ Competitors \cap Alliances = {}
    /\ None \notin Competitors \cup Alliances \cup Nat
    /\ \A m \in Matches, x \in Competitors \cup Alliances :
           <<m, x>> \notin Competitors \cup Alliances \cup {None}
    /\ Owner \in [Keys -> Users]
    /\ \A f \in Finals : /\ f.alliance \in [Competitors -> Alliances \cup {None}]
                         /\ f.cities \in [Competitors -> Nat]
                         /\ f.since \in [Competitors -> 0..f.tick]
                         /\ f.tick \in Nat
                         /\ f.formed \in [Alliances -> 0..f.tick]
                         /\ \A w \in Competitors : f.alliance[w] # None =>
                                f.formed[f.alliance[w]] <= f.since[w]

VARIABLES
    rating,  \* rating[k]: the rating in the row of key k, None before it is issued
    roster,  \* roster[m]: the player rows of m: the rating a competitor joined with and,
             \* as history, how many matches had been completed by then
    result,  \* result[m]: what the terminal tick of m wrote, for the matches that are completed
    ledger   \* the rows of player_match_settlements

ratingVars == <<rating, roster, result, ledger>>

-----------------------------------------------------------------------------
(* Ratings of people and agents.                                           *)

Of(w) == {s \in ledger : s.who = w}

Latest(rows) == CHOOSE s \in rows : \A t \in rows : t.at <= s.at

Completed == DOMAIN result

Entered(w) == {m \in Matches : w \in DOMAIN roster[m]}

HumanRating(u) ==
    IF Of(u) # {} THEN Latest(Of(u)).after
    ELSE IF Entered(u) # {} THEN roster[CHOOSE m \in Entered(u) : TRUE][u].elo ELSE 0

CurrentRating(w) == IF w \in Keys THEN rating[w] ELSE HumanRating(w)

-----------------------------------------------------------------------------
(* The terminal tick.  Rows have ids of their own: <<m, a>> for alliance a *)
(* of match m and <<m, w>> for the player row of w.                        *)

CoalitionOf(f, w) == IF f.alliance[w] = None THEN w ELSE f.alliance[w]

CitiesOfCoalition(f, ws, c) ==
    SumFunctionOnSet(f.cities, {w \in ws : CoalitionOf(f, w) = c})

Leaders(f, ws) ==
    {c \in {CoalitionOf(f, w) : w \in ws} :
        \A d \in {CoalitionOf(f, w) : w \in ws} \ {c} :
            CitiesOfCoalition(f, ws, c) > CitiesOfCoalition(f, ws, d)}

\* The alliance rows a terminal tick leaves, and who is in which.
AllianceRow(m, f, w) == IF f.alliance[w] = None THEN None ELSE <<m, f.alliance[w]>>

\* A coalition of one has no alliance row; its player row stands for it.
PersistedWinner(m, f, c) == <<m, c>>

Result(m, f, c, at) ==
    [leading |-> c, winner |-> PersistedWinner(m, f, c), at |-> at, final |-> f,
     members |-> [w \in DOMAIN roster[m] |-> AllianceRow(m, f, w)]]

-----------------------------------------------------------------------------
(* The settlement.                                                         *)

Candidates(r) == <<r.leading, r.winner>>

MemberOf(r, w, id) == r.members[w] = id \/ r.final.alliance[w] = id

WinnersUnder(m, r, id) ==
    LET allied == {w \in DOMAIN roster[m] : MemberOf(r, w, id)}
    IN  IF allied # {} THEN allied ELSE {w \in DOMAIN roster[m] : id \in {<<m, w>>, w}}

\* Slip: the winner is looked up by the id the players have in the match only.
WinnersDirect(m, r) == {w \in DOMAIN roster[m] : w = r.leading}

Winners(m, r) ==
    LET first == WinnersUnder(m, r, Candidates(r)[1])
    IN  IF first # {} THEN first ELSE WinnersUnder(m, r, Candidates(r)[2])

Outcome(m, r, w) ==
    IF Winners(m, r) = {} THEN "draw" ELSE IF w \in Winners(m, r) THEN "win" ELSE "loss"

\* _round_half_up of n * a / b.
RoundHalfUp(n, a, b) == (2 * n * a + b) \div (2 * b)

FormedTick(r) == r.final.formed[r.leading]

\* How long w was in the winning alliance, and how long the alliance lasted.
Tenure(m, r, w) ==
    IF r.members[w] = None THEN <<1, 1>>
    ELSE <<r.final.tick - r.final.since[w] + 1, r.final.tick - FormedTick(r) + 1>>

Share(m, r, w) ==
    LET total == SumFunctionOnSet(r.final.cities, Winners(m, r))
    IN  IF total > 0 THEN <<r.final.cities[w], total>> ELSE <<1, Cardinality(Winners(m, r))>>

Gain(m, r, w) == 8 + RoundHalfUp(8, Tenure(m, r, w)[1], Tenure(m, r, w)[2])
                   + RoundHalfUp(8, Share(m, r, w)[1], Share(m, r, w)[2])

\* The rating never falls below zero.
RatingAfter(m, r, w, before) ==
    CASE Outcome(m, r, w) = "win" -> before + Gain(m, r, w)
      [] Outcome(m, r, w) = "loss" -> IF before > 12 THEN before - 12 ELSE 0
      [] OTHER -> before

Settled(m, r) ==
    {[match |-> m, who |-> w, outcome |-> Outcome(m, r, w), at |-> r.at,
      before |-> roster[m][w].elo, after |-> RatingAfter(m, r, w, roster[m][w].elo)] : w \in DOMAIN roster[m]}

\* The keys of the agents that took part get the new rating, whatever theirs is by now.
RatingsAfter(m, r) ==
    [k \in Keys |-> IF k \in DOMAIN roster[m] THEN RatingAfter(m, r, k, roster[m][k].elo) ELSE rating[k]]

-----------------------------------------------------------------------------

RatingsInit ==
    /\ rating = [k \in Keys |-> None]
    /\ roster = [m \in Matches |-> [w \in {} |-> None]]
    /\ result = [m \in {} |-> None]
    /\ ledger = {}

CreateKey(k) ==
    /\ rating[k] = None
    /\ rating' = [rating EXCEPT ![k] = HumanRating(Owner[k])]
    /\ UNCHANGED <<roster, result, ledger>>

\* A competitor joins, and its row keeps the rating of that day.
Enter(m, w) ==
    /\ m \notin Completed
    /\ w \notin DOMAIN roster[m]
    /\ w \in Keys => rating[w] # None
    /\ roster' = [roster EXCEPT ![m] = [v \in DOMAIN @ \cup {w} |->
                      IF v = w THEN [elo |-> CurrentRating(w), after |-> Cardinality(Completed)] ELSE @[v]]]
    /\ UNCHANGED <<rating, result, ledger>>

\* The terminal tick: winner, alliances and settlement in one transaction.
Finish(m, f) ==
    /\ m \notin Completed
    /\ Cardinality(DOMAIN roster[m]) >= 2
    /\ \E c \in Leaders(f, DOMAIN roster[m]) :
           LET r == Result(m, f, c, Cardinality(Completed) + 1)
           IN  /\ result' = [n \in Completed \cup {m} |-> IF n = m THEN r ELSE result[n]]
               /\ ledger' = ledger \cup Settled(m, r)
               /\ rating' = RatingsAfter(m, r)
    /\ UNCHANGED roster

RatingsNext ==
    \/ \E k \in Keys : CreateKey(k)
    \/ \E m \in Matches, w \in Competitors : Enter(m, w)
    \/ \E m \in Matches, f \in Finals : Finish(m, f)

RatingsSpec == RatingsInit /\ [][RatingsNext]_ratingVars

-----------------------------------------------------------------------------
(* What is read back.                                                      *)

\* load_settlement_aggregates_by_identity: the newest row's rating and the counts.
Profile(w) ==
    [elo |-> Latest(Of(w)).after, played |-> Cardinality(Of(w)),
     wins |-> Cardinality({s \in Of(w) : s.outcome = "win"}),
     losses |-> Cardinality({s \in Of(w) : s.outcome = "loss"})]

CompletedOf(w) == Completed \cap Entered(w)

RowIn(m, w) == CHOOSE s \in ledger : s.match = m /\ s.who = w

\* The leaderboard goes through the completed matches, the newest first, and takes the
\* rating from the first it meets.
LeaderboardEntry(w) ==
    LET newest == CHOOSE m \in CompletedOf(w) : \A n \in CompletedOf(w) : result[n].at <= result[m].at
    IN  [elo |-> RowIn(newest, w).after, played |-> Cardinality(CompletedOf(w)),
         wins |-> Cardinality({m \in CompletedOf(w) : RowIn(m, w).outcome = "win"}),
         losses |-> Cardinality({m \in CompletedOf(w) : RowIn(m, w).outcome = "loss"})]

\* The winners a completed match is listed with, by the winner's row id alone.
WinningCompetitors(m) ==
    LET r == result[m]
        allied == {w \in DOMAIN roster[m] : r.members[w] = r.winner}
    IN  IF allied # {} THEN allied ELSE {w \in DOMAIN roster[m] : <<m, w>> = r.winner}

-----------------------------------------------------------------------------
(* What ratings guarantee.                                                 *)

Row == [match : Matches, who : Competitors, outcome : {"win", "loss", "draw"},
        at : 1..Cardinality(Matches), before : Nat, after : Nat]

RatingsTypeOK ==
    /\ rating \in [Keys -> Nat \cup {None}]
    /\ \A m \in Matches : DOMAIN roster[m] \subseteq Competitors
    /\ \A m \in Matches : \A w \in DOMAIN roster[m] : roster[m][w] \in [elo : Nat, after : Nat]
    /\ ledger \subseteq Row

\* The profile, the leaderboard and the key's own row tell the same rating and record of
\* a competitor, though the first goes by the time of settlement, the second by the time
\* a match was completed, and the third is overwritten in place.
ReadsAgree ==
    \A w \in Competitors : Of(w) # {} =>
        /\ Profile(w) = LeaderboardEntry(w)
        /\ w \in Keys => Profile(w).elo = rating[w]

\* A completed match is settled for each of its competitors once, and no other match is.
SettledOnce ==
    \A m \in Matches, w \in Competitors :
        Cardinality({s \in ledger : s.match = m /\ s.who = w}) =
            IF m \in Completed /\ w \in DOMAIN roster[m] THEN 1 ELSE 0

\* Those who are listed as the winners of a match are the coalition that led its board
\* and are those whose rows say win: settlement looks for the winner by the id it had in
\* the match first, the list goes by the id of a row.
WinnersAgree ==
    \A m \in Completed :
        LET r == result[m]
            leaders == {w \in DOMAIN roster[m] : CoalitionOf(r.final, w) = r.leading}
        IN  /\ leaders # {}
            /\ WinningCompetitors(m) = leaders
            /\ {s.who : s \in {t \in ledger : t.match = m /\ t.outcome = "win"}} = leaders

\* Who joined the winning alliance no later and holds no fewer cities gains no less.
RewardFollowsMerit ==
    \A s, t \in ledger :
        LET f == result[s.match].final
        IN  (/\ s.match = t.match /\ s.outcome = "win" /\ t.outcome = "win"
             /\ f.since[s.who] <= f.since[t.who] /\ f.cities[s.who] >= f.cities[t.who])
            => s.after - s.before >= t.after - t.before

StartsWhereLeft(s, earlier) == earlier # {} => s.before = Latest(earlier).after

\* Who joins a match after another one was settled takes the rating settled there along:
\* an agent from its key's row, a person from the newest row of the ledger.
RatingCarriesOver ==
    \A s \in ledger :
        LET known == {t \in Of(s.who) : t.at <= roster[s.match][s.who].after}
        IN  StartsWhereLeft(s, known)

\* Each finished match is settled once, for the winners everyone names and by their merit, and
\* every page tells the same rating.
RatingsRight == ReadsAgree /\ SettledOnce /\ WinnersAgree /\ RewardFollowsMerit /\ RatingCarriesOver

\* Each settlement starts from what the one before left, so that adjustments add up.
AdjustmentsAddUp == \A s \in ledger : StartsWhereLeft(s, {t \in Of(s.who) : t.at < s.at})

=============================================================================
