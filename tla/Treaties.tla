------------------------------ MODULE Treaties ------------------------------
(***************************************************************************)
(* Treaties of one match, what world chat says of them, and the ticks that *)
(* break them.                                                             *)
(*                                                                         *)
(* A treaty lives in the match record only: it is proposed, signed and     *)
(* withdrawn through HTTP, and broken by the tick that starts an attack on *)
(* the partner.  The armies are here because "attack" is defined by where  *)
(* they stand.  How many troops fight, recruit or starve is left open: a   *)
(* fight or a famine may destroy any army it touches.                      *)
(*                                                                         *)
(* The system messages of world chat are kept per treaty: world[i] is what *)
(* was posted about the i-th treaty, oldest first.                         *)
(***************************************************************************)
EXTENDS Naturals, Sequences, FiniteSets

CONSTANTS
    Players,      \* the seats of the match, numbered as their ids sort
    Types,        \* treaty types
    Cities,
    Distance,     \* Distance[c][d]: ticks from c to d, 0 if they are not adjacent
    Armies,       \* the armies there can be
    ArmyOwner,    \* ArmyOwner[r]: the player of army r
    MaxTreaties,  \* bound: treaties proposed between two reloads
    None          \* Python's None

ASSUME PlayersAssumption == Players \subseteq Nat /\ IsFiniteSet(Players) /\ None \notin Players
ASSUME MapAssumption == Distance \in [Cities -> [Cities -> Nat]] /\ None \notin Cities
ASSUME ArmiesAssumption == ArmyOwner \in [Armies -> Players]
ASSUME MaxTreatiesAssumption == MaxTreaties \in Nat

VARIABLES
    record,     \* the treaties of the MatchRecord and its messages about them
    cityOwner,  \* cityOwner[c]: a player or None
    army        \* army[r]: where army r is, None if there is no such army

vars == <<record, cityOwner, army>>

Ended == {"withdrawn", "broken_by_a", "broken_by_b"}
Live == {"proposed", "active"}

-----------------------------------------------------------------------------
(* What one treaty action does to the record.                              *)

\* A treaty action of player p towards player q.
TreatyAction == [by : Players, with : Players, kind : {"propose", "accept", "withdraw"},
                 type : Types]

Earlier(p, q) == IF p < q THEN p ELSE q
Later(p, q) == IF p < q THEN q ELSE p

Between(t, p, q) == t.a = Earlier(p, q) /\ t.b = Later(p, q)

Matching(treaties, x) ==
    {i \in DOMAIN treaties : Between(treaties[i], x.by, x.with) /\ treaties[i].type = x.type}

\* find_latest_treaty, by its index; 0 if there is none.
LatestTreaty(treaties, x) ==
    LET found == Matching(treaties, x)
    IN  IF found = {} THEN 0 ELSE CHOOSE i \in found : \A j \in found : j <= i

\* Slip: only a treaty in force bars another proposal.
CanProposeOverProposal(rec, x) ==
    LET i == LatestTreaty(rec.treaties, x) IN i # 0 => rec.treaties[i].status # "active"

CanPropose(rec, x) ==
    LET i == LatestTreaty(rec.treaties, x) IN i # 0 => rec.treaties[i].status \in Ended

CanAccept(rec, x) ==
    LET i == LatestTreaty(rec.treaties, x)
    IN  i # 0 /\ rec.treaties[i].status = "proposed" /\ rec.treaties[i].proposedBy # x.by

\* Slip: a treaty can be withdrawn from after it has ended.
CanWithdrawEnded(rec, x) == LatestTreaty(rec.treaties, x) # 0

CanWithdraw(rec, x) ==
    LET i == LatestTreaty(rec.treaties, x) IN i # 0 /\ rec.treaties[i].status \in Live

\* The action is not rejected.
CanApply(rec, x) ==
    /\ x.by # x.with
    /\ x.kind = "propose" => CanPropose(rec, x)
    /\ x.kind = "accept" => CanAccept(rec, x)
    /\ x.kind = "withdraw" => CanWithdraw(rec, x)

Proposed(rec, x) ==
    [treaties |-> Append(rec.treaties,
                    [a |-> Earlier(x.by, x.with), b |-> Later(x.by, x.with), type |-> x.type,
                     status |-> "proposed", proposedBy |-> x.by, withdrawnBy |-> None]),
     world |-> Append(rec.world, <<>>)]

Signed(rec, i) ==
    [treaties |-> [rec.treaties EXCEPT ![i].status = "active"],
     world |-> [rec.world EXCEPT ![i] = Append(@, [event |-> "signed", by |-> None])]]

Withdrawn(rec, i, p) ==
    [treaties |-> [rec.treaties EXCEPT ![i].status = "withdrawn", ![i].withdrawnBy = p],
     world |-> [rec.world EXCEPT ![i] = Append(@, [event |-> "withdrawn", by |-> p])]]

\* apply_treaty_action, for an action that is not rejected.
Applied(rec, x) ==
    LET i == LatestTreaty(rec.treaties, x)
    IN  CASE x.kind = "propose"  -> Proposed(rec, x)
          [] x.kind = "accept"   -> Signed(rec, i)
          [] x.kind = "withdraw" -> Withdrawn(rec, i, x.by)

-----------------------------------------------------------------------------
(* Hostile orders.  moves[r] is the destination of army r's accepted order, *)
(* None if it has none; rank is the order in which players first submitted. *)

Stationed(ar, r) == ar[r] # None /\ ar[r].to = None

StationedOwners(ar, c) == {ArmyOwner[r] : r \in {s \in Armies : Stationed(ar, s) /\ ar[s].at = c}}

\* Who is attacked by an army of p that is sent to city c.
Defenders(p, c) ==
    (StationedOwners(army, c) \cup ({cityOwner[c]} \ {None})) \ {p}

\* Slip: only the city's owner is attacked, not an army that stands in it.
AttacksCityOwner(moves, p, q) ==
    \E r \in Armies : ArmyOwner[r] = p /\ moves[r] # None /\ q = cityOwner[moves[r]] /\ q # p

Attacks(moves, p, q) ==
    \E r \in Armies : ArmyOwner[r] = p /\ moves[r] # None /\ q \in Defenders(p, moves[r])

\* The partner who breaks treaty t, if one does.  When each attacks the other
\* the orders that come first in the batch find the treaty still active.
IsBreaker(t, p, moves, rank) ==
    /\ p \in {t.a, t.b}
    /\ LET q == IF p = t.a THEN t.b ELSE t.a
       IN  /\ Attacks(moves, p, q)
           /\ Attacks(moves, q, p) => rank[p] < rank[q]

\* Slip: the partner who was attacked is entered as the one who ended it.
BrokenByVictim(t, p) ==
    [t EXCEPT !.status = IF p = t.a THEN "broken_by_a" ELSE "broken_by_b",
              !.withdrawnBy = IF p = t.a THEN t.b ELSE t.a]

BrokenBy(t, p) ==
    [t EXCEPT !.status = IF p = t.a THEN "broken_by_a" ELSE "broken_by_b", !.withdrawnBy = p]

Breaker(t, moves, rank) ==
    IF t.status = "active" /\ \E p \in Players : IsBreaker(t, p, moves, rank)
    THEN CHOOSE p \in Players : IsBreaker(t, p, moves, rank)
    ELSE None

\* reconcile_hostile_treaty_breaks: every active treaty between an attacker and
\* a defender, of whatever type, is broken and announced.
Reconciled(rec, moves, rank) ==
    LET by(i) == Breaker(rec.treaties[i], moves, rank)
    IN  [treaties |-> [i \in DOMAIN rec.treaties |->
                         IF by(i) = None THEN rec.treaties[i] ELSE BrokenBy(rec.treaties[i], by(i))],
         world |-> [i \in DOMAIN rec.world |->
                      IF by(i) = None THEN rec.world[i]
                      ELSE Append(rec.world[i], [event |-> "broken", by |-> by(i)])]]

-----------------------------------------------------------------------------
(* The armies in a tick, phase by phase.                                   *)

At(c) == [at |-> c, to |-> None, left |-> 0]

\* Orders the validator accepts: a standing army, an adjacent city.
AcceptedMoves ==
    {m \in [Armies -> Cities \cup {None}] :
        \A r \in Armies : m[r] # None =>
            Stationed(army, r) /\ Distance[army[r].at][m[r]] > 0}

\* Build phase: recruitment may raise an army in a city of its player where the
\* player has none.
RecruitedArmies ==
    {ar \in [Armies -> {None} \cup {At(c) : c \in Cities} \cup {army[r] : r \in Armies}] :
        /\ \A r \in Armies : army[r] # None => ar[r] = army[r]
        /\ \A r \in Armies : army[r] = None /\ ar[r] # None =>
              /\ ar[r].to = None
              /\ cityOwner[ar[r].at] = ArmyOwner[r]
              /\ \A s \in Armies \ {r} :
                    ~ (Stationed(ar, s) /\ ar[s].at = ar[r].at /\ ArmyOwner[s] = ArmyOwner[r])}

\* Slip: an army arrives when its count has gone below zero.
AdvancedLate(ar) ==
    [r \in Armies |->
        IF ar[r] = None \/ Stationed(ar, r) THEN ar[r]
        ELSE IF ar[r].left = 0 THEN At(ar[r].to)
        ELSE [at |-> None, to |-> ar[r].to, left |-> ar[r].left - 1]]

\* Movement phase: armies on the way advance, then the orders are started.
Advanced(ar) ==
    [r \in Armies |->
        IF ar[r] = None \/ Stationed(ar, r) THEN ar[r]
        ELSE IF ar[r].left = 1 THEN At(ar[r].to)
        ELSE [at |-> None, to |-> ar[r].to, left |-> ar[r].left - 1]]

Started(ar, moves) ==
    [r \in Armies |->
        IF moves[r] = None THEN ar[r]
        ELSE [at |-> None, to |-> moves[r], left |-> Distance[ar[r].at][moves[r]]]]

\* Combat phase: an army in a contested city may be destroyed ...
InCombat(ar) ==
    {r \in Armies : Stationed(ar, r) /\ Cardinality(StationedOwners(ar, ar[r].at)) > 1}

Without(ar, lost) == [r \in Armies |-> IF r \in lost THEN None ELSE ar[r]]

\* ... and a city with armies of one player only is that player's.
Occupied(own, ar) ==
    [c \in Cities |->
        IF Cardinality(StationedOwners(ar, c)) = 1
        THEN CHOOSE p \in StationedOwners(ar, c) : TRUE
        ELSE own[c]]

-----------------------------------------------------------------------------
(* Actions.                                                                *)

EmptyRecord == [treaties |-> <<>>, world |-> <<>>]

\* A match has no army before somebody recruits one.
Init ==
    /\ record = EmptyRecord
    /\ cityOwner \in [Cities -> Players \cup {None}]
    /\ army = [r \in Armies |-> None]

\* POST treaties.
PostTreaty(x) ==
    /\ CanApply(record, x)
    /\ record' = Applied(record, x)
    /\ Len(record'.treaties) <= MaxTreaties
    /\ UNCHANGED <<cityOwner, army>>

\* POST command with two treaty actions of one player: they are tried on a
\* copy first, so both take effect or neither does.
PostCommand(x, y) ==
    /\ x.by = y.by
    /\ CanApply(record, x)
    /\ CanApply(Applied(record, x), y)
    /\ record' = Applied(Applied(record, x), y)
    /\ Len(record'.treaties) <= MaxTreaties
    /\ UNCHANGED <<cityOwner, army>>

Rankings ==
    {f \in [Players -> 1..Cardinality(Players)] : \A p, q \in Players : f[p] = f[q] => p = q}

\* advance_match_tick.  Treaties are reconciled against the board as the tick
\* found it, before the resolver moves anything.
Tick ==
    \E moves \in AcceptedMoves, rank \in Rankings, raised \in RecruitedArmies :
       LET moved == Started(Advanced(raised), moves)
       IN  /\ record' = Reconciled(record, moves, rank)
           /\ \E fallen \in SUBSET InCombat(moved) :
                 LET fought == Without(moved, fallen)
                 IN  /\ cityOwner' = Occupied(cityOwner, fought)
                     /\ \E starved \in SUBSET {r \in Armies : fought[r] # None} :
                           army' = Without(fought, starved)

\* A restart, a start or a repeated join replaces the record by one read from
\* the database, where the board of the last tick is, and no treaty or message.
Reload ==
    /\ record' = EmptyRecord
    /\ UNCHANGED <<cityOwner, army>>

Next ==
    \/ \E x \in TreatyAction : PostTreaty(x)
    \/ \E x, y \in TreatyAction : PostCommand(x, y)
    \/ Tick
    \/ Reload

Spec == Init /\ [][Next]_vars

\* The match loop wakes up again and again; players owe nothing.
FairSpec == Spec /\ WF_vars(Tick)

-----------------------------------------------------------------------------
(* Properties.                                                             *)

Treaty == [a : Players, b : Players, type : Types, status : Live \cup Ended,
           proposedBy : Players, withdrawnBy : Players \cup {None}]

Notice == [event : {"signed", "withdrawn", "broken"}, by : Players \cup {None}]

Standing == [at : Cities, to : {None}, left : {0}]
Marching == [at : {None}, to : Cities, left : Nat \ {0}]

\* Every variable has the shape of the record it stands for: there is a list of
\* messages for every treaty, and an army is either in a city or on its way to
\* one, with ticks to go.
TypeOK ==
    /\ record.treaties \in Seq(Treaty)
    /\ record.world \in Seq(Seq(Notice))
    /\ Len(record.world) = Len(record.treaties)
    /\ cityOwner \in [Cities -> Players \cup {None}]
    /\ army \in [Armies -> {None} \cup Standing \cup Marching]

OnlyLatestLive(rec) ==
    \A i, j \in DOMAIN rec.treaties :
        LET t == rec.treaties[i]
            u == rec.treaties[j]
        IN  t.a = u.a /\ t.b = u.b /\ t.type = u.type /\ i < j => t.status \in Ended

\* Two players never have two treaties of a type open at once, whatever they
\* propose, withdraw and propose again, in one command or in several: the
\* latest one, which every action looks up, is the only one that can be live.
OneLiveTreaty == OnlyLatestLive(record)

\* What world chat has about treaty t by the time it is in its present status.
ExpectedNotices(t) ==
    LET signed == [event |-> "signed", by |-> None]
        last(e) == [event |-> e, by |-> t.withdrawnBy]
    IN  CASE t.status = "proposed"  -> {<<>>}
          [] t.status = "active"    -> {<<signed>>}
          [] t.status = "withdrawn" -> {<<last("withdrawn")>>, <<signed, last("withdrawn")>>}
          [] OTHER                  -> {<<signed, last("broken")>>}

ToldInFull(rec) ==
    \A i \in DOMAIN rec.treaties :
        LET t == rec.treaties[i]
        IN  /\ rec.world[i] \in ExpectedNotices(t)
            /\ t.status = "broken_by_a" => t.withdrawnBy = t.a
            /\ t.status = "broken_by_b" => t.withdrawnBy = t.b
            /\ t.a < t.b /\ t.proposedBy \in {t.a, t.b}

\* World chat tells every treaty's story once and in full: signing, withdrawal
\* and break are each announced exactly once, a break names the partner the
\* status blames, and only a signed treaty is ever broken.
AnnouncedInFull == ToldInFull(record)

\* Of two players' treaties of a type one can be open, and world chat has each treaty's story
\* once and in full, however proposals, withdrawals and attacks follow each other.
TreatiesSound == OneLiveTreaty /\ AnnouncedInFull

ActiveBetween(rec, p, q) ==
    \E i \in DOMAIN rec.treaties :
        Between(rec.treaties[i], p, q) /\ rec.treaties[i].status = "active"

\* The tick that sends an army against a player's city or standing army leaves
\* no active treaty, of any type, between the two.
AttackEndsTreaties ==
    [][\A r \in Armies :
          Stationed(army, r) /\ army'[r] # None /\ army'[r].to # None =>
              \A q \in Defenders(ArmyOwner[r], army'[r].to) :
                  ~ ActiveBetween(record', ArmyOwner[r], q)]_vars

\* Nobody is blamed without an attack: a treaty that becomes broken names a
\* partner whose army left, or was lost leaving, for a place the other one held.
BlameIsEarned ==
    [][\A i \in DOMAIN record.treaties :
          LET t == record.treaties[i]
          IN  i \in DOMAIN record'.treaties /\ t.status = "active"
              /\ record'.treaties[i].status \in {"broken_by_a", "broken_by_b"} =>
              \E r \in Armies, c \in Cities :
                 LET p == record'.treaties[i].withdrawnBy
                 IN  /\ p = ArmyOwner[r]
                     /\ Stationed(army, r) /\ Distance[army[r].at][c] > 0
                     /\ army'[r] # None => army'[r].to = c
                     /\ ({t.a, t.b} \ {p}) \subseteq Defenders(p, c)]_vars

\* Breaks are just: whoever attacks loses every treaty with the attacked, and nobody else is
\* blamed for one.
BreaksAreJust == AttackEndsTreaties /\ BlameIsEarned

\* A treaty that has ended stays as it ended, and what was posted about it stays
\* posted: only a reload, which loses all treaties, takes it away.
EndedIsFinal ==
    [][record' = EmptyRecord \/
       \A i \in DOMAIN record.treaties :
          record.treaties[i].status \in Ended =>
             /\ record'.treaties[i] = record.treaties[i]
             /\ record'.world[i] = record.world[i]]_vars

\* "When a treaty is broken (one player attacks the other ...), the event is
\* automatically posted to World Chat": a player whose army takes a city from
\* another one has no active treaty with it after that tick.
NoCaptureUnderTreaty ==
    [][\A c \in Cities :
          cityOwner[c] # None /\ cityOwner'[c] # cityOwner[c] =>
              ~ ActiveBetween(record', cityOwner'[c], cityOwner[c])]_vars
=============================================================================
