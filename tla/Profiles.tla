------------------------------ MODULE Profiles ------------------------------
(***************************************************************************)
(* Under which identity a competitor is known, and the reputation the      *)
(* public profiles give it.                                                *)
(*                                                                         *)
(* The rows, keys, seats and records are those of Lobby, whose actions are *)
(* used here as they are, on a database that was provisioned with a match, *)
(* keys whose agents have ids of their own, and rows of treaties.  The     *)
(* server reads treaty rows and writes none.  Treaties in play are those   *)
(* of Treaties, without the ticks that break them.                         *)
(***************************************************************************)
EXTENDS Lobby, Sequences, SequencesExt

CONSTANTS
    SeededKeys,  \* the keys whose hash is that of a seeded profile
    Provisioned, \* Provisioned[m]: the row of match m at first
    MaxRows,     \* bound: the treaty rows
    MaxSigned,   \* bound: the ticks in which they were signed
    MaxPacts     \* bound: treaties of one record between two reloads

\* The bounds are numbers.
ProfilesAssumption ==
    /\ SeededKeys \subseteq Keys
    /\ MaxRows \in Nat /\ MaxSigned \in Nat /\ MaxPacts \in Nat

VARIABLES
    treatyRow, \* the treaty rows
    pacts      \* pacts[m]: the treaties of the record of m

profileVars == <<vars, treatyRow, pacts>>

Diplomacy ==
    INSTANCE Treaties WITH Players <- Seats, Types <- {"trade"}, Cities <- {}, Distance <- {},
                           Armies <- {}, ArmyOwner <- {}, MaxTreaties <- MaxPacts,
                           record <- pacts, cityOwner <- {}, army <- {}

-----------------------------------------------------------------------------
(* Identities.                                                             *)

\* resolve_loaded_agent_identity
LoadedAgentId(k) == IF k \in SeededKeys THEN <<"seeded", k>> ELSE <<"agent-api-key", k>>

\* The id a request is carried out under: that of the cached context, which was loaded
\* with a record, or else that found with the key's row.
AuthenticatedAgentId(k) ==
    CASE k \in cache -> LoadedAgentId(k)
      [] k \notin cache /\ ActiveInDatabase(k) ->
             IF k \in SeededKeys THEN <<"seeded", k>> ELSE <<"agent-api-key", k>>
      [] OTHER -> None

\* The keys of user u that stand for the agent with this id: none, and it is not owned.
OwnedAgents(u, id) ==
    {k \in Keys : /\ key[k] # "unissued" /\ Owner[k] = u
                  /\ id = IF k \in SeededKeys THEN <<"seeded", k>> ELSE <<"agent-api-key", k>>}

PublicIdentity(w) == IF w \in Keys THEN LoadedAgentId(w) ELSE <<"human", w>>

\* The agents and people a match's public page names.
RosterIds(m) == {PublicIdentity(p.who) : p \in SeatedRows(row[m])}

\* The agents whose profile is loaded with the record of m: those with a player row.
LoadedProfiles(m) == {LoadedAgentId(p.who) : p \in {q \in row[m].players : q.who \in Keys}}

\* The keys a record brings with it, which the registry caches if they are active and the
\* agent has a profile.
AuthenticatedKeys(m) ==
    {k \in Keys \cap DOMAIN Joined(row[m]) : key[k] = "active" /\ LoadedAgentId(k) \in LoadedProfiles(m)}

-----------------------------------------------------------------------------
(* Treaty rows, and how they are read.                                     *)

\* Rows name the parties by their player rows, here by the index these end in.
TreatyRow ==
    [match : {m \in Matches : Provisioned[m] # NoRow}, a : Seats, b : Seats,
     signed : 1..MaxSigned, status : {"active", "withdrawn", "broken_by_a", "broken_by_b"}]

PlayerRow(t, index) == CHOOSE p \in row[t.match].players : p.index = index

HistoryStatus(t) ==
    IF t.status = "active" /\ row[t.match].status = "completed" THEN "honored" ELSE t.status

\* One party's record of a treaty.
Recorded(t, side) ==
    [treaty |-> t, side |-> side, status |-> HistoryStatus(t),
     brokenBySelf |-> t.status = IF side = "a" THEN "broken_by_a" ELSE "broken_by_b"]

\* The treaties of every match, as the competitor with this identity sees them.
TreatyHistory(id) ==
    {Recorded(t, "a") : t \in {x \in treatyRow : PublicIdentity(PlayerRow(x, x.a).who) = id}}
    \cup
    {Recorded(t, "b") : t \in {x \in treatyRow : PublicIdentity(PlayerRow(x, x.b).who) = id}}

TreatySummary(history) ==
    LET count(S) == Cardinality(S)
        broken == {h \in history : h.status \in {"broken_by_a", "broken_by_b"}}
    IN  [signed |-> count(history),
         active |-> count({h \in history : h.status = "active"}),
         honored |-> count({h \in history : h.status = "honored"}),
         withdrawn |-> count({h \in history : h.status = "withdrawn"}),
         self |-> count({h \in broken : h.brokenBySelf}),
         counterparty |-> count({h \in broken : ~h.brokenBySelf})]

\* The agents with a player row, in a match of any status.
AgentsWithProfile == UNION {LoadedProfiles(m) : m \in Matches}

Reputation(found, id) ==
    [found |-> found, history |-> TreatyHistory(id), summary |-> TreatySummary(TreatyHistory(id))]

AgentProfile(id) == Reputation(id \in AgentsWithProfile, id)

HumanProfile(id) ==
    Reputation(\E m \in Matches : \E p \in row[m].players : <<"human", p.who>> = id, id)

Profile(id) == IF id[1] = "human" THEN HumanProfile(id) ELSE AgentProfile(id)

\* Slip: whoever is named first is taken for the one who broke it.
LoadedByFirst(t) ==
    [a |-> t.a, b |-> t.b, type |-> "trade", status |-> t.status, proposedBy |-> t.a,
     withdrawnBy |-> IF t.status \in {"broken_by_a", "broken_by_b"} THEN t.a ELSE None]

\* A row's treaty in a record: who proposed it is not stored, nor who withdrew from it.
Loaded(t) ==
    [a |-> t.a, b |-> t.b, type |-> "trade", status |-> t.status, proposedBy |-> t.a,
     withdrawnBy |-> CASE t.status = "broken_by_a" -> t.a
                       [] t.status = "broken_by_b" -> t.b
                       [] OTHER -> None]

\* merge_persisted_treaties: all rows of a match in the order of parties and ticks, or
\* none of them if a party has no seat.
LoadedTreaties(m) ==
    LET rows == {t \in treatyRow : t.match = m}
        seated == {p.index : p \in SeatedRows(row[m])}
        before(s, t) == \/ s.a < t.a
                        \/ s.a = t.a /\ s.b < t.b
                        \/ s.a = t.a /\ s.b = t.b /\ s.signed < t.signed
        sorted == SetToSortSeq(rows, before)
    IN  IF \A t \in rows : {t.a, t.b} \subseteq seated
        THEN [i \in DOMAIN sorted |-> Loaded(sorted[i])] ELSE <<>>

-----------------------------------------------------------------------------

\* The treaty rows there can be: one of two parties and a tick, in the order of seats.
TreatyRows ==
    {T \in {Range(f) : f \in UNION {[1..n -> {t \in TreatyRow : t.a < t.b}] : n \in 0..MaxRows}} :
        \A s, t \in T : s.a = t.a /\ s.b = t.b /\ s.signed = t.signed => s = t}

\* A server that starts on a provisioned database.
ProfilesInit ==
    /\ key = [k \in Keys |-> IF k \in SeededKeys THEN "active" ELSE "unissued"]
    /\ row = Provisioned
    /\ told = {}
    /\ treatyRow \in TreatyRows
    /\ record = [m \in Matches |-> IF row[m].status = "none" THEN None ELSE LoadedRecord(row[m])]
    /\ cache = UNION {AuthenticatedKeys(m) : m \in Matches}
    /\ pacts = [m \in Matches |-> LoadedTreaties(m)]

Reloads(m) ==
    /\ UNCHANGED treatyRow
    /\ pacts' = [pacts EXCEPT ![m] = LoadedTreaties(m)']

LobbyAction(m, w) ==
    /\ CreateMatch(m, w) \/ JoinAgain(m, w) \/ JoinMatch(m, w) \/ StartMatch(m, w)
    /\ Reloads(m)

\* POST treaties, by whoever the registry takes for the holder of the seat.
PostTreaty(m, w, x) ==
    LET rec == [treaties |-> pacts[m], world |-> [i \in DOMAIN pacts[m] |-> <<>>]]
    IN  /\ record[m] # None /\ w \in DOMAIN record[m].joined
        /\ w \in Keys => Authenticated(w)
        /\ x.by = ResolvedSeat(m, w)
        /\ Diplomacy!CanApply(rec, x)
        /\ pacts' = [pacts EXCEPT ![m] = Diplomacy!Applied(rec, x).treaties]
        /\ Len(pacts'[m]) <= MaxPacts
        /\ UNCHANGED <<vars, treatyRow>>

ProfilesRestart ==
    /\ Restart
    /\ pacts' = [m \in Matches |-> LoadedTreaties(m)]
    /\ UNCHANGED treatyRow

ProfilesNext ==
    \/ \E k \in Keys : (CreateKey(k) \/ RevokeKey(k)) /\ UNCHANGED <<treatyRow, pacts>>
    \/ \E m \in Matches : CompleteMatch(m) /\ UNCHANGED <<treatyRow, pacts>>
    \/ \E m \in Matches, w \in Competitors : LobbyAction(m, w)
    \/ \E m \in Matches, w \in Competitors, x \in Diplomacy!TreatyAction : PostTreaty(m, w, x)
    \/ ProfilesRestart

ProfilesSpec == ProfilesInit /\ [][ProfilesNext]_profileVars

-----------------------------------------------------------------------------
(* What profiles and identities guarantee.                                 *)

ProfilesTypeOK ==
    /\ TypeOK
    /\ treatyRow \subseteq TreatyRow
    /\ \A m \in Matches :
           /\ Len(pacts[m]) <= Max({MaxRows, MaxPacts})
           /\ \A i \in DOMAIN pacts[m] :
                  pacts[m][i] \in [a : Seats, b : Seats, type : {"trade"},
                                   status : {"proposed", "active", "withdrawn", "broken_by_a",
                                             "broken_by_b"},
                                   proposedBy : Seats, withdrawnBy : Seats \cup {None}]

Identities == {PublicIdentity(w) : w \in Competitors}

\* Books of two entries: every treaty row is in the histories of exactly two competitors,
\* in one state and with at most one to blame, and over all profiles the treaties broken
\* by oneself are as many as those broken by the other.
BooksBalance ==
    LET total(f) == MapThenSumSet(LAMBDA id : Profile(id).summary[f], Identities)
    IN  /\ \A t \in treatyRow :
               Cardinality({id \in Identities : \E h \in TreatyHistory(id) : h.treaty = t}) = 2
        /\ \A id \in Identities :
               LET s == Profile(id).summary
               IN  s.signed = s.active + s.honored + s.withdrawn + s.self + s.counterparty
        /\ total("signed") = 2 * Cardinality(treatyRow)
        /\ total("self") = total("counterparty")

\* A match's page and a profile agree on who broke a treaty: whom the record says it was
\* ended by is the competitor whose profile takes the blame, read from the same row by
\* two queries with different notions of a party.
BlameAgrees ==
    \A m \in Matches : \A i \in DOMAIN LoadedTreaties(m) :
        LET t == LoadedTreaties(m)[i]
            blamed == {id \in Identities : \E h \in TreatyHistory(id) :
                          /\ h.brokenBySelf /\ Loaded(h.treaty) = t /\ h.treaty.match = m}
        IN  blamed = IF t.withdrawnBy = None THEN {}
                     ELSE {PublicIdentity(w) : w \in {x \in DOMAIN Joined(row[m]) :
                                                         Joined(row[m])[x] = t.withdrawnBy}}

\* An agent goes by one id: the one its requests are carried out under, whether the cache
\* or the database knows the key, is the one the rosters name, has a profile once the
\* agent has played, and belongs to the owner of the key and to nobody else.
OneIdentity ==
    \A k \in Keys : LET id == AuthenticatedAgentId(k) IN
        id # None =>
            /\ \A m \in Matches : (\E p \in SeatedRows(row[m]) : p.who = k) => id \in RosterIds(m)
            /\ \A u \in Users : OwnedAgents(u, id) = IF u = Owner[k] THEN {k} ELSE {}
            /\ (\E m \in Matches : \E p \in row[m].players : p.who = k) <=> Profile(id).found

\* What a profile has shown stays: no treaty leaves a history, none in the history loses
\* or gains someone to blame, and one that was honored was in force till its match ended.
HistoriesGoOn ==
    \A id \in Identities :
        /\ Profile(id).found => Profile(id)'.found
        /\ \A h \in Profile(id).history : \E g \in Profile(id)'.history :
              /\ g.treaty = h.treaty /\ g.side = h.side /\ g.brokenBySelf = h.brokenBySelf
              /\ g.status # h.status => h.status = "active" /\ g.status = "honored"

ReputationStands == [][HistoriesGoOn]_profileVars
=============================================================================
