------------------------------- MODULE Lobby -------------------------------
(***************************************************************************)
(* Who may be in which match.  People hold entitlements, issue and revoke  *)
(* API keys for their agents, and open, join and start matches, themselves *)
(* or through an agent; the database keeps keys, matches and player rows,  *)
(* the registry in memory a record per match and a cache of keys.          *)
(*                                                                         *)
(* Every handler runs to its end on the event loop without an await after  *)
(* its first read, so each is one action.  A handler that answers with an  *)
(* error changes nothing and is left out.                                  *)
(***************************************************************************)
EXTENDS Naturals, FiniteSets, FiniteSetsExt

CONSTANTS
    None,
    Users,      \* the people, who may play themselves
    Keys,       \* the API keys, each standing for one agent
    Owner,      \* Owner[k]: whose key k is
    Allowance,  \* Allowance[u]: matches an agent of u may be in at a time; 0 without a grant
    Matches,    \* the match ids
    MaxPlayers  \* the seats of a lobby

\* Nobody is both a person and a key, and there is a seat.
LobbyAssumption ==
    /\ Users \cap Keys = {} /\ None \notin Users \cup Keys
    /\ Owner \in [Keys -> Users]
    /\ Allowance \in [Users -> Nat]
    /\ MaxPlayers \in Nat \ {0}

ASSUME ConstantsFit == LobbyAssumption

VARIABLES
    key,     \* key[k]: the row of key k
    row,     \* row[m]: the row of match m and its player rows
    record,  \* record[m]: the record of m in the registry, or None
    cache,   \* the keys the registry takes as valid without a look at the database
    told     \* history: every seat a join was answered with

vars == <<key, row, record, cache, told>>

Competitors == Users \cup Keys
Seats == 1..MaxPlayers

-----------------------------------------------------------------------------
(* Player rows.  The id of a row ends in the number of the join.           *)

NoRow == [status |-> "none", creator |-> None, players |-> {}]

JoinIndex(r) == Cardinality({p.who : p \in r.players}) + 1

\* Which rows stand for a seat: none at all when two rows claim the same one.
SeatedRows(r) ==
    IF \E p, q \in r.players : p # q /\ p.index = q.index THEN {}
    ELSE {p \in r.players : p.index \in Seats}

JoinedAs(r, w) == {p.index : p \in {q \in SeatedRows(r) : q.who = w}}

Joined(r) == [w \in {p.who : p \in SeatedRows(r)} |-> CHOOSE i \in JoinedAs(r, w) : TRUE]

Joinable(r) ==
    IF r.status = "lobby" THEN Seats \ {Joined(r)[w] : w \in DOMAIN Joined(r)} ELSE {}

LoadedRecord(r) == [status |-> r.status, joined |-> Joined(r), joinable |-> Joinable(r)]

-----------------------------------------------------------------------------
(* Keys and what they are entitled to.                                     *)

\* The registry's cache is asked first and the database only for what it does not hold.
Authenticated(k) == k \in cache \/ key[k] = "active"

ActiveInDatabase(k) == key[k] = "active"

Occupancy(k) ==
    Cardinality({m \in Matches : /\ row[m].status \in {"lobby", "active"}
                                 /\ \E p \in row[m].players : p.who = k})

Entitled(u) == Allowance[u] > 0

HasCapacity(k) == Entitled(Owner[k]) /\ Occupancy(k) < Allowance[Owner[k]]

\* Slip: whom the registry knows needs no second look.
MayActCached(w) == w \in Keys => Authenticated(w)

\* A key must pass the cache and then the database; a person needs no key.
MayAct(w) == w \in Keys => Authenticated(w) /\ ActiveInDatabase(w)

MayEnter(w) == w \in Keys => HasCapacity(w)

\* The seat a command of w is carried out for: an agent's in the registry's record, a
\* person's in the player rows and only then in the record.
AgentSeat(m, k) == record[m].joined[k]

HumanSeat(m, u) == IF u \in DOMAIN Joined(row[m]) THEN Joined(row[m])[u] ELSE record[m].joined[u]

ResolvedSeat(m, w) == IF w \in Keys THEN AgentSeat(m, w) ELSE HumanSeat(m, w)

\* The player row an owner's override or guidance for a seat is stored under.
PersistedPlayers(m, seat) == {p \in SeatedRows(row[m]) : p.index = seat}

\* seed_match: the record replaces the one in memory, the active keys of its agents are
\* cached, and none is taken out.
Seed(m, r) ==
    /\ record' = [record EXCEPT ![m] = LoadedRecord(r)]
    /\ cache' = cache \cup {k \in Keys \cap DOMAIN Joined(r) : key[k] = "active"}

-----------------------------------------------------------------------------

Init ==
    /\ key = [k \in Keys |-> "unissued"]
    /\ row = [m \in Matches |-> NoRow]
    /\ record = [m \in Matches |-> None]
    /\ cache = {}
    /\ told = {}

CreateKey(k) ==
    /\ key[k] = "unissued" /\ Entitled(Owner[k])
    /\ key' = [key EXCEPT ![k] = "active"]
    /\ UNCHANGED <<row, record, cache, told>>

RevokeKey(k) ==
    /\ key[k] # "unissued"
    /\ key' = [key EXCEPT ![k] = "revoked"]
    /\ UNCHANGED <<row, record, cache, told>>

\* The creator takes the first seat.
CreateMatch(m, w) ==
    /\ row[m].status = "none"
    /\ MayAct(w) /\ MayEnter(w)
    /\ row' = [row EXCEPT ![m] = [status |-> "lobby", creator |-> w,
                                  players |-> {[who |-> w, index |-> 1]}]]
    /\ Seed(m, row'[m])
    /\ told' = told \cup {[match |-> m, who |-> w, seat |-> 1]}
    /\ UNCHANGED key

\* Who has a seat is told it again, whatever became of the match or the allowance.
JoinAgain(m, w) ==
    /\ record[m] # None
    /\ MayAct(w) /\ w \in DOMAIN Joined(row[m])
    /\ Seed(m, row[m])
    /\ told' = told \cup {[match |-> m, who |-> w, seat |-> Joined(row[m])[w]]}
    /\ UNCHANGED <<key, row>>

\* A newcomer is told the first open seat, and its row numbered after the joins so far.
JoinMatch(m, w) ==
    /\ record[m] # None
    /\ MayAct(w) /\ w \notin DOMAIN Joined(row[m])
    /\ MayEnter(w) /\ Joinable(row[m]) # {}
    /\ row' = [row EXCEPT ![m].players = @ \cup {[who |-> w, index |-> JoinIndex(row[m])]}]
    /\ Seed(m, row'[m])
    /\ told' = told \cup {[match |-> m, who |-> w, seat |-> Min(Joinable(row[m]))]}
    /\ UNCHANGED key

StartMatch(m, w) ==
    /\ MayAct(w)
    /\ row[m].status = "lobby" /\ row[m].creator = w
    /\ Cardinality(row[m].players) >= 2
    /\ row' = [row EXCEPT ![m].status = "active"]
    /\ Seed(m, row'[m])
    /\ UNCHANGED <<key, told>>

\* A terminal tick: the record is advanced and the row written in one step here.
CompleteMatch(m) ==
    /\ row[m].status = "active"
    /\ row' = [row EXCEPT ![m].status = "completed"]
    /\ record' = [record EXCEPT ![m].status = "completed"]
    /\ UNCHANGED <<key, cache, told>>

\* The process ends and the next one reads the registry from the database.
Restart ==
    /\ record' = [m \in Matches |-> IF row[m].status = "none" THEN None ELSE LoadedRecord(row[m])]
    /\ cache' = {k \in Keys : key[k] = "active" /\ \E m \in Matches : k \in DOMAIN Joined(row[m])}
    /\ UNCHANGED <<key, row, told>>

Next ==
    \/ \E k \in Keys : CreateKey(k) \/ RevokeKey(k)
    \/ \E m \in Matches : CompleteMatch(m)
    \/ \E m \in Matches, w \in Competitors :
           CreateMatch(m, w) \/ JoinAgain(m, w) \/ JoinMatch(m, w) \/ StartMatch(m, w)
    \/ Restart

Spec == Init /\ [][Next]_vars

-----------------------------------------------------------------------------
(* What lobbies guarantee.                                                 *)

Record == [status : {"lobby", "active", "completed"},
           joined : UNION {[S -> Seats] : S \in SUBSET Competitors}, joinable : SUBSET Seats]

TypeOK ==
    /\ key \in [Keys -> {"unissued", "active", "revoked"}]
    /\ \A m \in Matches :
           /\ row[m].status \in {"none", "lobby", "active", "completed"}
           /\ row[m].creator \in Competitors \cup {None}
           /\ row[m].players \subseteq [who : Competitors, index : Seats]
           /\ record[m] # None => record[m] \in Record
    /\ cache \subseteq {k \in Keys : key[k] # "unissued"}
    /\ told \subseteq [match : Matches, who : Competitors, seat : Seats]

\* The seat a join was answered with is the seat all later commands are carried out for,
\* in the registry and after any reload, and the row found for that seat is the joiner's:
\* the answer is the first open seat, the row gets the number of joins so far, and
\* join_match never compares the two.
SeatPromised ==
    \A t \in told : /\ ResolvedSeat(t.match, t.who) = t.seat
                    /\ {p.who : p \in PersistedPlayers(t.match, t.seat)} = {t.who}

\* No seat is given to two competitors, and nobody in a match holds two.
OneSeatEach ==
    \A m \in Matches : \A p, q \in row[m].players : p.who = q.who \/ p.index = q.index => p = q

\* The registry's record of a match has the seats and the status of its rows, and there
\* is a record of every match and of no other.
RegistryMatchesRows ==
    \A m \in Matches :
        IF row[m].status = "none" THEN record[m] = None
        ELSE record[m].status = row[m].status /\ record[m].joined = Joined(row[m])

\* Through lobbies, repeated joins and restarts no agent is ever in more lobbies and
\* running matches than its owner's grant allows.
OccupancyBounded == \A k \in Keys : Occupancy(k) <= Allowance[Owner[k]]

\* Even while the registry still takes a revoked key as valid, its agent gains no seat
\* and its lobbies cannot be started.
NothingForRevoked ==
    \A k \in Keys, m \in Matches : key[k] = "revoked" =>
        /\ (\E p \in row'[m].players : p.who = k) => \E p \in row[m].players : p.who = k
        /\ row[m].status = "lobby" /\ row[m].creator = k => row'[m].status = "lobby"

RevokedGainsNothing == [][NothingForRevoked]_vars

\* A match that has started takes nobody in and loses nobody.
RosterStays ==
    \A m \in Matches : row[m].status \in {"active", "completed"} =>
        row'[m].players = row[m].players

RosterFixedAtStart == [][RosterStays]_vars

\* Rows, records and answers agree on who has which seat, allowances hold, and neither a
\* revoked key nor a started match lets anybody in.
SeatsRight ==
    /\ [](TypeOK /\ SeatPromised /\ OneSeatEach /\ RegistryMatchesRows /\ OccupancyBounded)
    /\ RevokedGainsNothing
    /\ RosterFixedAtStart
=============================================================================
