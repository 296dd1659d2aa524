---------------------------- MODULE Provisioning ----------------------------
(***************************************************************************)
(* The schema's revisions and the tool that provisions a database: make    *)
(* the database, migrate it, reset it first if asked, and fill it with the *)
(* baseline data.  Workers, each in a worktree and perhaps in a lane, run  *)
(* the tool on the database their settings name; a run may be interrupted  *)
(* before any statement.                                                   *)
(*                                                                         *)
(* What a statement does to tables, and what of a migration an interrupt   *)
(* undoes, is the database's and the migration library's: with Postgres a  *)
(* whole upgrade or downgrade is one transaction, with SQLite every        *)
(* statement of a migration stands by itself.  Columns and their types,    *)
(* two runs on one database at once, and a server that writes during a     *)
(* run, are left out.                                                      *)
(***************************************************************************)
EXTENDS Naturals, Sequences, FiniteSets, FiniteSetsExt, SequencesExt

CONSTANTS
    Postgres,  \* whether the database is Postgres, else it is SQLite
    Workers,
    Worktree,  \* Worktree[w]: [name, digest], letters of the directory's name, digest of its path
    Lane,      \* Lane[w]: the letters of IRON_COUNCIL_DB_LANE, <<>> if it is not set
    EnvName,   \* EnvName[w]: the letters of the database's name in DATABASE_URL, <<>> if it is not set
    FileName,  \* FileName[w]: the same of the worktree's env file
    Limit,     \* how long a name can be
    Found,     \* the versions an older release can have left a database at
    MaxRuns,   \* bound: runs under way at once
    MaxCrashes \* bound

\* The limits are numbers, and releases had versions up to the newest.
ProvisioningAssumption ==
    /\ Postgres \in BOOLEAN
    /\ Limit \in Nat \ {0} /\ MaxRuns \in Nat /\ MaxCrashes \in Nat
    /\ Found \subseteq 0..5

VARIABLES
    db,      \* db[n]: what is committed in the database named n
    run,     \* run[w]: the tool w has started, or Idle
    last,    \* history: who took the last step, and how that run ended if it did
    crashes

vars == <<db, run, last, crashes>>

-----------------------------------------------------------------------------
(* Names.                                                                  *)

Small == [A |-> "a", B |-> "b"]

\* A letter stays, a capital becomes small, and whatever else is a separator.
Slugged(c) ==
    IF c \in DOMAIN Small THEN Small[c] ELSE IF c \in {"-", " ", "!", "_"} THEN "_" ELSE c

StripEnd(s) == SubSeq(s, 1, Max({0} \cup {i \in DOMAIN s : s[i] # "_"}))

\* _slugify_identifier: separators are joined, and none stands at either end.
SlugifyIdentifier(s) ==
    StripEnd(FoldLeft(LAMBDA t, c : IF Slugged(c) = "_" /\ (t = <<>> \/ Last(t) = "_") THEN t
                                    ELSE Append(t, Slugged(c)), <<>>, s))

\* _limit_identifier_length
LimitIdentifierLength(s) == StripEnd(SubSeq(s, 1, Min({Limit, Len(s)})))

PathIdentity(w) == SlugifyIdentifier(Worktree[w].name) \o <<"_">> \o Worktree[w].digest

LaneSuffix(w) ==
    LET lane == SlugifyIdentifier(Lane[w])
    IN  IF lane = <<>> THEN <<>> ELSE <<"_">> \o lane

\* _build_worktree_identity
WorktreeIdentity(w) == LimitIdentifierLength(PathIdentity(w) \o LaneSuffix(w))

\* get_settings: the environment's value, else the env file's, else the default.
ConfiguredName(w) ==
    IF EnvName[w] # <<>> THEN EnvName[w]
    ELSE IF FileName[w] # <<>> THEN FileName[w] ELSE << "i", "_", "c" >>

BaseName(w) == SlugifyIdentifier(ConfiguredName(w)) \o <<"_">>

\* derive_worktree_database_url: a SQLite file is taken as it is configured.
DatabaseOf == [w \in Workers |->
    IF Postgres THEN LimitIdentifierLength(BaseName(w) \o WorktreeIdentity(w)) ELSE ConfiguredName(w)]

Databases == Range(DatabaseOf)

-----------------------------------------------------------------------------
(* The schema: the tables with what their rows refer to, and the indexes,  *)
(* once as the migrations make them and once as the models declare them.   *)

Table(name, refs) == [kind |-> "table", name |-> name, refs |-> refs]
Index(name, column) == [kind |-> "index", name |-> name, column |-> column]

InitialSchema ==
    << Table("matches", {}), Table("api_keys", {}),
       Table("alliances", {"matches"}),
       Table("players", {"alliances", "api_keys", "matches"}),
       Table("messages", {"matches", "players"}),
       Table("treaties", {"matches", "players"}),
       Table("tick_log", {"matches"}),
       Index("api_keys", "user_id"), Index("players", "user_id") >>

MatchRatingSettlement ==
    << Table("match_settlements", {"matches"}),
       Table("player_match_settlements", {"api_keys", "matches", "players"}),
       Index("player_match_settlements", "match_id"),
       Index("player_match_settlements", "user_id"),
       Index("player_match_settlements", "api_key_id") >>

AgentEntitlementGrants ==
    << Table("agent_entitlement_grants", {}), Index("agent_entitlement_grants", "user_id") >>

OwnedAgentGuidance ==
    << Table("owned_agent_guidance", {"matches", "players"}),
       Index("owned_agent_guidance", "agent_player_id"),
       Index("owned_agent_guidance", "owner_user_id") >>

OwnedAgentOverrides ==
    << Table("owned_agent_overrides", {"matches", "players"}),
       Index("owned_agent_overrides", "agent_player_id"),
       Index("owned_agent_overrides", "owner_user_id") >>

Revisions == << InitialSchema, MatchRatingSettlement, AgentEntitlementGrants,
                OwnedAgentGuidance, OwnedAgentOverrides >>

\* What each revision's downgrade drops, in its order.

InitialSchemaDrops ==
    << Index("players", "user_id"), Index("api_keys", "user_id"),
       Table("tick_log", {}), Table("treaties", {}), Table("messages", {}),
       Table("players", {}), Table("alliances", {}), Table("api_keys", {}),
       Table("matches", {}) >>

MatchRatingSettlementDrops ==
    << Index("player_match_settlements", "api_key_id"),
       Index("player_match_settlements", "user_id"),
       Index("player_match_settlements", "match_id"),
       Table("player_match_settlements", {}), Table("match_settlements", {}) >>

AgentEntitlementGrantsDrops ==
    << Index("agent_entitlement_grants", "user_id"), Table("agent_entitlement_grants", {}) >>

OwnedAgentGuidanceDrops ==
    << Index("owned_agent_guidance", "owner_user_id"),
       Index("owned_agent_guidance", "agent_player_id"), Table("owned_agent_guidance", {}) >>

OwnedAgentOverridesDrops ==
    << Index("owned_agent_overrides", "owner_user_id"),
       Index("owned_agent_overrides", "agent_player_id"), Table("owned_agent_overrides", {}) >>

Dropped == << InitialSchemaDrops, MatchRatingSettlementDrops, AgentEntitlementGrantsDrops,
              OwnedAgentGuidanceDrops, OwnedAgentOverridesDrops >>

Newest == Len(Revisions)

Match == {Table("matches", {})}
ApiKey == {Table("api_keys", {}), Index("api_keys", "user_id")}
AgentEntitlementGrant ==
    {Table("agent_entitlement_grants", {}), Index("agent_entitlement_grants", "user_id")}
Alliance == {Table("alliances", {"matches"})}
Player ==
    {Table("players", {"matches", "api_keys", "alliances"}), Index("players", "user_id")}
MatchSettlement == {Table("match_settlements", {"matches"})}
PlayerMatchSettlement ==
    {Table("player_match_settlements", {"players", "matches", "api_keys"})}
        \cup {Index("player_match_settlements", c) : c \in {"match_id", "user_id", "api_key_id"}}
Message == {Table("messages", {"matches", "players"})}
GuidanceModel ==
    {Table("owned_agent_guidance", {"matches", "players"})}
        \cup {Index("owned_agent_guidance", c) : c \in {"owner_user_id", "agent_player_id"}}
OwnedAgentOverride ==
    {Table("owned_agent_overrides", {"matches", "players"})}
        \cup {Index("owned_agent_overrides", c) : c \in {"owner_user_id", "agent_player_id"}}
Treaty == {Table("treaties", {"matches", "players"})}
TickLog == {Table("tick_log", {"matches"})}

Models == UNION {Match, ApiKey, AgentEntitlementGrant, Alliance, Player, MatchSettlement,
                 PlayerMatchSettlement, Message, GuidanceModel, OwnedAgentOverride,
                 Treaty, TickLog}

TableNames == {t.name : t \in {x \in Models : x.kind = "table"}}

-----------------------------------------------------------------------------
(* Rows: [table, id, refs], refs the rows <<table, id>> it refers to.      *)

Row(table, id, refs) == [table |-> table, id |-> id, refs |-> refs]

\* Users are rows of no table.
GrantRows == {Row("agent_entitlement_grants", u, {}) : u \in 1..3}
MatchRows == {Row("matches", m, {}) : m \in 1..2}
KeyRows == {Row("api_keys", k, {}) : k \in 1..3}
AllianceRows == {Row("alliances", 1, {<<"matches", 1>>})}
PlayerRows ==
    {Row("players", p, {<<"matches", 1>>, <<"api_keys", p>>}
                           \cup (IF p < 3 THEN {<<"alliances", 1>>} ELSE {})) : p \in 1..3}
MessageRows == {Row("messages", 1, {<<"matches", 1>>, <<"players", 1>>})}
TreatyRows == {Row("treaties", 1, {<<"matches", 1>>, <<"players", 1>>, <<"players", 3>>})}
TickLogRows == {Row("tick_log", 1, {<<"matches", 1>>})}

\* seed_database's inserts, in its order.
SeedRows == << GrantRows, MatchRows, KeyRows, AllianceRows, PlayerRows, MessageRows,
               TreatyRows, TickLogRows >>

\* What seed_database empties, in its order.
Emptied == << "owned_agent_overrides", "owned_agent_guidance", "messages", "treaties",
              "tick_log", "player_match_settlements", "match_settlements", "players",
              "alliances", "agent_entitlement_grants", "api_keys", "matches" >>

\* What a server leaves behind: a lobby with a human in it, or a tick, a whisper to
\* an agent, an override and the settlement of the match that was seeded.
PlayedRows ==
    { {Row("matches", 3, {}), Row("players", 4, {<<"matches", 3>>})},
      {Row("tick_log", 2, {<<"matches", 1>>}), Row("match_settlements", 1, {<<"matches", 1>>}),
       Row("owned_agent_guidance", 1, {<<"matches", 1>>, <<"players", 2>>}),
       Row("owned_agent_overrides", 1, {<<"matches", 1>>, <<"players", 2>>}),
       Row("player_match_settlements", 1,
           {<<"matches", 1>>, <<"players", 2>>, <<"api_keys", 2>>})} }

-----------------------------------------------------------------------------
(* Statements, and what the database does with them.  Postgres enforces    *)
(* references; SQLite does not unless it is asked to.                      *)

Create(x) == [do |-> "create", what |-> x]
Drop(x) == [do |-> "drop", what |-> x]
Stamp(v) == [do |-> "stamp", what |-> v]
Empty(t) == [do |-> "empty", what |-> t]
Insert(rs) == [do |-> "insert", what |-> rs]
Versions == [do |-> "versions", what |-> {}]
Commit == [do |-> "commit", what |-> {}]

Tables(d) == {x \in d.schema : x.kind = "table"}
Named(d, x) == {y \in d.schema : y.kind = x.kind /\ y.name = x.name
                                 /\ (x.kind = "index" => y.column = x.column)}
HasTable(d, t) == \E x \in Tables(d) : x.name = t
HasRow(d, ref) == \E r \in d.rows : <<r.table, r.id>> = ref

Allowed(d, q) ==
    CASE q.do = "create" ->
           /\ Named(d, q.what) = {}
           /\ q.what.kind = "index" => HasTable(d, q.what.name)
           /\ Postgres /\ q.what.kind = "table" => \A t \in q.what.refs : HasTable(d, t)
      [] q.do = "drop" ->
           /\ Named(d, q.what) # {}
           /\ Postgres /\ q.what.kind = "table"
                => \A x \in Tables(d) : x.name # q.what.name => q.what.name \notin x.refs
      [] q.do \in {"versions", "stamp"} -> TRUE
      [] q.do = "empty" ->
           /\ HasTable(d, q.what)
           /\ Postgres => \A r \in d.rows : \A ref \in r.refs :
                             r.table # q.what => ref[1] # q.what
      [] q.do = "insert" -> \A r \in q.what :
           /\ HasTable(d, r.table)
           /\ ~HasRow(d, <<r.table, r.id>>)
           /\ Postgres => \A ref \in r.refs : HasRow(d, ref)

Applied(d, q) ==
    CASE q.do = "create" -> [d EXCEPT !.schema = @ \cup {q.what}]
      [] q.do = "drop" ->
           IF q.what.kind = "index" THEN [d EXCEPT !.schema = @ \ Named(d, q.what)]
           ELSE [d EXCEPT !.schema = {x \in @ : x.name # q.what.name},
                          !.rows = {r \in @ : r.table # q.what.name}]
      [] q.do = "versions" -> [d EXCEPT !.versioned = TRUE]
      [] q.do = "stamp" -> [d EXCEPT !.version = q.what]
      [] q.do = "empty" -> [d EXCEPT !.rows = {r \in @ : r.table # q.what}]
      [] q.do = "insert" -> [d EXCEPT !.rows = @ \cup q.what]

Each(Op(_), s) == [i \in DOMAIN s |-> Op(s[i])]

\* command.upgrade to the newest revision, and command.downgrade to none: a table
\* for the version, then revision by revision.
Upgrade(d) ==
    <<Versions>> \o FlattenSeq([i \in 1..(Newest - d.version) |->
        Append(Each(Create, Revisions[d.version + i]), Stamp(d.version + i))]) \o <<Commit>>
Downgrade(d) ==
    <<Versions>> \o FlattenSeq([i \in 1..d.version |->
        Append(Each(Drop, Dropped[d.version + 1 - i]), Stamp(d.version - i))]) \o <<Commit>>
Seed == Each(Empty, Emptied) \o Each(Insert, SeedRows) \o <<Commit>>

-----------------------------------------------------------------------------
(* The tool.  A run has steps to go; the step it is in has statements to   *)
(* go, and works on a copy of the database where it is one transaction.    *)

Absent == [exists |-> FALSE, versioned |-> FALSE, version |-> 0, schema |-> {}, rows |-> {}]

\* A database that a release with the first v revisions migrated.
Left(v) ==
    [exists |-> TRUE, versioned |-> v > 0, version |-> v, rows |-> {},
     schema |-> UNION {ToSet(Revisions[i]) : i \in 1..v}]

Baseline == [Left(Newest) EXCEPT !.schema = Models, !.rows = UNION ToSet(SeedRows)]

Idle == [steps |-> <<>>, todo |-> <<>>, work |-> Absent]

Init ==
    /\ db \in [Databases -> {Absent} \cup {Left(v) : v \in Found}]
    /\ run = [w \in Workers |-> Idle]
    /\ last = [by |-> "nobody", outcome |-> "none"]
    /\ crashes = 0

Note(w, outcome) == last' = [by |-> w, outcome |-> outcome]

\* main and provision_seeded_database.
Provision(w, command) ==
    /\ \A v \in Workers : DatabaseOf[v] = DatabaseOf[w] => run[v] = Idle
    /\ Cardinality({v \in Workers : run[v] # Idle}) < MaxRuns
    /\ run' = [run EXCEPT ![w].steps = << "ensure", command, "seed" >>]
    /\ Note(w, "started")
    /\ UNCHANGED <<db, crashes>>

\* w is between two statements, and this is its next step.
AtStep(w, step) == run[w].steps # <<>> /\ run[w].todo = <<>> /\ Head(run[w].steps) = step

EnsureDatabaseExists(w) ==
    /\ AtStep(w, "ensure")
    /\ db' = [db EXCEPT ![DatabaseOf[w]].exists = TRUE]
    /\ run' = [run EXCEPT ![w].steps = Tail(@)]
    /\ Note(w, "going")
    /\ UNCHANGED crashes

\* prepare_test_database: a reset of what was never migrated is an upgrade.
PrepareTestDatabase(w) ==
    /\ \/ AtStep(w, "setup")
       \/ AtStep(w, "reset")
    /\ LET down == Head(run[w].steps) = "reset" /\ db[DatabaseOf[w]].versioned
       IN  run' = [run EXCEPT ![w].steps =
                     (IF down THEN <<"downgrade", "upgrade">> ELSE <<"upgrade">>) \o Tail(@)]
    /\ Note(w, "going")
    /\ UNCHANGED <<db, crashes>>

\* A step connects, and what it does follows from the version it finds.
Begin(w) ==
    \E step \in {"upgrade", "downgrade", "seed"} :
        LET d == db[DatabaseOf[w]]
        IN  /\ AtStep(w, step)
            /\ run' = [run EXCEPT ![w].work = d,
                                  ![w].todo = CASE step = "upgrade" -> Upgrade(d)
                                                [] step = "downgrade" -> Downgrade(d)
                                                [] step = "seed" -> Seed]
            /\ Note(w, "going")
            /\ UNCHANGED <<db, crashes>>

Statement(w) == Head(run[w].todo)

\* Slip: migrations run outside a transaction.
AutoCommitAlways(w) == Head(run[w].steps) # "seed"

\* Whether each statement stands by itself, as SQLite's migrations do.
AutoCommit(w) == ~Postgres /\ Head(run[w].steps) # "seed"

Execute(w) ==
    /\ run[w].todo # <<>>
    /\ Statement(w) # Commit
    /\ Allowed(run[w].work, Statement(w))
    /\ run' = [run EXCEPT ![w].todo = Tail(@), ![w].work = Applied(@, Statement(w))]
    /\ db' = IF AutoCommit(w) THEN [db EXCEPT ![DatabaseOf[w]] = run'[w].work] ELSE db
    /\ Note(w, "going")
    /\ UNCHANGED crashes

\* The step ends, and with the last one the run.
Finish(w) ==
    /\ run[w].todo # <<>>
    /\ Statement(w) = Commit
    /\ db' = [db EXCEPT ![DatabaseOf[w]] = run[w].work]
    /\ run' = [run EXCEPT ![w] = [Idle EXCEPT !.steps = Tail(run[w].steps)]]
    /\ Note(w, IF run'[w] = Idle THEN "done" ELSE "going")
    /\ UNCHANGED crashes

\* A statement the database refuses ends the run; an open transaction is undone.
Refused(w) ==
    /\ run[w].todo # <<>>
    /\ Statement(w) # Commit
    /\ ~Allowed(run[w].work, Statement(w))
    /\ run' = [run EXCEPT ![w] = Idle]
    /\ Note(w, "failed")
    /\ UNCHANGED <<db, crashes>>

Interrupt(w) ==
    /\ run[w] # Idle /\ crashes < MaxCrashes
    /\ run' = [run EXCEPT ![w] = Idle]
    /\ crashes' = crashes + 1
    /\ Note(w, "interrupted")
    /\ UNCHANGED db

\* A server of this release runs on the database, whose tables it all reads when it
\* starts, and leaves rows.
Play(w) ==
    /\ \A v \in Workers : DatabaseOf[v] = DatabaseOf[w] => run[v] = Idle
    /\ \A t \in TableNames : HasTable(db[DatabaseOf[w]], t)
    /\ \E rs \in PlayedRows :
        /\ \A r \in rs, ref \in UNION {x.refs : x \in rs} :
             HasRow(db[DatabaseOf[w]], ref) \/ \E x \in rs : <<x.table, x.id>> = ref
        /\ db' = [db EXCEPT ![DatabaseOf[w]].rows = @ \cup rs]
    /\ Note(w, "played")
    /\ UNCHANGED <<run, crashes>>

Next == \E w \in Workers :
    \/ \E command \in {"setup", "reset"} : Provision(w, command)
    \/ EnsureDatabaseExists(w)
    \/ PrepareTestDatabase(w)
    \/ Begin(w)
    \/ Execute(w)
    \/ Finish(w)
    \/ Refused(w)
    \/ Interrupt(w)
    \/ Play(w)

Spec == Init /\ [][Next]_vars

\* A run that was started goes on to its next statement.
FairSpec == Spec /\ \A w \in Workers :
    WF_vars(EnsureDatabaseExists(w) \/ PrepareTestDatabase(w) \/ Begin(w) \/ Execute(w)
            \/ Finish(w) \/ Refused(w))

-----------------------------------------------------------------------------
(* Properties.                                                             *)

\* Type: databases keep what migrations and seeds put there, and a run has steps.
ProvisioningTypeOK ==
    /\ \A n \in Databases :
         /\ db[n].exists \in BOOLEAN /\ db[n].versioned \in BOOLEAN
         /\ db[n].version \in 0..Newest
         /\ db[n].schema \subseteq Models
         /\ \A r \in db[n].rows : HasTable(db[n], r.table)
    /\ \A w \in Workers :
         Range(run[w].steps) \subseteq {"ensure", "setup", "reset", "downgrade", "upgrade", "seed"}
    /\ crashes \in 0..MaxCrashes

\* A setup or a reset that ends without an error leaves the tables and indexes that
\* the models declare, at the newest version, with the baseline's rows and no other:
\* from whatever release, whatever was played, and whatever was interrupted before.
DoneIsBaseline == last.outcome = "done" => db[DatabaseOf[last.by]] = Baseline

\* A run that ends without an error leaves the baseline's rows and no other, even
\* where an interrupt left parts of a migration behind: the baseline's rows are put
\* there at once.
DoneHasBaselineRows ==
    last.outcome = "done" => db[DatabaseOf[last.by]].rows = Baseline.rows

\* Every row that is committed refers to rows that are there, although SQLite would
\* not mind: tables are emptied, dropped and filled in an order that keeps it so.
ReferencesHold ==
    \A n \in Databases : \A r \in db[n].rows : \A ref \in r.refs : HasRow(db[n], ref)

\* What is committed in a database is what its version says, and it never has a
\* part of a revision.
NothingHalfDone ==
    \A n \in Databases : /\ db[n].exists => db[n] = [Left(db[n].version) EXCEPT !.rows = db[n].rows,
                                                          !.versioned = db[n].versioned]
                         /\ db[n].version > 0 => db[n].versioned

\* No run ends with an error, so that reset again is all it takes after an
\* interrupt ("Ensure reruns converge to the same known-good state").
RerunsSucceed == last.outcome # "failed"

\* What tells v's database from w's: the digest of the path for two worktrees, the lane behind
\* it for two lanes of one.  A name is cut at its end, so it tells what fits.
TellsApart(v, w) ==
    LET told == BaseName(v) \o PathIdentity(v)
                    \o IF Worktree[v] = Worktree[w] THEN LaneSuffix(v) ELSE <<>>
    IN  Len(told) <= Limit

Strangers(v, w) ==
    /\ Postgres
    /\ Worktree[v] # Worktree[w] \/ LaneSuffix(v) # LaneSuffix(w)
    /\ TellsApart(v, w) /\ TellsApart(w, v)

\* What a worker's Postgres database holds is not changed by a worker of another worktree or
\* lane, as long as what tells their names apart is not cut off.
OwnDoingOnly ==
    \A v, w \in Workers :
        Strangers(v, w) /\ last'.by = v => db'[DatabaseOf[w]] = db[DatabaseOf[w]]

LanesApart == [][OwnDoingOnly]_vars
=============================================================================
