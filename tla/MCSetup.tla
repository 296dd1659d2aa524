------------------------------ MODULE MCSetup ------------------------------
(***************************************************************************)
(* What is set up before anybody plays.  The module itself is Lobby, who   *)
(* may be in which match, for two people and the two agents of one of      *)
(* them; and StartingCities for two or three players with two cities each, *)
(* on every map whose edges are among those of a small grid, with one city *)
(* that is no legal start.  Beside them are instances of Provisioning, the *)
(* databases: one worker on a database any release can have left, on       *)
(* Postgres or SQLite; two lanes of one worktree whose runs overlap, with  *)
(* names that just fit; and two worktrees of one name, one of them with    *)
(* two lanes, whose names are cut behind the worktree, so that the lanes   *)
(* share a database.  A behaviour is one of a single part, and the others  *)
(* rest.                                                                   *)
(***************************************************************************)
EXTENDS Lobby, StartingCities, TLC

CONSTANTS ann, bob, key1, key2

\* ann has two agents, bob, without a grant, plays in person.
CrowdOwner == (key1 :> ann) @@ (key2 :> ann)
CrowdAllowance == (ann :> 1) @@ (bob :> 0)

Grid == {{1, 2}, {2, 3}, {1, 4}, {2, 5}, {3, 6}, {4, 5}, {5, 6}, {6, 7}}
AllMaps == SUBSET Grid

Entry(p, cs) == [player |-> p, cities |-> cs]

TwoPlayers ==
    {<<Entry(1, Unassigned), Entry(2, Unassigned)>>, <<Entry(1, Unassigned), Entry(1, Unassigned)>>, <<>>,
     <<Entry(1, Unassigned), Entry(2, Unassigned), Entry(3, Unassigned)>>}
    \cup {<<Entry(1, Unassigned), Entry(2, <<c, d>>)>> : c, d \in {2, 3, 5, 7}}
    \cup {<<Entry(1, <<1, c>>), Entry(2, <<4, d>>)>> : c, d \in {3, 5, 6}}
    \cup {<<Entry(2, <<5>>), Entry(1, Unassigned)>>}

VARIABLES
    part,                    \* the part that moves
    db, run, last, crashes   \* Provisioning's

dbVars == <<db, run, last, crashes>>
allVars == <<part, vars, assignVars, dbVars>>

-----------------------------------------------------------------------------
(* Databases.  The neighbours configure the default's name in their own    *)
(* ways.                                                                   *)

MCWorktree ==
    [alone |-> [name |-> <<"a", "-", "b">>, digest |-> <<"1">>],
     first |-> [name |-> <<"A", " ", "b">>, digest |-> <<"1">>],
     laned |-> [name |-> <<"A", " ", "b">>, digest |-> <<"1">>],
     other |-> [name |-> <<"a", "-", "b">>, digest |-> <<"2">>]]

MCLane == [alone |-> <<>>, first |-> <<>>, laned |-> <<"B">>, other |-> <<>>]
MCEnv == [alone |-> <<>>, first |-> <<>>, laned |-> <<"i", "-", "c">>, other |-> <<>>]
MCFile == [alone |-> <<>>, first |-> <<>>, laned |-> <<"b">>, other |-> <<"i", "_", "c">>]

\* One worker and a database of any release, with interrupts.
OnPostgres == INSTANCE Provisioning WITH
    Postgres <- TRUE, Workers <- {"alone"}, Worktree <- MCWorktree, Lane <- MCLane,
    EnvName <- MCEnv, FileName <- MCFile, Limit <- 12, Found <- 0..5, MaxRuns <- 1, MaxCrashes <- 2

OnSqlite == INSTANCE Provisioning WITH
    Postgres <- FALSE, Workers <- {"alone"}, Worktree <- MCWorktree, Lane <- MCLane,
    EnvName <- MCEnv, FileName <- MCFile, Limit <- 12, Found <- 0..5, MaxRuns <- 1, MaxCrashes <- 1

\* The same, not interrupted.
Unbroken == INSTANCE Provisioning WITH
    Postgres <- FALSE, Workers <- {"alone"}, Worktree <- MCWorktree, Lane <- MCLane,
    EnvName <- MCEnv, FileName <- MCFile, Limit <- 12, Found <- 0..5, MaxRuns <- 1, MaxCrashes <- 0

\* Two lanes of one worktree, at work at once; the longer name just fits.
Lanes == INSTANCE Provisioning WITH
    Postgres <- TRUE, Workers <- {"first", "laned"}, Worktree <- MCWorktree, Lane <- MCLane,
    EnvName <- MCEnv, FileName <- MCFile, Limit <- 11, Found <- {}, MaxRuns <- 2, MaxCrashes <- 0

\* These two, whose names are now cut to the same, and a worktree of the same name.
Worktrees == INSTANCE Provisioning WITH
    Postgres <- TRUE, Workers <- {"first", "laned", "other"}, Worktree <- MCWorktree, Lane <- MCLane,
    EnvName <- MCEnv, FileName <- MCFile, Limit <- 10, Found <- {}, MaxRuns <- 1, MaxCrashes <- 0

ASSUME /\ OnPostgres!ProvisioningAssumption /\ OnSqlite!ProvisioningAssumption
       /\ Unbroken!ProvisioningAssumption
       /\ Lanes!ProvisioningAssumption /\ Worktrees!ProvisioningAssumption

-----------------------------------------------------------------------------
DbAtRest ==
    db = <<>> /\ run = <<>> /\ last = [by |-> "nobody", outcome |-> "none"] /\ crashes = 0

CitiesAtRest ==
    /\ edges = {} /\ roster = <<>> /\ phase = "failed" /\ entry = 1
    /\ owner = [c \in Cities |-> Unassigned] /\ assigned = [p \in Players |-> <<>>]
    /\ trail = <<>> /\ candidate = 0

MCInit ==
    /\ Init
    /\ \/ part = "crowd" /\ CitiesAtRest /\ DbAtRest
       \/ part = "cities" /\ AssignInit /\ DbAtRest
       \/ part = "postgres" /\ OnPostgres!Init /\ CitiesAtRest
       \/ part = "sqlite" /\ OnSqlite!Init /\ CitiesAtRest
       \/ part = "unbroken" /\ Unbroken!Init /\ CitiesAtRest
       \/ part = "lanes" /\ Lanes!Init /\ CitiesAtRest
       \/ part = "worktrees" /\ Worktrees!Init /\ CitiesAtRest

MCNext ==
    /\ UNCHANGED part
    /\ \/ part = "crowd" /\ Next /\ UNCHANGED <<assignVars, dbVars>>
       \/ part = "cities" /\ AssignNext /\ UNCHANGED <<vars, dbVars>>
       \/ /\ \/ part = "postgres" /\ OnPostgres!Next
             \/ part = "sqlite" /\ OnSqlite!Next
             \/ part = "unbroken" /\ Unbroken!Next
             \/ part = "lanes" /\ Lanes!Next /\ last'.outcome # "played"
             \/ part = "worktrees" /\ Worktrees!Next
          /\ UNCHANGED <<vars, assignVars>>

\* initialize_match_state is a plain function: it runs until it returns or raises.
MCSpec == MCInit /\ [][MCNext]_allVars /\ WF_allVars(part = "cities" /\ MCNext)

-----------------------------------------------------------------------------
(* The properties of the databases.                                        *)

\* Databases and runs keep their shapes.
DatabasesTypeOK ==
    /\ part = "postgres" => OnPostgres!ProvisioningTypeOK
    /\ part = "sqlite" => OnSqlite!ProvisioningTypeOK
    /\ part = "lanes" => Lanes!ProvisioningTypeOK

\* A setup or a reset on Postgres that ends without an error leaves the tables, indexes and
\* rows of the baseline and no other, from whatever release, whatever was played, and whatever
\* was interrupted before.
DoneIsBaseline == part = "postgres" => OnPostgres!DoneIsBaseline

\* What is committed in a Postgres database is what its version says, and never a part of a
\* revision.
NothingHalfDone == part = "postgres" => OnPostgres!NothingHalfDone

\* No run on Postgres ends with an error, so that setup or reset again is all it takes after an
\* interrupt.
RerunsSucceed == part = "postgres" => OnPostgres!RerunsSucceed

\* On SQLite, where each statement of a migration stands by itself, a run that ends without an
\* error leaves the baseline's rows and no other, even after an interrupt.
DoneHasBaselineRows == part = "sqlite" => OnSqlite!DoneHasBaselineRows

\* On SQLite, which does not enforce references, every committed row still refers to rows that
\* are there: tables are emptied, dropped and filled in an order that keeps it so.
ReferencesHold == part = "unbroken" => Unbroken!ReferencesHold

\* What a worker's Postgres database holds is not changed by another lane of its worktree, or by
\* a worktree of the same name, at work beside it or after it; but for lanes whose names are cut
\* to the same, which share a database.
LanesApart ==
    [][/\ part = "lanes" => Lanes!OwnDoingOnly
       /\ part = "worktrees" => Worktrees!OwnDoingOnly]_allVars

\* Whatever release, play or interrupt left behind, setting up gives the baseline on Postgres,
\* on SQLite its rows, and touches no database of another worktree or lane, if their names fit.
SetupGivesBaseline ==
    /\ [](/\ DatabasesTypeOK /\ DoneIsBaseline /\ NothingHalfDone /\ RerunsSucceed
         /\ DoneHasBaselineRows /\ ReferencesHold)
    /\ LanesApart
=============================================================================
