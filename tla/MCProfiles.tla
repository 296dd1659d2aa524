----------------------------- MODULE MCProfiles -----------------------------
(***************************************************************************)
(* The people and agents of several matches.  The module itself is Ratings *)
(* for two people and the agent of one of them, on boards on which an      *)
(* alliance wins with unequal members, one player wins against an          *)
(* alliance, and one wins alone; and PublicReads for what visitors see of  *)
(* one match, or of two short ones.  Beside them are instances of          *)
(* Profiles, as whom people play and with what reputation.                 *)
(* A behaviour is one of a single part, and the others rest.               *)
(***************************************************************************)
EXTENDS Ratings, PublicReads, TLC

CONSTANTS ann, bob, key1, key2, m1, m2, red

VARIABLES
    part,                                           \* the part that moves
    key, lobby, record, cache, told,                \* Lobby's
    treatyRow, pacts                                \* Profiles'

profileVars == <<key, lobby, record, cache, told, treatyRow, pacts>>
allVars == <<part, profileVars, ratingVars, pageVars>>

-----------------------------------------------------------------------------
(* Profiles.  A running match was provisioned with an agent that has an id *)
(* of its own and a person, or with two persons.                           *)

Started(ws) == [status |-> "active", creator |-> None,
                players |-> {[who |-> ws[i], index |-> i] : i \in DOMAIN ws}]

Full == INSTANCE Profiles WITH
    row <- lobby,
    Users <- {ann, bob}, Keys <- {key1, key2}, SeededKeys <- {key1},
    Owner <- (key1 :> ann) @@ (key2 :> bob), Allowance <- (ann :> 2) @@ (bob :> 2),
    Matches <- {m1}, Provisioned <- m1 :> Started(<<bob, key1, ann>>),
    MaxPlayers <- 3, MaxRows <- 2, MaxSigned <- 2, MaxPacts <- 1

Growing == INSTANCE Profiles WITH
    row <- lobby,
    Users <- {ann, bob}, Keys <- {key1, key2}, SeededKeys <- {key1},
    Owner <- (key1 :> ann) @@ (key2 :> bob), Allowance <- (ann :> 2) @@ (bob :> 2),
    Matches <- {m1, m2},
    Provisioned <- (m1 :> Started(<<key1, bob>>)) @@ (m2 :> Full!NoRow),
    MaxPlayers <- 2, MaxRows <- 2, MaxSigned <- 1, MaxPacts <- 0

-----------------------------------------------------------------------------
(* The boards of Ratings, and the names visitors see: a person and an      *)
(* agent share one.                                                        *)

MCOwner == key1 :> ann

Board(alliance, cities, since) ==
    [alliance |-> alliance, cities |-> cities, since |-> since, tick |-> 4, formed |-> red :> 0]
Three(x, y, z) == (ann :> x) @@ (bob :> y) @@ (key1 :> z)

MCFinals == {
    Board(Three(red, None, red), Three(1, 2, 3), Three(3, 0, 1)),
    Board(Three(red, red, None), Three(3, 0, 2), Three(0, 4, 0)),
    Board(Three(red, red, None), Three(1, 1, 4), Three(2, 0, 0)),
    Board(Three(None, None, None), Three(2, 3, 1), Three(0, 0, 0))}

MCName == (ann :> 2) @@ (bob :> 1) @@ (key1 :> 1)

\* Two short matches: of two players, over with the first tick, and at one time.
ShortMatches ==
    /\ clock' = 0
    /\ \A m \in MatchIds :
           /\ {p.who : p \in row'[m].players} \subseteq {bob, key1}
           /\ row'[m].tick = IF row'[m].status = "completed" THEN 1 ELSE 0

ASSUME /\ Full!LobbyAssumption /\ Growing!LobbyAssumption
       /\ Full!ProfilesAssumption /\ Growing!ProfilesAssumption
       /\ RatingsAssumption /\ PublicReadsAssumption

-----------------------------------------------------------------------------
NoProfiles ==
    /\ key = <<>> /\ lobby = <<>> /\ record = <<>> /\ cache = {} /\ told = {}
    /\ treatyRow = {} /\ pacts = <<>>

MCInit ==
    /\ RatingsInit /\ PagesInit
    /\ \/ part = "full" /\ Full!ProfilesInit
       \/ part = "growing" /\ Growing!ProfilesInit
       \/ part \in {"ratings", "one match", "two matches"} /\ NoProfiles

MCNext ==
    /\ UNCHANGED part
    /\ \/ /\ \/ part = "full" /\ Full!ProfilesNext
             \/ part = "growing" /\ Growing!ProfilesNext
          /\ UNCHANGED <<ratingVars, pageVars>>
       \/ part = "ratings" /\ RatingsNext /\ UNCHANGED <<profileVars, pageVars>>
       \/ /\ PagesNext
          /\ \/ part = "one match" /\ row'[2] = NoRow
             \/ part = "two matches" /\ ShortMatches
          /\ UNCHANGED <<profileVars, ratingVars>>

MCSpec == MCInit /\ [][MCNext]_allVars

-----------------------------------------------------------------------------
(* The properties of the parts.                                            *)

\* Keys, rows, records, ratings and pages keep their shapes.
TypeOK == (part = "full" => Full!ProfilesTypeOK) /\ RatingsTypeOK /\ PagesTypeOK

\* Every treaty row is in the histories of exactly two competitors, in one state and with at
\* most one to blame, and over all profiles the treaties broken by oneself are as many as those
\* broken by the other.
BooksBalance == part = "full" => Full!BooksBalance

\* A match's record and a profile agree on who broke a treaty, read from the same row by two
\* queries with different notions of a party.
BlameAgrees == part = "full" => Full!BlameAgrees

\* An agent goes by one id: the one its requests are carried out under, by the cache or by the
\* database, is the one rosters name, has a profile once the agent has played, and belongs to
\* the key's owner alone.
OneIdentity == part = "growing" => Growing!OneIdentity

\* What a profile has shown stays: no treaty leaves a history or changes who is to blame, and
\* one that was honored was in force till its match ended.
ReputationStands == [][part = "growing" => Growing!HistoriesGoOn]_allVars

\* Whoever is asked, an agent goes by one id, and its reputation is the same story from both
\* sides and never rewritten.
ReputationsRight == [](TypeOK /\ BooksBalance /\ BlameAgrees /\ OneIdentity) /\ ReputationStands
=============================================================================
