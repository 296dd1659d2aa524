---------------------------- MODULE PublicReads ----------------------------
(***************************************************************************)
(* The public pages: the list of open and running matches, the page of     *)
(* one match, the list of completed matches, a match's history and the     *)
(* replay of a tick.  Each is put together from the rows as they are when  *)
(* it is asked for; a visitor goes from one to the next by the links while *)
(* the matches move on.                                                    *)
(*                                                                         *)
(* Every page is one synchronous handler of the event loop, and so are the *)
(* writes; they do not overlap.  Only the database-backed pages are here:  *)
(* without a database the registry starts empty and nothing fills it.      *)
(* No code pauses a match.  Init and Next have names of their own, so that *)
(* the module can be extended along with RateLimit or Ratings.             *)
(***************************************************************************)
EXTENDS Integers, Sequences, FiniteSets, Functions

CONSTANTS
    MatchIds,    \* numbers, for lists are sorted by them in the end
    People, Agents,
    Name,        \* Name[c]: the display name of c, as its place in the order of names
    MaxPlayers,  \* the seats of a lobby
    MaxTick,     \* bound: every match is over by then
    MaxClock     \* bound: the clock shows no later time

Players == People \cup Agents

\* Matches are numbered, and nobody is both a person and an agent.
PublicReadsAssumption ==
    /\ MatchIds \subseteq Nat /\ IsFiniteSet(MatchIds)
    /\ People \cap Agents = {}
    /\ Name \in [Players -> Nat]
    /\ MaxPlayers \in Nat \ {0, 1} /\ MaxTick \in Nat \ {0} /\ MaxClock \in Nat

VARIABLES
    row,   \* row[m]: the row of m, its player rows, and its tick log; overdrawn if a stock
           \* in its state is negative; history: who won
    clock, \* the time
    page,  \* the page the visitor has before it
    seen   \* history: seen[m]: how far m was when a page of before showed it last

pageVars == <<row, clock, page, seen>>

\* No alliance row, no winner.
NoId == <<>>

NoRow == [status |-> "none", tick |-> 0, overdrawn |-> FALSE, players |-> {}, updated |-> 0, log |-> {},
          winner |-> NoId, won |-> {}]

NotSeen == [status |-> "none", tick |-> 0, count |-> 0, roster |-> <<>>]

-----------------------------------------------------------------------------
(* What the writers leave behind.                                          *)

Passes == clock' \in {clock, clock + 1} /\ clock' <= MaxClock

Write(m, r) ==
    /\ row' = [row EXCEPT ![m] = r]
    /\ UNCHANGED <<page, seen>>

PlayerRow(c, index) == [who |-> c, index |-> index, alliance |-> NoId]

JoinIndex(r) == Cardinality(r.players) + 1

CreateMatch(m, c) ==
    /\ row[m].status = "none"
    /\ Passes
    /\ Write(m, [NoRow EXCEPT !.status = "lobby", !.updated = clock',
                              !.players = {PlayerRow(c, 1)}])

JoinMatch(m, c) ==
    /\ row[m].status = "lobby" /\ Cardinality(row[m].players) < MaxPlayers
    /\ c \notin {p.who : p \in row[m].players}
    /\ UNCHANGED clock
    /\ Write(m, [row[m] EXCEPT !.players = @ \cup {PlayerRow(c, JoinIndex(row[m]))}])

StartMatch(m) ==
    /\ row[m].status = "lobby" /\ Cardinality(row[m].players) >= 2
    /\ UNCHANGED clock
    /\ Write(m, [row[m] EXCEPT !.status = "active"])

\* Slip: the log names the tick the orders were for.
LoggedBefore(r, overdrawn) ==
    [r EXCEPT !.tick = @ + 1, !.log = @ \cup {r.tick}, !.overdrawn = overdrawn]

\* A tick writes state, tick and log in one transaction, with stocks as recruiting and building
\* leave them; the row's time stays.
Logged(r, overdrawn) ==
    [r EXCEPT !.tick = @ + 1, !.log = @ \cup {r.tick + 1}, !.overdrawn = overdrawn]

Tick(m) ==
    /\ row[m].status = "active" /\ row[m].tick + 1 < MaxTick
    /\ UNCHANGED clock
    /\ \E overdrawn \in BOOLEAN : Write(m, Logged(row[m], overdrawn))

\* The tick that ends a match: the allied get an alliance row, the winner is that of an
\* alliance or of the one who won alone.  The settlement in the same transaction reads the
\* state; were a stock in it negative, nothing would be written.
FinalTick(m, allied, winners) ==
    LET r == Logged(row[m], FALSE)
        id(ws) == IF Cardinality(ws) > 1 THEN <<"alliance", m>>
                  ELSE <<"player", m, (CHOOSE p \in r.players : {p.who} = ws).index>>
    IN  /\ row[m].status = "active" /\ row[m].tick < MaxTick
        /\ Passes
        /\ Write(m, [r EXCEPT !.status = "completed", !.updated = clock', !.won = winners,
                              !.winner = id(winners),
                              !.players = {IF p.who \in allied
                                           THEN [p EXCEPT !.alliance = <<"alliance", m>>] ELSE p :
                                           p \in @}])

Ends(m) ==
    LET ws == {p.who : p \in row[m].players}
    IN  \E allied \in {a \in SUBSET ws : Cardinality(a) # 1} :
            \/ allied # {} /\ FinalTick(m, allied, allied)
            \/ \E c \in ws \ allied : FinalTick(m, allied, {c})

-----------------------------------------------------------------------------
(* The answers.                                                            *)

\* Which player rows stand for a seat: none at all when two rows claim the same one.
SeatedRows(r) ==
    IF \E p, q \in r.players : p # q /\ p.index = q.index THEN {}
    ELSE {p \in r.players : p.index \in 1..MaxPlayers}

\* public_match_roster_sort_key: by name, people before agents, then by the row's id.
RosterBefore(p, q) ==
    LET kind(c) == IF c \in People THEN 0 ELSE 1
    IN  \/ Name[p.who] < Name[q.who]
        \/ Name[p.who] = Name[q.who] /\ kind(p.who) < kind(q.who)
        \/ Name[p.who] = Name[q.who] /\ kind(p.who) = kind(q.who) /\ p.index < q.index

Competitor(p) == [who |-> p.who, kind |-> IF p.who \in Agents THEN "agent" ELSE "human"]

\* The elements of a set in an order: sorted().
InOrder(S, Before(_, _)) ==
    CHOOSE s \in [1..Cardinality(S) -> S] : \A i, j \in 1..Cardinality(S) : i < j => Before(s[i], s[j])

CompetitorSummaries(rows) ==
    LET sorted == InOrder(rows, RosterBefore)
    IN  [i \in DOMAIN sorted |-> Competitor(sorted[i])]

\* The roster of a match's page leaves out a row that stands for no seat.
RosterRows(r) == CompetitorSummaries(r.players \cap SeatedRows(r))

MatchSummary(m) ==
    LET r == row[m]
    IN  [id |-> m, status |-> r.status, tick |-> r.tick, count |-> Cardinality(r.players),
         open |-> IF MaxPlayers > Cardinality(r.players) THEN MaxPlayers - Cardinality(r.players)
                  ELSE 0]

StatusPriority(status) == CASE status = "lobby" -> 0 [] status = "active" -> 1 [] OTHER -> 3

\* public_match_browse_sort_key: by status, the newest row first, then tick and id.
BrowseBefore(m, n) ==
    LET r == row[m] s == row[n]
    IN  \/ StatusPriority(r.status) < StatusPriority(s.status)
        \/ /\ StatusPriority(r.status) = StatusPriority(s.status)
           /\ \/ r.updated > s.updated
              \/ r.updated = s.updated /\ r.tick > s.tick
              \/ r.updated = s.updated /\ r.tick = s.tick /\ m < n

PublicMatches == {m \in MatchIds : row[m].status \in {"lobby", "active"}}

MatchList ==
    LET sorted == InOrder(PublicMatches, BrowseBefore)
    IN  [kind |-> "list", rows |-> [i \in DOMAIN sorted |-> MatchSummary(sorted[i])]]

NotFound(kind) == [kind |-> kind, code |-> "not_found"]

\* The page of a match, and it alone, validates the stored state: one with a negative stock is
\* an error of the server, though the page says nothing of stocks.
MatchDetail(m) ==
    IF m \notin PublicMatches THEN NotFound("detail")
    ELSE IF row[m].overdrawn THEN [kind |-> "detail", code |-> "error"]
    ELSE [kind |-> "detail", code |-> "ok", summary |-> MatchSummary(m), roster |-> RosterRows(row[m])]

WinnerRows(m, r) ==
    LET allied == {p \in r.players : p.alliance # NoId /\ p.alliance = r.winner}
    IN  IF allied # {} THEN allied ELSE {p \in r.players : <<"player", m, p.index>> = r.winner}

CompletedSummary(m) ==
    [id |-> m, status |-> "completed", tick |-> row[m].tick, count |-> Cardinality(row[m].players),
     winners |-> CompetitorSummaries(WinnerRows(m, row[m]))]

CompletedMatches == {m \in MatchIds : row[m].status = "completed"}

\* The newest first, then by tick and id.
CompletedBefore(m, n) ==
    \/ row[m].updated > row[n].updated
    \/ row[m].updated = row[n].updated /\ row[m].tick > row[n].tick
    \/ row[m].updated = row[n].updated /\ row[m].tick = row[n].tick /\ m < n

CompletedList ==
    LET sorted == InOrder(CompletedMatches, CompletedBefore)
    IN  [kind |-> "completed", rows |-> [i \in DOMAIN sorted |-> CompletedSummary(sorted[i])]]

MatchHistory(m) ==
    IF row[m].status = "none" THEN NotFound("history")
    ELSE [kind |-> "history", code |-> "ok", id |-> m, status |-> row[m].status, tick |-> row[m].tick,
          competitors |-> CompetitorSummaries(row[m].players), ticks |-> row[m].log]

ReplayTick(m, t) ==
    IF t \notin row[m].log THEN NotFound("replay")
    ELSE [kind |-> "replay", code |-> "ok", id |-> m, tick |-> t]

-----------------------------------------------------------------------------
(* The visitor.  What a page says of a match, where it says something.     *)

Told(p, m) ==
    CASE p.kind = "list" -> {[status |-> s.status, tick |-> s.tick, count |-> s.count,
                              roster |-> <<>>] : s \in {x \in Range(p.rows) : x.id = m}}
      [] p.kind = "completed" -> {[status |-> s.status, tick |-> s.tick, count |-> s.count,
                                   roster |-> <<>>] : s \in {x \in Range(p.rows) : x.id = m}}
      [] p.kind = "detail" /\ p.code = "ok" ->
             {[status |-> s.status, tick |-> s.tick, count |-> s.count, roster |-> p.roster] :
                 s \in {x \in {p.summary} : x.id = m}}
      [] p.kind = "history" /\ p.code = "ok" ->
             IF p.id # m THEN {}
             ELSE {[status |-> p.status, tick |-> p.tick, count |-> Len(p.competitors),
                    roster |-> p.competitors]}
      [] OTHER -> {}

Show(p) ==
    /\ page' = p
    /\ seen' = [m \in MatchIds |->
                   IF Told(page, m) = {} THEN seen[m]
                   ELSE LET t == CHOOSE t \in Told(page, m) : TRUE
                        IN  IF t.roster = <<>> THEN [t EXCEPT !.roster = seen[m].roster] ELSE t]
    /\ UNCHANGED <<row, clock>>

Linked(p) == {m \in MatchIds : Told(p, m) # {}}

\* From anywhere to the lists, from a list to what is in it, from a history to its ticks.
ListMatches == Show(MatchList)
ListCompleted == Show(CompletedList)
OpenMatch == \E m \in Linked(page) : page.kind = "list" /\ Show(MatchDetail(m))
OpenHistory == \E m \in Linked(page) : page.kind \in {"completed", "detail"} /\ Show(MatchHistory(m))
OpenReplay == page.kind = "history" /\ page.code = "ok" /\ \E t \in page.ticks : Show(ReplayTick(page.id, t))

PagesInit ==
    /\ row = [m \in MatchIds |-> NoRow]
    /\ clock = 0
    /\ page = [kind |-> "home"]
    /\ seen = [m \in MatchIds |-> NotSeen]

PagesNext ==
    \/ \E m \in MatchIds : \/ \E c \in Players : CreateMatch(m, c) \/ JoinMatch(m, c)
                          \/ StartMatch(m) \/ Tick(m) \/ Ends(m)
    \/ ListMatches \/ ListCompleted \/ OpenMatch \/ OpenHistory \/ OpenReplay

PagesSpec == PagesInit /\ [][PagesNext]_pageVars

-----------------------------------------------------------------------------
(* Properties.                                                             *)

PagesTypeOK ==
    /\ clock \in 0..MaxClock
    /\ \A m \in MatchIds :
           /\ row[m].status \in {"none", "lobby", "active", "completed"}
           /\ row[m].tick \in 0..MaxTick /\ row[m].log \subseteq 0..MaxTick
           /\ row[m].updated \in 0..clock /\ row[m].overdrawn \in BOOLEAN
           /\ \A p \in row[m].players : p.who \in Players /\ p.index \in 1..MaxPlayers
    /\ page.kind \in {"home", "list", "detail", "completed", "history", "replay"}

Progress == [none |-> 0, lobby |-> 1, active |-> 2, completed |-> 3]

\* Who is in the old roster is in the new one, and in the same order.
Continues(new, old) ==
    \A i, j \in DOMAIN old : i <= j =>
        \E k, l \in DOMAIN new : k <= l /\ new[k] = old[i] /\ new[l] = old[j]

\* From page to page a match never goes back: not in status, tick or players, whichever page
\* shows it next; and who was in a roster keeps the place among those who were.
NothingTakenBack ==
    \A m \in MatchIds : \A t \in Told(page, m) :
        LET old == seen[m]
        IN  /\ Progress[t.status] >= Progress[old.status]
            /\ t.tick >= old.tick /\ t.count >= old.count
            /\ t.roster # <<>> => Continues(t.roster, old.roster)

\* No link of a page goes stale, however long the visitor waits: a match that was listed has
\* a page of its own or is in the list of completed ones, and has its history; a history has
\* every tick since the first, and each can be replayed.  The page of its own is served, except
\* while the match is being played with a stock overdrawn.
LinksLead ==
    /\ \A m \in Linked(page) :
           /\ (MatchDetail(m).code # "not_found") # (\E s \in Range(CompletedList.rows) : s.id = m)
           /\ MatchDetail(m).code = "error" => row[m].status = "active" /\ row[m].overdrawn
           /\ MatchHistory(m).code = "ok"
    /\ page.kind = "history" => /\ page.ticks = 1..page.tick
                                /\ \A t \in page.ticks : ReplayTick(page.id, t).code = "ok"
    /\ page.kind = "replay" => page.code = "ok"

\* The page of a match names as many players as it counts, each once, and offers as many
\* places as a lobby will still give away.
RosterWhole ==
    page.kind = "detail" /\ page.code = "ok" =>
        LET s == page.summary
        IN  /\ Len(page.roster) = s.count
            /\ Cardinality({c.who : c \in Range(page.roster)}) = s.count
            /\ s.count + s.open = MaxPlayers

\* The list of completed matches names exactly those who won.
WinnersNamed ==
    page.kind = "completed" =>
        \A s \in Range(page.rows) : {c.who : c \in Range(s.winners)} = row[s.id].won

\* A visitor's pages fit together, however long ago the one before was served.
PagesRight == NothingTakenBack /\ RosterWhole /\ WinnersNamed /\ LinksLead
=============================================================================
