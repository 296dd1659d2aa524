---------------------------- MODULE AgentClient ----------------------------
(***************************************************************************)
(* The reference agent and the server it talks to over a network that      *)
(* loses and delays.  A run of the agent is a process of its own that      *)
(* makes one HTTP call after another and dies on the first that fails;     *)
(* somebody runs it again.  A call whose client has given up may still     *)
(* reach the server.                                                       *)
(*                                                                         *)
(* The server is cut down to what an agent notices: seats, status, tick    *)
(* and the queue of a match.  Every agent has a valid key.  The names      *)
(* differ from those of MatchRuntime and GuidedPlay, so that it can be     *)
(* extended along with them.                                               *)
(***************************************************************************)
EXTENDS Naturals, Sequences, FiniteSets, SequencesExt

CONSTANTS
    Nothing,
    Agents,
    Partner,     \* Partner[a]: whose key a run of a uses for the second player, Nothing if it
                 \* joins what there is instead of opening lobbies
    Matches,     \* the ids matches get
    MaxPlayers,  \* the seats of a lobby
    Allowance,   \* lobbies and running matches an agent may be in at a time
    MaxServerTick, \* bound: no tick beyond this one
    MaxRuns      \* bound: runs of each agent

Calls == {"list", "join", "state", "orders", "create", "profile", "second", "start"}

Codes == {"ok", "transport_error", "nothing_joinable", "occupancy_limit", "not_joinable", "not_joined",
          "tick_mismatch", "already_begun", "start_forbidden", "not_ready"}

ServerTicks == 0..MaxServerTick
MatchStatus == {"none", "lobby", "active", "completed"}

Order == [player : Agents, tick : ServerTicks, no : 1..MaxRuns]
Match == [status : MatchStatus, tick : ServerTicks, players : Seq(Agents), queue : SUBSET Order]

\* What a run has learnt: the match, its seat, the tick it saw.
Run == [no : 0..MaxRuns, at : Calls \cup {"idle", "done", "failed"}, match : Matches \cup {Nothing},
        seat : 0..MaxPlayers, tick : ServerTicks, code : Codes \cup {"none"}]

\* No call carries more than its sender's key, the match and the tick.
Message == [from : Agents, no : 1..MaxRuns, key : Agents, call : Calls,
            match : Matches \cup {Nothing}, tick : ServerTicks]

ListEntry == [id : Matches, status : MatchStatus, open : 0..MaxPlayers]
Response == [code : Codes, id : Matches \cup {Nothing}, seat : 0..MaxPlayers, tick : ServerTicks,
             listed : SUBSET ListEntry]

\* Who opens lobbies does so with an agent's key; Nothing is no agent, match or response.
AgentClientAssumption ==
    /\ Nothing \notin Agents \cup Matches \cup Response
    /\ Partner \in [Agents -> Agents \cup {Nothing}]
    /\ MaxPlayers \in Nat \ {0} /\ Allowance \in Nat /\ MaxServerTick \in Nat /\ MaxRuns \in Nat

VARIABLES
    match,     \* match[m]: status, tick, players in the order they joined, and queue
    run,       \* run[a]: where the latest run of a is, and what it has been told
    wire,      \* the requests on their way
    answer,    \* answer[a]: what comes back to the call a waits for, Nothing before that
    answered   \* history: every submission answered with 202

agentVars == <<match, run, wire, answer, answered>>

Blank == [no |-> 0, at |-> "idle", match |-> Nothing, seat |-> 0, tick |-> 0, code |-> "none"]

NoMatch == [status |-> "none", tick |-> 0, players |-> <<>>, queue |-> {}]

-----------------------------------------------------------------------------
(* The client: one request, and what becomes of it.                        *)

Request(a, key, call, m, tick) ==
    [from |-> a, no |-> run[a].no, key |-> key, call |-> call, match |-> m, tick |-> tick]

ListMatches(a) == Request(a, a, "list", Nothing, 0)
JoinMatch(a, m) == Request(a, a, "join", m, 0)
GetMatchState(a, m) == Request(a, a, "state", m, 0)
SubmitAgentOrders(a, m, tick) == Request(a, a, "orders", m, tick)
CreateMatchLobby(a) == Request(a, a, "create", Nothing, 0)
GetCurrentAgentProfile(a) == Request(a, a, "profile", Nothing, 0)
StartMatchLobby(a, m) == Request(a, a, "start", m, 0)

Waiting(a) == run[a].at \in Calls

\* The run goes on with call r, knowing what it has learnt.
Send(a, r, learnt) ==
    /\ run' = [run EXCEPT ![a] = [learnt EXCEPT !.at = r.call]]
    /\ wire' = wire \cup {r}
    /\ answer' = [answer EXCEPT ![a] = Nothing]

End(a, outcome, code, learnt) ==
    /\ run' = [run EXCEPT ![a] = [learnt EXCEPT !.at = outcome, !.code = code]]
    /\ answer' = [answer EXCEPT ![a] = Nothing]
    /\ UNCHANGED wire

-----------------------------------------------------------------------------
(* The server's handlers: the answer to a request, and the match it leaves *)
(* in the place of the one it found.                                       *)

Answer(code, id) == [code |-> code, id |-> id, seat |-> 0, tick |-> 0, listed |-> {}]
Ok(m) == Answer("ok", m)

Reply(ans, after) == [answer |-> ans, after |-> after]

Refuse(code, r) == Reply(Answer(code, r.match), IF r.match = Nothing THEN NoMatch ELSE match[r.match])

IsIn(m, a) == a \in Range(match[m].players)
SeatIn(players, a) == CHOOSE i \in DOMAIN players : players[i] = a

OpenSlots(m) == MaxPlayers - Len(match[m].players)

Occupied(a) == {m \in Matches : match[m].status \in {"lobby", "active"} /\ IsIn(m, a)}

\* What is over is not listed.
Listed == {m \in Matches : match[m].status \in {"lobby", "active"}}

HandleList(r) ==
    Reply([Ok(Nothing) EXCEPT !.listed = {[id |-> m, status |-> match[m].status,
                                         open |-> OpenSlots(m)] : m \in Listed}], NoMatch)

HandleProfile(r) == Reply(Ok(r.match), match[r.match])

Seated(m, a, players) == [Ok(m) EXCEPT !.seat = SeatIn(players, a)]

\* Slip: a join that is repeated takes another seat.
HandleJoinAgain(r) ==
    LET m == r.match
        after == [match[m] EXCEPT !.players = Append(@, r.key), !.queue = {}]
    IN  IF match[m].status # "completed" /\ Cardinality(Occupied(r.key)) >= Allowance
        THEN Refuse("occupancy_limit", r)
        ELSE IF match[m].status # "lobby" \/ OpenSlots(m) = 0 THEN Refuse("not_joinable", r)
        ELSE Reply(Seated(m, r.key, after.players), after)

\* Who is in the match is told its seat again.  Either way the record is loaded anew, and
\* with it goes what was queued.
HandleJoin(r) ==
    LET m == r.match
        again == [match[m] EXCEPT !.queue = {}]
        after == [again EXCEPT !.players = Append(@, r.key)]
    IN  IF IsIn(m, r.key) THEN Reply(Seated(m, r.key, again.players), again)
        ELSE IF match[m].status # "completed" /\ Cardinality(Occupied(r.key)) >= Allowance
        THEN Refuse("occupancy_limit", r)
        ELSE IF match[m].status # "lobby" \/ OpenSlots(m) = 0 THEN Refuse("not_joinable", r)
        ELSE Reply(Seated(m, r.key, after.players), after)

HandleState(r) ==
    IF ~IsIn(r.match, r.key) THEN Refuse("not_joined", r)
    ELSE Reply([Seated(r.match, r.key, match[r.match].players) EXCEPT
                   !.tick = match[r.match].tick], match[r.match])

OrdersOf(r) == [player |-> r.key, tick |-> r.tick, no |-> r.no]

HandleOrders(r) ==
    IF ~IsIn(r.match, r.key) THEN Refuse("not_joined", r)
    ELSE IF r.tick # match[r.match].tick THEN Refuse("tick_mismatch", r)
    ELSE Reply(Ok(r.match), [match[r.match] EXCEPT !.queue = @ \cup {OrdersOf(r)}])

\* A lobby with its creator in the first seat, under an id not used before.
HandleCreate(r) ==
    IF Cardinality(Occupied(r.key)) >= Allowance THEN Refuse("occupancy_limit", r)
    ELSE Reply(Seated(r.match, r.key, <<r.key>>),
               [status |-> "lobby", tick |-> 0, players |-> <<r.key>>, queue |-> {}])

HandleStart(r) ==
    LET m == r.match
    IN  IF match[m].status # "lobby" THEN Refuse("already_begun", r)
        ELSE IF r.key # match[m].players[1] THEN Refuse("start_forbidden", r)
        ELSE IF Len(match[m].players) < 2 THEN Refuse("not_ready", r)
        ELSE Reply(Ok(m), [match[m] EXCEPT !.status = "active", !.queue = {}])

Handled(r) ==
    CASE r.call = "list" -> HandleList(r)
      [] r.call \in {"join", "second"} -> HandleJoin(r)
      [] r.call = "state" -> HandleState(r)
      [] r.call = "orders" -> HandleOrders(r)
      [] r.call = "create" -> HandleCreate(r)
      [] r.call = "profile" -> HandleProfile(r)
      [] r.call = "start" -> HandleStart(r)

\* The answer goes back to the call that still waits for it, and nowhere else.
Serve(r) ==
    LET done == Handled(r)
    IN  /\ match' = IF r.match = Nothing THEN match ELSE [match EXCEPT ![r.match] = done.after]
        /\ answer' = IF run[r.from].no = r.no /\ run[r.from].at = r.call
                     THEN [answer EXCEPT ![r.from] = done.answer] ELSE answer
        /\ answered' = IF r.call = "orders" /\ done.answer.code = "ok"
                       THEN answered \cup {[match |-> r.match, order |-> OrdersOf(r)]}
                       ELSE answered
        /\ UNCHANGED run

\* A new lobby gets an id nobody has seen.
Arrives(r) ==
    IF r.call # "create" THEN Serve(r)
    ELSE \E m \in Matches : match[m].status = "none" /\ Serve([r EXCEPT !.match = m])

Handle(r) == Arrives(r) /\ wire' = wire \ {r}

Lose(r) ==
    /\ wire' = wire \ {r}
    /\ UNCHANGED <<match, run, answer, answered>>

-----------------------------------------------------------------------------
(* The example agent.                                                      *)

Begin(a) ==
    /\ ~Waiting(a) /\ run[a].no < MaxRuns
    /\ LET fresh == [Blank EXCEPT !.no = run[a].no + 1]
       IN  IF Partner[a] = Nothing
           THEN Send(a, [ListMatches(a) EXCEPT !.no = fresh.no], fresh)
           ELSE Send(a, [CreateMatchLobby(a) EXCEPT !.no = fresh.no], fresh)
    /\ UNCHANGED <<match, answered>>

\* A lobby with an open slot; which of them comes first is the server's choice.
Joinable(listed) == {e.id : e \in {f \in listed : f.status = "lobby" /\ f.open > 0}}

OkCode == {"ok"}

\* _run_existing_match_cycle: list, join, look, submit.
ExistingMatchCycle(a, ans) ==
    LET now == run[a]
    IN  \/ /\ now.at = "list" /\ Joinable(ans.listed) = {}
           /\ End(a, "failed", "nothing_joinable", now)
        \/ /\ now.at = "list"
           /\ \E m \in Joinable(ans.listed) : Send(a, JoinMatch(a, m), [now EXCEPT !.match = m])
        \/ /\ now.at = "join"
           /\ Send(a, GetMatchState(a, now.match), now)
        \/ /\ now.at = "state"
           /\ Send(a, SubmitAgentOrders(a, now.match, ans.tick),
                   [now EXCEPT !.seat = ans.seat, !.tick = ans.tick])
        \/ /\ now.at = "orders"
           /\ End(a, "done", "ok", now)

\* _run_lobby_lifecycle: create, look oneself up, let the second agent join, start.
LobbyLifecycle(a, ans) ==
    LET now == run[a]
    IN  \/ /\ now.at = "create"
           /\ Send(a, [GetCurrentAgentProfile(a) EXCEPT !.match = ans.id],
                   [now EXCEPT !.match = ans.id, !.seat = ans.seat])
        \/ /\ now.at = "profile"
           /\ Send(a, [JoinMatch(a, now.match) EXCEPT !.call = "second", !.key = Partner[a]], now)
        \/ /\ now.at = "second"
           /\ Send(a, StartMatchLobby(a, now.match), now)
        \/ /\ now.at = "start"
           /\ End(a, "done", "ok", now)

\* An answer comes in: an error ends the run, anything else takes it on.
Receive(a) ==
    /\ Waiting(a) /\ answer[a] # Nothing
    /\ IF answer[a].code \notin OkCode THEN End(a, "failed", answer[a].code, run[a])
       ELSE ExistingMatchCycle(a, answer[a]) \/ LobbyLifecycle(a, answer[a])
    /\ UNCHANGED <<match, answered>>

\* The call takes too long or its connection breaks, wherever the request is by then.
GiveUp(a) ==
    /\ Waiting(a)
    /\ End(a, "failed", "transport_error", run[a])
    /\ UNCHANGED <<match, answered>>

-----------------------------------------------------------------------------

ServerTick(m) ==
    /\ match[m].status = "active" /\ match[m].tick < MaxServerTick
    /\ \E status \in {"active", "completed"} :
           match' = [match EXCEPT ![m].tick = @ + 1, ![m].status = status,
                         ![m].queue = {s \in @ : s.tick # match[m].tick}]
    /\ UNCHANGED <<run, wire, answer, answered>>

AgentInit ==
    /\ match = [m \in Matches |-> NoMatch]
    /\ run = [a \in Agents |-> Blank]
    /\ wire = {} /\ answered = {}
    /\ answer = [a \in Agents |-> Nothing]

AgentNext ==
    \/ \E r \in wire : Handle(r) \/ Lose(r)
    \/ \E a \in Agents : Begin(a) \/ Receive(a) \/ GiveUp(a)
    \/ \E m \in Matches : ServerTick(m)

AgentSpec == AgentInit /\ [][AgentNext]_agentVars

\* A client reads what has come in, and its timeout ends every call at last.
AgentFairSpec == AgentSpec /\ \A a \in Agents : WF_agentVars(Receive(a)) /\ WF_agentVars(GiveUp(a))

-----------------------------------------------------------------------------
(* Properties.                                                             *)

\* Every variable has the shape of what it stands for.
AgentTypeOK ==
    /\ match \in [Matches -> Match] /\ \A m \in Matches : Len(match[m].players) <= MaxPlayers
    /\ run \in [Agents -> Run]
    /\ wire \subseteq Message
    /\ answer \in [Agents -> Response \cup {Nothing}] /\ \A a \in Agents : answer[a] # Nothing => Waiting(a)
    /\ answered \subseteq [match : Matches, order : Order]

\* However often an agent is run again because an answer was lost, and however late what it
\* had sent arrives, it has one seat in a match.
OneSeatEach ==
    \A m \in Matches : \A i, j \in DOMAIN match[m].players :
        match[m].players[i] = match[m].players[j] => i = j

\* The summary a run ends with: the seat is the agent's and the orders it names were accepted
\* for it, or the match it opened has begun with both agents in their seats.
TrueSummary(a) ==
    LET m == run[a].match
    IN  run[a].at = "done" =>
            /\ IsIn(m, a) /\ SeatIn(match[m].players, a) = run[a].seat
            /\ IF Partner[a] = Nothing
               THEN [match |-> m, order |-> [player |-> a, tick |-> run[a].tick,
                                             no |-> run[a].no]] \in answered
               ELSE match[m].status \in {"active", "completed"} /\ IsIn(m, Partner[a])

\* What a run was told stays true, whatever else is under way.
SummaryTrue == \A a \in Agents : TrueSummary(a)

\* The tick has moved on since the run looked, the match has filled or begun since it was listed,
\* the allowance is used up, or the run opened a lobby for itself alone.
CauseHolds(a) ==
    LET m == run[a].match
        code == run[a].code
    IN  run[a].at = "failed" =>
            \/ code \in {"transport_error", "nothing_joinable", "occupancy_limit"}
            \/ code = "tick_mismatch" /\ match[m].tick > run[a].tick
            \/ code = "not_joinable" /\ (match[m].status # "lobby" \/ OpenSlots(m) = 0)
            \/ code = "not_ready" /\ Partner[a] = a

\* A run is refused for a cause only; never because it did not join, and a lobby it opened is
\* its own to start.
RefusedForCause == \A a \in Agents : CauseHolds(a)

\* Orders that arrive after their tick are refused, though the run that sent them is over:
\* nothing in a queue is for another tick than the one that comes.
NothingForThePast ==
    \A m \in Matches : \A s \in match[m].queue : s.tick = match[m].tick

\* Over a network that loses and delays, however often agents are run again, they keep one seat,
\* what they are told is true and what arrives late does no harm.
AgentsServed == AgentTypeOK /\ OneSeatEach /\ SummaryTrue /\ RefusedForCause /\ NothingForThePast

\* Every run ends, whatever the network does.
RunEnds == \A a \in Agents : Waiting(a) ~> ~Waiting(a)
=============================================================================
