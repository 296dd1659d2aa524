---------------------------- MODULE MatchRuntime ----------------------------
(***************************************************************************)
(* One match from lobby to completion: the record in memory, the match row *)
(* and tick log in the database, the task that ticks the match, and the    *)
(* HTTP handlers that queue orders or reload the record.                   *)
(*                                                                         *)
(* Everything runs on one event loop.  A handler is one action because it  *)
(* has no await before its last write; the tick task is cut at its two     *)
(* awaits, the sleep and the broadcast.  What the orders do to the board   *)
(* is left out, and so is when a victory countdown runs out: any tick may  *)
(* be the terminal one, and any tick may overdraw a player's food or money *)
(* (TickResolver says when).  Such a board is stored but cannot be read    *)
(* back: MatchState wants its stocks to be 0 or more.  A request that      *)
(* needs it then answers 500 and is no step at all, and a process that     *)
(* needs it does not start.                                                *)
(***************************************************************************)
EXTENDS Naturals, Sequences, FiniteSets

CONSTANTS
    Players,        \* the seats of the match
    MaxTick,        \* bound: no tick beyond this one
    MaxSubmissions  \* bound: submissions accepted in all

ASSUME BoundsAssumption == MaxTick \in Nat /\ MaxSubmissions \in Nat

VARIABLES
    record,     \* the MatchRecord in the registry
    row,        \* the match's row in the database; overdrawn if a stock in its state is negative
    tickLog,    \* its tick_log rows, oldest first
    joined,     \* the seats with a player row
    loop,       \* the match's task in MatchRuntime._tasks
    up,         \* a process is serving; without one there is no record, whatever the variable says
    accepted,   \* history: every submission answered with 202
    dropped     \* history: those a reload of the record threw away

vars == <<record, row, tickLog, joined, loop, up, accepted, dropped>>

Submission == [id : 1..MaxSubmissions, player : Players, tick : 0..MaxTick,
               kind : {"orders", "override"}]

-----------------------------------------------------------------------------
(* The order queue.                                                        *)

DueSubmissions(rec) == {s \in rec.queue : s.tick = rec.tick}

RemainingSubmissions(rec) == {s \in rec.queue : s.tick # rec.tick}

\* Slip: an override is only added to what is queued.
ReplacePlayerSubmissionsAdded(queue, s) == queue \cup {s}

ReplacePlayerSubmissions(queue, s) ==
    {q \in queue : q.player # s.player \/ q.tick # s.tick} \cup {s}

\* Slip: submissions are numbered from zero.
NewSubmissionFromZero(p, kind) ==
    [id |-> Cardinality(accepted), player |-> p, tick |-> record.tick,
     kind |-> kind]

\* The handlers take a submission for the tick the record is at and no other.
\* They do not look at the match's status.
NewSubmission(p, kind) ==
    [id |-> Cardinality(accepted) + 1, player |-> p, tick |-> record.tick,
     kind |-> kind]

-----------------------------------------------------------------------------
(* Loading a record.                                                       *)

\* Slip: the reloaded match begins anew.
LoadedRecordFromStart(r) == [tick |-> 0, status |-> r.status, queue |-> {}]

\* MatchState.model_validate raises on a negative stock.
Readable(r) == ~r.overdrawn

\* A record read back from the database has the row's tick and status, and
\* nothing is queued: submissions are not stored.
LoadedRecord(r) == [tick |-> r.tick, status |-> r.status, queue |-> {}]

Reload(r) ==
    /\ Readable(r)
    /\ record' = LoadedRecord(r)
    /\ dropped' = dropped \cup record.queue

\* _ensure_match_task: a task that has ended is replaced, a running one is kept.
EnsureMatchTask(l) == IF l \in {"sleeping", "broadcasting"} THEN l ELSE "sleeping"

-----------------------------------------------------------------------------
(* Actions.                                                                *)

\* A lobby as it is created, with its creator in the first seat.
Init ==
    /\ row = [tick |-> 0, status |-> "lobby", overdrawn |-> FALSE]
    /\ record = LoadedRecord(row)
    /\ tickLog = <<>>
    /\ \E creator \in Players : joined = {creator}
    /\ loop = "none" /\ up = TRUE
    /\ accepted = {}
    /\ dropped = {}

\* POST join: a new seat only while the match is in its lobby; a player who has
\* one gets it again in any status.  Both end in seed_match.
Join(p) ==
    /\ up
    /\ p \in joined \/ row.status = "lobby"
    /\ joined' = joined \cup {p}
    /\ Reload(row)
    /\ UNCHANGED <<row, tickLog, loop, up, accepted>>

\* POST start, by the creator, with two players: the row becomes active, the
\* record is loaded again, and the task is created.
StartMatch ==
    /\ up
    /\ row.status = "lobby"
    /\ Cardinality(joined) >= 2
    /\ row' = [row EXCEPT !.status = "active"]
    /\ Reload(row')
    /\ loop' = EnsureMatchTask(loop)
    /\ UNCHANGED <<tickLog, joined, up, accepted>>

\* POST orders, and the orders of POST command.
SubmitOrders(p) ==
    /\ up /\ p \in joined
    /\ Cardinality(accepted) < MaxSubmissions
    /\ LET s == NewSubmission(p, "orders")
       IN  /\ record' = [record EXCEPT !.queue = @ \cup {s}]
           /\ accepted' = accepted \cup {s}
    /\ UNCHANGED <<row, tickLog, joined, loop, up, dropped>>

\* POST override by the agent's owner, whose seat is looked up in the stored
\* state.  If the audit row cannot be written the snapshot is put back, which is
\* no step at all.
OverrideOrders(p) ==
    /\ up /\ Readable(row) /\ p \in joined
    /\ Cardinality(accepted) < MaxSubmissions
    /\ LET s == NewSubmission(p, "override")
       IN  /\ record' = [record EXCEPT !.queue = ReplacePlayerSubmissions(@, s)]
           /\ accepted' = accepted \cup {s}
    /\ UNCHANGED <<row, tickLog, joined, loop, up, dropped>>

\* advance_match_tick on the record.
AdvancedRecord(rec) ==
    [tick |-> rec.tick + 1, status |-> rec.status, queue |-> RemainingSubmissions(rec)]

\* The sleep is over: the tick is resolved and written in one transaction, and
\* a terminal tick completes row and record.  The status was checked before
\* the sleep and is not checked again.  A terminal tick that overdraws is not
\* written: the settlement in its transaction validates the state.
Tick ==
    /\ loop = "sleeping"
    /\ record.tick < MaxTick
    /\ \E terminal, overdrawn \in BOOLEAN :
          /\ ~(terminal /\ overdrawn)
          /\ record' = IF terminal
                       THEN [AdvancedRecord(record) EXCEPT !.status = "completed"]
                       ELSE AdvancedRecord(record)
          /\ row' = [tick |-> record'.tick,
                     status |-> IF terminal THEN "completed" ELSE row.status,
                     overdrawn |-> overdrawn]
    /\ tickLog' = Append(tickLog, [tick |-> record'.tick, orders |-> DueSubmissions(record)])
    /\ loop' = "broadcasting"
    /\ UNCHANGED <<joined, up, accepted, dropped>>

\* Slip: the advanced record stays in memory.
TickNotPersistedKept ==
    /\ loop = "sleeping"
    /\ record.tick < MaxTick
    /\ record' = AdvancedRecord(record)
    /\ loop' = "failed"
    /\ UNCHANGED <<row, tickLog, joined, up, accepted, dropped>>

\* The write fails, or the settlement cannot read the state: the snapshot is restored and the exception ends the task.
TickNotPersisted ==
    /\ loop = "sleeping"
    /\ record.tick < MaxTick
    /\ loop' = "failed"
    /\ UNCHANGED <<record, row, tickLog, joined, up, accepted, dropped>>

\* Slip: the task returns after every tick.
BroadcastReturns ==
    /\ loop = "broadcasting"
    /\ loop' = "finished"
    /\ UNCHANGED <<record, row, tickLog, joined, up, accepted, dropped>>

\* The broadcast is done: a terminal tick returns, another one goes round the
\* loop, past its check of the status, to the next sleep.
Broadcast ==
    /\ loop = "broadcasting"
    /\ loop' = IF record.status = "active" THEN "sleeping" ELSE "finished"
    /\ UNCHANGED <<record, row, tickLog, joined, up, accepted, dropped>>

\* The process ends anywhere, and the next one loads the registry and creates
\* a task for an active match.
Restart ==
    /\ Reload(row)
    /\ loop' = IF row.status = "active" THEN EnsureMatchTask("none") ELSE "none"
    /\ UNCHANGED <<row, tickLog, joined, up, accepted>>

\* The process ends while the stored board is overdrawn: create_app cannot load
\* the registry, and nothing serves from then on.
RestartFails ==
    /\ up /\ ~Readable(row)
    /\ up' = FALSE
    /\ loop' = "none"
    /\ record' = [record EXCEPT !.queue = {}]
    /\ dropped' = dropped \cup record.queue
    /\ UNCHANGED <<row, tickLog, joined, accepted>>

Next ==
    \/ \E p \in Players : Join(p) \/ SubmitOrders(p) \/ OverrideOrders(p)
    \/ StartMatch
    \/ Tick
    \/ TickNotPersisted
    \/ Broadcast
    \/ Restart
    \/ RestartFails

Spec == Init /\ [][Next]_vars

\* The event loop wakes a sleeping task and finishes a broadcast (every send
\* has a timeout).  Whether the write then succeeds is not promised.
FairSpec ==
    /\ Spec
    /\ WF_vars(Tick \/ TickNotPersisted)
    /\ WF_vars(Broadcast)

-----------------------------------------------------------------------------
(* Properties.                                                             *)

Statuses == {"lobby", "active", "completed"}

\* Every variable has the shape of what it stands for.
TypeOK ==
    /\ record \in [tick : 0..MaxTick, status : Statuses, queue : SUBSET Submission]
    /\ row \in [tick : 0..MaxTick, status : Statuses, overdrawn : BOOLEAN]
    /\ tickLog \in Seq([tick : 1..MaxTick, orders : SUBSET Submission])
    /\ joined \in SUBSET Players
    /\ loop \in {"none", "sleeping", "broadcasting", "failed", "finished"}
    /\ up \in BOOLEAN
    /\ accepted \in SUBSET Submission
    /\ dropped \in SUBSET Submission

\* The record is never ahead of or behind the row it was written to, or would
\* be reloaded from: after a failed write, a reload or a terminal tick, both
\* have the same tick and status, and the log has a row for every tick.  What
\* cannot be reloaded is the board of a running match: a lobby's is as it was
\* dealt, and a completed match has one that the settlement could read.
MemoryMatchesRow ==
    /\ record.tick = row.tick
    /\ record.status = row.status
    /\ Len(tickLog) = row.tick
    /\ ~Readable(row) => row.status = "active"

Resolved == UNION {tickLog[i].orders : i \in DOMAIN tickLog}

\* s was in the queue when the same player's override took its place.
Superseded(s) ==
    \E o \in accepted :
        o.kind = "override" /\ o.player = s.player /\ o.tick = s.tick /\ s.id < o.id

\* No accepted submission disappears unnoticed: it is still queued for the
\* present tick, resolved by the tick it was meant for, superseded by an
\* override, or lost in a reload of the record; a queued one is not yet
\* resolved.
OrdersAccountedFor ==
    /\ \A s \in accepted :
          s \in record.queue \/ s \in Resolved \/ s \in dropped \/ Superseded(s)
    /\ \A s \in record.queue : s.tick = record.tick
    /\ \A i \in DOMAIN tickLog : \A s \in tickLog[i].orders : s.tick + 1 = tickLog[i].tick

\* An override is the last word on what came before it: a tick that resolves
\* it resolves none of the player's earlier submissions, whatever was queued,
\* rolled back or reloaded since.
OverrideTakesPrecedence ==
    \A i \in DOMAIN tickLog : \A o, s \in tickLog[i].orders :
        o.kind = "override" /\ o.player = s.player => o.id <= s.id

\* An order that was answered with 202 is resolved by its tick, superseded, still queued or lost
\* with a reload, and an owner's override goes before whatever its player sent earlier.
OrdersHonored == OrdersAccountedFor /\ OverrideTakesPrecedence

History == INSTANCE MatchHistory WITH
    Submissions <- Submission, status <- row.status, issued <- accepted, log <- tickLog

\* The rows the server writes are a history MatchHistory allows: forward-only
\* status, ticks logged once and in order, no submission resolved twice and no
\* tick after completion.
HistorySpec == History!HistorySpec

\* A running match goes on to its last tick, or its task has died on a failed
\* write, or the process was restarted while the stored board was overdrawn and
\* has not come back.  Nothing else stops it: a join that cannot read the board
\* leaves record and task alone, and any other restart, join or late order
\* never leaves the match without a task.
MatchGoesOn ==
    row.status = "active" ~>
        \/ row.status = "completed" \/ row.tick = MaxTick \/ loop = "failed"
        \/ ~up /\ row.overdrawn

\* Joining again is said to be idempotent: it changes nothing of the record.
RejoinIsIdempotent ==
    [][\A p \in joined : Join(p) => record' = record]_vars
=============================================================================
