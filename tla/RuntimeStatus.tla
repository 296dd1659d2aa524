---------------------------- MODULE RuntimeStatus ----------------------------
(***************************************************************************)
(* The clock of the runtime and what /health/runtime says of it: the match *)
(* loops with their schedule, side by side on one event loop that a tick's *)
(* work holds up, the fan-outs and the sockets they drop, and the process  *)
(* that starts, stops and is killed.                                       *)
(*                                                                         *)
(* Time is a number of units.  The event loop runs what is ready one       *)
(* iteration after the other; time passes only while nothing is ready, or  *)
(* by the work of a tick.  The work of the HTTP handlers takes no time     *)
(* here.  What a tick does is left to the other modules.                   *)
(***************************************************************************)
EXTENDS Naturals, FiniteSets

CONSTANTS
    Matches,
    Interval,      \* tick_interval_seconds, one for all
    Work,          \* the longest that a tick takes before its broadcast
    SendTimeout,   \* send_timeout_seconds of the MatchWebSocketManager
    Sockets,       \* no more than max_concurrent_sends of them
    Horizon,       \* bound: the time at which it ends
    MaxStarts,     \* bound: starts of the process
    MaxFailures,   \* bound: ticks that cannot be stored
    MaxUpdates     \* bound: broadcasts that are not a tick's

ASSUME StatusAssumption ==
    /\ IsFiniteSet(Matches)
    /\ Interval \in Nat \ {0} /\ Work \in Nat /\ SendTimeout \in Nat /\ Horizon \in Nat
    /\ MaxStarts \in Nat /\ MaxFailures \in Nat /\ MaxUpdates \in Nat

VARIABLES
    now,
    up,        \* whether the process is up
    stored,    \* the match rows
    match,     \* the registry's records
    task,      \* MatchRuntime._tasks
    batch,     \* the loops that the event loop has yet to run in this iteration
    sockets,   \* MatchWebSocketManager._connections
    fanouts,   \* the broadcasts under way
    ticks, fans, recovery,  \* RuntimeObservability
    shown,     \* history: the latest tick of a match that a socket or the report showed
    longest,   \* history: the longest that a tick of this process was at work
    starts, failures, updates

vars == <<now, up, stored, match, task, batch, sockets, fanouts, ticks, fans, recovery, shown,
          longest, starts, failures, updates>>

Unknown == [known |-> FALSE]

NoTask == [phase |-> "none"]

\* begun and count are history: when the loop began, and its ticks since then.
Loop(phase, due, begun, count) ==
    [phase |-> phase, due |-> due, begun |-> begun, count |-> count]

Alive(t) == t.phase \in {"new", "asleep", "sending"}

-----------------------------------------------------------------------------
(* The schedule of a match's loop.                                         *)

\* Slip: a whole interval is slept after each round.
NextDueFromNow(t) == now + Interval

NextDue(t) == t.due + Interval

FirstDue == now + Interval

\* sleep(max(0, due - now)) makes the loop ready when due, in an iteration to come.
Ready(m) ==
    \/ task[m].phase = "new"
    \/ task[m].phase = "asleep" /\ task[m].due <= now

Iterate ==
    /\ up
    /\ now < Horizon
    /\ batch = {}
    /\ {m \in Matches : Ready(m)} # {}
    /\ batch' = {m \in Matches : Ready(m)}
    /\ UNCHANGED <<now, up, stored, match, task, sockets, fanouts, ticks, fans, recovery, shown,
                   longest, starts, failures, updates>>

\* The loop's first step: the match is looked up, and the schedule begins.
BeginLoop(m) ==
    /\ m \in batch
    /\ task[m].phase = "new"
    /\ batch' = batch \ {m}
    /\ task' = [task EXCEPT ![m] = Loop("asleep", FirstDue, now, 0)]
    /\ UNCHANGED <<now, up, stored, match, sockets, fanouts, ticks, fans, recovery, shown,
                   longest, starts, failures, updates>>

\* record_tick, with what the loop knows at the end of its round.
Observed(m, t, s) ==
    [ticks EXCEPT ![m] = [known |-> TRUE, tick |-> t.tick, drift |-> t.drift, at |-> s]]

\* The end of a round: the tick is observed, and the loop ends or goes back to sleep.
AfterRound(t) ==
    IF t.terminal THEN [t EXCEPT !.phase = "done"]
    ELSE Loop("asleep", NextDue(t), t.begun, t.count)

\* What a round that starts now puts into its loop's task.
Round(m, terminal) ==
    [phase |-> "sending", due |-> task[m].due, begun |-> task[m].begun,
     count |-> task[m].count + 1, terminal |-> terminal, drift |-> now - task[m].due,
     tick |-> match[m].tick + 1]

Fanout(m, s, ofTick) ==
    [match |-> m, attempted |-> sockets[m], pending |-> sockets[m], delivered |-> {},
     until |-> s + SendTimeout, tick |-> ofTick]

Advanced(m, terminal) ==
    [tick |-> match[m].tick + 1, status |-> IF terminal THEN "completed" ELSE "active"]

\* A tick is at work, and nothing else runs meanwhile.
Worked(work) ==
    /\ now' = now + work
    /\ longest' = IF work > longest THEN work ELSE longest

\* A round of the loop up to the broadcast.  With no socket there is no broadcast.
Tick(m) ==
    /\ m \in batch
    /\ task[m].phase = "asleep"
    /\ batch' = batch \ {m}
    /\ \E work \in 0..Work, terminal \in BOOLEAN :
         LET round == Round(m, terminal)
             s == now + work
         IN  /\ Worked(work)
             /\ match' = [match EXCEPT ![m] = Advanced(m, terminal)]
             /\ stored' = [stored EXCEPT ![m] = Advanced(m, terminal)]
             /\ IF sockets[m] = {}
                THEN /\ ticks' = Observed(m, round, s)
                     /\ task' = [task EXCEPT ![m] = AfterRound(round)]
                     /\ fanouts' = fanouts
                ELSE /\ ticks' = ticks
                     /\ task' = [task EXCEPT ![m] = round]
                     /\ fanouts' = fanouts \cup {Fanout(m, s, TRUE)}
    /\ UNCHANGED <<up, sockets, fans, recovery, shown, starts, failures, updates>>

\* Slip: the record stays as the tick has left it.
TickNotStoredKept(m) ==
    /\ m \in batch
    /\ task[m].phase = "asleep"
    /\ failures < MaxFailures
    /\ failures' = failures + 1
    /\ batch' = batch \ {m}
    /\ \E work \in 0..Work : Worked(work)
    /\ match' = [match EXCEPT ![m].tick = @ + 1]
    /\ task' = [task EXCEPT ![m].phase = "dead"]
    /\ UNCHANGED <<up, stored, sockets, fanouts, ticks, fans, recovery, shown, starts, updates>>

\* The tick cannot be stored: the record is restored, and the loop ends.
TickNotStored(m) ==
    /\ m \in batch
    /\ task[m].phase = "asleep"
    /\ failures < MaxFailures
    /\ failures' = failures + 1
    /\ batch' = batch \ {m}
    /\ \E work \in 0..Work : Worked(work)
    /\ task' = [task EXCEPT ![m].phase = "dead"]
    /\ UNCHANGED <<up, stored, match, sockets, fanouts, ticks, fans, recovery, shown, starts,
                   updates>>

-----------------------------------------------------------------------------
(* Broadcasts.                                                             *)

\* broadcast_current_match after a message or a treaty: one at a time for a match.
Update(m) ==
    /\ up
    /\ updates < MaxUpdates
    /\ sockets[m] # {}
    /\ \A f \in fanouts : f.match = m => f.tick
    /\ fanouts' = fanouts \cup {Fanout(m, now, FALSE)}
    /\ updates' = updates + 1
    /\ UNCHANGED <<now, up, stored, match, task, batch, sockets, ticks, fans, recovery, shown,
                   longest, starts, failures>>

Unregistered(m, s) == [sockets EXCEPT ![m] = @ \ {s}]

\* A send of f is over; when it is the last one, the fan-out is observed, and the
\* loop whose tick it was ends its round.
SendOver(f, s, delivered) ==
    LET g == [f EXCEPT !.pending = @ \ {s},
                       !.delivered = IF delivered THEN @ \cup {s} ELSE @]
        m == f.match
    IN  IF g.pending # {}
        THEN /\ fanouts' = (fanouts \ {f}) \cup {g}
             /\ UNCHANGED <<fans, ticks, task>>
        ELSE /\ fanouts' = fanouts \ {f}
             /\ fans' = [fans EXCEPT ![m] = [known |-> TRUE, attempted |-> g.attempted,
                                             delivered |-> g.delivered]]
             /\ IF f.tick
                THEN /\ ticks' = Observed(m, task[m], now)
                     /\ task' = [task EXCEPT ![m] = AfterRound(@)]
                ELSE UNCHANGED <<ticks, task>>

\* The payload was built when the send was called, with the tick of that moment.
Deliver(f, s) ==
    /\ s \in f.pending \cap sockets[f.match]
    /\ shown' = [shown EXCEPT ![f.match] = IF match[f.match].tick > @ THEN match[f.match].tick
                                           ELSE @]
    /\ SendOver(f, s, TRUE)
    /\ UNCHANGED <<now, up, stored, match, batch, sockets, recovery, longest, starts, failures,
                   updates>>

\* A send fails or runs into its timeout, which the event loop may be late to see.
Drop(f, s) ==
    /\ s \in f.pending
    /\ sockets' = Unregistered(f.match, s)
    /\ SendOver(f, s, FALSE)
    /\ UNCHANGED <<now, up, stored, match, batch, recovery, shown, longest, starts,
                   failures, updates>>

\* A connection is a new object each time: its name is one that no broadcast and no
\* report is about.
Fresh(s) ==
    /\ \A m \in Matches : s \notin sockets[m]
    /\ \A f \in fanouts : s \notin f.attempted
    /\ \A m \in Matches : fans[m].known => s \notin fans[m].attempted

Connect(m, s) ==
    /\ up
    /\ Fresh(s)
    /\ sockets' = [sockets EXCEPT ![m] = @ \cup {s}]
    /\ shown' = [shown EXCEPT ![m] = IF match[m].tick > @ THEN match[m].tick ELSE @]
    /\ UNCHANGED <<now, up, stored, match, task, batch, fanouts, ticks, fans, recovery,
                   longest, starts, failures, updates>>

Disconnect(m, s) ==
    /\ s \in sockets[m]
    /\ sockets' = Unregistered(m, s)
    /\ UNCHANGED <<now, up, stored, match, task, batch, fanouts, ticks, fans, recovery, shown,
                   longest, starts, failures, updates>>

-----------------------------------------------------------------------------
(* The process.                                                            *)

\* record_startup_recovery: the active matches, before their loops are started.
StartupRecovery(s) ==
    [known |-> TRUE, at |-> now, matches |-> {m \in Matches : s[m].status = "active"}]

\* MatchRuntime.start
Tasks(s) ==
    [m \in Matches |-> IF s[m].status = "active" THEN Loop("new", now, now, 0) ELSE NoTask]

\* create_app and the lifespan's first half, with the registry in the database.
Start ==
    /\ ~up
    /\ starts < MaxStarts
    /\ starts' = starts + 1
    /\ up' = TRUE
    /\ match' = stored
    /\ recovery' = StartupRecovery(stored)
    /\ task' = Tasks(stored)
    /\ UNCHANGED <<now, stored, batch, sockets, fanouts, ticks, fans, shown, longest, failures,
                   updates>>

\* The process stops, which cancels the loops at their awaits, or is killed; a tick
\* that was at work is stored or not as a whole.
Stop ==
    /\ up
    /\ up' = FALSE
    /\ task' = [m \in Matches |-> NoTask]
    /\ batch' = {}
    /\ sockets' = [m \in Matches |-> {}]
    /\ fanouts' = {}
    /\ ticks' = [m \in Matches |-> Unknown]
    /\ fans' = [m \in Matches |-> Unknown]
    /\ recovery' = Unknown
    /\ longest' = 0
    /\ UNCHANGED <<now, stored, match, shown, starts, failures, updates>>

\* start_match_lobby and ensure_match_running
StartMatch(m) ==
    /\ up
    /\ match[m].status = "lobby"
    /\ match' = [match EXCEPT ![m].status = "active"]
    /\ stored' = [stored EXCEPT ![m].status = "active"]
    /\ task' = IF Alive(task[m]) THEN task ELSE [task EXCEPT ![m] = Loop("new", now, now, 0)]
    /\ UNCHANGED <<now, up, batch, sockets, fanouts, ticks, fans, recovery, shown, longest,
                   starts, failures, updates>>

\* Time passes while the event loop has nothing to run.
Pass ==
    /\ batch = {}
    /\ ~\E m \in Matches : Ready(m)
    /\ \A f \in fanouts : f.until > now
    /\ now < Horizon
    /\ now' = now + 1
    /\ UNCHANGED <<up, stored, match, task, batch, sockets, fanouts, ticks, fans, recovery, shown,
                   longest, starts, failures, updates>>

Init ==
    /\ now = 0
    /\ up = FALSE
    /\ stored \in [Matches -> [tick : {0}, status : {"lobby", "active"}]]
    /\ match = stored
    /\ task = [m \in Matches |-> NoTask]
    /\ batch = {}
    /\ sockets = [m \in Matches |-> {}]
    /\ fanouts = {}
    /\ ticks = [m \in Matches |-> Unknown]
    /\ fans = [m \in Matches |-> Unknown]
    /\ recovery = Unknown
    /\ shown = [m \in Matches |-> 0]
    /\ longest = 0
    /\ starts = 0 /\ failures = 0 /\ updates = 0

Next ==
    \/ Iterate \/ Pass \/ Start \/ Stop
    \/ \E m \in Matches : BeginLoop(m) \/ Tick(m) \/ TickNotStored(m) \/ Update(m) \/ StartMatch(m)
    \/ \E f \in fanouts, s \in Sockets : Deliver(f, s) \/ Drop(f, s)
    \/ \E m \in Matches, s \in Sockets : Connect(m, s) \/ Disconnect(m, s)

Spec == Init /\ [][Next]_vars

-----------------------------------------------------------------------------
(* What /health/runtime says of a match; of its connections and of the     *)
(* fan-out's it gives the numbers only.                                    *)

Report(m) ==
    [status |-> match[m].status, tick |-> match[m].tick, last_tick |-> ticks[m],
     connections |-> sockets[m], last_fanout |-> fans[m]]

-----------------------------------------------------------------------------
(* Properties.                                                             *)

\* How late the others' work can make a loop.
Lateness == (Cardinality(Matches) - 1) * longest

\* So far there was time for everything: a round of a match, late and with the lateness of
\* others before and after its broadcast, is over when the match is due again.
RoomForAll == Interval > 3 * Lateness + longest + SendTimeout

\* Delays do not add up: a loop's n-th tick comes n intervals after its beginning, late by
\* no more than one tick's work of each of the other matches.
OnSchedule ==
    \A m \in Matches : Alive(task[m]) /\ task[m].phase # "new" /\ ticks[m].known =>
        /\ ticks[m].drift <= Lateness
        /\ task[m].due <= task[m].begun + (task[m].count + 1) * Interval

\* However long ticks and sends take, and however many are caught up with at once, no
\* match has ticked more often than its age allows.
NeverAhead ==
    \A m \in Matches : Alive(task[m]) /\ task[m].phase # "new" =>
        task[m].begun + task[m].count * Interval <= now

\* The last tick of the report is the match's tick, or the one before while that is
\* being broadcast; a tick that was not stored is never reported.
LastTickTrue ==
    \A m \in Matches : Report(m).last_tick.known =>
        Report(m).last_tick.tick = Report(m).tick - (IF task[m].phase = "sending" THEN 1 ELSE 0)

\* A match that has not been reported for as long as a round can take at most.
Silent(m) ==
    LET last == Report(m).last_tick
        seen == IF last.known THEN last.at ELSE recovery.at
    IN  /\ up /\ Report(m).status = "active"
        /\ last.known \/ m \in recovery.matches
        /\ now > seen + Interval + Lateness + longest + SendTimeout + Lateness

\* The report can be relied on: a match that it shows as active and has not seen tick
\* for longer than a round can take has lost its loop, and is not just late.
SilenceMeansDead == \A m \in Matches : Silent(m) => ~Alive(task[m])

\* While there is time for everything, no loop falls behind its schedule, and silence means
\* that a loop is lost.
OnTimeAndTold == RoomForAll => OnSchedule /\ SilenceMeansDead

\* The sockets that the last fan-out lost are not counted as connections any more,
\* whichever broadcasts ran at the same time.
LostAreGone ==
    \A m \in Matches : LET fan == Report(m).last_fanout IN
        fan.known => (fan.attempted \ fan.delivered) \cap Report(m).connections = {}

\* No tick that was shown is taken back, by a tick that is not stored, by a restart or
\* by a crash.
ShownIsKept == \A m \in Matches : shown[m] <= stored[m].tick

\* Every match that the report calls resumed has its loop, until it is over or a tick
\* could not be stored.
ResumedHaveLoops ==
    recovery.known => \A m \in recovery.matches : task[m].phase # "none"

\* What the operator and the viewers are told stays true through failed writes, overlapping
\* broadcasts, restarts and crashes, and no loop runs ahead of its schedule.
ReportTrue == NeverAhead /\ LastTickTrue /\ LostAreGone /\ ShownIsKept /\ ResumedHaveLoops
=============================================================================
