------------------------- MODULE RuntimeStatusProofs -------------------------
(***************************************************************************)
(* What holds of the runtime's clock and its report for any matches,       *)
(* interval, load and number of sockets, starts and failures; and of the   *)
(* live view of a match for any clients, viewers, slots and changes.       *)
(***************************************************************************)
EXTENDS RuntimeStatus, Realtime, Integers, FiniteSetTheorems, TLAPS

Records == [tick : Nat, status : {"lobby", "active", "completed"}]

Loops == [phase : {"new", "asleep", "dead"}, due : Nat, begun : Nat, count : Nat]

Rounds == [phase : {"sending", "done"}, due : Nat, begun : Nat, count : Nat, terminal : BOOLEAN,
           drift : Int, tick : Nat]

Fanouts == [match : Matches, attempted : SUBSET Sockets, pending : SUBSET Sockets,
            delivered : SUBSET Sockets, until : Nat, tick : BOOLEAN]

LastTicks == {Unknown} \cup [known : {TRUE}, tick : Nat, drift : Int, at : Nat]

LastFanouts == {Unknown} \cup [known : {TRUE}, attempted : SUBSET Sockets,
                               delivered : SUBSET Sockets]

StatusTypeOK ==
    /\ now \in Nat
    /\ stored \in [Matches -> Records]
    /\ match = stored
    /\ task \in [Matches -> {NoTask} \cup Loops \cup Rounds]
    /\ batch \subseteq Matches
    /\ sockets \in [Matches -> SUBSET Sockets]
    /\ fanouts \subseteq Fanouts
    /\ ticks \in [Matches -> LastTicks]
    /\ fans \in [Matches -> LastFanouts]
    /\ recovery \in {Unknown} \cup [known : {TRUE}, at : Nat, matches : SUBSET Matches]
    /\ shown \in [Matches -> Nat]
    /\ longest \in Nat

\* A loop is due at its beginning and a whole number of intervals, and is run when due.
LoopKeepsTime(m) ==
    /\ task[m].phase = "asleep" =>
         /\ task[m].due = task[m].begun + (task[m].count + 1) * Interval
         /\ task[m].begun + task[m].count * Interval <= now
    /\ task[m].phase = "sending" =>
         /\ task[m].due = task[m].begun + task[m].count * Interval
         /\ task[m].due <= now
         /\ task[m].tick = match[m].tick
    /\ m \in batch => Ready(m)

\* A tick's broadcast has a loop that waits for it, and is the only one of its match.
TickFanouts ==
    /\ \A f \in fanouts : f.tick => task[f.match].phase = "sending"
    /\ \A f, g \in fanouts : f.tick /\ g.tick /\ f.match = g.match => f = g

\* What a broadcast has lost so far is gone.
LostSoFar ==
    \A f \in fanouts :
        ((f.attempted \ f.delivered) \ f.pending) \cap sockets[f.match] = {}

\* A process that is down runs and reports nothing.
DownIsEmpty == ~up => batch = {} /\ fanouts = {} /\ \A m \in Matches : ~ticks[m].known

IndInv ==
    /\ StatusTypeOK
    /\ DownIsEmpty
    /\ \A m \in Matches : LoopKeepsTime(m)
    /\ TickFanouts
    /\ LostSoFar
    /\ LostAreGone
    /\ LastTickTrue
    /\ ShownIsKept
    /\ ResumedHaveLoops

-----------------------------------------------------------------------------

\* An iteration takes up what is ready.
LEMMA IterateKeeps ==
  ASSUME IndInv, Iterate
  PROVE  IndInv'
<1> USE DEF IndInv
<1>1. StatusTypeOK'
  BY StatusAssumption DEF StatusTypeOK, Iterate
<1>2. \A n \in Matches : LoopKeepsTime(n)'
  BY DEF LoopKeepsTime, Ready, Iterate
<1>3. TickFanouts'
  BY DEF TickFanouts, Iterate
<1>4. LostSoFar' /\ LostAreGone'
  BY DEF LostSoFar, LostAreGone, Report, Iterate
<1>5. LastTickTrue'
  BY DEF LastTickTrue, Report, Iterate
<1>6. ShownIsKept'
  BY DEF ShownIsKept, Iterate
<1>7. ResumedHaveLoops'
  BY DEF ResumedHaveLoops, Iterate
<1>8. DownIsEmpty'
  BY DEF DownIsEmpty, Iterate
<1> QED  BY <1>1, <1>2, <1>3, <1>4, <1>5, <1>6, <1>7, <1>8

\* Time passes while nothing is ready.
LEMMA PassKeeps ==
  ASSUME IndInv, Pass
  PROVE  IndInv'
<1> USE DEF IndInv
<1>1. StatusTypeOK'
  <2>1. now' \in Nat
    BY DEF StatusTypeOK, Pass
  <2> QED  BY <2>1 DEF StatusTypeOK, Pass
<1>2. \A n \in Matches : LoopKeepsTime(n)'
  BY StatusAssumption DEF LoopKeepsTime, Ready, StatusTypeOK, Loops, Rounds, NoTask, Pass
<1>3. TickFanouts'
  BY DEF TickFanouts, Pass
<1>4. LostSoFar' /\ LostAreGone'
  BY DEF LostSoFar, LostAreGone, Report, Pass
<1>5. LastTickTrue'
  BY DEF LastTickTrue, Report, Pass
<1>6. ShownIsKept'
  BY DEF ShownIsKept, Pass
<1>7. ResumedHaveLoops'
  BY DEF ResumedHaveLoops, Pass
<1>8. DownIsEmpty'
  BY DEF DownIsEmpty, Pass
<1> QED  BY <1>1, <1>2, <1>3, <1>4, <1>5, <1>6, <1>7, <1>8

\* A start reads the rows and makes the loops.
LEMMA StartKeeps ==
  ASSUME IndInv, Start
  PROVE  IndInv'
<1> USE DEF IndInv
<1>1. StatusTypeOK'
  BY DEF StatusTypeOK, Loops, NoTask, Start, StartupRecovery, Tasks, Loop
<1>2. \A n \in Matches : LoopKeepsTime(n)'
  BY DEF StatusTypeOK, DownIsEmpty, LoopKeepsTime, NoTask, Start, StartupRecovery, Tasks, Loop
<1>3. TickFanouts'
  BY DEF DownIsEmpty, TickFanouts, Start, StartupRecovery, Tasks, Loop
<1>4. LostSoFar' /\ LostAreGone'
  BY DEF LostSoFar, LostAreGone, Report, Start, StartupRecovery, Tasks, Loop
<1>5. LastTickTrue'
  BY DEF DownIsEmpty, LastTickTrue, Report, Start, StartupRecovery, Tasks, Loop
<1>6. ShownIsKept'
  BY DEF ShownIsKept, Start, StartupRecovery, Tasks, Loop
<1>7. ResumedHaveLoops'
  BY DEF ResumedHaveLoops, Start, StartupRecovery, Tasks, Loop
<1>8. DownIsEmpty'
  BY DEF DownIsEmpty, Start, StartupRecovery, Tasks, Loop
<1> QED  BY <1>1, <1>2, <1>3, <1>4, <1>5, <1>6, <1>7, <1>8

\* A stop leaves the rows.
LEMMA StopKeeps ==
  ASSUME IndInv, Stop
  PROVE  IndInv'
<1> USE DEF IndInv
<1>1. StatusTypeOK'
  BY DEF StatusTypeOK, LastTicks, LastFanouts, Stop
<1>2. \A n \in Matches : LoopKeepsTime(n)'
  BY StatusAssumption DEF LoopKeepsTime, Ready, NoTask, Stop
<1>3. TickFanouts'
  BY DEF TickFanouts, Stop
<1>4. LostSoFar' /\ LostAreGone'
  BY DEF LostSoFar, LostAreGone, Report, Stop
<1>5. LastTickTrue'
  BY DEF LastTickTrue, Report, Unknown, StatusTypeOK, Stop
<1>6. ShownIsKept'
  BY DEF ShownIsKept, Stop
<1>7. ResumedHaveLoops'
  BY DEF ResumedHaveLoops, Unknown, StatusTypeOK, Stop
<1>8. DownIsEmpty'
  BY DEF DownIsEmpty, Unknown, Stop
<1> QED  BY <1>1, <1>2, <1>3, <1>4, <1>5, <1>6, <1>7, <1>8

\* A loop begins its schedule.
LEMMA BeginLoopKeeps ==
  ASSUME NEW m \in Matches, IndInv, BeginLoop(m)
  PROVE  IndInv'
<1> USE DEF IndInv
<1>1. StatusTypeOK'
  <2>1. Loop("asleep", FirstDue, now, 0) \in Loops
    BY StatusAssumption DEF StatusTypeOK, Loop, Loops, FirstDue
  <2> QED  BY <2>1 DEF StatusTypeOK, BeginLoop
<1>2. \A n \in Matches : LoopKeepsTime(n)'
  BY StatusAssumption DEF LoopKeepsTime, Ready, StatusTypeOK, Loops, Rounds, NoTask, BeginLoop,
         Loop, FirstDue
<1>3. TickFanouts'
  BY DEF TickFanouts, BeginLoop, Loop, FirstDue
<1>4. LostSoFar' /\ LostAreGone'
  BY DEF LostSoFar, LostAreGone, Report, BeginLoop, Loop, FirstDue
<1>5. LastTickTrue'
  BY DEF LastTickTrue, Report, BeginLoop, Loop, FirstDue
<1>6. ShownIsKept'
  BY DEF ShownIsKept, BeginLoop, Loop, FirstDue
<1>7. ResumedHaveLoops'
  BY DEF ResumedHaveLoops, BeginLoop, Loop, FirstDue
<1>8. DownIsEmpty'
  BY DEF DownIsEmpty, BeginLoop, Loop, FirstDue
<1> QED  BY <1>1, <1>2, <1>3, <1>4, <1>5, <1>6, <1>7, <1>8

\* A tick that is not stored ends its loop.
LEMMA TickNotStoredKeeps ==
  ASSUME NEW m \in Matches, IndInv, TickNotStored(m)
  PROVE  IndInv'
<1> USE DEF IndInv
<1>1. StatusTypeOK'
  <2>1. [task[m] EXCEPT !.phase = "dead"] \in Loops
    BY DEF StatusTypeOK, TickNotStored, NoTask, Loops, Rounds
  <2>2. now' \in Nat /\ longest' \in Nat
    BY StatusAssumption DEF StatusTypeOK, TickNotStored, Worked
  <2>3. task' = [task EXCEPT ![m] = [task[m] EXCEPT !.phase = "dead"]]
    BY DEF TickNotStored, IndInv, StatusTypeOK
  <2> QED  BY <2>1, <2>2, <2>3 DEF StatusTypeOK, TickNotStored
<1>2. \A n \in Matches : LoopKeepsTime(n)'
  BY StatusAssumption DEF LoopKeepsTime, Ready, StatusTypeOK, Loops, Rounds, NoTask,
         TickNotStored, Worked
<1>3. TickFanouts'
  BY DEF TickFanouts, TickNotStored
<1>4. LostSoFar' /\ LostAreGone'
  BY DEF LostSoFar, LostAreGone, Report, TickNotStored
<1>5. LastTickTrue'
  BY DEF LastTickTrue, Report, TickNotStored
<1>6. ShownIsKept'
  BY DEF ShownIsKept, TickNotStored
<1>7. ResumedHaveLoops'
  BY DEF ResumedHaveLoops, TickNotStored
<1>8. DownIsEmpty'
  BY DEF DownIsEmpty, TickNotStored
<1> QED  BY <1>1, <1>2, <1>3, <1>4, <1>5, <1>6, <1>7, <1>8

\* A broadcast that is not a tick's.
LEMMA UpdateKeeps ==
  ASSUME NEW m \in Matches, IndInv, Update(m)
  PROVE  IndInv'
<1> USE DEF IndInv
<1>1. StatusTypeOK'
  <2>1. Fanout(m, now, FALSE) \in Fanouts
    BY StatusAssumption DEF StatusTypeOK, Fanout, Fanouts
  <2> QED  BY <2>1 DEF StatusTypeOK, Update
<1>2. \A n \in Matches : LoopKeepsTime(n)'
  BY DEF LoopKeepsTime, Ready, Update, Fanout
<1>3. TickFanouts'
  BY DEF TickFanouts, Update, Fanout
<1>4. LostSoFar' /\ LostAreGone'
  BY DEF LostSoFar, LostAreGone, Report, Update, Fanout
<1>5. LastTickTrue'
  BY DEF LastTickTrue, Report, Update, Fanout
<1>6. ShownIsKept'
  BY DEF ShownIsKept, Update, Fanout
<1>7. ResumedHaveLoops'
  BY DEF ResumedHaveLoops, Update, Fanout
<1>8. DownIsEmpty'
  BY DEF DownIsEmpty, Update, Fanout
<1> QED  BY <1>1, <1>2, <1>3, <1>4, <1>5, <1>6, <1>7, <1>8

\* A match leaves the lobby.
LEMMA StartMatchKeeps ==
  ASSUME NEW m \in Matches, IndInv, StartMatch(m)
  PROVE  IndInv'
<1> USE DEF IndInv
<1>1. StatusTypeOK'
  <2>1. Loop("new", now, now, 0) \in Loops
    BY DEF StatusTypeOK, Loop, Loops
  <2>2. [match[m] EXCEPT !.status = "active"] \in Records
    BY DEF StatusTypeOK, Records
  <2>3. stored' = [stored EXCEPT ![m] = [match[m] EXCEPT !.status = "active"]] /\ match' = stored'
    BY DEF StatusTypeOK, StartMatch
  <2>4. /\ stored' \in [Matches -> Records] /\ match' \in [Matches -> Records]
        /\ task' \in [Matches -> {NoTask} \cup Loops \cup Rounds]
    BY <2>1, <2>2, <2>3 DEF StatusTypeOK, StartMatch
  <2> QED  BY <2>4 DEF StatusTypeOK, StartMatch
<1>2. \A n \in Matches : LoopKeepsTime(n)'
  BY DEF LoopKeepsTime, Ready, StartMatch, Alive, Loop
<1>3. TickFanouts'
  BY DEF TickFanouts, StartMatch, Alive, Loop
<1>4. LostSoFar' /\ LostAreGone'
  BY DEF LostSoFar, LostAreGone, Report, StartMatch, Alive, Loop
<1>5. LastTickTrue'
  BY DEF LastTickTrue, Report, StartMatch, Alive, Loop
<1>6. ShownIsKept'
  BY DEF ShownIsKept, StartMatch, Alive, Loop
<1>7. ResumedHaveLoops'
  BY DEF ResumedHaveLoops, StartMatch, Alive, Loop
<1>8. DownIsEmpty'
  BY DEF DownIsEmpty, StartMatch, Alive, Loop
<1> QED  BY <1>1, <1>2, <1>3, <1>4, <1>5, <1>6, <1>7, <1>8

\* A socket is registered.
LEMMA ConnectKeeps ==
  ASSUME NEW m \in Matches, NEW s \in Sockets, IndInv, Connect(m, s)
  PROVE  IndInv'
<1> USE DEF IndInv
<1>1. StatusTypeOK'
  <2>1. sockets' \in [Matches -> SUBSET Sockets]
    BY DEF StatusTypeOK, Connect
  <2>2. match[m].tick \in Nat /\ shown' \in [Matches -> Nat]
    BY DEF StatusTypeOK, Records, Connect
  <2> QED  BY <2>1, <2>2 DEF StatusTypeOK, Connect
<1>2. \A n \in Matches : LoopKeepsTime(n)'
  BY DEF LoopKeepsTime, Ready, Connect, Fresh
<1>3. TickFanouts'
  BY DEF TickFanouts, Connect, Fresh
<1>4. LostSoFar' /\ LostAreGone'
  BY DEF LostSoFar, LostAreGone, Report, Connect, Fresh
<1>5. LastTickTrue'
  BY DEF LastTickTrue, Report, Connect, Fresh
<1>6. ShownIsKept'
  BY DEF ShownIsKept, StatusTypeOK, Records, Connect, Fresh
<1>7. ResumedHaveLoops'
  BY DEF ResumedHaveLoops, Connect, Fresh
<1>8. DownIsEmpty'
  BY DEF DownIsEmpty, Connect, Fresh
<1> QED  BY <1>1, <1>2, <1>3, <1>4, <1>5, <1>6, <1>7, <1>8

\* A socket leaves.
LEMMA DisconnectKeeps ==
  ASSUME NEW m \in Matches, NEW s \in Sockets, IndInv, Disconnect(m, s)
  PROVE  IndInv'
<1> USE DEF IndInv
<1>1. StatusTypeOK'
  BY StatusAssumption DEF StatusTypeOK, Disconnect, Unregistered
<1>2. \A n \in Matches : LoopKeepsTime(n)'
  BY DEF LoopKeepsTime, Ready, Disconnect, Unregistered
<1>3. TickFanouts'
  BY DEF TickFanouts, Disconnect, Unregistered
<1>4. LostSoFar' /\ LostAreGone'
  BY DEF LostSoFar, LostAreGone, Report, Disconnect, Unregistered
<1>5. LastTickTrue'
  BY DEF LastTickTrue, Report, Disconnect, Unregistered
<1>6. ShownIsKept'
  BY DEF ShownIsKept, Disconnect, Unregistered
<1>7. ResumedHaveLoops'
  BY DEF ResumedHaveLoops, Disconnect, Unregistered
<1>8. DownIsEmpty'
  BY DEF DownIsEmpty, Disconnect, Unregistered
<1> QED  BY <1>1, <1>2, <1>3, <1>4, <1>5, <1>6, <1>7, <1>8

\* What the end of a round leaves of its loop's task.
LEMMA AfterRoundFacts ==
  ASSUME NEW t \in Rounds, t.phase = "sending"
  PROVE  /\ AfterRound(t) \in Loops \cup Rounds
         /\ AfterRound(t).phase \in {"done", "asleep"}
         /\ AfterRound(t).phase = "asleep" =>
              /\ AfterRound(t).due = t.due + Interval
              /\ AfterRound(t).begun = t.begun
              /\ AfterRound(t).count = t.count
<1>1. CASE t.terminal
  BY <1>1 DEF AfterRound, Rounds
<1>2. CASE ~t.terminal
  BY <1>2, StatusAssumption DEF AfterRound, Rounds, Loops, Loop, NextDue
<1> QED  BY <1>1, <1>2

\* An interval more is one more tick.
LEMMA NextInterval ==
  ASSUME NEW b \in Nat, NEW c \in Nat
  PROVE  (b + c * Interval) + Interval = b + (c + 1) * Interval
  BY StatusAssumption

\* What is observed is a last tick.
LEMMA ObservedFacts ==
  ASSUME StatusTypeOK, NEW m \in Matches, NEW t \in Rounds, NEW s \in Nat
  PROVE  /\ Observed(m, t, s) \in [Matches -> LastTicks]
         /\ Observed(m, t, s)[m].known /\ Observed(m, t, s)[m].tick = t.tick
         /\ \A n \in Matches \ {m} : Observed(m, t, s)[n] = ticks[n]
  BY DEF StatusTypeOK, Observed, LastTicks, Rounds

\* A round up to its broadcast.
LEMMA TickKeeps ==
  ASSUME NEW m \in Matches, IndInv, Tick(m)
  PROVE  IndInv'
<1> USE DEF IndInv
<1>1. PICK work \in 0..Work, terminal \in BOOLEAN :
        /\ Worked(work)
        /\ match' = [match EXCEPT ![m] = Advanced(m, terminal)]
        /\ stored' = [stored EXCEPT ![m] = Advanced(m, terminal)]
        /\ IF sockets[m] = {}
           THEN /\ ticks' = Observed(m, Round(m, terminal), now + work)
                /\ task' = [task EXCEPT ![m] = AfterRound(Round(m, terminal))]
                /\ fanouts' = fanouts
           ELSE /\ ticks' = ticks
                /\ task' = [task EXCEPT ![m] = Round(m, terminal)]
                /\ fanouts' = fanouts \cup {Fanout(m, now + work, TRUE)}
  BY DEF Tick
<1> DEFINE r == Round(m, terminal)
           a == Advanced(m, terminal)
           f == Fanout(m, now + work, TRUE)
<1>2. now' \in Nat /\ now' >= now /\ now + work \in Nat /\ longest' \in Nat
  BY <1>1, StatusAssumption DEF StatusTypeOK, Worked
<1>3. task[m] \in Loops /\ task[m].phase = "asleep" /\ task[m].due <= now
  BY DEF Tick, StatusTypeOK, LoopKeepsTime, Ready, NoTask, Loops, Rounds
<1>4. /\ task[m].due = task[m].begun + (task[m].count + 1) * Interval
      /\ task[m].due \in Nat /\ task[m].begun \in Nat /\ task[m].count \in Nat
      /\ match[m].tick \in Nat /\ now \in Nat
  BY <1>3 DEF LoopKeepsTime, Loops, StatusTypeOK, Records
<1>5. /\ r \in Rounds
      /\ r.phase = "sending" /\ r.due = task[m].due /\ r.begun = task[m].begun
      /\ r.count = task[m].count + 1 /\ r.tick = match[m].tick + 1
  BY <1>4 DEF Round, Rounds
<1>6. a \in Records /\ a.tick = match[m].tick + 1
  BY <1>4 DEF Advanced, Records
<1>7. /\ f \in Fanouts /\ f.match = m /\ f.tick
      /\ f.attempted = sockets[m] /\ f.pending = sockets[m] /\ f.delivered = {}
  BY <1>2, StatusAssumption DEF Fanout, Fanouts, StatusTypeOK
<1>8. \A g \in fanouts : ~(g.tick /\ g.match = m)
  BY <1>3 DEF TickFanouts, StatusTypeOK, Fanouts
<1>9. up
  BY DEF DownIsEmpty, Tick
<1>10. /\ match' = [match EXCEPT ![m] = a] /\ stored' = match'
       /\ UNCHANGED <<up, sockets, fans, recovery, shown>> /\ batch' = batch \ {m}
  BY <1>1 DEF Tick, StatusTypeOK
<1>11. CASE sockets[m] = {}
  <2>1. ticks' = Observed(m, r, now + work) /\ task' = [task EXCEPT ![m] = AfterRound(r)]
        /\ fanouts' = fanouts
    BY <1>1, <1>11
  <2> HIDE DEF r, a, f
  <2> DEFINE t == AfterRound(r)
  <2>2. /\ t \in Loops \cup Rounds /\ t.phase \in {"done", "asleep"}
        /\ t.phase = "asleep" => /\ t.due = r.due + Interval /\ t.begun = r.begun
                                 /\ t.count = r.count
    BY <1>5, AfterRoundFacts
  <2>3. /\ ticks' \in [Matches -> LastTicks] /\ ticks'[m].known /\ ticks'[m].tick = r.tick
        /\ \A n \in Matches \ {m} : ticks'[n] = ticks[n]
    BY <1>2, <1>5, <2>1, ObservedFacts
  <2> HIDE DEF t
  <2>4. task' = [task EXCEPT ![m] = t]
    BY <2>1 DEF t
  <2>5. StatusTypeOK'
    BY <1>2, <1>6, <1>10, <2>1, <2>2, <2>3, <2>4 DEF StatusTypeOK
  <2>6. \A n \in Matches : LoopKeepsTime(n)'
    <3> TAKE n \in Matches
    <3>1. CASE n = m
      <4>1. t.phase = "asleep" => t.due = t.begun + (t.count + 1) * Interval
                                  /\ t.begun + t.count * Interval <= now'
        BY <1>2, <1>3, <1>4, <1>5, <2>2, NextInterval
      <4> QED  BY <3>1, <4>1, <1>10, <2>2, <2>4 DEF LoopKeepsTime, StatusTypeOK
    <3>2. CASE n # m
      BY <3>2, <1>2, <1>10, <2>4, StatusAssumption
         DEF LoopKeepsTime, Ready, StatusTypeOK, NoTask, Loops, Rounds
    <3> QED  BY <3>1, <3>2
  <2>7. TickFanouts'
    BY <1>8, <2>1, <2>4 DEF TickFanouts, StatusTypeOK, Fanouts
  <2>8. LostSoFar' /\ LostAreGone'
    BY <1>10, <2>1 DEF LostSoFar, LostAreGone, Report
  <2>9. LastTickTrue'
    BY <1>4, <1>5, <1>6, <1>10, <2>2, <2>3, <2>4 DEF LastTickTrue, Report, StatusTypeOK
  <2>10. ShownIsKept'
    BY <1>4, <1>6, <1>10 DEF ShownIsKept, StatusTypeOK
  <2>11. ResumedHaveLoops'
    BY <1>10, <2>2, <2>4 DEF ResumedHaveLoops, StatusTypeOK
  <2>12. DownIsEmpty'
    BY <1>9, <1>10 DEF DownIsEmpty
  <2> QED  BY <2>5, <2>6, <2>7, <2>8, <2>9, <2>10, <2>11, <2>12
<1>12. CASE sockets[m] # {}
  <2>1. ticks' = ticks /\ task' = [task EXCEPT ![m] = r] /\ fanouts' = fanouts \cup {f}
    BY <1>1, <1>12
  <2> HIDE DEF r, a, f
  <2>5. StatusTypeOK'
    BY <1>2, <1>5, <1>6, <1>7, <1>10, <2>1 DEF StatusTypeOK
  <2>6. \A n \in Matches : LoopKeepsTime(n)'
    <3> TAKE n \in Matches
    <3>1. CASE n = m
      BY <3>1, <1>2, <1>3, <1>4, <1>5, <1>6, <1>10, <2>1 DEF LoopKeepsTime, StatusTypeOK
    <3>2. CASE n # m
      BY <3>2, <1>2, <1>10, <2>1, StatusAssumption
         DEF LoopKeepsTime, Ready, StatusTypeOK, NoTask, Loops, Rounds
    <3> QED  BY <3>1, <3>2
  <2>7. TickFanouts'
    BY <1>5, <1>7, <1>8, <2>1 DEF TickFanouts, StatusTypeOK, Fanouts
  <2>8. LostSoFar' /\ LostAreGone'
    BY <1>7, <1>10, <2>1 DEF LostSoFar, LostAreGone, Report
  <2>9. LastTickTrue'
    <3> SUFFICES ASSUME NEW n \in Matches, ticks'[n].known
                 PROVE  ticks'[n].tick = match'[n].tick
                                         - (IF task'[n].phase = "sending" THEN 1 ELSE 0)
      BY DEF LastTickTrue, Report
    <3>1. ticks[n].known /\ ticks[n].tick
            = match[n].tick - (IF task[n].phase = "sending" THEN 1 ELSE 0)
      BY <2>1 DEF LastTickTrue, Report
    <3>2. CASE n = m
      <4>1. match'[n] = a /\ task'[n] = r
        BY <3>2, <1>10, <2>1 DEF StatusTypeOK
      <4>2. ticks[n].tick = match[n].tick
        BY <3>1, <3>2, <1>3, <1>4
      <4> QED  BY <3>2, <4>1, <4>2, <1>4, <1>5, <1>6, <2>1
    <3>3. CASE n # m
      BY <3>1, <3>3, <1>10, <2>1 DEF StatusTypeOK
    <3> QED  BY <3>2, <3>3
  <2>10. ShownIsKept'
    BY <1>4, <1>6, <1>10 DEF ShownIsKept, StatusTypeOK
  <2>11. ResumedHaveLoops'
    BY <1>5, <1>10, <2>1 DEF ResumedHaveLoops, StatusTypeOK
  <2>12. DownIsEmpty'
    BY <1>9, <1>10 DEF DownIsEmpty
  <2> QED  BY <2>5, <2>6, <2>7, <2>8, <2>9, <2>10, <2>11, <2>12
<1> QED  BY <1>11, <1>12

\* A send is over, whether it arrived or its socket is dropped.
LEMMA SendOverKeeps ==
  ASSUME NEW f \in fanouts, NEW s \in f.pending, NEW delivered \in BOOLEAN, IndInv,
         SendOver(f, s, delivered),
         sockets' = IF delivered THEN sockets ELSE Unregistered(f.match, s),
         shown' \in [Matches -> Nat], ShownIsKept',
         UNCHANGED <<now, up, stored, match, batch, recovery, longest>>
  PROVE  IndInv'
<1> USE DEF IndInv
<1> DEFINE m == f.match
           g == [f EXCEPT !.pending = @ \ {s},
                          !.delivered = IF delivered THEN @ \cup {s} ELSE @]
<1>1. /\ f \in Fanouts /\ m \in Matches /\ s \in Sockets
      /\ g \in Fanouts /\ g.match = m /\ g.tick = f.tick /\ g.attempted = f.attempted
      /\ g.pending = f.pending \ {s}
      /\ g.delivered = IF delivered THEN f.delivered \cup {s} ELSE f.delivered
  BY DEF StatusTypeOK, Fanouts
<1>2. /\ sockets' \in [Matches -> SUBSET Sockets]
      /\ \A n \in Matches : sockets'[n] \subseteq sockets[n]
      /\ ~delivered => s \notin sockets'[m]
  BY <1>1 DEF Unregistered, StatusTypeOK
<1>3. ((g.attempted \ g.delivered) \ g.pending) \cap sockets'[m] = {}
  BY <1>1, <1>2 DEF LostSoFar
<1>4. /\ g.pending # {} => /\ fanouts' = (fanouts \ {f}) \cup {g}
                           /\ UNCHANGED <<fans, ticks, task>>
      /\ g.pending = {} =>
           /\ fanouts' = fanouts \ {f}
           /\ fans' = [fans EXCEPT ![m] = [known |-> TRUE, attempted |-> g.attempted,
                                           delivered |-> g.delivered]]
           /\ f.tick => /\ ticks' = Observed(m, task[m], now)
                        /\ task' = [task EXCEPT ![m] = AfterRound(task[m])]
           /\ ~f.tick => UNCHANGED <<ticks, task>>
  BY DEF SendOver, StatusTypeOK
<1>5. up
  BY DEF DownIsEmpty
<1> HIDE DEF g, m
<1>6. DownIsEmpty'
  BY <1>5 DEF DownIsEmpty
<1>7. CASE g.pending # {}
  <2>1. StatusTypeOK'
    BY <1>1, <1>2, <1>4, <1>7 DEF StatusTypeOK
  <2>2. \A n \in Matches : LoopKeepsTime(n)'
    BY <1>4, <1>7 DEF LoopKeepsTime, Ready
  <2>3. TickFanouts'
    BY <1>1, <1>4, <1>7 DEF TickFanouts, m
  <2>4. LostSoFar' /\ LostAreGone'
    <3>1. \A h \in fanouts' : ((h.attempted \ h.delivered) \ h.pending) \cap sockets'[h.match] = {}
      BY <1>1, <1>2, <1>3, <1>4, <1>7 DEF LostSoFar, StatusTypeOK, Fanouts
    <3> QED  BY <3>1, <1>2, <1>4, <1>7 DEF LostSoFar, LostAreGone, Report
  <2>5. LastTickTrue' /\ ResumedHaveLoops'
    BY <1>4, <1>7 DEF LastTickTrue, ResumedHaveLoops, Report
  <2> QED  BY <1>6, <2>1, <2>2, <2>3, <2>4, <2>5
<1>8. CASE g.pending = {}
  <2>1. /\ fanouts' = fanouts \ {f}
        /\ fans' = [fans EXCEPT ![m] = [known |-> TRUE, attempted |-> g.attempted,
                                        delivered |-> g.delivered]]
    BY <1>4, <1>8
  <2>2. fans' \in [Matches -> LastFanouts]
    BY <1>1, <2>1 DEF StatusTypeOK, LastFanouts, Fanouts
  <2>3. LostSoFar'
    BY <1>2, <2>1 DEF LostSoFar, StatusTypeOK, Fanouts
  <2>4. LostAreGone'
    BY <1>1, <1>2, <1>3, <1>8, <2>1 DEF LostAreGone, Report, StatusTypeOK
  <2>5. CASE ~f.tick
    <3>1. UNCHANGED <<ticks, task>>
      BY <1>4, <1>8, <2>5
    <3>2. StatusTypeOK'
      BY <1>2, <2>1, <2>2, <3>1 DEF StatusTypeOK
    <3>3. \A n \in Matches : LoopKeepsTime(n)'
      BY <3>1 DEF LoopKeepsTime, Ready
    <3>4. TickFanouts' /\ LastTickTrue' /\ ResumedHaveLoops'
      BY <2>1, <3>1 DEF TickFanouts, LastTickTrue, ResumedHaveLoops, Report
    <3> QED  BY <1>6, <2>3, <2>4, <3>2, <3>3, <3>4
  <2>6. CASE f.tick
    <3>1. task[m].phase = "sending" /\ task[m] \in Rounds
      BY <1>1, <2>6 DEF TickFanouts, StatusTypeOK, NoTask, Loops, m
    <3>2. /\ task[m].due \in Nat /\ task[m].begun \in Nat /\ task[m].count \in Nat
          /\ task[m].due = task[m].begun + task[m].count * Interval
          /\ task[m].due <= now /\ task[m].tick = match[m].tick /\ now \in Nat
      BY <1>1, <3>1 DEF LoopKeepsTime, Rounds, StatusTypeOK
    <3> DEFINE t == AfterRound(task[m])
    <3>3. /\ t \in Loops \cup Rounds /\ t.phase \in {"done", "asleep"}
          /\ t.phase = "asleep" => /\ t.due = task[m].due + Interval
                                   /\ t.begun = task[m].begun /\ t.count = task[m].count
      BY <3>1, AfterRoundFacts
    <3>4. task' = [task EXCEPT ![m] = t]
      BY <1>4, <1>8, <2>6
    <3>5. /\ ticks' \in [Matches -> LastTicks] /\ ticks'[m].known
          /\ ticks'[m].tick = match[m].tick
          /\ \A n \in Matches \ {m} : ticks'[n] = ticks[n]
      <4>1. ticks' = Observed(m, task[m], now)
        BY <1>4, <1>8, <2>6
      <4>2. m \in Matches /\ task[m] \in Rounds /\ now \in Nat
        BY <1>1, <3>1, <3>2
      <4>3. StatusTypeOK
        OBVIOUS
      <4> DEFINE o == Observed(m, task[m], now)
      <4>4. /\ o \in [Matches -> LastTicks] /\ o[m].known /\ o[m].tick = task[m].tick
            /\ \A n \in Matches \ {m} : o[n] = ticks[n]
        BY <4>2, <4>3, ObservedFacts
      <4> HIDE DEF o
      <4> QED  BY <3>2, <4>1, <4>4 DEF o
    <3> HIDE DEF t
    <3>6. StatusTypeOK'
      BY <1>1, <1>2, <2>1, <2>2, <3>3, <3>4, <3>5 DEF StatusTypeOK
    <3>7. \A n \in Matches : LoopKeepsTime(n)'
      <4> TAKE n \in Matches
      <4>1. CASE n = m
        <5>1. t.phase = "asleep" => t.due = t.begun + (t.count + 1) * Interval
                                    /\ t.begun + t.count * Interval <= now
          BY <3>2, <3>3, NextInterval
        <5>2. m \notin batch
          BY <1>1, <3>1 DEF LoopKeepsTime, Ready
        <5> QED  BY <4>1, <5>1, <5>2, <3>3, <3>4 DEF LoopKeepsTime, StatusTypeOK
      <4>2. CASE n # m
        BY <4>2, <3>4 DEF LoopKeepsTime, Ready, StatusTypeOK
      <4> QED  BY <4>1, <4>2
    <3>8. TickFanouts'
      BY <1>1, <2>1, <2>6, <3>4 DEF TickFanouts, StatusTypeOK, Fanouts, m
    <3>9. LastTickTrue'
      BY <1>1, <3>3, <3>4, <3>5 DEF LastTickTrue, Report, StatusTypeOK, Records
    <3>10. ResumedHaveLoops'
      BY <3>3, <3>4 DEF ResumedHaveLoops, StatusTypeOK
    <3> QED  BY <1>6, <2>3, <2>4, <3>6, <3>7, <3>8, <3>9, <3>10
  <2> QED  BY <2>5, <2>6
<1> QED  BY <1>7, <1>8

\* A send that arrives shows the match's tick, which is stored.
LEMMA DeliverKeeps ==
  ASSUME NEW f \in fanouts, NEW s \in Sockets, IndInv, Deliver(f, s)
  PROVE  IndInv'
<1>1. f.match \in Matches /\ match[f.match].tick \in Nat
  BY DEF IndInv, StatusTypeOK, Fanouts, Records
<1>2. shown' \in [Matches -> Nat] /\ ShownIsKept'
  BY <1>1 DEF IndInv, StatusTypeOK, ShownIsKept, Deliver
<1> QED  BY <1>2, SendOverKeeps DEF Deliver

\* A send that fails shows nothing.
LEMMA DropKeeps ==
  ASSUME NEW f \in fanouts, NEW s \in Sockets, IndInv, Drop(f, s)
  PROVE  IndInv'
<1>1. shown' \in [Matches -> Nat] /\ ShownIsKept'
  BY DEF IndInv, StatusTypeOK, ShownIsKept, Drop
<1> QED  BY <1>1, SendOverKeeps DEF Drop

-----------------------------------------------------------------------------

\* Nothing runs before the first start.
LEMMA InitHolds == Init => IndInv
<1> SUFFICES ASSUME Init PROVE IndInv
  OBVIOUS
<1>1. StatusTypeOK
  BY DEF Init, StatusTypeOK, Records, LastTicks, LastFanouts
<1>2. /\ \A m \in Matches : LoopKeepsTime(m)
      /\ TickFanouts /\ LostSoFar /\ LostAreGone /\ LastTickTrue /\ ShownIsKept
      /\ ResumedHaveLoops /\ DownIsEmpty
  BY DEF Init, LoopKeepsTime, TickFanouts, LostSoFar, LostAreGone, LastTickTrue, ShownIsKept,
         ResumedHaveLoops, DownIsEmpty, Report, NoTask, Unknown
<1> QED  BY <1>1, <1>2 DEF IndInv

\* Every step keeps the invariant.
LEMMA StepKeeps == IndInv /\ [Next]_vars => IndInv'
<1> SUFFICES ASSUME IndInv, [Next]_vars PROVE IndInv'
  OBVIOUS
<1>1. CASE UNCHANGED vars
  BY <1>1 DEF vars, IndInv, StatusTypeOK, DownIsEmpty, LoopKeepsTime, Ready, TickFanouts,
              LostSoFar, LostAreGone, LastTickTrue, ShownIsKept, ResumedHaveLoops, Report
<1>2. CASE Iterate
  BY <1>2, IterateKeeps
<1>3. CASE Pass
  BY <1>3, PassKeeps
<1>4. CASE Start
  BY <1>4, StartKeeps
<1>5. CASE Stop
  BY <1>5, StopKeeps
<1>6. ASSUME NEW m \in Matches,
             BeginLoop(m) \/ Tick(m) \/ TickNotStored(m) \/ Update(m) \/ StartMatch(m)
      PROVE  IndInv'
  BY <1>6, BeginLoopKeeps, TickKeeps, TickNotStoredKeeps, UpdateKeeps, StartMatchKeeps
<1>7. ASSUME NEW f \in fanouts, NEW s \in Sockets, Deliver(f, s) \/ Drop(f, s)
      PROVE  IndInv'
  BY <1>7, DeliverKeeps, DropKeeps
<1>8. ASSUME NEW m \in Matches, NEW s \in Sockets, Connect(m, s) \/ Disconnect(m, s)
      PROVE  IndInv'
  BY <1>8, ConnectKeeps, DisconnectKeeps
<1> QED  BY <1>1, <1>2, <1>3, <1>4, <1>5, <1>6, <1>7, <1>8 DEF Next

LEMMA Invariance == Spec => []IndInv
  BY InitHolds, StepKeeps, PTL DEF Spec

-----------------------------------------------------------------------------
(* While there is time for everything, nothing is late by more than the    *)
(* other matches' work.  w stands for the longest work of a tick.          *)

\* The matches' work, but for one of them.
Late(w) == (Cardinality(Matches) - 1) * w

Fits(w) == Interval > 3 * Late(w) + w + SendTimeout

\* The time at which a live loop goes on at the latest, if nothing held it up.
Limits(m) ==
    IF task[m].phase = "sending"
    THEN {f.until : f \in {g \in fanouts : g.tick /\ g.match = m}}
    ELSE {task[m].due}

\* The matches that may have their turn before m, which would go on at d, has its.
Owing(m, d, w) ==
    {n \in Matches \ {m} : task[n].phase = "asleep" /\ task[n].due <= d + Late(w)}

\* The work of those that owe nothing any more.
Spent(S, w) == w * (Cardinality(Matches) - 1 - Cardinality(S))

\* What is late is so by the work of those that had their turn.
OwedOnly(w) ==
    \A m \in Matches : Alive(task[m]) =>
        \A d \in Limits(m) : d <= now => now <= d + Spent(Owing(m, d, w), w)

\* A tick begins, and its broadcast ends, soon enough.
SoonEnough(w) ==
    /\ \A m \in Matches : task[m].phase = "sending" => task[m].drift <= Late(w)
    /\ \A m \in Matches : ticks[m].known => ticks[m].drift <= Late(w)
    /\ \A f \in fanouts : f.tick => f.until <= task[f.match].due + Late(w) + w + SendTimeout

\* A loop that broadcasts waits for a broadcast.
Waits ==
    \A m \in Matches : task[m].phase = "sending" =>
        \E f \in fanouts : f.tick /\ f.match = m

\* A match in the lobby has no loop, and a match that was seen has been begun.
LobbyIdle ==
    \A m \in Matches : match[m].status = "lobby" => task[m].phase = "none" /\ ~ticks[m].known

Runs(m) == task[m].phase \in {"asleep", "sending"}

\* A match that was seen is due again an interval later, or sooner.
SeenIsDue ==
    \A m \in Matches : ticks[m].known =>
        /\ task[m].phase # "new"
        /\ Runs(m) => task[m].due <= ticks[m].at + Interval

\* The loops that a start has made begin before any time passes.
RecoveredIsDue ==
    /\ up => recovery.known
    /\ recovery.known =>
         /\ recovery.at <= now
         /\ \A m \in Matches : Runs(m) => task[m].due >= recovery.at + Interval
         /\ \A m \in recovery.matches :
              /\ match[m].status # "lobby"
              /\ task[m].phase = "new" => now = recovery.at
              /\ Runs(m) /\ ~ticks[m].known => task[m].due = recovery.at + Interval

TimeInv ==
    /\ Waits
    /\ LobbyIdle
    /\ SeenIsDue
    /\ RecoveredIsDue
    /\ \A w \in Nat : Fits(w) /\ longest <= w => OwedOnly(w) /\ SoonEnough(w)

\* Whoever has had a turn has spent his work.
LEMMA SpentFacts ==
  ASSUME NEW m \in Matches, NEW S \in SUBSET (Matches \ {m}), NEW T \in SUBSET S, NEW w \in Nat
  PROVE  /\ Late(w) \in Nat /\ Spent(S, w) \in Nat /\ Spent(T, w) \in Nat
         /\ Spent(S, w) <= Spent(T, w) /\ Spent(T, w) <= Late(w)
         /\ S # T => Spent(S, w) + w <= Spent(T, w)
<1> DEFINE N == Cardinality(Matches)
           s == Cardinality(S)
           t == Cardinality(T)
<1>1. IsFiniteSet(Matches)
  BY StatusAssumption
<1>2. N \in Nat /\ IsFiniteSet(Matches \ {m}) /\ Cardinality(Matches \ {m}) = N - 1
  BY <1>1, FS_CardinalityType, FS_RemoveElement
<1>3. IsFiniteSet(S) /\ s \in Nat /\ s <= N - 1
  BY <1>2, FS_Subset, FS_CardinalityType
<1>4. t \in Nat /\ t <= s /\ (t = s => S = T)
  BY <1>3, FS_Subset, FS_CardinalityType
<1> DEFINE a == N - 1 - s
           b == N - 1 - t
<1>5. a \in Nat /\ b \in Nat /\ N - 1 \in Nat /\ a <= b /\ b <= N - 1 /\ (S # T => a + 1 <= b)
  BY <1>2, <1>3, <1>4
<1>6. /\ Spent(S, w) = w * a /\ Spent(T, w) = w * b /\ Late(w) = (N - 1) * w
  BY DEF Spent, Late
<1> HIDE DEF a, b, N
<1>7. \A x, y \in Nat : x <= y => w * x \in Nat /\ w * y \in Nat /\ w * x <= w * y
  <2>1. ASSUME NEW x \in Nat, NEW y \in Nat, x <= y
        PROVE  w * x \in Nat /\ w * y \in Nat /\ w * x <= w * y
    <3>1. y - x \in Nat /\ y = x + (y - x)
      BY <2>1
    <3>2. w * (y - x) \in Nat /\ w * x \in Nat
      BY <3>1
    <3>3. w * (x + (y - x)) = w * x + w * (y - x)
      BY <3>1
    <3>4. w * y = w * x + w * (y - x)
      BY <3>1, <3>3
    <3> QED  BY <3>2, <3>4
  <2> QED  BY <2>1
<1>8. w * (a + 1) = w * a + w /\ (N - 1) * w = w * (N - 1)
  BY <1>5
<1> QED  BY <1>5, <1>6, <1>7, <1>8

\* What a match is late by is no more than the others' work.
LEMMA LateAtMost ==
  ASSUME IndInv, NEW w \in Nat, OwedOnly(w), NEW m \in Matches, Alive(task[m]),
         NEW d \in Limits(m), d \in Nat, d <= now
  PROVE  now <= d + Late(w) /\ Late(w) \in Nat
<1> DEFINE S == Owing(m, d, w)
<1>1. S \in SUBSET (Matches \ {m})
  BY DEF Owing
<1>2. Spent(S, w) \in Nat /\ Spent(S, w) <= Late(w) /\ Late(w) \in Nat
  BY <1>1, SpentFacts
<1>3. now <= d + Spent(S, w)
  BY DEF OwedOnly
<1>4. now \in Nat
  BY DEF IndInv, StatusTypeOK
<1> QED  BY <1>2, <1>3, <1>4

\* The limits are times.
LEMMA LimitsAreTimes ==
  ASSUME IndInv, NEW m \in Matches, Alive(task[m])
  PROVE  Limits(m) \subseteq Nat /\ (task[m].phase # "sending" => Limits(m) = {task[m].due})
<1>1. CASE task[m].phase = "sending"
  BY <1>1 DEF Limits, IndInv, StatusTypeOK, Fanouts
<1>2. CASE task[m].phase # "sending"
  <2>1. task[m].due \in Nat
    BY <1>2 DEF Alive, IndInv, StatusTypeOK, Loops, Rounds, NoTask
  <2> QED  BY <1>2, <2>1 DEF Limits
<1> QED  BY <1>1, <1>2

\* What was recovered is known.
LEMMA RecoveryFacts ==
  ASSUME IndInv, recovery.known
  PROVE  recovery.at \in Nat /\ recovery.matches \subseteq Matches
<1>1. recovery # Unknown
  BY DEF Unknown
<1> QED  BY <1>1 DEF IndInv, StatusTypeOK

\* Nothing moves: nothing is owed that was not.
LEMMA OwedWhileResting ==
  ASSUME IndInv, NEW w \in Nat, OwedOnly(w), now' = now, task' = task,
         \A m \in Matches : Alive(task[m]) => Limits(m)' = Limits(m)
  PROVE  OwedOnly(w)'
<1> SUFFICES ASSUME NEW m \in Matches, Alive(task'[m]), NEW d \in Limits(m)', d <= now'
             PROVE  now' <= d + Spent(Owing(m, d, w), w)'
  BY DEF OwedOnly
<1>1. Owing(m, d, w)' = Owing(m, d, w) /\ Alive(task[m])
  BY DEF Owing, Late
<1>2. Spent(Owing(m, d, w), w)' = Spent(Owing(m, d, w), w)
  BY <1>1 DEF Spent
<1> QED  BY <1>1, <1>2 DEF OwedOnly

\* One loop moves, and no time passes: it goes on now or later, and if it sleeps, for long.
LEMMA OwedWhileOneMoves ==
  ASSUME IndInv, NEW w \in Nat, OwedOnly(w), now' = now, NEW n \in Matches,
         \A m \in Matches \ {n} : task'[m] = task[m],
         \A m \in Matches \ {n} : Alive(task[m]) => Limits(m)' = Limits(m),
         task'[n].phase = "asleep" => task'[n].due \in Nat /\ task'[n].due > now + Late(w),
         Alive(task'[n]) => \A d \in Limits(n)' : d \in Nat /\ d >= now
  PROVE  OwedOnly(w)'
<1> SUFFICES ASSUME NEW m \in Matches, Alive(task'[m]), NEW d \in Limits(m)', d <= now'
             PROVE  now' <= d + Spent(Owing(m, d, w)', w)
  BY DEF OwedOnly, Spent
<1>1. now \in Nat
  BY DEF IndInv, StatusTypeOK
<1> DEFINE T == Owing(m, d, w)'
<1>2. T \in SUBSET (Matches \ {m})
  BY DEF Owing
<1>3. Spent(T, w) \in Nat /\ Late(w) \in Nat
  BY <1>2, SpentFacts
<1>4. CASE m = n
  BY <1>1, <1>3, <1>4
<1>5. CASE m # n
  <2>1. task'[m] = task[m] /\ d \in Limits(m) /\ d \in Nat /\ Alive(task[m])
    BY <1>5, LimitsAreTimes
  <2> DEFINE S == Owing(m, d, w)
  <2>2. S \in SUBSET (Matches \ {m})
    BY DEF Owing
  <2>3. n \notin T
    <3>1. task'[n].phase = "asleep" => ~(task'[n].due <= d + Late(w))
      BY <1>1, <1>3, <2>1
    <3> QED  BY <3>1 DEF Owing, Late
  <2>4. T \subseteq S
    BY <2>3 DEF Owing, Late
  <2>5. Spent(S, w) \in Nat /\ Spent(S, w) <= Spent(T, w)
    BY <2>2, <2>4, SpentFacts
  <2>6. now <= d + Spent(S, w)
    BY <2>1 DEF OwedOnly
  <2> QED  BY <1>1, <1>3, <2>1, <2>5, <2>6
<1> QED  BY <1>4, <1>5

\* A loop has its turn, and its work holds up the others.
LEMMA OwedWhileOneWorks ==
  ASSUME IndInv, NEW w \in Nat, Fits(w), OwedOnly(w), NEW n \in Matches,
         task[n].phase = "asleep", task[n].due <= now, now' \in Nat, now <= now', now' <= now + w,
         \A m \in Matches \ {n} : task'[m] = task[m],
         \A m \in Matches \ {n} : Alive(task[m]) => Limits(m)' = Limits(m),
         task'[n].phase = "asleep" => task'[n].due = task[n].due + Interval,
         Alive(task'[n]) => \A d \in Limits(n)' : d \in Nat /\ d >= now'
  PROVE  OwedOnly(w)'
<1> SUFFICES ASSUME NEW m \in Matches, Alive(task'[m]), NEW d \in Limits(m)', d <= now'
             PROVE  now' <= d + Spent(Owing(m, d, w)', w)
  BY DEF OwedOnly, Spent
<1>1. now \in Nat /\ task[n].due \in Nat
  BY DEF IndInv, StatusTypeOK, Loops, Rounds, NoTask
<1> DEFINE T == Owing(m, d, w)'
<1>2. T \in SUBSET (Matches \ {m})
  BY DEF Owing
<1>3. Spent(T, w) \in Nat /\ Late(w) \in Nat
  BY <1>2, SpentFacts
<1>4. CASE m = n
  BY <1>1, <1>3, <1>4
<1>5. CASE m # n
  <2>1. task'[m] = task[m] /\ d \in Limits(m) /\ d \in Nat /\ Alive(task[m])
    BY <1>5, LimitsAreTimes
  <2>2. now <= task[n].due + Late(w)
    <3>1. Alive(task[n]) /\ task[n].due \in Limits(n)
      BY DEF Alive, Limits
    <3> QED  BY <1>1, <3>1, LateAtMost
  <2>3. n \notin T
    <3>1. task[n].due + Interval > d + Late(w)
      BY <1>1, <1>3, <2>1, <2>2, StatusAssumption DEF Fits
    <3>2. task'[n].phase = "asleep" => ~(task'[n].due <= d + Late(w))
      BY <1>1, <1>3, <2>1, <3>1, StatusAssumption
    <3> QED  BY <3>2 DEF Owing, Late
  <2>4. CASE d <= now
    <3> DEFINE S == Owing(m, d, w)
    <3>1. S \in SUBSET (Matches \ {m})
      BY DEF Owing
    <3>2. T \subseteq S
      BY <2>3 DEF Owing, Late
    <3>3. n \in S
      <4>1. now <= d + Late(w)
        BY <2>1, <2>4, LateAtMost
      <4>2. task[n].due <= d + Late(w)
        BY <1>1, <1>3, <2>1, <4>1
      <4> QED  BY <1>5, <4>2 DEF Owing
    <3>4. Spent(S, w) \in Nat /\ Spent(S, w) + w <= Spent(T, w)
      BY <2>3, <3>1, <3>2, <3>3, SpentFacts
    <3>5. now <= d + Spent(S, w)
      BY <2>1, <2>4 DEF OwedOnly
    <3> QED  BY <1>1, <1>3, <2>1, <3>4, <3>5
  <2>5. CASE d > now
    <3> DEFINE S == Matches \ {m}
    <3>1. Spent(S, w) \in Nat /\ Spent(S, w) + w <= Spent(T, w)
      BY <1>2, <1>5, <2>3, SpentFacts
    <3> QED  BY <1>1, <1>3, <2>1, <2>5, <3>1
  <2> QED  BY <1>1, <2>1, <2>4, <2>5
<1> QED  BY <1>4, <1>5

-----------------------------------------------------------------------------
(* Each action keeps what is late within bounds.                           *)

\* An iteration takes up what is ready.
LEMMA IterateInTime ==
  ASSUME IndInv, TimeInv, Iterate
  PROVE  TimeInv'
<1> USE DEF TimeInv
<1>1. Waits' /\ LobbyIdle' /\ SeenIsDue' /\ RecoveredIsDue'
  BY DEF Waits, LobbyIdle, SeenIsDue, RecoveredIsDue, Runs, Iterate
<1>2. ASSUME NEW w \in Nat, Fits(w)', longest' <= w
      PROVE  OwedOnly(w)' /\ SoonEnough(w)'
  <2>1. OwedOnly(w) /\ SoonEnough(w) /\ now' = now /\ task' = task /\ fanouts' = fanouts
        /\ ticks' = ticks
    BY <1>2 DEF Fits, Late, Iterate
  <2>2. OwedOnly(w)'
    BY <2>1, OwedWhileResting DEF Limits
  <2> QED  BY <2>1, <2>2 DEF SoonEnough, Late
<1> QED  BY <1>1, <1>2

\* Time passes while no live loop is late at all.
LEMMA PassInTime ==
  ASSUME IndInv, TimeInv, Pass
  PROVE  TimeInv'
<1> USE DEF TimeInv
<1>1. now \in Nat /\ now' = now + 1
  BY DEF IndInv, StatusTypeOK, Pass
<1>2. Waits' /\ LobbyIdle' /\ SeenIsDue'
  BY DEF Waits, LobbyIdle, SeenIsDue, Runs, Pass
<1>3. RecoveredIsDue'
  <2>1. \A m \in Matches : task[m].phase # "new"
    BY DEF Pass, Ready
  <2>2. recovery.known => recovery.at \in Nat /\ recovery.matches \subseteq Matches
    BY RecoveryFacts
  <2> QED  BY <1>1, <2>1, <2>2 DEF RecoveredIsDue, Runs, Pass
<1>4. ASSUME NEW w \in Nat, Fits(w)', longest' <= w
      PROVE  OwedOnly(w)' /\ SoonEnough(w)'
  <2>1. SoonEnough(w)
    BY <1>4 DEF Fits, Late, Pass
  <2>2. SoonEnough(w)'
    BY <2>1 DEF SoonEnough, Late, Pass
  <2>3. ASSUME NEW m \in Matches, Alive(task'[m]), NEW d \in Limits(m)'
        PROVE  d \in Nat /\ d > now
    <3>1. Alive(task[m]) /\ d \in Limits(m)
      BY <2>3 DEF Limits, Pass
    <3>2. d \in Nat
      BY <3>1, LimitsAreTimes
    <3>3. CASE task[m].phase = "sending"
      <4>1. PICK f \in fanouts : d = f.until
        BY <3>1, <3>3 DEF Limits
      <4> QED  BY <3>2, <4>1 DEF Pass
    <3>4. CASE task[m].phase # "sending"
      BY <1>1, <3>1, <3>2, <3>4, LimitsAreTimes DEF Pass, Ready, Alive
    <3> QED  BY <3>2, <3>3, <3>4
  <2>4. OwedOnly(w)'
    <3> SUFFICES ASSUME NEW m \in Matches, Alive(task'[m]), NEW d \in Limits(m)', d <= now'
                 PROVE  now' <= d + Spent(Owing(m, d, w)', w)
      BY DEF OwedOnly, Spent
    <3>1. Owing(m, d, w)' \in SUBSET (Matches \ {m})
      BY DEF Owing
    <3>2. Spent(Owing(m, d, w)', w) \in Nat
      BY <3>1, SpentFacts
    <3> QED  BY <1>1, <2>3, <3>2
  <2> QED  BY <2>2, <2>4
<1> QED  BY <1>2, <1>3, <1>4

\* The loops that a start makes begin now.
LEMMA StartInTime ==
  ASSUME IndInv, TimeInv, Start
  PROVE  TimeInv'
<1> USE DEF TimeInv
<1>1. /\ fanouts = {} /\ fanouts' = {} /\ \A m \in Matches : ~ticks[m].known
      /\ ticks' = ticks /\ now' = now /\ now \in Nat /\ match' = stored
  BY DEF IndInv, DownIsEmpty, StatusTypeOK, Start
<1>2. \A m \in Matches : \/ task'[m] = Loop("new", now, now, 0) /\ match'[m].status = "active"
                         \/ task'[m] = NoTask /\ match'[m].status # "active"
  BY <1>1 DEF Start, Tasks
<1>3. \A m \in Matches : /\ task'[m].phase \in {"new", "none"}
                         /\ task'[m].phase = "new" => task'[m].due = now
                         /\ match'[m].status = "lobby" => task'[m].phase = "none"
  BY <1>2 DEF Loop, NoTask
<1>4. recovery' = [known |-> TRUE, at |-> now,
                   matches |-> {m \in Matches : stored[m].status = "active"}]
  BY DEF Start, StartupRecovery
<1>5. Waits' /\ LobbyIdle' /\ SeenIsDue' /\ RecoveredIsDue'
  BY <1>1, <1>3, <1>4 DEF Waits, LobbyIdle, SeenIsDue, RecoveredIsDue, Runs
<1>6. ASSUME NEW w \in Nat
      PROVE  OwedOnly(w)' /\ SoonEnough(w)'
  <2>1. SoonEnough(w)'
    BY <1>1, <1>3 DEF SoonEnough
  <2>2. OwedOnly(w)'
    <3> SUFFICES ASSUME NEW m \in Matches, Alive(task'[m]), NEW d \in Limits(m)', d <= now'
                 PROVE  now' <= d + Spent(Owing(m, d, w)', w)
      BY DEF OwedOnly, Spent
    <3>1. Owing(m, d, w)' \in SUBSET (Matches \ {m})
      BY DEF Owing
    <3>2. Spent(Owing(m, d, w)', w) \in Nat
      BY <3>1, SpentFacts
    <3>3. d = now
      BY <1>3 DEF Limits, Alive
    <3> QED  BY <1>1, <3>2, <3>3
  <2> QED  BY <2>1, <2>2
<1> QED  BY <1>5, <1>6

\* A stop leaves nothing to be late.
LEMMA StopInTime ==
  ASSUME IndInv, TimeInv, Stop
  PROVE  TimeInv'
<1> USE DEF TimeInv
<1>1. /\ \A m \in Matches : task'[m].phase = "none" /\ ~ticks'[m].known
      /\ fanouts' = {} /\ ~recovery'.known /\ ~up'
  BY DEF Stop, NoTask, Unknown
<1>2. Waits' /\ LobbyIdle' /\ SeenIsDue' /\ RecoveredIsDue'
  BY <1>1 DEF Waits, LobbyIdle, SeenIsDue, RecoveredIsDue, Runs
<1>3. \A w \in Nat : OwedOnly(w)' /\ SoonEnough(w)'
  BY <1>1 DEF OwedOnly, SoonEnough, Alive
<1> QED  BY <1>2, <1>3

\* A loop begins, and is due an interval later.
LEMMA BeginLoopInTime ==
  ASSUME NEW n \in Matches, IndInv, TimeInv, BeginLoop(n)
  PROVE  TimeInv'
<1> USE DEF TimeInv
<1>1. /\ now \in Nat /\ now' = now /\ Interval \in Nat /\ task[n].phase = "new"
      /\ recovery.known => recovery.at \in Nat /\ recovery.matches \subseteq Matches
  BY StatusAssumption, RecoveryFacts DEF IndInv, StatusTypeOK, BeginLoop
<1>2. /\ task'[n].phase = "asleep" /\ task'[n].due = now + Interval
      /\ \A m \in Matches \ {n} : task'[m] = task[m]
  BY DEF IndInv, StatusTypeOK, BeginLoop, Loop, FirstDue
<1>3. /\ UNCHANGED <<up, match, fanouts, ticks, recovery, longest>>
      /\ \A f \in fanouts : f.tick => f.match # n
  BY <1>1 DEF BeginLoop, IndInv, TickFanouts
<1>4. Waits' /\ LobbyIdle'
  BY <1>1, <1>2, <1>3 DEF Waits, LobbyIdle
<1>5. SeenIsDue'
  BY <1>1, <1>2, <1>3 DEF SeenIsDue, Runs
<1>6. RecoveredIsDue'
  BY <1>1, <1>2, <1>3 DEF RecoveredIsDue, Runs
<1>7. ASSUME NEW w \in Nat, Fits(w)', longest' <= w
      PROVE  OwedOnly(w)' /\ SoonEnough(w)'
  <2>1. OwedOnly(w) /\ SoonEnough(w) /\ Fits(w)
    BY <1>3, <1>7 DEF Fits, Late
  <2>2. Late(w) \in Nat
    BY SpentFacts
  <2>3. Interval > Late(w)
    BY <1>1, <2>1, <2>2, StatusAssumption DEF Fits
  <2>4. \A m \in Matches \ {n} : Limits(m)' = Limits(m)
    BY <1>2, <1>3 DEF Limits
  <2>5. \A d \in Limits(n)' : d = now + Interval
    BY <1>2 DEF Limits
  <2>6. OwedOnly(w)'
    BY <1>1, <1>2, <2>1, <2>2, <2>3, <2>4, <2>5, OwedWhileOneMoves
  <2>7. SoonEnough(w)'
    BY <1>2, <1>3, <2>1 DEF SoonEnough, Late, IndInv, StatusTypeOK, Fanouts
  <2> QED  BY <2>6, <2>7
<1> QED  BY <1>4, <1>5, <1>6, <1>7

\* A tick that is not stored holds up the others as any tick does.
LEMMA TickNotStoredInTime ==
  ASSUME NEW n \in Matches, IndInv, TimeInv, TickNotStored(n)
  PROVE  TimeInv'
<1> USE DEF TimeInv
<1>1. PICK work \in 0..Work :
        now' = now + work /\ longest' = IF work > longest THEN work ELSE longest
  BY DEF TickNotStored, Worked
<1>2. /\ now \in Nat /\ longest \in Nat /\ work \in Nat /\ now' \in Nat /\ now' = now + work
      /\ now <= now' /\ longest <= longest' /\ work <= longest' /\ longest' \in Nat
  BY <1>1, StatusAssumption DEF IndInv, StatusTypeOK
<1>3. /\ task'[n].phase = "dead" /\ \A m \in Matches \ {n} : task'[m] = task[m]
  BY DEF IndInv, StatusTypeOK, TickNotStored
<1>4. task[n].phase = "asleep" /\ task[n].due <= now /\ task[n].due \in Nat
  BY DEF TickNotStored, IndInv, StatusTypeOK, LoopKeepsTime, Ready, NoTask, Loops, Rounds
<1>5. /\ UNCHANGED <<up, match, fanouts, ticks, recovery>>
      /\ \A f \in fanouts : f.tick => f.match # n
  BY <1>4 DEF TickNotStored, IndInv, TickFanouts
<1>6. Waits' /\ LobbyIdle' /\ SeenIsDue'
  BY <1>3, <1>4, <1>5 DEF Waits, LobbyIdle, SeenIsDue, Runs
<1>7. RecoveredIsDue'
  <2>1. recovery.known => recovery.at \in Nat /\ recovery.matches \subseteq Matches
    BY RecoveryFacts
  <2>2. recovery.known => \A m \in recovery.matches : task[m].phase # "new"
    BY <1>2, <1>4, <2>1, StatusAssumption DEF RecoveredIsDue, Runs
  <2> QED  BY <1>2, <1>3, <1>5, <2>1, <2>2 DEF RecoveredIsDue, Runs
<1>8. ASSUME NEW w \in Nat, Fits(w)', longest' <= w
      PROVE  OwedOnly(w)' /\ SoonEnough(w)'
  <2>1. OwedOnly(w) /\ SoonEnough(w) /\ Fits(w) /\ now' <= now + w
    BY <1>2, <1>8 DEF Fits, Late
  <2>2. \A m \in Matches \ {n} : Limits(m)' = Limits(m)
    BY <1>3, <1>5 DEF Limits
  <2>3. OwedOnly(w)'
    BY <1>2, <1>3, <1>4, <2>1, <2>2, OwedWhileOneWorks DEF Alive
  <2>4. SoonEnough(w)'
    BY <1>3, <1>5, <2>1 DEF SoonEnough, Late, IndInv, StatusTypeOK, Fanouts
  <2> QED  BY <2>3, <2>4
<1> QED  BY <1>6, <1>7, <1>8

\* A tick holds up the others, and its broadcast ends soon enough.
LEMMA TickInTime ==
  ASSUME NEW n \in Matches, IndInv, TimeInv, Tick(n)
  PROVE  TimeInv'
<1> USE DEF TimeInv
<1>1. PICK work \in 0..Work, terminal \in BOOLEAN :
        /\ Worked(work)
        /\ match' = [match EXCEPT ![n] = Advanced(n, terminal)]
        /\ IF sockets[n] = {}
           THEN /\ ticks' = Observed(n, Round(n, terminal), now + work)
                /\ task' = [task EXCEPT ![n] = AfterRound(Round(n, terminal))]
                /\ fanouts' = fanouts
           ELSE /\ ticks' = ticks
                /\ task' = [task EXCEPT ![n] = Round(n, terminal)]
                /\ fanouts' = fanouts \cup {Fanout(n, now + work, TRUE)}
  BY DEF Tick
<1>2. /\ now \in Nat /\ longest \in Nat /\ work \in Nat /\ now' \in Nat /\ now' = now + work
      /\ now <= now' /\ longest <= longest' /\ work <= longest' /\ longest' \in Nat
  BY <1>1, StatusAssumption DEF IndInv, StatusTypeOK, Worked
<1>3. /\ \A m \in Matches \ {n} : task'[m] = task[m] /\ match'[m] = match[m]
      /\ match'[n].status # "lobby"
  BY <1>1 DEF IndInv, StatusTypeOK, Advanced
<1>4. task[n].phase = "asleep" /\ task[n].due <= now /\ task[n].due \in Nat
  BY DEF Tick, IndInv, StatusTypeOK, LoopKeepsTime, Ready, NoTask, Loops, Rounds
<1>5. UNCHANGED <<up, recovery>> /\ \A f \in fanouts : f.tick => f.match # n
  BY <1>4 DEF Tick, IndInv, TickFanouts
<1>6. recovery.known => recovery.at \in Nat /\ recovery.matches \subseteq Matches
  BY RecoveryFacts
<1>7. recovery.known => \A m \in recovery.matches : task[m].phase # "new"
  BY <1>2, <1>4, <1>6, StatusAssumption DEF RecoveredIsDue, Runs
<1> DEFINE r == Round(n, terminal)
           f0 == Fanout(n, now + work, TRUE)
<1>8. /\ r \in Rounds /\ r.phase = "sending" /\ r.due = task[n].due
      /\ r.drift = now - task[n].due
  <2>1. task[n] \in Loops
    BY <1>4 DEF IndInv, StatusTypeOK, NoTask, Loops, Rounds
  <2>2. match[n].tick \in Nat
    BY DEF IndInv, StatusTypeOK, Records
  <2> QED  BY <1>2, <2>1, <2>2 DEF Round, Rounds, Loops
<1>9. f0.match = n /\ f0.tick /\ f0.until = now' + SendTimeout
  BY <1>2 DEF Fanout
<1>10. ASSUME NEW w \in Nat, Fits(w)', longest' <= w
       PROVE  /\ OwedOnly(w) /\ SoonEnough(w) /\ Fits(w) /\ now' <= now + w
              /\ now <= task[n].due + Late(w) /\ Late(w) \in Nat
  <2>1. OwedOnly(w) /\ SoonEnough(w) /\ Fits(w) /\ now' <= now + w
    BY <1>2, <1>10 DEF Fits, Late
  <2>2. Alive(task[n]) /\ task[n].due \in Limits(n)
    BY <1>4 DEF Alive, Limits
  <2> QED  BY <1>4, <2>1, <2>2, LateAtMost
<1>11. CASE sockets[n] = {}
  <2> DEFINE t == AfterRound(r)
             o == Observed(n, r, now + work)
  <2>1. ticks' = o /\ task' = [task EXCEPT ![n] = t] /\ fanouts' = fanouts
    BY <1>1, <1>11
  <2>2. /\ t.phase \in {"done", "asleep"} /\ task'[n] = t
        /\ t.phase = "asleep" => t.due = task[n].due + Interval
    BY <1>8, <2>1, AfterRoundFacts DEF IndInv, StatusTypeOK
  <2>3. /\ o[n] = [known |-> TRUE, tick |-> r.tick, drift |-> r.drift, at |-> now']
        /\ \A m \in Matches \ {n} : o[m] = ticks[m]
    BY <1>2 DEF Observed, IndInv, StatusTypeOK
  <2>4. o[n].known /\ o[n].drift = now - task[n].due /\ o[n].at = now'
    BY <1>8, <2>3
  <2> HIDE DEF r, t, o, f0
  <2>5. Waits' /\ LobbyIdle'
    BY <1>3, <2>1, <2>2, <2>3 DEF Waits, LobbyIdle
  <2>6. SeenIsDue'
    BY <1>2, <1>3, <1>4, <2>1, <2>2, <2>3, <2>4, StatusAssumption DEF SeenIsDue, Runs
  <2>7. RecoveredIsDue'
    <3>1. recovery.known => Runs(n) /\ task[n].due >= recovery.at + Interval
      BY <1>4 DEF RecoveredIsDue, Runs
    <3>2. recovery.known /\ t.phase = "asleep" => t.due >= recovery.at + Interval
      BY <1>4, <1>6, <2>2, <3>1, StatusAssumption
    <3> QED  BY <1>2, <1>3, <1>5, <1>6, <1>7, <2>1, <2>2, <2>3, <2>4, <3>2
             DEF RecoveredIsDue, Runs
  <2>8. ASSUME NEW w \in Nat, Fits(w)', longest' <= w
        PROVE  OwedOnly(w)' /\ SoonEnough(w)'
    <3>1. /\ OwedOnly(w) /\ SoonEnough(w) /\ Fits(w) /\ now' <= now + w
          /\ now <= task[n].due + Late(w) /\ Late(w) \in Nat
      BY <1>10, <2>8
    <3>2. \A m \in Matches \ {n} : Limits(m)' = Limits(m)
      BY <1>3, <2>1 DEF Limits
    <3>3. Alive(task'[n]) => \A d \in Limits(n)' : d \in Nat /\ d >= now'
      <4>1. Late(w) + w < Interval
        BY <3>1, StatusAssumption DEF Fits
      <4>2. task[n].due + Interval \in Nat /\ task[n].due + Interval >= now'
        BY <1>2, <1>4, <3>1, <4>1, StatusAssumption
      <4>3. Alive(task'[n]) => Limits(n)' = {task[n].due + Interval}
        BY <2>2 DEF Alive, Limits
      <4> QED  BY <4>2, <4>3
    <3>4. OwedOnly(w)'
      BY <1>2, <1>3, <1>4, <2>2, <3>1, <3>2, <3>3, OwedWhileOneWorks
    <3>5. o[n].drift <= Late(w)
      BY <1>2, <1>4, <2>4, <3>1
    <3>6. SoonEnough(w)'
      BY <1>3, <1>5, <2>1, <2>2, <2>3, <3>1, <3>5
         DEF SoonEnough, Late, IndInv, StatusTypeOK, Fanouts
    <3> QED  BY <3>4, <3>6
  <2> QED  BY <2>5, <2>6, <2>7, <2>8
<1>12. CASE sockets[n] # {}
  <2>1. ticks' = ticks /\ task' = [task EXCEPT ![n] = r] /\ fanouts' = fanouts \cup {f0}
    BY <1>1, <1>12
  <2>2. task'[n] = r
    BY <2>1 DEF IndInv, StatusTypeOK
  <2> HIDE DEF r, f0
  <2>3. Waits'
    BY <1>3, <1>9, <2>1, <2>2 DEF Waits
  <2>4. LobbyIdle' /\ SeenIsDue'
    BY <1>3, <1>4, <1>8, <2>1, <2>2 DEF LobbyIdle, SeenIsDue, Runs
  <2>5. RecoveredIsDue'
    BY <1>2, <1>3, <1>4, <1>5, <1>6, <1>7, <1>8, <2>1, <2>2 DEF RecoveredIsDue, Runs
  <2>6. ASSUME NEW w \in Nat, Fits(w)', longest' <= w
        PROVE  OwedOnly(w)' /\ SoonEnough(w)'
    <3>1. /\ OwedOnly(w) /\ SoonEnough(w) /\ Fits(w) /\ now' <= now + w
          /\ now <= task[n].due + Late(w) /\ Late(w) \in Nat
      BY <1>10, <2>6
    <3>2. \A m \in Matches \ {n} : Limits(m)' = Limits(m)
      BY <1>3, <1>9, <2>1 DEF Limits
    <3>3. \A d \in Limits(n)' : d \in Nat /\ d >= now'
      <4>1. \A d \in Limits(n)' : d = f0.until
        BY <1>5, <1>8, <1>9, <2>1, <2>2 DEF Limits
      <4> QED  BY <1>2, <1>9, <4>1, StatusAssumption
    <3>4. OwedOnly(w)'
      BY <1>2, <1>3, <1>4, <1>8, <2>2, <3>1, <3>2, <3>3, OwedWhileOneWorks
    <3>5. /\ r.drift <= Late(w)
          /\ f0.until <= r.due + Late(w) + w + SendTimeout
      BY <1>2, <1>4, <1>8, <1>9, <3>1, StatusAssumption
    <3>6. SoonEnough(w)'
      BY <1>3, <1>5, <1>9, <2>1, <2>2, <3>1, <3>5
         DEF SoonEnough, Late, IndInv, StatusTypeOK, Fanouts
    <3> QED  BY <3>4, <3>6
  <2> QED  BY <2>3, <2>4, <2>5, <2>6
<1> QED  BY <1>11, <1>12

\* A broadcast that is not a tick's has nobody wait for it.
LEMMA UpdateInTime ==
  ASSUME NEW n \in Matches, IndInv, TimeInv, Update(n)
  PROVE  TimeInv'
<1> USE DEF TimeInv
<1> DEFINE f0 == Fanout(n, now, FALSE)
<1>1. fanouts' = fanouts \cup {f0} /\ ~f0.tick
  BY DEF Update, Fanout
<1>2. UNCHANGED <<now, up, match, task, ticks, recovery, longest>>
  BY DEF Update
<1> HIDE DEF f0
<1>3. Waits' /\ LobbyIdle' /\ SeenIsDue' /\ RecoveredIsDue'
  BY <1>1, <1>2 DEF Waits, LobbyIdle, SeenIsDue, RecoveredIsDue, Runs
<1>4. ASSUME NEW w \in Nat, Fits(w)', longest' <= w
      PROVE  OwedOnly(w)' /\ SoonEnough(w)'
  <2>1. OwedOnly(w) /\ SoonEnough(w)
    BY <1>2, <1>4 DEF Fits, Late
  <2>2. \A m \in Matches : Limits(m)' = Limits(m)
    BY <1>1, <1>2 DEF Limits
  <2>3. OwedOnly(w)'
    BY <1>2, <2>1, <2>2, OwedWhileResting
  <2> QED  BY <1>1, <1>2, <2>1, <2>3 DEF SoonEnough, Late
<1> QED  BY <1>3, <1>4

\* A match that leaves the lobby has its loop begin now.
LEMMA StartMatchInTime ==
  ASSUME NEW n \in Matches, IndInv, TimeInv, StartMatch(n)
  PROVE  TimeInv'
<1> USE DEF TimeInv
<1>1. task[n].phase = "none" /\ ~ticks[n].known /\ now \in Nat
  BY DEF StartMatch, LobbyIdle, IndInv, StatusTypeOK
<1>2. /\ task'[n].phase = "new" /\ task'[n].due = now
      /\ \A m \in Matches \ {n} : task'[m] = task[m] /\ match'[m] = match[m]
      /\ match'[n].status = "active" /\ match[n].status = "lobby"
  BY <1>1 DEF StartMatch, Loop, Alive, IndInv, StatusTypeOK
<1>3. /\ UNCHANGED <<now, up, fanouts, ticks, recovery, longest>>
      /\ \A f \in fanouts : f.tick => f.match # n
  BY <1>1 DEF StartMatch, IndInv, TickFanouts
<1>4. Waits' /\ LobbyIdle' /\ SeenIsDue'
  BY <1>1, <1>2, <1>3 DEF Waits, LobbyIdle, SeenIsDue, Runs
<1>5. RecoveredIsDue'
  <2>1. recovery.known => recovery.matches \subseteq Matches /\ n \notin recovery.matches
    BY <1>2, RecoveryFacts DEF RecoveredIsDue
  <2> QED  BY <1>2, <1>3, <2>1 DEF RecoveredIsDue, Runs
<1>6. ASSUME NEW w \in Nat, Fits(w)', longest' <= w
      PROVE  OwedOnly(w)' /\ SoonEnough(w)'
  <2>1. OwedOnly(w) /\ SoonEnough(w)
    BY <1>3, <1>6 DEF Fits, Late
  <2>2. \A m \in Matches \ {n} : Limits(m)' = Limits(m)
    BY <1>2, <1>3 DEF Limits
  <2>3. \A d \in Limits(n)' : d = now
    BY <1>2 DEF Limits
  <2>4. OwedOnly(w)'
    BY <1>1, <1>2, <1>3, <2>1, <2>2, <2>3, OwedWhileOneMoves
  <2>5. SoonEnough(w)'
    BY <1>2, <1>3, <2>1 DEF SoonEnough, Late, IndInv, StatusTypeOK, Fanouts
  <2> QED  BY <2>4, <2>5
<1> QED  BY <1>4, <1>5, <1>6

\* Sockets that come and go hold up nothing.
LEMMA SocketsInTime ==
  ASSUME IndInv, TimeInv, UNCHANGED <<now, up, match, task, fanouts, ticks, recovery, longest>>
  PROVE  TimeInv'
<1> USE DEF TimeInv
<1>1. Waits' /\ LobbyIdle' /\ SeenIsDue' /\ RecoveredIsDue'
  BY DEF Waits, LobbyIdle, SeenIsDue, RecoveredIsDue, Runs
<1>2. ASSUME NEW w \in Nat, Fits(w)', longest' <= w
      PROVE  OwedOnly(w)' /\ SoonEnough(w)'
  <2>1. OwedOnly(w) /\ SoonEnough(w)
    BY <1>2 DEF Fits, Late
  <2>2. OwedOnly(w)'
    BY <2>1, OwedWhileResting DEF Limits
  <2> QED  BY <2>1, <2>2 DEF SoonEnough, Late
<1> QED  BY <1>1, <1>2

\* The last send of a tick's broadcast lets the loop go on, in time for its next tick.
LEMMA SendOverInTime ==
  ASSUME NEW f \in fanouts, NEW s \in f.pending, NEW delivered \in BOOLEAN, IndInv, TimeInv,
         SendOver(f, s, delivered), UNCHANGED <<now, up, match, recovery, longest>>
  PROVE  TimeInv'
<1> USE DEF TimeInv
<1> DEFINE n == f.match
           g == [f EXCEPT !.pending = @ \ {s},
                          !.delivered = IF delivered THEN @ \cup {s} ELSE @]
<1>1. f \in Fanouts /\ n \in Matches /\ g.match = n /\ g.tick = f.tick /\ g.until = f.until
      /\ f.until \in Nat /\ now \in Nat
  BY DEF IndInv, StatusTypeOK, Fanouts
<1>2. /\ g.pending # {} => /\ fanouts' = (fanouts \ {f}) \cup {g}
                           /\ UNCHANGED <<ticks, task>>
      /\ g.pending = {} =>
           /\ fanouts' = fanouts \ {f}
           /\ f.tick => /\ ticks' = Observed(n, task[n], now)
                        /\ task' = [task EXCEPT ![n] = AfterRound(task[n])]
           /\ ~f.tick => UNCHANGED <<ticks, task>>
  BY DEF SendOver, IndInv, StatusTypeOK
<1> HIDE DEF g
<1>3. ASSUME UNCHANGED <<ticks, task>>,
             \A m \in Matches : {h.until : h \in {k \in fanouts' : k.tick /\ k.match = m}}
                                  = {h.until : h \in {k \in fanouts : k.tick /\ k.match = m}},
             \A h \in fanouts' : h.tick =>
                 \E k \in fanouts : k.tick /\ k.match = h.match /\ k.until = h.until,
             \A h \in fanouts : h.tick =>
                 \E k \in fanouts' : k.tick /\ k.match = h.match
      PROVE  TimeInv'
  <2>1. Waits'
    BY <1>3 DEF Waits
  <2>2. LobbyIdle' /\ SeenIsDue' /\ RecoveredIsDue'
    BY <1>3 DEF LobbyIdle, SeenIsDue, RecoveredIsDue, Runs
  <2>3. ASSUME NEW w \in Nat, Fits(w)', longest' <= w
        PROVE  OwedOnly(w)' /\ SoonEnough(w)'
    <3>1. OwedOnly(w) /\ SoonEnough(w)
      BY <2>3 DEF Fits, Late
    <3>2. OwedOnly(w)'
      BY <1>3, <3>1, OwedWhileResting DEF Limits
    <3>3. SoonEnough(w)'
      BY <1>3, <3>1 DEF SoonEnough, Late
    <3> QED  BY <3>2, <3>3
  <2> QED  BY <2>1, <2>2, <2>3
<1>4. CASE g.pending # {}
  <2>1. fanouts' = (fanouts \ {f}) \cup {g}
    BY <1>2, <1>4
  <2>2. \A m \in Matches : \A u : (\E h \in fanouts' : h.tick /\ h.match = m /\ h.until = u)
                                <=> (\E h \in fanouts : h.tick /\ h.match = m /\ h.until = u)
    BY <1>1, <2>1
  <2>3. \A m \in Matches : {h.until : h \in {k \in fanouts' : k.tick /\ k.match = m}}
                             = {h.until : h \in {k \in fanouts : k.tick /\ k.match = m}}
    BY <2>2
  <2>4. /\ \A h \in fanouts' : h.tick =>
             \E k \in fanouts : k.tick /\ k.match = h.match /\ k.until = h.until
        /\ \A h \in fanouts : h.tick => \E k \in fanouts' : k.tick /\ k.match = h.match
    BY <1>1, <2>1
  <2> QED  BY <1>2, <1>3, <1>4, <2>3, <2>4
<1>5. CASE g.pending = {} /\ ~f.tick
  <2>1. fanouts' = fanouts \ {f}
    BY <1>2, <1>5
  <2>2. \A m \in Matches : {k \in fanouts' : k.tick /\ k.match = m}
                             = {k \in fanouts : k.tick /\ k.match = m}
    BY <1>5, <2>1
  <2>3. /\ \A h \in fanouts' : h.tick =>
             \E k \in fanouts : k.tick /\ k.match = h.match /\ k.until = h.until
        /\ \A h \in fanouts : h.tick => \E k \in fanouts' : k.tick /\ k.match = h.match
    BY <1>5, <2>1
  <2> QED  BY <1>2, <1>3, <1>5, <2>2, <2>3
<1>6. CASE g.pending = {} /\ f.tick
  <2> DEFINE t == AfterRound(task[n])
             o == Observed(n, task[n], now)
  <2>1. fanouts' = fanouts \ {f} /\ ticks' = o /\ task' = [task EXCEPT ![n] = t]
    BY <1>2, <1>6
  <2>2. task[n].phase = "sending" /\ task[n] \in Rounds
    BY <1>1, <1>6 DEF IndInv, TickFanouts, StatusTypeOK, NoTask, Loops
  <2>3. task[n].due \in Nat /\ task[n].due <= now
    BY <1>1, <2>2 DEF IndInv, LoopKeepsTime, Rounds
  <2>4. /\ t.phase \in {"done", "asleep"} /\ task'[n] = t
        /\ t.phase = "asleep" => t.due = task[n].due + Interval
        /\ \A m \in Matches \ {n} : task'[m] = task[m]
    BY <1>1, <2>1, <2>2, AfterRoundFacts DEF IndInv, StatusTypeOK
  <2>5. /\ o[n] = [known |-> TRUE, tick |-> task[n].tick, drift |-> task[n].drift, at |-> now]
        /\ \A m \in Matches \ {n} : o[m] = ticks[m]
    BY <1>1 DEF Observed, IndInv, StatusTypeOK
  <2>6. o[n].known /\ o[n].drift = task[n].drift /\ o[n].at = now
    BY <2>5
  <2>7. \A h \in fanouts : h.tick /\ h # f => h.match # n
    BY <1>6 DEF IndInv, TickFanouts
  <2>8. recovery.known => recovery.at \in Nat /\ recovery.matches \subseteq Matches
    BY RecoveryFacts
  <2> HIDE DEF t, o, n
  <2>9. Waits'
    BY <2>1, <2>4 DEF Waits, n
  <2>10. LobbyIdle'
    BY <1>1, <2>1, <2>2, <2>4, <2>5 DEF LobbyIdle
  <2>11. SeenIsDue'
    BY <1>1, <2>1, <2>3, <2>4, <2>5, <2>6, StatusAssumption DEF SeenIsDue, Runs
  <2>12. RecoveredIsDue'
    <3>1. recovery.known => Runs(n) /\ task[n].due >= recovery.at + Interval
      BY <1>1, <2>2 DEF RecoveredIsDue, Runs
    <3>2. recovery.known /\ t.phase = "asleep" => t.due >= recovery.at + Interval
      BY <2>3, <2>4, <2>8, <3>1, StatusAssumption
    <3> QED  BY <1>1, <2>1, <2>4, <2>5, <2>6, <2>8, <3>2 DEF RecoveredIsDue, Runs
  <2>13. ASSUME NEW w \in Nat, Fits(w)', longest' <= w
         PROVE  OwedOnly(w)' /\ SoonEnough(w)'
    <3>1. OwedOnly(w) /\ SoonEnough(w) /\ Fits(w)
      BY <2>13 DEF Fits, Late
    <3>2. \A m \in Matches \ {n} : Limits(m)' = Limits(m)
      BY <2>1, <2>4 DEF Limits, n
    <3>3. Late(w) \in Nat /\ f.until <= task[n].due + Late(w) + w + SendTimeout
      BY <1>1, <1>6, <3>1, SpentFacts DEF SoonEnough, n
    <3>4. now <= f.until + Late(w)
      <4>1. CASE f.until <= now
        <5>1. Alive(task[n]) /\ f.until \in Limits(n)
          BY <1>6, <2>2 DEF Alive, Limits, n
        <5> QED  BY <1>1, <3>1, <4>1, <5>1, LateAtMost
      <4>2. CASE ~(f.until <= now)
        BY <1>1, <3>3, <4>2
      <4> QED  BY <4>1, <4>2
    <3>5. task[n].due + Interval \in Nat /\ task[n].due + Interval > now + Late(w)
      BY <1>1, <2>3, <3>1, <3>3, <3>4, StatusAssumption DEF Fits
    <3>6. task'[n].phase = "asleep" => task'[n].due \in Nat /\ task'[n].due > now + Late(w)
      BY <2>4, <3>5
    <3>7. Alive(task'[n]) => \A d \in Limits(n)' : d \in Nat /\ d >= now
      <4>1. Alive(task'[n]) => Limits(n)' = {task[n].due + Interval}
        BY <2>4 DEF Alive, Limits
      <4>2. task[n].due + Interval >= now
        BY <1>1, <2>3, <3>3, <3>5
      <4> QED  BY <3>5, <4>1, <4>2
    <3>8. OwedOnly(w)'
      BY <1>1, <2>4, <3>1, <3>2, <3>6, <3>7, OwedWhileOneMoves
    <3>9. task[n].drift <= Late(w)
      BY <1>1, <2>2, <3>1 DEF SoonEnough
    <3>10. SoonEnough(w)'
      BY <2>1, <2>4, <2>5, <2>6, <2>7, <3>1, <3>9
         DEF SoonEnough, Late, IndInv, StatusTypeOK, Fanouts
    <3> QED  BY <3>8, <3>10
  <2> QED  BY <2>9, <2>10, <2>11, <2>12, <2>13
<1> QED  BY <1>4, <1>5, <1>6

-----------------------------------------------------------------------------

LEMMA InitInTime == Init => TimeInv
<1> SUFFICES ASSUME Init PROVE TimeInv
  OBVIOUS
<1>1. /\ \A m \in Matches : task[m].phase = "none" /\ ~ticks[m].known
      /\ fanouts = {} /\ ~recovery.known /\ ~up
  BY DEF Init, NoTask, Unknown
<1>2. Waits /\ LobbyIdle /\ SeenIsDue /\ RecoveredIsDue
  BY <1>1 DEF Waits, LobbyIdle, SeenIsDue, RecoveredIsDue, Runs
<1>3. \A w \in Nat : OwedOnly(w) /\ SoonEnough(w)
  BY <1>1 DEF OwedOnly, SoonEnough, Alive
<1> QED  BY <1>2, <1>3 DEF TimeInv

LEMMA StepInTime == IndInv /\ TimeInv /\ [Next]_vars => TimeInv'
<1> SUFFICES ASSUME IndInv, TimeInv, [Next]_vars PROVE TimeInv'
  OBVIOUS
<1>1. CASE UNCHANGED vars
  BY <1>1, SocketsInTime DEF vars
<1>2. CASE Iterate
  BY <1>2, IterateInTime
<1>3. CASE Pass
  BY <1>3, PassInTime
<1>4. CASE Start
  BY <1>4, StartInTime
<1>5. CASE Stop
  BY <1>5, StopInTime
<1>6. ASSUME NEW m \in Matches,
             BeginLoop(m) \/ Tick(m) \/ TickNotStored(m) \/ Update(m) \/ StartMatch(m)
      PROVE  TimeInv'
  BY <1>6, BeginLoopInTime, TickInTime, TickNotStoredInTime, UpdateInTime, StartMatchInTime
<1>7. ASSUME NEW f \in fanouts, NEW s \in Sockets, Deliver(f, s) \/ Drop(f, s)
      PROVE  TimeInv'
  BY <1>7, SendOverInTime DEF Deliver, Drop
<1>8. ASSUME NEW m \in Matches, NEW s \in Sockets, Connect(m, s) \/ Disconnect(m, s)
      PROVE  TimeInv'
  BY <1>8, SocketsInTime DEF Connect, Disconnect
<1> QED  BY <1>1, <1>2, <1>3, <1>4, <1>5, <1>6, <1>7, <1>8 DEF Next

LEMMA TimeInvariance == Spec => [](IndInv /\ TimeInv)
  BY InitHolds, StepKeeps, InitInTime, StepInTime, PTL DEF Spec

\* Where everything fits, drifts stay small and no loop falls behind.
LEMMA OnScheduleHolds ==
  ASSUME IndInv, TimeInv, RoomForAll
  PROVE  OnSchedule
<1>1. longest \in Nat /\ Late(longest) = Lateness /\ Fits(longest)
  BY DEF IndInv, StatusTypeOK, Late, Lateness, Fits, RoomForAll
<1>2. SoonEnough(longest)
  BY <1>1 DEF TimeInv
<1>3. ASSUME NEW m \in Matches, Alive(task[m]), task[m].phase # "new"
      PROVE  task[m].due <= task[m].begun + (task[m].count + 1) * Interval
  <2>1. task[m].due \in Nat /\ task[m].begun \in Nat /\ task[m].count \in Nat
    BY <1>3 DEF IndInv, StatusTypeOK, Alive, Loops, Rounds, NoTask
  <2>2. /\ task[m].begun + (task[m].count + 1) * Interval \in Nat
        /\ (task[m].begun + task[m].count * Interval) + Interval
             = task[m].begun + (task[m].count + 1) * Interval
        /\ task[m].begun + task[m].count * Interval \in Nat
    <3>1. ASSUME NEW b \in Nat, NEW c \in Nat
          PROVE  /\ b + (c + 1) * Interval \in Nat /\ b + c * Interval \in Nat
                 /\ (b + c * Interval) + Interval = b + (c + 1) * Interval
      <4>1. Interval \in Nat
        BY StatusAssumption
      <4>2. c * Interval \in Nat /\ (c + 1) * Interval \in Nat
        BY <4>1
      <4> QED  BY <4>1, <4>2, NextInterval
    <3> QED  BY <2>1, <3>1, Zenon
  <2>3. \/ task[m].due = task[m].begun + (task[m].count + 1) * Interval
        \/ task[m].due = task[m].begun + task[m].count * Interval
    BY <1>3 DEF IndInv, LoopKeepsTime, Alive
  <2> QED  BY <2>1, <2>2, <2>3, StatusAssumption
<1> QED  BY <1>1, <1>2, <1>3 DEF OnSchedule, SoonEnough

\* Where everything fits, a live loop's match is seen again before it is taken for dead.
LEMMA SilenceMeansDeadHolds ==
  ASSUME IndInv, TimeInv, RoomForAll
  PROVE  SilenceMeansDead
<1> SUFFICES ASSUME NEW m \in Matches, Silent(m), Alive(task[m])
             PROVE  FALSE
  BY DEF SilenceMeansDead
<1> DEFINE w == longest
           L == Late(w)
           seen == IF ticks[m].known THEN ticks[m].at ELSE recovery.at
<1>1. w \in Nat /\ L = Lateness /\ Fits(w)
  BY DEF IndInv, StatusTypeOK, Late, Lateness, Fits, RoomForAll
<1>2. OwedOnly(w) /\ SoonEnough(w) /\ L \in Nat /\ now \in Nat
  <2>1. L \in Nat
    BY <1>1, SpentFacts
  <2> QED  BY <1>1, <2>1 DEF TimeInv, IndInv, StatusTypeOK
<1>3. /\ up
      /\ ticks[m].known \/ m \in recovery.matches
      /\ now > seen + Interval + L + w + SendTimeout + L
  BY <1>1 DEF Silent, Report
<1>4. recovery.known /\ recovery.at \in Nat /\ recovery.at <= now
  <2>1. recovery.known /\ recovery.at <= now
    BY <1>3 DEF TimeInv, RecoveredIsDue
  <2> QED  BY <2>1, RecoveryFacts
<1>5. seen \in Nat
  <2>1. ticks[m].known => ticks[m].at \in Nat
    <3>1. ticks[m] \in LastTicks
      BY DEF IndInv, StatusTypeOK
    <3>2. ticks[m].known => ticks[m] # Unknown
      BY DEF Unknown
    <3> QED  BY <3>1, <3>2 DEF LastTicks
  <2> QED  BY <1>4, <2>1
<1> HIDE DEF w, L
<1>6. Runs(m) => task[m].due <= seen + Interval
  <2>1. CASE ticks[m].known
    BY <2>1 DEF TimeInv, SeenIsDue
  <2>2. CASE ~ticks[m].known
    BY <1>3, <1>4, <1>5, <2>2, StatusAssumption DEF TimeInv, RecoveredIsDue
  <2> QED  BY <2>1, <2>2
<1>7. CASE task[m].phase = "new"
  <2>1. ~ticks[m].known
    BY <1>7 DEF TimeInv, SeenIsDue
  <2>2. now = seen
    BY <1>3, <1>4, <1>7, <2>1 DEF TimeInv, RecoveredIsDue
  <2> QED  BY <1>1, <1>2, <1>3, <1>5, <2>2, StatusAssumption
<1>8. CASE task[m].phase = "asleep"
  <2>1. task[m].due \in Nat /\ task[m].due \in Limits(m)
    BY <1>8 DEF Limits, IndInv, StatusTypeOK, Loops, Rounds, NoTask
  <2>2. task[m].due <= seen + Interval
    BY <1>6, <1>8 DEF Runs
  <2>3. task[m].due <= now
    BY <1>1, <1>2, <1>3, <1>5, <2>1, <2>2, StatusAssumption
  <2>4. now <= task[m].due + L
    BY <1>1, <1>2, <2>1, <2>3, LateAtMost DEF L
  <2> QED  BY <1>1, <1>2, <1>3, <1>5, <2>1, <2>2, <2>4, StatusAssumption
<1>9. CASE task[m].phase = "sending"
  <2>1. PICK f \in fanouts : f.tick /\ f.match = m
    BY <1>9 DEF TimeInv, Waits
  <2>2. f.until \in Nat /\ f.until \in Limits(m) /\ task[m].due \in Nat
    BY <1>9, <2>1 DEF Limits, IndInv, StatusTypeOK, Fanouts, Loops, Rounds, NoTask
  <2>3. f.until <= task[m].due + L + w + SendTimeout
    BY <1>2, <2>1 DEF SoonEnough, L
  <2>4. task[m].due <= seen + Interval
    BY <1>6, <1>9 DEF Runs
  <2>5. f.until <= seen + Interval + L + w + SendTimeout
    BY <1>1, <1>2, <1>5, <2>2, <2>3, <2>4, StatusAssumption
  <2>6. f.until <= now
    BY <1>1, <1>2, <1>3, <1>5, <2>2, <2>5, StatusAssumption
  <2>7. now <= f.until + L
    BY <1>1, <1>2, <2>2, <2>6, LateAtMost DEF L
  <2> QED  BY <1>1, <1>2, <1>3, <1>5, <2>2, <2>5, <2>7, StatusAssumption
<1> QED  BY <1>7, <1>8, <1>9 DEF Alive

\* For any number of matches: as long as their ticks have fitted into the interval, every
\* loop keeps its schedule (runtime.py's next_tick_scheduled_at), and a match that
\* /health/runtime shows as active and silent for too long has lost its loop.
THEOREM LateByOthersWorkOnly == Spec => []OnTimeAndTold
<1>1. IndInv /\ TimeInv => OnTimeAndTold
  BY OnScheduleHolds, SilenceMeansDeadHolds DEF OnTimeAndTold
<1> QED  BY <1>1, TimeInvariance, PTL

-----------------------------------------------------------------------------

\* However late a loop is and however many ticks it catches up with, it never ticks more
\* often than its age allows (runtime.py's next_tick_scheduled_at).
THEOREM TicksNeverAhead == Spec => []NeverAhead
<1>1. IndInv => NeverAhead
  BY StatusAssumption
     DEF IndInv, StatusTypeOK, LoopKeepsTime, NeverAhead, Alive, Loops, Rounds, NoTask
<1> QED  BY <1>1, Invariance, PTL

\* /health/runtime never reports a tick that was not stored, or an older one than the
\* last that was broadcast in full.
THEOREM ReportedTickIsTrue == Spec => []LastTickTrue
<1>1. IndInv => LastTickTrue
  BY DEF IndInv
<1> QED  BY <1>1, Invariance, PTL

\* The sockets that the last reported fan-out lost are not counted as connections.
THEOREM LostSocketsAreGone == Spec => []LostAreGone
<1>1. IndInv => LostAreGone
  BY DEF IndInv
<1> QED  BY <1>1, Invariance, PTL

\* No tick that a socket was sent is taken back by a failed write, a stop or a crash.
THEOREM ShownTicksStay == Spec => []ShownIsKept
<1>1. IndInv => ShownIsKept
  BY DEF IndInv
<1> QED  BY <1>1, Invariance, PTL

\* Every match reported as resumed was given its loop.
THEOREM ResumedMatchesRun == Spec => []ResumedHaveLoops
<1>1. IndInv => ResumedHaveLoops
  BY DEF IndInv
<1> QED  BY <1>1, Invariance, PTL

\* Everything the operator and the viewers are told by ticks, fan-outs and recovery is true.
THEOREM ReportIsTrue == Spec => []ReportTrue
<1>1. NeverAhead /\ LastTickTrue /\ LostAreGone /\ ShownIsKept /\ ResumedHaveLoops => ReportTrue
  BY DEF ReportTrue
<1> QED
  BY <1>1, TicksNeverAhead, ReportedTickIsTrue, LostSocketsAreGone, ShownTicksStay, ResumedMatchesRun, PTL

-----------------------------------------------------------------------------
(* The viewers of a match.                                                 *)

\* Whom a broadcast that runs is for, and what is sent to whom.
CastFits(e) ==
    LET c == cast[e]
    IN  /\ e <= edition /\ IsFiniteSet(c.to) /\ ~c.raised
        /\ \A s \in c.to : conn[s].phase \in {"open", "leaving", "closed"}
        /\ c.sending \subseteq c.to /\ c.waiting \subseteq c.to /\ c.sending \cap c.waiting = {}
        /\ c.payload = None => c.sending = {}
        /\ c.payload # None => e <= c.payload /\ c.payload <= edition
        /\ Cardinality(c.sending) <= SendSlots
        /\ c.payload # None /\ c.waiting # {} => Cardinality(c.sending) = SendSlots

\* What is sent is newer than what was sent by an older broadcast, which is under way by then.
InLine(d, e) ==
    d < e /\ cast[e].payload # None => cast[d].payload # None /\ cast[d].payload <= cast[e].payload

\* With a slot for everyone of a broadcast, nobody has seen more than what is on its way.
SlotForEach(e) == Cardinality(cast[e].to) <= SendSlots

FitIsFresh(e) ==
    SlotForEach(e) /\ cast[e].payload # None =>
        cast[e].waiting = {} /\ \A s \in cast[e].sending : latest[s] <= cast[e].payload

\* With slots for all, who is served and still subscribed has seen what was announced.
ServedHaveSeen(e) ==
    SlotsForAll /\ cast[e].payload # None =>
        \A s \in (cast[e].to \cap connections) \ cast[e].sending : e <= latest[s]

LiveInv ==
    /\ LiveTypeOK /\ IsFiniteSet(connections)
    /\ NoOrphans /\ TickTaskSurvives
    /\ \A s \in Clients : latest[s] <= edition /\ (conn[s].phase # "new" => Buildable(s))
    /\ \A e \in 1..MaxEdition : cast[e] # None =>
           CastFits(e) /\ FitIsFresh(e) /\ ServedHaveSeen(e)
    /\ \A d, e \in 1..MaxEdition : cast[d] # None /\ cast[e] # None => InLine(d, e)

-----------------------------------------------------------------------------

\* A set and a part of it, without running out of the whole.
LEMMA PartFinite ==
  ASSUME NEW S, NEW T, IsFiniteSet(S), T \subseteq S
  PROVE  IsFiniteSet(T) /\ Cardinality(T) \in Nat /\ Cardinality(T) <= Cardinality(S)
  BY FS_Subset, FS_CardinalityType

LEMMA LeastOfTwo ==
  ASSUME NEW a \in Nat, NEW b \in Nat
  PROVE  Min({a, b}) = IF a <= b THEN a ELSE b
<1>1. CASE a <= b
  <2>1. a \in {a, b} /\ \A y \in {a, b} : a <= y
    BY <1>1
  <2>2. \A x \in {a, b} : (\A y \in {a, b} : x <= y) => x = a
    BY <1>1
  <2> QED  BY <1>1, <2>1, <2>2 DEF Min
<1>2. CASE ~(a <= b)
  <2>1. b \in {a, b} /\ \A y \in {a, b} : b <= y
    BY <1>2
  <2>2. \A x \in {a, b} : (\A y \in {a, b} : x <= y) => x = b
    BY <1>2
  <2> QED  BY <1>2, <2>1, <2>2 DEF Min
<1> QED  BY <1>1, <1>2

\* A broadcast whose sends fit its slots.
Orderly(c) ==
    /\ c \in Casts /\ IsFiniteSet(c.to)
    /\ c.sending \subseteq c.to /\ c.waiting \subseteq c.to /\ c.sending \cap c.waiting = {}
    /\ Cardinality(c.sending) <= SendSlots
    /\ c.waiting # {} => Cardinality(c.sending) = SendSlots

\* When a send ends, the broadcast is still orderly, and nobody is sent to twice.
LEMMA WithoutOrderly ==
  ASSUME RealtimeAssumption, NEW c, Orderly(c), NEW s \in c.sending
  PROVE  /\ Orderly(Without(c, s))
         /\ Without(c, s).to = c.to /\ Without(c, s).payload = c.payload
         /\ Without(c, s).raised = c.raised
         /\ s \notin Without(c, s).sending
         /\ c.waiting = {} => /\ Without(c, s).waiting = {}
                              /\ Without(c, s).sending = c.sending \ {s}
<1> DEFINE d == Without(c, s)
<1>1. /\ IsFiniteSet(c.sending \ {s}) /\ Cardinality(c.sending \ {s}) = Cardinality(c.sending) - 1
      /\ Cardinality(c.sending) \in Nat
  <2>1. IsFiniteSet(c.sending) /\ Cardinality(c.sending) \in Nat
    BY PartFinite DEF Orderly
  <2> QED  BY <2>1, FS_RemoveElement
<1>2. CASE c.waiting = {}
  <2>1. d = [c EXCEPT !.sending = @ \ {s}]
    BY <1>2 DEF Without
  <2>2. /\ d \in Casts /\ d.to = c.to /\ d.payload = c.payload /\ d.raised = c.raised
        /\ d.sending = c.sending \ {s} /\ d.waiting = {}
    BY <2>1, <1>2 DEF Orderly, Casts
  <2> QED  BY <2>2, <1>1 DEF Orderly, RealtimeAssumption
<1>3. CASE c.waiting # {}
  <2> DEFINE t == CHOOSE t \in c.waiting : TRUE
  <2>1. t \in c.waiting
    BY <1>3
  <2>2. d = [[c EXCEPT !.sending = @ \ {s}] EXCEPT !.sending = @ \cup {t}, !.waiting = @ \ {t}]
    BY <1>3 DEF Without
  <2> HIDE DEF t, d
  <2>3. /\ d \in Casts /\ d.to = c.to /\ d.payload = c.payload /\ d.raised = c.raised
        /\ d.sending = (c.sending \ {s}) \cup {t} /\ d.waiting = c.waiting \ {t}
    BY <2>1, <2>2 DEF Orderly, Casts
  <2>4. t \notin c.sending \ {s} /\ t # s
    BY <2>1 DEF Orderly
  <2>5. Cardinality(d.sending) = Cardinality(c.sending)
    <3>1. Cardinality((c.sending \ {s}) \cup {t}) = Cardinality(c.sending \ {s}) + 1
      BY <2>4, <1>1, FS_AddElement
    <3> QED  BY <3>1, <2>3, <1>1
  <2>6. Orderly(d)
    BY <1>3, <2>1, <2>3, <2>4, <2>5, <1>1 DEF Orderly
  <2> QED  BY <1>3, <2>3, <2>4, <2>6 DEF d
<1> QED  BY <1>2, <1>3

\* What the invariant says of a broadcast that sends.
LEMMA SendingIsOrderly ==
  ASSUME LiveInv, NEW e \in 1..MaxEdition, cast[e] # None, cast[e].payload # None
  PROVE  Orderly(cast[e]) /\ cast[e].payload \in Nat /\ e <= cast[e].payload
  BY DEF LiveInv, LiveTypeOK, CastFits, Orderly, Casts

\* Slots for all are slots for everyone of a broadcast.
LEMMA AllFit ==
  ASSUME LiveInv, SlotsForAll, RealtimeAssumption, NEW e \in 1..MaxEdition, cast[e] # None
  PROVE  SlotForEach(e)
<1>1. cast[e].to \subseteq Clients
  BY DEF LiveInv, LiveTypeOK, Casts
<1>2. Cardinality(cast[e].to) \in Nat /\ Cardinality(cast[e].to) <= Cardinality(Clients)
  BY <1>1, PartFinite DEF SlotsForAll
<1> QED  BY <1>2, FS_CardinalityType DEF SlotForEach, SlotsForAll, RealtimeAssumption

\* Where a handler is.
Handlers == [phase : {"new", "greeting", "open", "leaving", "closed"},
             viewer : Seats \cup {Spectator, None}]

\* Who has a payload can be sent one.
LEMMA ViewersBuildable ==
  ASSUME RealtimeAssumption PROVE Viewers \ {None} \subseteq Seats \cup {Spectator}
  BY DEF RealtimeAssumption, Viewers, PlayerViewer

LEMMA LiveInitFits == ASSUME RealtimeAssumption, LiveInit PROVE LiveInv
<1>1. LiveTypeOK
  BY DEF LiveInit, LiveTypeOK, RealtimeAssumption
<1>2. IsFiniteSet(connections)
  BY FS_EmptySet DEF LiveInit
<1> QED  BY <1>1, <1>2 DEF LiveInit, LiveInv, NoOrphans, TickTaskSurvives, LiveTypeOK

\* While no broadcast moves, it is enough that a client's new picture is no older and that
\* those being sent to stay past their greeting.
LEMMA HandshakeKeeps ==
  ASSUME RealtimeAssumption, LiveInv, NEW s \in Clients,
         Accept(s) \/ Greeted(s) \/ Leave(s) \/ ReceiveEnds(s)
  PROVE  LiveInv' /\ GoesBackBehindQueueOnly
<1> USE DEF LiveInv
<1>0. /\ edition' = edition /\ loop' = loop /\ ticking' = ticking /\ cast' = cast
      /\ edition \in Nat
  BY DEF Accept, Greeted, Leave, ReceiveEnds, LiveTypeOK, RealtimeAssumption
<1>a. /\ conn' \in [Clients -> Handlers]
      /\ conn'[s].phase # "new" /\ conn'[s].viewer \in Seats \cup {Spectator}
      /\ \A c \in Clients : c # s => conn'[c] = conn[c]
  <2>0. conn \in [Clients -> Handlers] /\ conn[s] \in Handlers
    BY DEF LiveTypeOK, Handlers
  <2>1. CASE Accept(s)
    <3>1. PICK v \in Viewers \ {None} :
             conn' = [conn EXCEPT ![s] = [phase |-> "greeting", viewer |-> v]]
      BY <2>1 DEF Accept
    <3>2. v \in Seats \cup {Spectator}
      BY ViewersBuildable
    <3> QED  BY <3>1, <3>2, <2>0 DEF Handlers
  <2>2. CASE Greeted(s) \/ Leave(s) \/ ReceiveEnds(s)
    <3>1. conn[s].phase # "new" /\ conn[s].viewer \in Seats \cup {Spectator}
      BY <2>2 DEF Greeted, Leave, ReceiveEnds, Buildable
    <3>2. \/ conn' = [conn EXCEPT ![s].phase = "open"]
          \/ conn' = [conn EXCEPT ![s].phase = "closed"]
          \/ conn' = [conn EXCEPT ![s].phase = "leaving"]
      BY <2>2, <2>0 DEF Greeted, Leave, ReceiveEnds
    <3> QED  BY <3>1, <3>2, <2>0 DEF Handlers
  <2> QED  BY <2>1, <2>2
<1>1. LiveTypeOK'
  <2>1. /\ edition' \in 0..MaxEdition /\ ticking' \in 0..edition'
        /\ loop' \in {"sleeping", "broadcasting", "finished", "dead"}
        /\ cast' \in [1..MaxEdition -> Casts \cup {None}]
    BY <1>0 DEF LiveTypeOK
  <2>2. /\ conn' \in [Clients -> [phase : {"new", "greeting", "open", "leaving", "closed"},
                                  viewer : Seats \cup {Spectator, None}]]
    BY <1>a DEF Handlers
  <2>3. latest' \in [Clients -> 0..MaxEdition] /\ connections' \subseteq Clients
    BY DEF LiveTypeOK, Accept, Greeted, Leave, ReceiveEnds
  <2> QED  BY <2>1, <2>2, <2>3 DEF LiveTypeOK
<1>2. IsFiniteSet(connections')
  BY FS_AddElement, FS_RemoveElement DEF Accept, Greeted, Leave, ReceiveEnds
<1>3. NoOrphans' /\ TickTaskSurvives'
  <2>1. connections \subseteq Clients /\ NoOrphans /\ TickTaskSurvives
    BY DEF LiveTypeOK
  <2>2. connections' \subseteq connections \cup {s}
    BY DEF Accept, Greeted, Leave, ReceiveEnds
  <2>3. s \in connections' => conn'[s].phase \in {"open", "leaving"}
    <3>1. s \in connections => conn[s].phase \in {"open", "leaving"}
      BY <2>1 DEF NoOrphans
    <3>2. conn \in [Clients -> Handlers] /\ conn[s] \in Handlers
      BY DEF LiveTypeOK, Handlers
    <3>3. CASE Accept(s) \/ Leave(s)
      BY <3>1, <3>2, <3>3 DEF Handlers, Accept, Leave
    <3>4. CASE Greeted(s) \/ ReceiveEnds(s)
      BY <3>2, <3>4 DEF Handlers, Greeted, ReceiveEnds
    <3> QED  BY <3>3, <3>4
  <2> QED  BY <1>0, <1>a, <2>1, <2>2, <2>3 DEF NoOrphans, TickTaskSurvives
<1>4. \A c \in Clients : latest'[c] <= edition' /\ (conn'[c].phase # "new" => Buildable(c)')
  <2>1. \A c \in Clients : latest'[c] <= edition'
    BY <1>0 DEF LiveTypeOK, Accept, Greeted, Leave, ReceiveEnds
  <2> QED  BY <2>1, <1>a DEF Buildable
<1>5. ASSUME NEW e \in 1..MaxEdition, cast[e] # None
      PROVE  CastFits(e)' /\ FitIsFresh(e)' /\ ServedHaveSeen(e)'
  <2>1. /\ CastFits(e) /\ FitIsFresh(e) /\ ServedHaveSeen(e)
        /\ cast[e] \in Casts
    BY <1>5 DEF LiveTypeOK
  <2>2. \A c \in cast[e].to :
           /\ conn[c].phase \in {"open", "leaving", "closed"} /\ latest'[c] = latest[c]
           /\ conn'[c].phase \in {"open", "leaving", "closed"}
           /\ c \in connections' => c \in connections
    BY <2>1 DEF CastFits, Casts, LiveTypeOK, Accept, Greeted, Leave, ReceiveEnds
  <2>3. CastFits(e)'
    BY <1>0, <2>1, <2>2 DEF CastFits
  <2>4. FitIsFresh(e)'
    BY <1>0, <2>1, <2>2 DEF FitIsFresh, SlotForEach, CastFits
  <2>5. ServedHaveSeen(e)'
    BY <1>0, <2>1, <2>2 DEF ServedHaveSeen
  <2> QED  BY <2>3, <2>4, <2>5
<1>6. \A d, e \in 1..MaxEdition : cast'[d] # None /\ cast'[e] # None => InLine(d, e)'
  BY <1>0 DEF InLine
<1>7. GoesBackBehindQueueOnly
  BY <1>0 DEF GoesBackBehindQueueOnly, LiveTypeOK, Accept, Greeted, Leave, ReceiveEnds
<1> QED  BY <1>0, <1>1, <1>2, <1>3, <1>4, <1>5, <1>6, <1>7

\* A change and the call of its broadcast.
LEMMA ChangeKeeps ==
  ASSUME RealtimeAssumption, LiveInv, edition < MaxEdition, edition' = edition + 1, Broadcast,
         loop' \in {"sleeping", "broadcasting", "finished"}, ticking' \in {ticking, edition + 1},
         UNCHANGED <<conn, latest, connections>>
  PROVE  LiveInv' /\ \A e \in 1..MaxEdition : cast[e] # None => cast'[e] = cast[e]
<1> USE DEF LiveInv
<1>0. edition \in Nat /\ edition + 1 \in 1..MaxEdition /\ Called \in Casts /\ None \notin Casts
  BY DEF LiveTypeOK, RealtimeAssumption, Called, Casts
<1>1. \A e \in 1..MaxEdition :
         \/ cast'[e] = cast[e]
         \/ e = edition + 1 /\ cast'[e] = Called /\ connections # {}
  BY DEF Broadcast, LiveTypeOK
<1>2. \A e \in 1..MaxEdition : cast[e] # None => e <= edition /\ cast'[e] = cast[e]
  BY <1>0, <1>1 DEF CastFits
<1>3. LiveTypeOK'
  <2>1. cast' \in [1..MaxEdition -> Casts \cup {None}]
    BY <1>0 DEF Broadcast, LiveTypeOK
  <2> QED  BY <2>1, <1>0 DEF LiveTypeOK
<1>4. ASSUME NEW e \in 1..MaxEdition, cast'[e] # None
      PROVE  CastFits(e)' /\ FitIsFresh(e)' /\ ServedHaveSeen(e)'
  <2>1. CASE cast[e] # None
    <3>1. CastFits(e) /\ FitIsFresh(e) /\ ServedHaveSeen(e) /\ cast'[e] = cast[e] /\ cast[e] \in Casts
      BY <2>1, <1>2 DEF LiveTypeOK
    <3>2. cast[e].payload \in Nat \cup {None}
      BY <3>1 DEF Casts, RealtimeAssumption
    <3>3. CastFits(e)'
      BY <3>1, <3>2, <1>0 DEF CastFits
    <3> QED  BY <3>1, <3>3 DEF FitIsFresh, SlotForEach, ServedHaveSeen
  <2>2. CASE cast[e] = None
    <3>1. e = edition + 1 /\ cast'[e] = Called
      BY <2>2, <1>1, <1>4
    <3>2. CastFits(e)'
      BY <3>1, <1>0, FS_EmptySet DEF CastFits, Called, NoOrphans, RealtimeAssumption
    <3> QED  BY <3>1, <3>2 DEF FitIsFresh, ServedHaveSeen, Called
  <2> QED  BY <2>1, <2>2
<1>5. ASSUME NEW d \in 1..MaxEdition, NEW e \in 1..MaxEdition, cast'[d] # None, cast'[e] # None
      PROVE  InLine(d, e)'
  <2>1. CASE cast'[e] = Called
    BY <2>1 DEF InLine, Called
  <2>2. CASE cast'[e] = cast[e]
    <3>1. e <= edition /\ cast[e] # None
      BY <2>2, <1>2, <1>5
    <3>2. d < e => cast'[d] = cast[d]
      BY <3>1, <1>0, <1>1
    <3> QED  BY <3>1, <3>2, <2>2, <1>5 DEF InLine
  <2> QED  BY <2>1, <2>2, <1>1
<1> QED  BY <1>0, <1>2, <1>3, <1>4, <1>5 DEF NoOrphans, TickTaskSurvives, Buildable, LiveTypeOK

\* Everyone a broadcast is for has a payload, so that those sent to first are as many as there
\* are slots, or all.
LEMMA StartsWithAll ==
  ASSUME RealtimeAssumption, LiveInv, NEW e \in 1..MaxEdition, StartSends(e)
  PROVE  \E first \in SUBSET cast[e].to :
             /\ cast' \in [1..MaxEdition -> Casts \cup {None}] /\ cast'[e] \in Casts
             /\ \A d \in 1..MaxEdition : d # e => cast'[d] = cast[d]
             /\ cast'[e].to = cast[e].to /\ cast'[e].payload = edition
             /\ cast'[e].waiting = cast[e].to \ first /\ cast'[e].sending = first
             /\ cast'[e].raised = FALSE
             /\ Cardinality(first) <= SendSlots
             /\ cast[e].to \ first # {} => Cardinality(first) = SendSlots
             /\ SlotForEach(e) => first = cast[e].to
<1> DEFINE to == cast[e].to
<1>1. cast[e] # None /\ cast[e].payload = None /\ cast[e] \in Casts /\ cast \in [1..MaxEdition -> Casts \cup {None}]
  BY DEF StartSends, LiveInv, LiveTypeOK
<1>2. IsFiniteSet(to) /\ Cardinality(to) \in Nat /\ ~cast[e].raised
  BY <1>1, FS_CardinalityType DEF LiveInv, CastFits
<1>3. {s \in to : Buildable(s)} = to
  <2>1. \A s \in to : s \in Clients /\ conn[s].phase # "new"
    BY <1>1 DEF LiveInv, CastFits, Casts
  <2> QED  BY <2>1 DEF LiveInv
<1>4. PICK first \in SUBSET to :
         /\ Cardinality(first) = Min({SendSlots, Cardinality(to)})
         /\ cast' = [cast EXCEPT ![e].payload = PayloadEdition(e), ![e].sending = first,
                                 ![e].waiting = to \ first, ![e].raised = to # to]
  BY <1>3, Zenon DEF StartSends
<1>5. /\ cast' \in [1..MaxEdition -> Casts \cup {None}] /\ cast'[e] \in Casts
      /\ \A d \in 1..MaxEdition : d # e => cast'[d] = cast[d]
      /\ cast'[e].to = to /\ cast'[e].payload = edition
      /\ cast'[e].waiting = to \ first /\ cast'[e].sending = first
      /\ cast'[e].raised = FALSE
  <2> DEFINE r == [cast[e] EXCEPT !.payload = edition, !.sending = first,
                                  !.waiting = to \ first, !.raised = FALSE]
  <2>1. cast' = [cast EXCEPT ![e] = r]
    BY <1>1, <1>4 DEF PayloadEdition
  <2>2. /\ r \in Casts /\ r.to = to /\ r.payload = edition /\ r.waiting = to \ first
        /\ r.sending = first /\ r.raised = FALSE
    BY <1>1 DEF Casts, LiveInv, LiveTypeOK
  <2> HIDE DEF r, to
  <2> QED  BY <1>1, <2>1, <2>2
<1>6. Cardinality(first) = IF SendSlots <= Cardinality(to) THEN SendSlots ELSE Cardinality(to)
  BY <1>2, <1>4, LeastOfTwo DEF RealtimeAssumption
<1>7. Cardinality(first) = Cardinality(to) => first = to
  BY <1>2, FS_Subset
<1>8. /\ Cardinality(first) <= SendSlots
      /\ to \ first # {} => Cardinality(first) = SendSlots
      /\ SlotForEach(e) => first = to
  BY <1>2, <1>6, <1>7 DEF SlotForEach, RealtimeAssumption
<1> WITNESS first \in SUBSET to
<1> QED  BY <1>5, <1>8

LEMMA StartOfSendsKeeps ==
  ASSUME RealtimeAssumption, LiveInv, NEW e \in 1..MaxEdition, StartSends(e)
  PROVE  LiveInv' /\ cast'[e] # None /\ \A d \in 1..MaxEdition : d # e => cast'[d] = cast[d]
<1> USE DEF LiveInv
<1> DEFINE to == cast[e].to
<1>0. /\ UNCHANGED <<edition, loop, ticking, conn, latest, connections>>
      /\ cast[e] # None /\ cast[e].payload = None /\ cast[e] \in Casts
      /\ \A d \in 1..(e - 1) : cast[d] # None => cast[d].payload # None
      /\ edition \in 0..MaxEdition /\ None \notin Nat /\ None \notin Casts
  BY DEF StartSends, LiveTypeOK, RealtimeAssumption
<1>1. PICK first \in SUBSET to :
         /\ cast' \in [1..MaxEdition -> Casts \cup {None}] /\ cast'[e] \in Casts
         /\ \A d \in 1..MaxEdition : d # e => cast'[d] = cast[d]
         /\ cast'[e].to = to /\ cast'[e].payload = edition
         /\ cast'[e].waiting = to \ first /\ cast'[e].sending = first
         /\ cast'[e].raised = FALSE
         /\ Cardinality(first) <= SendSlots
         /\ to \ first # {} => Cardinality(first) = SendSlots
         /\ SlotForEach(e) => first = to
  BY StartsWithAll
<1>3. LiveTypeOK' /\ cast'[e] # None
  BY <1>0, <1>1 DEF LiveTypeOK
<1>4. ASSUME NEW d \in 1..MaxEdition, cast'[d] # None
      PROVE  CastFits(d)' /\ FitIsFresh(d)' /\ ServedHaveSeen(d)'
  <2>1. CASE d # e
    <3>1. cast'[d] = cast[d] /\ CastFits(d) /\ FitIsFresh(d) /\ ServedHaveSeen(d)
      BY <1>1, <1>4, <2>1
    <3> QED  BY <3>1, <1>0 DEF CastFits, FitIsFresh, SlotForEach, ServedHaveSeen
  <2>2. CASE d = e
    <3>1. CastFits(e) /\ to \subseteq Clients
      BY <1>0 DEF Casts
    <3>2. CastFits(e)'
      BY <3>1, <1>0, <1>1 DEF CastFits
    <3>3. FitIsFresh(e)'
      BY <3>1, <1>0, <1>1 DEF FitIsFresh, SlotForEach
    <3>4. ServedHaveSeen(e)'
      BY <1>0, <1>1, AllFit DEF ServedHaveSeen, SlotsForAll
    <3> QED  BY <2>2, <3>2, <3>3, <3>4
  <2> QED  BY <2>1, <2>2
<1>5. ASSUME NEW c \in 1..MaxEdition, NEW d \in 1..MaxEdition, cast'[c] # None, cast'[d] # None
      PROVE  InLine(c, d)'
  <2>1. CASE c # e /\ d # e
    BY <2>1, <1>1, <1>5 DEF InLine
  <2>2. CASE d = e
    <3>1. c < e => cast'[c] = cast[c] /\ cast[c] # None /\ cast[c].payload # None /\ CastFits(c)
      BY <1>0, <1>1, <1>5
    <3> QED  BY <3>1, <2>2, <1>1 DEF InLine, CastFits
  <2>3. CASE c = e /\ d # e
    <3>1. cast'[d] = cast[d] /\ InLine(e, d)
      BY <2>3, <1>0, <1>1, <1>5
    <3> QED  BY <3>1, <2>3, <1>0 DEF InLine
  <2> QED  BY <2>1, <2>2, <2>3
<1>6. /\ IsFiniteSet(connections') /\ NoOrphans' /\ TickTaskSurvives'
      /\ \A s \in Clients : latest'[s] <= edition' /\ (conn'[s].phase # "new" => Buildable(s)')
  BY <1>0 DEF NoOrphans, TickTaskSurvives, Buildable
<1>7. LiveInv'
  BY <1>3, <1>4, <1>5, <1>6
<1> QED  BY <1>1, <1>3, <1>7

\* The end of a send.
StruckOff(e, s) ==
    /\ cast[e] # None /\ s \in cast[e].sending
    /\ cast' = [cast EXCEPT ![e] = Without(@, s)]
    /\ connections' \subseteq connections
    /\ UNCHANGED <<edition, loop, ticking, conn>>
    /\ \/ latest' = latest /\ s \notin connections'
       \/ FirstInLine(e, s) /\ latest' = [latest EXCEPT ![s] = cast[e].payload]

\* A picture that had to wait for no slot is not older than any its client has.
LEMMA StrikeKeeps ==
  ASSUME RealtimeAssumption, LiveInv, NEW e \in 1..MaxEdition, NEW s \in Clients, StruckOff(e, s)
  PROVE  /\ LiveInv' /\ GoesBackBehindQueueOnly
         /\ cast'[e] # None /\ \A d \in 1..MaxEdition : d # e => cast'[d] = cast[d]
<1> USE DEF LiveInv
<1> DEFINE c == cast[e]
           w == Without(c, s)
<1>1. /\ c # None /\ s \in c.sending /\ CastFits(e) /\ FitIsFresh(e) /\ ServedHaveSeen(e)
      /\ c \in Casts /\ cast \in [1..MaxEdition -> Casts \cup {None}]
      /\ c.payload # None /\ c.payload \in Nat /\ c.payload <= edition /\ e <= c.payload
      /\ edition \in 0..MaxEdition /\ None \notin Nat /\ None \notin Casts
  BY DEF StruckOff, LiveTypeOK, RealtimeAssumption, CastFits, Casts
<1>2. Orderly(c)
  BY <1>1, SendingIsOrderly
<1>3. /\ Orderly(w) /\ w.to = c.to /\ w.payload = c.payload /\ w.raised = c.raised
      /\ s \notin w.sending
      /\ c.waiting = {} => w.waiting = {} /\ w.sending = c.sending \ {s}
  BY <1>1, <1>2, WithoutOrderly
<1>4. /\ cast'[e] = w /\ \A d \in 1..MaxEdition : d # e => cast'[d] = cast[d]
      /\ cast' \in [1..MaxEdition -> Casts \cup {None}]
      /\ w \in Casts /\ w # None
  BY <1>1, <1>3 DEF StruckOff, Orderly
<1> HIDE DEF w
<1>5. /\ edition' = edition /\ loop' = loop /\ ticking' = ticking /\ conn' = conn
      /\ connections' \subseteq connections
      /\ latest' \in [Clients -> 0..MaxEdition]
      /\ \A t \in Clients : t # s => latest'[t] = latest[t]
      /\ \/ latest' = latest /\ s \notin connections'
         \/ FirstInLine(e, s) /\ latest'[s] = c.payload
  <2>1. c.payload \in 0..MaxEdition
    BY <1>1 DEF RealtimeAssumption
  <2> HIDE DEF c
  <2> QED  BY <2>1 DEF c, StruckOff, LiveTypeOK
<1>6. LiveTypeOK'
  BY <1>4, <1>5 DEF LiveTypeOK
<1>7. SlotForEach(e) => latest[s] <= latest'[s]
  BY <1>1, <1>5 DEF FitIsFresh, LiveTypeOK
<1>8. CastFits(e)' /\ FitIsFresh(e)' /\ ServedHaveSeen(e)'
  <2>1. CastFits(e)'
    BY <1>1, <1>3, <1>4, <1>5 DEF CastFits, Orderly
  <2>2. FitIsFresh(e)'
    BY <1>1, <1>3, <1>4, <1>5 DEF FitIsFresh, SlotForEach, Casts
  <2>3. ServedHaveSeen(e)'
    <3>1. SlotsForAll => SlotForEach(e)
      BY <1>1, AllFit
    <3> QED  BY <3>1, <1>1, <1>3, <1>4, <1>5 DEF ServedHaveSeen, FitIsFresh, Casts, SlotsForAll
  <2> QED  BY <2>1, <2>2, <2>3
<1>9. ASSUME NEW d \in 1..MaxEdition, d # e, cast'[d] # None
      PROVE  CastFits(d)' /\ FitIsFresh(d)' /\ ServedHaveSeen(d)'
  <2>1. /\ cast'[d] = cast[d] /\ CastFits(d) /\ FitIsFresh(d) /\ ServedHaveSeen(d) /\ InLine(e, d)
        /\ cast[d] \in Casts
    BY <1>1, <1>4, <1>9 DEF LiveTypeOK
  <2>2. CastFits(d)'
    BY <2>1, <1>5 DEF CastFits
  <2>3. FitIsFresh(d)'
    <3>1. ASSUME s \in cast[d].sending, FirstInLine(e, s), cast[d].payload # None
          PROVE  c.payload <= cast[d].payload
      BY <3>1, <2>1, <1>1, <1>9 DEF FirstInLine, InLine
    <3>2. cast[d].sending \subseteq Clients
      BY <2>1 DEF Casts
    <3> QED  BY <3>1, <3>2, <2>1, <1>5 DEF FitIsFresh, SlotForEach
  <2>4. ServedHaveSeen(d)'
    <3>1. SlotsForAll => latest[s] <= latest'[s]
      BY <1>1, <1>7, AllFit
    <3>2. \A t \in Clients : latest[t] \in Nat /\ latest'[t] \in Nat
      BY <1>5 DEF LiveTypeOK
    <3>3. cast[d].to \subseteq Clients
      BY <2>1 DEF Casts
    <3> QED  BY <3>1, <3>2, <3>3, <2>1, <1>5 DEF ServedHaveSeen, SlotsForAll
  <2> QED  BY <2>2, <2>3, <2>4
<1>10. ASSUME NEW a \in 1..MaxEdition, NEW d \in 1..MaxEdition, cast'[a] # None, cast'[d] # None
       PROVE  InLine(a, d)'
  <2>1. cast[a] # None /\ cast[d] # None
    BY <1>1, <1>4, <1>10
  <2>2. cast'[a].payload = cast[a].payload /\ cast'[d].payload = cast[d].payload
    BY <1>3, <1>4
  <2> QED  BY <2>1, <2>2 DEF InLine
<1>11. GoesBackBehindQueueOnly
  <2>1. ASSUME NEW t \in Clients, latest'[t] < latest[t]
        PROVE  Cardinality(c.to) > SendSlots /\ t \in c.sending
    <3>1. t = s /\ latest[s] \in Nat /\ latest'[s] \in Nat
      BY <2>1, <1>5 DEF LiveTypeOK
    <3>2. Cardinality(c.to) \in Nat
      BY <1>1, FS_CardinalityType DEF CastFits
    <3> QED  BY <3>1, <3>2, <2>1, <1>1, <1>7 DEF SlotForEach, RealtimeAssumption
  <2> QED  BY <2>1, <1>1 DEF GoesBackBehindQueueOnly
<1>12. /\ IsFiniteSet(connections') /\ NoOrphans' /\ TickTaskSurvives'
       /\ \A t \in Clients : latest'[t] <= edition' /\ (conn'[t].phase # "new" => Buildable(t)')
  <2>1. IsFiniteSet(connections')
    BY <1>5, PartFinite
  <2>2. \A t \in Clients : latest'[t] <= edition'
    BY <1>1, <1>5
  <2> QED  BY <2>1, <2>2, <1>5 DEF NoOrphans, TickTaskSurvives, Buildable
<1> QED  BY <1>4, <1>6, <1>8, <1>9, <1>10, <1>11, <1>12

\* A broadcast is over when everyone it was for has been served or is gone.
LEMMA FinishKeeps ==
  ASSUME RealtimeAssumption, LiveInv, NEW e \in 1..MaxEdition, Finish(e)
  PROVE  LiveInv' /\ (SlotsForAll => SubscribersReached)
<1> USE DEF LiveInv
<1>0. /\ UNCHANGED <<edition, ticking, conn, latest, connections>> /\ loop' = loop
      /\ cast[e] # None /\ CastFits(e) /\ FitIsFresh(e) /\ ServedHaveSeen(e)
      /\ cast[e].payload # None /\ cast[e].sending = {}
  BY DEF Finish, Ended, CastFits
<1>1. /\ cast' \in [1..MaxEdition -> Casts \cup {None}] /\ cast'[e] = None
      /\ \A d \in 1..MaxEdition : d # e => cast'[d] = cast[d]
  BY DEF Finish, LiveTypeOK
<1>2. \A d \in 1..MaxEdition : cast'[d] # None => d # e /\ cast'[d] = cast[d] /\ cast[d] # None
  BY <1>1
<1>3. \A d \in 1..MaxEdition : cast'[d] # None =>
          CastFits(d)' /\ FitIsFresh(d)' /\ ServedHaveSeen(d)'
  BY <1>0, <1>2 DEF CastFits, FitIsFresh, SlotForEach, ServedHaveSeen
<1>4. \A c, d \in 1..MaxEdition : cast'[c] # None /\ cast'[d] # None => InLine(c, d)'
  BY <1>2 DEF InLine
<1>5. SlotsForAll => SubscribersReached
  <2> SUFFICES ASSUME SlotsForAll, NEW d \in 1..MaxEdition, cast[d] # None, cast'[d] = None,
                      NEW s \in cast[d].to \cap connections'
               PROVE  latest'[s] >= d
    BY DEF SubscribersReached
  <2>1. d = e
    BY <1>1
  <2>2. s \in (cast[e].to \cap connections) \ cast[e].sending
    BY <1>0, <2>1
  <2>3. e <= latest[s]
    BY <1>0, <2>2 DEF ServedHaveSeen
  <2> QED  BY <2>1, <2>3, <1>0
<1> QED  BY <1>0, <1>1, <1>3, <1>4, <1>5 DEF NoOrphans, TickTaskSurvives, Buildable, LiveTypeOK

\* When no broadcast is over, and no picture changes, there is nothing to ask.
LEMMA StillServed ==
  ASSUME LiveInv,
         \A e \in 1..MaxEdition : cast[e] # None => cast'[e] # None
  PROVE  SubscribersReached
  BY DEF SubscribersReached

LEMMA PicturesStay == ASSUME LiveInv, latest' = latest PROVE GoesBackBehindQueueOnly
  BY DEF LiveInv, LiveTypeOK, GoesBackBehindQueueOnly

LEMMA LiveStep ==
  ASSUME RealtimeAssumption, LiveInv, [LiveNext]_liveVars
  PROVE  LiveInv' /\ GoesBackBehindQueueOnly /\ (SlotsForAll => SubscribersReached)
<1>1. CASE \E s \in Clients : Accept(s) \/ Greeted(s) \/ Leave(s) \/ ReceiveEnds(s)
  <2>1. PICK s \in Clients : Accept(s) \/ Greeted(s) \/ Leave(s) \/ ReceiveEnds(s)
    BY <1>1
  <2>2. cast' = cast
    BY <2>1 DEF Accept, Greeted, Leave, ReceiveEnds
  <2> QED  BY <2>1, <2>2, HandshakeKeeps, StillServed
<1>2. CASE LiveTick \/ Post
  <2>1. /\ edition < MaxEdition /\ edition' = edition + 1 /\ Broadcast
        /\ loop' \in {"sleeping", "broadcasting", "finished"}
        /\ ticking' \in {ticking, edition + 1} /\ UNCHANGED <<conn, latest, connections>>
    BY <1>2 DEF LiveTick, Post, LiveInv, LiveTypeOK, TickTaskSurvives
  <2>2. LiveInv' /\ \A e \in 1..MaxEdition : cast[e] # None => cast'[e] = cast[e]
    BY <2>1, ChangeKeeps
  <2> QED  BY <2>1, <2>2, StillServed, PicturesStay
<1>3. CASE NextTick
  <2>1. /\ LiveInv' /\ cast' = cast /\ latest' = latest
    BY <1>3 DEF NextTick, LiveInv, LiveTypeOK, NoOrphans, TickTaskSurvives, Buildable, CastFits,
                FitIsFresh, SlotForEach, ServedHaveSeen, InLine
  <2> QED  BY <2>1, StillServed, PicturesStay
<1>4. ASSUME NEW e \in 1..MaxEdition, SendEnds(e)
      PROVE  LiveInv' /\ GoesBackBehindQueueOnly /\ (SlotsForAll => SubscribersReached)
  <2>1. CASE StartSends(e)
    <3>1. latest' = latest
      BY <2>1 DEF StartSends
    <3>2. /\ LiveInv' /\ cast'[e] # None
          /\ \A d \in 1..MaxEdition : d # e => cast'[d] = cast[d]
      BY <2>1, StartOfSendsKeeps
    <3>3. SubscribersReached
      BY <3>2, StillServed
    <3> QED  BY <3>1, <3>2, <3>3, PicturesStay
  <2>2. CASE Finish(e)
    <3>1. latest' = latest
      BY <2>2 DEF Finish
    <3> QED  BY <2>2, <3>1, FinishKeeps, PicturesStay
  <2>3. ASSUME NEW s \in Clients, Delivered(e, s) \/ Dropped(e, s)
        PROVE  LiveInv' /\ GoesBackBehindQueueOnly /\ (SlotsForAll => SubscribersReached)
    <3>1. StruckOff(e, s)
      BY <2>3 DEF StruckOff, Delivered, Dropped
    <3> QED  BY <3>1, StrikeKeeps, StillServed
  <2> QED  BY <1>4, <2>1, <2>2, <2>3 DEF SendEnds
<1>5. CASE UNCHANGED liveVars
  <2>1. /\ LiveInv' /\ cast' = cast /\ latest' = latest
    BY <1>5 DEF liveVars, LiveInv, LiveTypeOK, NoOrphans, TickTaskSurvives, Buildable, CastFits,
                FitIsFresh, SlotForEach, ServedHaveSeen, InLine
  <2> QED  BY <2>1, StillServed, PicturesStay
<1> QED  BY <1>1, <1>2, <1>3, <1>4, <1>5 DEF LiveNext

\* However the broadcasts of ticks and handlers overlap, and whoever connects, leaves or is
\* dropped in between, for any clients, people, seats and slots (websocket.py's
\* MatchWebSocketManager and main.py's broadcasts).
THEOREM ViewersAreServed ==
  ASSUME RealtimeAssumption PROVE LiveSpec => ViewersServed
<1>1. LiveInit => LiveInv
  BY LiveInitFits
<1>2. LiveInv /\ [LiveNext]_liveVars => LiveInv'
  BY LiveStep
<1>3. LiveInv /\ [LiveNext]_liveVars =>
          [GoesBackBehindQueueOnly /\ (SlotsForAll => SubscribersReached)]_liveVars
  BY LiveStep
<1>4. LiveInv => LiveTypeOK /\ NoOrphans /\ TickTaskSurvives /\ SlotsRespected
  BY DEF LiveInv, CastFits, SlotsRespected
<1> QED  BY <1>1, <1>2, <1>3, <1>4, PTL DEF LiveSpec, ViewersServed
=============================================================================
