-------------------------- MODULE MatchRuntimeProofs --------------------------
(***************************************************************************)
(* What MatchRuntime guarantees for every set of players and every bound   *)
(* on ticks and submissions, and that it implements MatchHistory; and what *)
(* Ratings, which settles a match in the runtime's terminal tick,          *)
(* guarantees for every set of competitors, matches and final boards.      *)
(***************************************************************************)
EXTENDS MatchRuntime, Ratings, FiniteFacts, SequenceTheorems, TLAPS

LogEntry == [tick : 1..MaxTick, orders : SUBSET Submission]

-----------------------------------------------------------------------------
(* The inductive invariant.                                                *)

\* The tick task sleeps only in an active match.
TaskMatchesStatus ==
    /\ loop = "sleeping" => record.status = "active"
    /\ loop = "broadcasting" => record.status \in {"active", "completed"}

\* Submissions are numbered in the order they were accepted.
IdsInOrder ==
    /\ IsFiniteSet(accepted)
    /\ \A s \in accepted : s.id <= Cardinality(accepted)

\* Nothing is queued or resolved that was not accepted.
OnlyAccepted ==
    /\ record.queue \subseteq accepted
    /\ \A i \in DOMAIN tickLog : tickLog[i].orders \subseteq accepted

\* The queue belongs to the present tick, each log row to its own.
InTheirTick ==
    /\ \A s \in record.queue : s.tick = record.tick
    /\ \A i \in DOMAIN tickLog :
          /\ tickLog[i].tick = i
          /\ \A s \in tickLog[i].orders : s.tick + 1 = i

\* What is queued already obeys the overrides.
OverridesFirst(S) ==
    \A o, s \in S : o.kind = "override" /\ o.player = s.player => o.id <= s.id

PrecedenceKept ==
    /\ OverridesFirst(record.queue)
    /\ \A i \in DOMAIN tickLog : OverridesFirst(tickLog[i].orders)

NothingLost ==
    \A s \in accepted :
        s \in record.queue \/ s \in Resolved \/ s \in dropped \/ Superseded(s)

IndInv ==
    /\ TypeOK
    /\ MemoryMatchesRow
    /\ TaskMatchesStatus
    /\ IdsInOrder
    /\ OnlyAccepted
    /\ InTheirTick
    /\ PrecedenceKept
    /\ NothingLost

\* A new match satisfies the invariant.
LEMMA InitIndInv == Init => IndInv
<1> SUFFICES ASSUME Init PROVE IndInv
    OBVIOUS
<1> USE DEF Init, LoadedRecord
<1>1. TypeOK
    BY BoundsAssumption DEF TypeOK, Statuses
<1>2. MemoryMatchesRow /\ TaskMatchesStatus
    BY DEF MemoryMatchesRow, Readable, TaskMatchesStatus
<1>3. IdsInOrder
    BY FS_EmptySet DEF IdsInOrder
<1>4. OnlyAccepted /\ InTheirTick /\ PrecedenceKept /\ NothingLost
    BY DEF OnlyAccepted, InTheirTick, PrecedenceKept, OverridesFirst, NothingLost
<1> QED BY <1>1, <1>2, <1>3, <1>4 DEF IndInv

\* A handler or a restart that reloads the record preserves the invariant.
LEMMA ReloadPreserves ==
    ASSUME IndInv, NEW r, Reload(r), row' = r,
           r.tick = row.tick, r.status \in Statuses,
           r \in [tick : 0..MaxTick, status : Statuses, overdrawn : BOOLEAN], up' \in BOOLEAN,
           tickLog' = tickLog, accepted' = accepted, joined' \in SUBSET Players,
           loop' \in {"none", "sleeping", "broadcasting", "failed", "finished"},
           loop' = "sleeping" => r.status = "active",
           loop' = "broadcasting" => r.status \in {"active", "completed"}
    PROVE  IndInv'
<1>1. /\ record' = [tick |-> r.tick, status |-> r.status, queue |-> {}] /\ ~r.overdrawn
      /\ dropped' = dropped \cup record.queue
    BY DEF Reload, LoadedRecord, Readable
<1>2. TypeOK'
    BY <1>1 DEF IndInv, TypeOK
<1>3. MemoryMatchesRow' /\ TaskMatchesStatus'
    BY <1>1 DEF IndInv, MemoryMatchesRow, Readable, TaskMatchesStatus
<1>4. IdsInOrder' /\ OnlyAccepted' /\ InTheirTick' /\ PrecedenceKept'
    BY <1>1 DEF IndInv, IdsInOrder, OnlyAccepted, InTheirTick, PrecedenceKept, OverridesFirst
<1>5. NothingLost'
    <2>1. Resolved' = Resolved
        BY DEF Resolved
    <2>2. \A s : Superseded(s) => Superseded(s)'
        BY DEF Superseded
    <2> QED BY <1>1, <2>1, <2>2 DEF IndInv, NothingLost
<1> QED BY <1>2, <1>3, <1>4, <1>5 DEF IndInv

\* The next submission is new, and has the highest number.
LEMMA FreshSubmission ==
    ASSUME IndInv, NEW p \in Players, NEW b \in {"orders", "override"},
           Cardinality(accepted) < MaxSubmissions,
           NEW s, s = NewSubmission(p, b)
    PROVE  /\ s \in Submission /\ s \notin accepted
           /\ s.player = p /\ s.tick = record.tick /\ s.kind = b
           /\ \A q \in accepted : q.id < s.id
           /\ IsFiniteSet(accepted \cup {s})
           /\ \A q \in accepted \cup {s} : q.id <= Cardinality(accepted \cup {s})
<1>1. IsFiniteSet(accepted) /\ Cardinality(accepted) \in Nat
    BY FS_CardinalityType DEF IndInv, IdsInOrder
<1>2. s = [id |-> Cardinality(accepted) + 1, player |-> p, tick |-> record.tick, kind |-> b]
    BY DEF NewSubmission
<1>3. s \in Submission
    BY <1>1, <1>2, BoundsAssumption DEF Submission, IndInv, TypeOK
<1>4. \A q \in accepted : q.id \in Nat /\ q.id <= Cardinality(accepted)
    BY BoundsAssumption DEF IndInv, IdsInOrder, TypeOK, Submission
<1>5. \A q \in accepted : q.id < s.id
    BY <1>1, <1>2, <1>4
<1>6. s \notin accepted
    BY <1>1, <1>2, <1>4
<1>7. /\ IsFiniteSet(accepted \cup {s})
      /\ Cardinality(accepted \cup {s}) = Cardinality(accepted) + 1
    BY <1>1, <1>6, FS_AddElement
<1>8. \A q \in accepted \cup {s} : q.id <= Cardinality(accepted \cup {s})
    BY <1>1, <1>2, <1>4, <1>7
<1>9. s.player = p /\ s.tick = record.tick /\ s.kind = b
    BY <1>2
<1> QED BY <1>3, <1>5, <1>6, <1>7, <1>8, <1>9

\* A submission added to the queue, with or without taking its player's
\* others out, preserves the invariant.
LEMMA QueuePreserves ==
    ASSUME IndInv, NEW p \in Players, NEW b \in {"orders", "override"},
           Cardinality(accepted) < MaxSubmissions,
           NEW s, s = NewSubmission(p, b),
           NEW kept \in SUBSET record.queue,
           record' = [record EXCEPT !.queue = kept \cup {s}],
           accepted' = accepted \cup {s},
           \A q \in record.queue \ kept : b = "override" /\ q.player = p,
           b = "override" => \A q \in kept : q.player # p,
           UNCHANGED <<row, tickLog, joined, loop, up, dropped>>
    PROVE  IndInv'
<1>1. /\ s \in Submission /\ s \notin accepted
      /\ s.player = p /\ s.tick = record.tick /\ s.kind = b
      /\ \A q \in accepted : q.id < s.id
      /\ IsFiniteSet(accepted \cup {s})
      /\ \A q \in accepted \cup {s} : q.id <= Cardinality(accepted \cup {s})
    BY FreshSubmission
<1>2. /\ record'.queue = kept \cup {s} /\ record'.tick = record.tick
      /\ record'.status = record.status
    BY DEF IndInv, TypeOK
<1>3. kept \subseteq accepted /\ kept \in SUBSET Submission
    BY DEF IndInv, OnlyAccepted, TypeOK
<1>4. TypeOK'
    BY <1>1, <1>3 DEF IndInv, TypeOK
<1>5. MemoryMatchesRow' /\ TaskMatchesStatus'
    BY <1>2 DEF IndInv, MemoryMatchesRow, Readable, TaskMatchesStatus
<1>6. IdsInOrder'
    BY <1>1 DEF IdsInOrder
<1>7. OnlyAccepted'
    BY <1>2, <1>3 DEF IndInv, OnlyAccepted
<1>8. InTheirTick'
    BY <1>1, <1>2 DEF IndInv, InTheirTick
<1>9. PrecedenceKept'
    <2>1. OverridesFirst(kept \cup {s})
        <3> SUFFICES ASSUME NEW o \in kept \cup {s}, NEW q \in kept \cup {s},
                            o.kind = "override", o.player = q.player
                     PROVE  o.id <= q.id
            BY DEF OverridesFirst
        <3>1. CASE o \in kept /\ q \in kept
            BY <3>1 DEF IndInv, PrecedenceKept, OverridesFirst
        <3>2. CASE o \in kept /\ q = s
            <4>1. o.id < s.id /\ o.id \in Nat /\ s.id \in Nat
                BY <1>1, <1>3, <3>2, BoundsAssumption DEF Submission
            <4> QED BY <3>2, <4>1
        <3>3. CASE o = s /\ q \in kept
            BY <1>1, <3>3
        <3>4. CASE o = s /\ q = s
            <4>1. s.id \in Nat
                BY <1>1, BoundsAssumption DEF Submission
            <4> QED BY <3>4, <4>1
        <3> QED BY <3>1, <3>2, <3>3, <3>4
    <2> QED BY <1>2, <2>1 DEF IndInv, PrecedenceKept
<1>10. NothingLost'
    <2>1. Resolved' = Resolved
        BY DEF Resolved
    <2>2. \A q : Superseded(q) => Superseded(q)'
        BY DEF Superseded
    <2>3. ASSUME NEW q \in record.queue \ kept PROVE Superseded(q)'
        <3>1. q.player = p /\ q.tick = record.tick /\ q \in accepted /\ b = "override"
            BY <2>3 DEF IndInv, InTheirTick, OnlyAccepted
        <3> QED BY <1>1, <3>1 DEF Superseded
    <2> QED BY <1>2, <2>1, <2>2, <2>3 DEF IndInv, NothingLost
<1> QED BY <1>4, <1>5, <1>6, <1>7, <1>8, <1>9, <1>10 DEF IndInv

\* The handlers' steps: joins, starts, submissions and overrides.
LEMMA HandlersPreserve ==
    ASSUME IndInv, NEW p,
           \/ p \in Players /\ (Join(p) \/ SubmitOrders(p) \/ OverrideOrders(p))
           \/ StartMatch \/ Restart
    PROVE  IndInv'
<1>1. /\ row \in [tick : 0..MaxTick, status : Statuses, overdrawn : BOOLEAN]
      /\ joined \in SUBSET Players /\ up \in BOOLEAN
      /\ loop \in {"none", "sleeping", "broadcasting", "failed", "finished"}
      /\ record.status = row.status
      /\ loop = "sleeping" => row.status = "active"
      /\ loop = "broadcasting" => row.status \in {"active", "completed"}
    BY DEF IndInv, TypeOK, MemoryMatchesRow, Readable, TaskMatchesStatus
<1>2. CASE p \in Players /\ Join(p)
    <2>1. /\ Reload(row) /\ row' = row /\ tickLog' = tickLog /\ accepted' = accepted
          /\ loop' = loop /\ up' = up /\ joined' \in SUBSET Players
        BY <1>1, <1>2 DEF Join
    <2> QED BY <1>1, <2>1, ReloadPreserves
<1>3. CASE StartMatch
    <2>1. /\ Reload(row') /\ tickLog' = tickLog /\ accepted' = accepted
          /\ joined' = joined /\ up' = up /\ loop' = EnsureMatchTask(loop)
          /\ row' = [row EXCEPT !.status = "active"]
        BY <1>3 DEF StartMatch
    <2>2. /\ row' \in [tick : 0..MaxTick, status : Statuses, overdrawn : BOOLEAN]
          /\ row'.tick = row.tick /\ row'.status = "active" /\ row'.status \in Statuses
        BY <1>1, <2>1 DEF Statuses
    <2>3. loop' \in {"sleeping", "broadcasting"}
        BY <1>1, <2>1 DEF EnsureMatchTask
    <2> QED BY <1>1, <2>1, <2>2, <2>3, ReloadPreserves
<1>4. CASE Restart
    <2>1. /\ Reload(row) /\ row' = row /\ tickLog' = tickLog /\ accepted' = accepted
          /\ joined' = joined /\ up' = up
          /\ loop' = IF row.status = "active" THEN EnsureMatchTask("none") ELSE "none"
        BY <1>4 DEF Restart
    <2>2. loop' = IF row.status = "active" THEN "sleeping" ELSE "none"
        BY <2>1 DEF EnsureMatchTask
    <2> QED BY <1>1, <2>1, <2>2, ReloadPreserves
<1>5. CASE p \in Players /\ SubmitOrders(p)
    <2> DEFINE s == NewSubmission(p, "orders")
    <2>1. /\ Cardinality(accepted) < MaxSubmissions
          /\ record' = [record EXCEPT !.queue = record.queue \cup {s}]
          /\ accepted' = accepted \cup {s}
          /\ UNCHANGED <<row, tickLog, joined, loop, up, dropped>>
        BY <1>5 DEF SubmitOrders
    <2> HIDE DEF s
    <2> QED BY <1>5, <2>1, QueuePreserves DEF s
<1>6. CASE p \in Players /\ OverrideOrders(p)
    <2> DEFINE s == NewSubmission(p, "override")
               kept == {q \in record.queue : q.player # s.player \/ q.tick # s.tick}
    <2>1. /\ Cardinality(accepted) < MaxSubmissions
          /\ record' = [record EXCEPT !.queue = kept \cup {s}]
          /\ accepted' = accepted \cup {s}
          /\ UNCHANGED <<row, tickLog, joined, loop, up, dropped>>
        BY <1>6 DEF OverrideOrders, ReplacePlayerSubmissions
    <2>2. s.player = p /\ s.tick = record.tick
        BY DEF NewSubmission
    <2>3. \A q \in record.queue : q.tick = record.tick
        BY DEF IndInv, InTheirTick
    <2>4. /\ kept \in SUBSET record.queue
          /\ \A q \in record.queue \ kept : q.player = p
          /\ \A q \in kept : q.player # p
        BY <2>2, <2>3
    <2> HIDE DEF s, kept
    <2> QED BY <1>6, <2>1, <2>4, QueuePreserves DEF s
<1> QED BY <1>2, <1>3, <1>4, <1>5, <1>6

\* A process that does not come back leaves the row as it was; its queue is accounted for.
LEMMA DownPreserves ==
    ASSUME IndInv, RestartFails
    PROVE  IndInv'
<1>1. /\ record' = [record EXCEPT !.queue = {}] /\ dropped' = dropped \cup record.queue
      /\ up' = FALSE /\ loop' = "none" /\ UNCHANGED <<row, tickLog, joined, accepted>>
    BY DEF RestartFails
<1>2. record' = [tick |-> record.tick, status |-> record.status, queue |-> {}]
    BY <1>1 DEF IndInv, TypeOK
<1>3. TypeOK'
    BY <1>1, <1>2 DEF IndInv, TypeOK
<1>4. MemoryMatchesRow' /\ TaskMatchesStatus'
    BY <1>1, <1>2 DEF IndInv, MemoryMatchesRow, Readable, TaskMatchesStatus
<1>5. IdsInOrder' /\ OnlyAccepted' /\ InTheirTick' /\ PrecedenceKept'
    BY <1>1, <1>2 DEF IndInv, IdsInOrder, OnlyAccepted, InTheirTick, PrecedenceKept, OverridesFirst
<1>6. NothingLost'
    <2>1. Resolved' = Resolved
        BY <1>1 DEF Resolved
    <2>2. \A s : Superseded(s) => Superseded(s)'
        BY <1>1 DEF Superseded
    <2> QED BY <1>1, <1>2, <2>1, <2>2 DEF IndInv, NothingLost
<1> QED BY <1>3, <1>4, <1>5, <1>6 DEF IndInv

\* What a tick writes: the row, the record and one more log entry.
LEMMA TickFacts ==
    ASSUME IndInv, Tick
    PROVE  /\ row.status = "active"
           /\ row' \in [tick : 0..MaxTick, status : {"active", "completed"}, overdrawn : BOOLEAN]
           /\ row'.overdrawn => row'.status = "active"
           /\ row'.tick = Len(tickLog) + 1
           /\ record' = [tick |-> row'.tick, status |-> row'.status, queue |-> {}]
           /\ DueSubmissions(record) = record.queue
           /\ tickLog' = Append(tickLog, [tick |-> Len(tickLog) + 1, orders |-> record.queue])
           /\ [tick |-> Len(tickLog) + 1, orders |-> record.queue] \in LogEntry
<1>1. /\ record \in [tick : 0..MaxTick, status : Statuses, queue : SUBSET Submission]
      /\ record.tick = Len(tickLog) /\ record.tick = row.tick
      /\ record.status = "active" /\ row.status = "active"
    BY DEF Tick, IndInv, TypeOK, MemoryMatchesRow, Readable, TaskMatchesStatus
<1>2. PICK terminal \in BOOLEAN, overdrawn \in BOOLEAN :
          /\ ~(terminal /\ overdrawn)
          /\ record' = IF terminal
                       THEN [AdvancedRecord(record) EXCEPT !.status = "completed"]
                       ELSE AdvancedRecord(record)
          /\ row' = [tick |-> record'.tick,
                     status |-> IF terminal THEN "completed" ELSE row.status,
                     overdrawn |-> overdrawn]
    BY DEF Tick
<1>3. \A s \in record.queue : s.tick = record.tick
    BY DEF IndInv, InTheirTick
<1>4. DueSubmissions(record) = record.queue /\ RemainingSubmissions(record) = {}
    BY <1>3 DEF DueSubmissions, RemainingSubmissions
<1>5. AdvancedRecord(record) =
          [tick |-> record.tick + 1, status |-> record.status, queue |-> {}]
    BY <1>1, <1>4 DEF AdvancedRecord
<1>6. record.tick + 1 \in 1..MaxTick
    BY <1>1, BoundsAssumption DEF Tick
<1>7. /\ record'.tick = record.tick + 1 /\ record'.queue = {}
      /\ record'.status = IF terminal THEN "completed" ELSE "active"
      /\ record' = [tick |-> record.tick + 1, queue |-> {},
                    status |-> IF terminal THEN "completed" ELSE "active"]
    <2>1. CASE terminal
        <3>1. record' = [AdvancedRecord(record) EXCEPT !.status = "completed"]
            BY <1>2, <2>1
        <3>2. record' = [tick |-> record.tick + 1, status |-> "completed", queue |-> {}]
            BY <1>5, <3>1
        <3> QED BY <2>1, <3>2
    <2>2. CASE ~terminal
        BY <1>1, <1>2, <1>5, <2>2
    <2> QED BY <2>1, <2>2
<1>8. row' = [tick |-> record.tick + 1,
              status |-> IF terminal THEN "completed" ELSE "active", overdrawn |-> overdrawn]
    BY <1>1, <1>2, <1>7
<1>9. /\ row' \in [tick : 0..MaxTick, status : {"active", "completed"}, overdrawn : BOOLEAN]
      /\ row'.overdrawn => row'.status = "active"
    BY <1>2, <1>6, <1>8, BoundsAssumption
<1>10. record' = [tick |-> row'.tick, status |-> row'.status, queue |-> {}]
    BY <1>7, <1>8
<1>11. tickLog' = Append(tickLog, [tick |-> Len(tickLog) + 1, orders |-> record.queue])
    BY <1>1, <1>4, <1>7 DEF Tick
<1>12. [tick |-> Len(tickLog) + 1, orders |-> record.queue] \in LogEntry
    BY <1>1, <1>6 DEF LogEntry
<1> QED BY <1>1, <1>4, <1>8, <1>9, <1>10, <1>11, <1>12

\* A tick that is written preserves the invariant.
LEMMA TickPreserves ==
    ASSUME IndInv, Tick
    PROVE  IndInv'
<1> DEFINE entry == [tick |-> Len(tickLog) + 1, orders |-> record.queue]
<1>1. /\ row' \in [tick : 0..MaxTick, status : {"active", "completed"}, overdrawn : BOOLEAN]
      /\ row'.overdrawn => row'.status = "active"
      /\ row'.tick = Len(tickLog) + 1
      /\ record' = [tick |-> row'.tick, status |-> row'.status, queue |-> {}]
      /\ tickLog' = Append(tickLog, entry)
      /\ entry \in LogEntry
    BY TickFacts
<1>2. /\ tickLog \in Seq(LogEntry) /\ loop' = "broadcasting"
      /\ UNCHANGED <<joined, up, accepted, dropped>>
    BY DEF IndInv, TypeOK, LogEntry, Tick
<1>3. /\ tickLog' \in Seq(LogEntry)
      /\ Len(tickLog') = Len(tickLog) + 1
      /\ DOMAIN tickLog' = 1..(Len(tickLog) + 1)
      /\ \A i \in DOMAIN tickLog : tickLog'[i] = tickLog[i]
      /\ tickLog'[Len(tickLog) + 1] = entry
      /\ DOMAIN tickLog = 1..Len(tickLog) /\ Len(tickLog) \in Nat
    BY <1>1, <1>2, AppendProperties
<1>4. entry.tick = Len(tickLog) + 1 /\ entry.orders = record.queue
    OBVIOUS
<1> HIDE DEF entry
<1>5. \A i \in DOMAIN tickLog' :
          (i \in DOMAIN tickLog /\ tickLog'[i] = tickLog[i])
          \/ (i = Len(tickLog) + 1 /\ tickLog'[i] = entry)
    BY <1>3
<1>6. TypeOK'
    BY <1>1, <1>2, <1>3 DEF IndInv, TypeOK, Statuses, LogEntry
<1>7. MemoryMatchesRow' /\ TaskMatchesStatus'
    BY <1>1, <1>2, <1>3 DEF MemoryMatchesRow, Readable, TaskMatchesStatus
<1>8. IdsInOrder'
    BY <1>2 DEF IndInv, IdsInOrder
<1>9. OnlyAccepted'
    BY <1>1, <1>2, <1>4, <1>5 DEF IndInv, OnlyAccepted
<1>10. InTheirTick'
    <2>1. \A s \in record.queue : s.tick = Len(tickLog)
        BY DEF IndInv, InTheirTick, MemoryMatchesRow
    <2> QED BY <1>1, <1>3, <1>4, <1>5, <2>1 DEF IndInv, InTheirTick
<1>11. PrecedenceKept'
    BY <1>1, <1>4, <1>5 DEF IndInv, PrecedenceKept, OverridesFirst
<1>12. NothingLost'
    <2>1. Resolved \subseteq Resolved'
        BY <1>3 DEF Resolved
    <2>2. record.queue \subseteq Resolved'
        <3>1. Len(tickLog) + 1 \in DOMAIN tickLog'
            BY <1>3
        <3> QED BY <1>3, <1>4, <3>1 DEF Resolved
    <2>3. \A s : Superseded(s) => Superseded(s)'
        BY <1>2 DEF Superseded
    <2> QED BY <1>2, <2>1, <2>2, <2>3 DEF IndInv, NothingLost
<1> QED BY <1>6, <1>7, <1>8, <1>9, <1>10, <1>11, <1>12 DEF IndInv

\* The task's other steps change nothing but the task.
LEMMA TaskPreserves ==
    ASSUME IndInv, TickNotPersisted \/ Broadcast
    PROVE  IndInv'
<1>1. /\ UNCHANGED <<record, row, tickLog, joined, up, accepted, dropped>>
      /\ loop' \in {"sleeping", "failed", "finished"}
      /\ loop' = "sleeping" => record.status = "active"
    BY DEF TickNotPersisted, Broadcast
<1> QED BY <1>1 DEF IndInv, TypeOK, MemoryMatchesRow, Readable, TaskMatchesStatus, IdsInOrder, OnlyAccepted,
                    InTheirTick, PrecedenceKept, OverridesFirst, NothingLost, Resolved, Superseded

\* Every step of the system preserves the invariant.
LEMMA NextIndInv == IndInv /\ [Next]_vars => IndInv'
<1> SUFFICES ASSUME IndInv, [Next]_vars PROVE IndInv'
    OBVIOUS
<1>1. ASSUME NEW p \in Players, Join(p) \/ SubmitOrders(p) \/ OverrideOrders(p)
      PROVE  IndInv'
    BY <1>1, HandlersPreserve
<1>2. CASE StartMatch \/ Restart
    BY <1>2, HandlersPreserve
<1>3. CASE Tick
    BY <1>3, TickPreserves
<1>4. CASE TickNotPersisted \/ Broadcast
    BY <1>4, TaskPreserves
<1>6. CASE RestartFails
    BY <1>6, DownPreserves
<1>5. CASE UNCHANGED vars
    BY <1>5 DEF vars, IndInv, TypeOK, MemoryMatchesRow, Readable, TaskMatchesStatus, IdsInOrder, OnlyAccepted,
                InTheirTick, PrecedenceKept, OverridesFirst, NothingLost, Resolved, Superseded
<1> QED BY <1>1, <1>2, <1>3, <1>4, <1>5, <1>6 DEF Next

-----------------------------------------------------------------------------
(* The theorems.                                                           *)

\* What the invariant says of the properties the runs check.
LEMMA IndInvSuffices ==
    IndInv => TypeOK /\ MemoryMatchesRow /\ OrdersAccountedFor /\ OverrideTakesPrecedence
<1> SUFFICES ASSUME IndInv
             PROVE  TypeOK /\ MemoryMatchesRow /\ OrdersAccountedFor /\ OverrideTakesPrecedence
    OBVIOUS
<1>1. TypeOK /\ MemoryMatchesRow
    BY DEF IndInv
<1>2. OrdersAccountedFor
    BY DEF IndInv, NothingLost, InTheirTick, OrdersAccountedFor
<1>3. OverrideTakesPrecedence
    BY DEF IndInv, PrecedenceKept, OverridesFirst, OverrideTakesPrecedence
<1> QED BY <1>1, <1>2, <1>3

\* The invariant holds in every reachable state.
LEMMA Invariance == Spec => []IndInv
BY InitIndInv, NextIndInv, PTL DEF Spec

\* The record, the row, the log and the task keep their shape.
THEOREM TypeCorrect == Spec => []TypeOK
BY Invariance, IndInvSuffices, PTL

\* The rollback in _run_match_loop and every reload leave the record where the
\* database is, for any number of failures and restarts.
THEOREM MemoryFollowsRow == Spec => []MemoryMatchesRow
BY Invariance, IndInvSuffices, PTL

\* Every submission the server accepted is queued, resolved by its own tick,
\* superseded or lost in a reload; there is no other way out of the queue.
THEOREM NoOrderUnaccounted == Spec => []OrdersAccountedFor
BY Invariance, IndInvSuffices, PTL

\* replace_player_submissions gives an override precedence over whatever the
\* agent queued before it.
THEOREM OverridePrecedence == Spec => []OverrideTakesPrecedence
BY Invariance, IndInvSuffices, PTL

\* A step of the server is a step of MatchHistory, or leaves it alone.
LEMMA StepRefines ==
    ASSUME IndInv, [Next]_vars
    PROVE  [History!HistoryNext]_(History!historyVars)
<1>1. ASSUME NEW p \in Players, Join(p)
      PROVE  UNCHANGED History!historyVars
    BY <1>1 DEF Join, History!historyVars
<1>2. ASSUME NEW p \in Players, NEW b \in {"orders", "override"},
             Cardinality(accepted) < MaxSubmissions,
             accepted' = accepted \cup {NewSubmission(p, b)}, UNCHANGED <<row, tickLog>>
      PROVE  History!HistoryNext
    <2> DEFINE s == NewSubmission(p, b)
    <2>1. s \in Submission /\ s \notin accepted
        <3> HIDE DEF s
        <3> QED BY <1>2, FreshSubmission DEF s
    <2> HIDE DEF s
    <2>2. History!Accept(s)
        BY <1>2, <2>1 DEF History!Accept, s
    <2> QED BY <2>1, <2>2 DEF History!HistoryNext
<1>3. ASSUME NEW p \in Players, SubmitOrders(p)
      PROVE  History!HistoryNext
    BY <1>2, <1>3 DEF SubmitOrders
<1>4. ASSUME NEW p \in Players, OverrideOrders(p)
      PROVE  History!HistoryNext
    BY <1>2, <1>4 DEF OverrideOrders
<1>5. CASE StartMatch
    <2>1. row'.status = "active"
        BY <1>5 DEF StartMatch, IndInv, TypeOK
    <2>2. History!Start
        BY <1>5, <2>1 DEF StartMatch, History!Start
    <2> QED BY <2>2 DEF History!HistoryNext
<1>6. CASE Tick
    <2>1. /\ row.status = "active"
          /\ row'.status \in {"active", "completed"}
          /\ tickLog' = Append(tickLog, [tick |-> Len(tickLog) + 1, orders |-> record.queue])
        BY <1>6, TickFacts
    <2>2. record.queue \in SUBSET accepted
        BY DEF IndInv, OnlyAccepted
    <2>3. \A i \in DOMAIN tickLog : tickLog[i].orders \cap record.queue = {}
        <3> SUFFICES ASSUME NEW i \in DOMAIN tickLog, NEW s \in record.queue,
                            s \in tickLog[i].orders
                     PROVE  FALSE
            OBVIOUS
        <3>1. s.tick = Len(tickLog) /\ s.tick + 1 = i
            BY DEF IndInv, InTheirTick, MemoryMatchesRow
        <3>2. i \in 1..Len(tickLog) /\ Len(tickLog) \in Nat
            <4>1. tickLog \in Seq(LogEntry)
                BY DEF IndInv, TypeOK, LogEntry
            <4> QED BY <4>1
        <3> QED BY <3>1, <3>2
    <2>4. History!Advance(record.queue)
        BY <1>6, <2>1, <2>3 DEF History!Advance, Tick
    <2> QED BY <2>2, <2>4 DEF History!HistoryNext
<1>7. CASE TickNotPersisted \/ Broadcast \/ Restart \/ RestartFails
    BY <1>7 DEF TickNotPersisted, Broadcast, Restart, RestartFails, History!historyVars
<1>8. CASE UNCHANGED vars
    BY <1>8 DEF vars, History!historyVars
<1> QED BY <1>1, <1>3, <1>4, <1>5, <1>6, <1>7, <1>8 DEF Next

\* The server implements the history it promises: status moves forward only,
\* ticks are logged once and in order, no submission is resolved twice, and
\* nothing is logged after completion, through failures, restarts and joins.
THEOREM ImplementsHistory == Spec => HistorySpec
<1>1. Init => History!HistoryInit
    BY DEF Init, History!HistoryInit
<1>2. IndInv /\ [Next]_vars => [History!HistoryNext]_(History!historyVars)
    BY StepRefines
<1> QED BY <1>1, <1>2, Invariance, PTL DEF Spec, HistorySpec, History!HistorySpec

\* What becomes of orders and overrides, taken together.
THEOREM OrdersAreHonored == Spec => []OrdersHonored
<1>1. OrdersAccountedFor /\ OverrideTakesPrecedence => OrdersHonored
  BY DEF OrdersHonored
<1> QED
  BY <1>1, NoOrderUnaccounted, OverridePrecedence, PTL

-----------------------------------------------------------------------------
(* Ratings: the inductive invariant.                                       *)

\* Who plays and with what: an agent plays by a key that was issued, and rosters remember no
\* more completed matches than there are.
RostersKept ==
    /\ rating \in [Keys -> Nat \cup {None}]
    /\ DOMAIN roster = Matches
    /\ \A m \in Matches : DOMAIN roster[m] \subseteq Competitors /\ IsFiniteSet(DOMAIN roster[m])
    /\ \A m \in Matches : \A w \in DOMAIN roster[m] :
          /\ roster[m][w].elo \in Nat /\ roster[m][w].after \in 0..Cardinality(Completed)
          /\ w \in Keys => rating[w] # None

\* What a terminal tick may write of match m.
Written(m, r) ==
    \E f \in Finals : \E w \in DOMAIN roster[m] : r = Result(m, f, CoalitionOf(f, w), r.at)

\* What the terminal ticks wrote: some final board was led by the coalition of a player, and no
\* two matches were completed at once.
FinishedOnce ==
    /\ Completed \subseteq Matches
    /\ \A m \in Completed :
          /\ Written(m, result[m])
          /\ result[m].at \in 1..Cardinality(Completed)
    /\ \A m, n \in Completed : result[m].at = result[n].at => m = n

\* The row that settles match m for w.
RowOf(m, w) ==
    [match |-> m, who |-> w, outcome |-> Outcome(m, result[m], w), at |-> result[m].at,
     before |-> roster[m][w].elo, after |-> RatingAfter(m, result[m], w, roster[m][w].elo)]

\* The ledger has these rows and no others.
LedgerComplete ==
    \A s : s \in ledger <=> \E m \in Completed : \E w \in DOMAIN roster[m] : s = RowOf(m, w)

\* The rows a competitor had when it joined a match.
Known(m, w) == {t \in Of(w) : t.at <= roster[m][w].after}

\* A rating in use, that of a key or of a roster, is that of the newest row it could know of.
Carried ==
    /\ \A k \in Keys : Of(k) # {} => rating[k] = Latest(Of(k)).after
    /\ \A m \in Matches : \A w \in DOMAIN roster[m] :
           Known(m, w) # {} => roster[m][w].elo = Latest(Known(m, w)).after

RatingsInv == RostersKept /\ FinishedOnce /\ LedgerComplete /\ Carried

-----------------------------------------------------------------------------
(* The winners.                                                            *)

\* The players whose coalition led the board.
Leading(m, r) == {w \in DOMAIN roster[m] : CoalitionOf(r.final, w) = r.leading}

LEMMA WrittenParts ==
    ASSUME NEW m, NEW r, Written(m, r)
    PROVE  /\ r.final \in Finals /\ r.winner = <<m, r.leading>>
           /\ \A w \in DOMAIN roster[m] : r.members[w] = AllianceRow(m, r.final, w)
           /\ \E w \in DOMAIN roster[m] : r.leading = CoalitionOf(r.final, w)
<1>1. PICK f \in Finals, w \in DOMAIN roster[m] : r = Result(m, f, CoalitionOf(f, w), r.at)
  BY DEF Written
<1> DEFINE c == CoalitionOf(f, w)
<1> HIDE DEF c
<1>2. r = Result(m, f, c, r.at)
  BY <1>1 DEF c
<1>3. /\ r.leading = c /\ r.winner = <<m, c>> /\ r.final = f
      /\ \A v \in DOMAIN roster[m] : r.members[v] = AllianceRow(m, f, v)
  BY <1>2 DEF Result, PersistedWinner
<1> QED BY <1>3 DEF c

\* A competitor's coalition is its alliance, or itself.
LEMMA Coalitions ==
    ASSUME RatingsAssumption, NEW f \in Finals, NEW w \in Competitors
    PROVE  /\ f.alliance[w] \in Alliances \cup {None}
           /\ f.alliance[w] = None <=> CoalitionOf(f, w) \in Competitors
           /\ f.alliance[w] = None => CoalitionOf(f, w) = w
           /\ f.alliance[w] # None => CoalitionOf(f, w) = f.alliance[w]
BY DEF RatingsAssumption, CoalitionOf

\* Settlement finds the coalition that led, whichever kind of id that goes by.
LEMMA LeadersWin ==
    ASSUME RatingsAssumption, RostersKept, NEW m \in Matches, NEW r, Written(m, r)
    PROVE  /\ Leading(m, r) # {} /\ IsFiniteSet(Leading(m, r))
           /\ Winners(m, r) = Leading(m, r)
<1> DEFINE D == DOMAIN roster[m]
           f == r.final
           c == r.leading
<1>1. f \in Finals /\ r.winner = <<m, c>>
  BY WrittenParts
<1>2. \A w \in D : r.members[w] = AllianceRow(m, f, w)
  BY WrittenParts
<1>3. PICK w0 \in D : c = CoalitionOf(f, w0)
  BY WrittenParts
<1>4. D \subseteq Competitors /\ IsFiniteSet(D)
  BY DEF RostersKept
<1>5. Candidates(r)[1] = c
  BY DEF Candidates
<1> HIDE DEF f, c
<1>6. \A w \in D : /\ f.alliance[w] \in Alliances \cup {None}
                   /\ f.alliance[w] = None <=> CoalitionOf(f, w) \in Competitors
                   /\ f.alliance[w] = None => CoalitionOf(f, w) = w
                   /\ f.alliance[w] # None => CoalitionOf(f, w) = f.alliance[w]
  BY <1>1, <1>4, Coalitions
<1>7. c \in Competitors \cup Alliances /\ c # None /\ \A x \in Competitors \cup Alliances : <<m, x>> # c
  BY <1>3, <1>4, <1>6 DEF RatingsAssumption
<1>8. \A w \in D : MemberOf(r, w, c) <=> f.alliance[w] = c
  <2> SUFFICES ASSUME NEW w \in D PROVE r.members[w] # c /\ (MemberOf(r, w, c) <=> f.alliance[w] = c)
    OBVIOUS
  <2>1. r.members[w] = IF f.alliance[w] = None THEN None ELSE <<m, f.alliance[w]>>
    BY <1>2 DEF AllianceRow
  <2>2. f.alliance[w] # None => f.alliance[w] \in Alliances
    BY <1>6
  <2>3. r.members[w] # c
    BY <1>7, <2>1, <2>2
  <2> QED BY <2>3 DEF MemberOf, f
<1>9. Leading(m, r) # {} /\ IsFiniteSet(Leading(m, r))
  <2>1. Leading(m, r) \subseteq D /\ w0 \in Leading(m, r)
    BY <1>3 DEF Leading, f, c
  <2> QED BY <1>4, <2>1, FS_Subset
<1>10. WinnersUnder(m, r, c) = Leading(m, r)
  <2>1. CASE c \in Alliances
    <3>1. \A w \in D : f.alliance[w] = c <=> CoalitionOf(f, w) = c
      BY <1>4, <1>6, <1>7, <2>1 DEF RatingsAssumption
    <3>2. {w \in D : MemberOf(r, w, c)} = Leading(m, r)
      BY <1>8, <3>1 DEF Leading, f, c
    <3> QED BY <1>9, <3>2 DEF WinnersUnder
  <2>2. CASE c \in Competitors
    <3>1. \A w \in D : f.alliance[w] # c
      BY <1>6, <1>7, <2>2 DEF RatingsAssumption
    <3>2. {w \in D : MemberOf(r, w, c)} = {}
      BY <1>8, <3>1
    <3>3. \A w \in D : c \in {<<m, w>>, w} <=> CoalitionOf(f, w) = c
      BY <1>3, <1>4, <1>6, <1>7, <2>2 DEF RatingsAssumption
    <3>4. {w \in D : c \in {<<m, w>>, w}} = Leading(m, r)
      BY <3>3 DEF Leading, f, c
    <3> QED BY <3>2, <3>4 DEF WinnersUnder
  <2> QED BY <1>7, <2>1, <2>2
<1> QED BY <1>5, <1>9, <1>10 DEF Winners

\* The list of completed matches finds the same by the id of a row.
LEMMA LeadersListed ==
    ASSUME RatingsAssumption, RostersKept, NEW m \in Matches, Written(m, result[m])
    PROVE  WinningCompetitors(m) = Leading(m, result[m])
<1> DEFINE r == result[m]
           D == DOMAIN roster[m]
           f == r.final
           c == r.leading
<1>1. f \in Finals /\ r.winner = <<m, c>>
  BY WrittenParts
<1>2. \A w \in D : r.members[w] = AllianceRow(m, f, w)
  BY WrittenParts
<1>3. PICK w0 \in D : c = CoalitionOf(f, w0)
  BY WrittenParts
<1>4. D \subseteq Competitors
  BY DEF RostersKept
<1> HIDE DEF f, c, r
<1>6. \A w \in D : /\ f.alliance[w] \in Alliances \cup {None}
                   /\ f.alliance[w] = None <=> CoalitionOf(f, w) \in Competitors
                   /\ f.alliance[w] = None => CoalitionOf(f, w) = w
                   /\ f.alliance[w] # None => CoalitionOf(f, w) = f.alliance[w]
  BY <1>1, <1>4, Coalitions
<1>7. c \in Competitors \cup Alliances /\ c # None /\ <<m, c>> # None
  BY <1>3, <1>4, <1>6 DEF RatingsAssumption
<1>8. \A w \in D : r.members[w] = r.winner <=> f.alliance[w] = c
  <2> SUFFICES ASSUME NEW w \in D PROVE r.members[w] = r.winner <=> f.alliance[w] = c
    OBVIOUS
  <2>1. r.members[w] = IF f.alliance[w] = None THEN None ELSE <<m, f.alliance[w]>>
    BY <1>2 DEF AllianceRow
  <2>2. <<m, f.alliance[w]>> = <<m, c>> <=> f.alliance[w] = c
    OBVIOUS
  <2> QED BY <1>1, <1>7, <2>1, <2>2
<1>9. CASE c \in Alliances
  <2>1. \A w \in D : r.members[w] = r.winner <=> CoalitionOf(f, w) = c
    BY <1>4, <1>6, <1>7, <1>8, <1>9 DEF RatingsAssumption
  <2>2. {w \in D : r.members[w] = r.winner} = Leading(m, r) /\ w0 \in Leading(m, r)
    BY <1>3, <2>1 DEF Leading, f, c
  <2> QED BY <2>2 DEF WinningCompetitors, r
<1>10. CASE c \in Competitors
  <2>1. {w \in D : r.members[w] = r.winner} = {}
    BY <1>6, <1>7, <1>8, <1>10 DEF RatingsAssumption
  <2>2. \A w \in D : <<m, w>> = r.winner <=> CoalitionOf(f, w) = c
    BY <1>1, <1>3, <1>4, <1>6, <1>7, <1>10 DEF RatingsAssumption
  <2>3. {w \in D : <<m, w>> = r.winner} = Leading(m, r)
    BY <2>2 DEF Leading, f, c
  <2> QED BY <2>1, <2>3 DEF WinningCompetitors, r
<1> QED BY <1>7, <1>9, <1>10

-----------------------------------------------------------------------------
(* The gain.                                                               *)

LEMMA DividedByPositive ==
    ASSUME NEW n \in Nat, NEW d \in Nat \ {0}
    PROVE  /\ n \div d \in Nat /\ n % d \in Nat /\ n % d < d
           /\ n = d * (n \div d) + (n % d)
OBVIOUS

\* More divided by the same is no less.
LEMMA DivisionMonotone ==
    ASSUME NEW x \in Nat, NEW y \in Nat, x <= y, NEW d \in Nat \ {0}
    PROVE  x \div d <= y \div d
<1>1. PICK p \in Nat, q \in Nat : p = x \div d /\ q < d /\ x = d * p + q
  BY DividedByPositive
<1>2. PICK s \in Nat, t \in Nat : s = y \div d /\ t < d /\ y = d * s + t
  BY DividedByPositive
<1>3. SUFFICES ASSUME p > s PROVE FALSE
  BY <1>1, <1>2
<1>4. PICK e \in Nat : p = s + 1 + e
  <2>1. p - s - 1 \in Nat /\ p = s + 1 + (p - s - 1)
    BY <1>3
  <2> QED BY <2>1
<1>5. d * p = d * s + d + d * e
  BY <1>4
<1>6. d * e \in Nat /\ d * s \in Nat
  OBVIOUS
<1> QED BY <1>1, <1>2, <1>5, <1>6

LEMMA RoundedNat ==
    ASSUME NEW a \in Nat, NEW b \in Nat \ {0}
    PROVE  RoundHalfUp(8, a, b) \in Nat
<1>1. 2 * 8 * a + b \in Nat /\ 2 * b \in Nat \ {0}
  OBVIOUS
<1>2. (2 * 8 * a + b) \div (2 * b) \in Nat
  BY <1>1, DividedByPositive
<1> QED BY <1>2 DEF RoundHalfUp

LEMMA RoundedMonotone ==
    ASSUME NEW a \in Nat, NEW c \in Nat, a <= c, NEW b \in Nat \ {0}
    PROVE  RoundHalfUp(8, a, b) <= RoundHalfUp(8, c, b)
<1>1. 2 * 8 * a + b \in Nat /\ 2 * 8 * c + b \in Nat /\ 2 * b \in Nat \ {0} /\ 2 * 8 * a + b <= 2 * 8 * c + b
  OBVIOUS
<1>2. (2 * 8 * a + b) \div (2 * b) <= (2 * 8 * c + b) \div (2 * b)
  BY <1>1, DivisionMonotone
<1> QED BY <1>2 DEF RoundHalfUp

\* A part of a whole.
Ratio(p) == p[1] \in Nat /\ p[2] \in Nat \ {0}

\* In an alliance that won, one has been for a part of its time.
LEMMA TenureIsRatio ==
    ASSUME RatingsAssumption, RostersKept, NEW m \in Matches, NEW r, Written(m, r), NEW w \in Leading(m, r)
    PROVE  Ratio(Tenure(m, r, w))
<1> DEFINE f == r.final
           c == r.leading
<1>1. f \in Finals /\ w \in DOMAIN roster[m] /\ r.members[w] = AllianceRow(m, f, w) /\ CoalitionOf(f, w) = c
  BY WrittenParts DEF Leading
<1>2. w \in Competitors
  BY <1>1 DEF RostersKept
<1> HIDE DEF f, c
<1>3. CASE r.members[w] = None
  BY <1>3 DEF Tenure, Ratio
<1>4. CASE r.members[w] # None
  <2>1. f.alliance[w] # None
    BY <1>1, <1>4 DEF AllianceRow
  <2>2. c = f.alliance[w] /\ c \in Alliances
    BY <1>1, <1>2, <2>1, Coalitions
  <2>3. f.tick \in Nat /\ f.since[w] \in 0..f.tick /\ f.formed[c] \in 0..f.tick
    BY <1>1, <1>2, <2>2 DEF RatingsAssumption
  <2>4. Tenure(m, r, w) = <<f.tick - f.since[w] + 1, f.tick - f.formed[c] + 1>>
    BY <1>4 DEF Tenure, FormedTick, f, c
  <2> QED BY <2>3, <2>4 DEF Ratio
<1> QED BY <1>3, <1>4

LEMMA ShareIsRatio ==
    ASSUME RatingsAssumption, RostersKept, NEW m \in Matches, NEW r, Written(m, r), NEW w \in Leading(m, r)
    PROVE  Ratio(Share(m, r, w))
<1> DEFINE f == r.final
           W == Winners(m, r)
           total == SumFunctionOnSet(f.cities, W)
<1>1. f \in Finals
  BY WrittenParts
<1>2. W = Leading(m, r) /\ IsFiniteSet(W) /\ W # {}
  BY LeadersWin
<1>3. W \subseteq Competitors
  BY <1>2 DEF Leading, RostersKept
<1> HIDE DEF f, W
<1>4. \A x \in W : f.cities[x] \in Nat
  BY <1>1, <1>3 DEF RatingsAssumption
<1>5. total \in Nat
  BY <1>2, <1>4, SumType
<1>6. Cardinality(W) \in Nat \ {0}
  BY <1>2, FS_CardinalityType, FS_EmptySet
<1>7. Share(m, r, w) = IF total > 0 THEN <<f.cities[w], total>> ELSE <<1, Cardinality(W)>>
  BY Zenon DEF Share, f, W
<1> HIDE DEF total
<1> QED BY <1>2, <1>4, <1>5, <1>6, <1>7 DEF Ratio

LEMMA GainNat ==
    ASSUME RatingsAssumption, RostersKept, NEW m \in Matches, NEW r, Written(m, r), NEW w \in Leading(m, r)
    PROVE  Gain(m, r, w) \in Nat
<1> DEFINE t == Tenure(m, r, w)
           s == Share(m, r, w)
<1>1. Ratio(t) /\ Ratio(s)
  BY TenureIsRatio, ShareIsRatio
<1> HIDE DEF t, s
<1>2. RoundHalfUp(8, t[1], t[2]) \in Nat /\ RoundHalfUp(8, s[1], s[2]) \in Nat
  BY <1>1, RoundedNat DEF Ratio
<1>3. Gain(m, r, w) = 8 + RoundHalfUp(8, t[1], t[2]) + RoundHalfUp(8, s[1], s[2])
  BY Zenon DEF Gain, t, s
<1> QED BY <1>2, <1>3

\* Who joined no later and holds no fewer cities gains no less.
LEMMA GainByMerit ==
    ASSUME RatingsAssumption, RostersKept, NEW m \in Matches, NEW r, Written(m, r),
           NEW v \in Leading(m, r), NEW w \in Leading(m, r),
           r.final.since[v] <= r.final.since[w], r.final.cities[v] >= r.final.cities[w]
    PROVE  Gain(m, r, v) >= Gain(m, r, w)
<1> DEFINE f == r.final
           c == r.leading
           T(x) == Tenure(m, r, x)
           S(x) == Share(m, r, x)
<1>1. \A x \in {v, w} : /\ x \in DOMAIN roster[m] /\ r.members[x] = AllianceRow(m, f, x)
                        /\ CoalitionOf(f, x) = c
  BY WrittenParts DEF Leading
<1>2. \A x \in {v, w} : x \in Competitors
  BY <1>1 DEF RostersKept
<1>3. f \in Finals
  BY WrittenParts
<1>4. \A x \in {v, w} : Ratio(T(x)) /\ Ratio(S(x))
  BY TenureIsRatio, ShareIsRatio
<1>5. T(v)[2] = T(w)[2] /\ T(v)[1] >= T(w)[1]
  <2> HIDE DEF f, c
  <2>1. \A x \in {v, w} : r.members[x] = None <=> c \in Competitors
    <3> SUFFICES ASSUME NEW x \in {v, w} PROVE r.members[x] = None <=> c \in Competitors
      OBVIOUS
    <3>1. f.alliance[x] = None <=> c \in Competitors
      BY <1>1, <1>2, <1>3, Coalitions
    <3>2. r.members[x] = IF f.alliance[x] = None THEN None ELSE <<m, f.alliance[x]>>
      BY <1>1 DEF AllianceRow
    <3>3. f.alliance[x] # None => <<m, f.alliance[x]>> # None
      BY <1>2, <1>3 DEF RatingsAssumption
    <3> QED BY <3>1, <3>2, <3>3
  <2>2. CASE c \in Competitors
    <3>1. T(v) = <<1, 1>> /\ T(w) = <<1, 1>>
      BY <2>1, <2>2 DEF Tenure
    <3> QED BY <3>1
  <2>3. CASE c \notin Competitors
    <3>1. \A x \in {v, w} : c = f.alliance[x] /\ c \in Alliances
      BY <1>1, <1>2, <1>3, <2>3, Coalitions
    <3>2. \A x \in {v, w} : f.tick \in Nat /\ f.since[x] \in 0..f.tick /\ f.formed[c] \in 0..f.tick
      BY <1>2, <1>3, <3>1 DEF RatingsAssumption
    <3>3. \A x \in {v, w} : T(x) = <<f.tick - f.since[x] + 1, f.tick - f.formed[c] + 1>>
      BY <2>1, <2>3 DEF Tenure, FormedTick, f, c
    <3>4. f.since[v] <= f.since[w]
      BY DEF f
    <3> QED BY <3>2, <3>3, <3>4
  <2> QED BY <2>2, <2>3
<1>6. S(v)[2] = S(w)[2] /\ S(v)[1] >= S(w)[1]
  <2> DEFINE total == SumFunctionOnSet(f.cities, Winners(m, r))
  <2>1. \A x \in {v, w} : S(x) = IF total > 0 THEN <<f.cities[x], total>> ELSE <<1, Cardinality(Winners(m, r))>>
    BY Zenon DEF Share
  <2>2. f.cities[v] >= f.cities[w]
    OBVIOUS
  <2>3. CASE total > 0
    <3>1. S(v) = <<f.cities[v], total>> /\ S(w) = <<f.cities[w], total>>
      BY <2>1, <2>3, Zenon
    <3> HIDE DEF S, total, f
    <3> QED BY <2>2, <3>1
  <2>4. CASE ~(total > 0)
    <3>1. S(v) = <<1, Cardinality(Winners(m, r))>> /\ S(w) = <<1, Cardinality(Winners(m, r))>>
      BY <2>1, <2>4, Zenon
    <3> HIDE DEF S
    <3> QED BY <3>1
  <2> QED BY <2>3, <2>4, Zenon
<1>7. \A x \in {v, w} : Gain(m, r, x) = 8 + RoundHalfUp(8, T(x)[1], T(x)[2]) + RoundHalfUp(8, S(x)[1], S(x)[2])
  BY Zenon DEF Gain
<1> HIDE DEF T, S
<1>8. \A x \in {v, w} : RoundHalfUp(8, T(x)[1], T(x)[2]) \in Nat /\ RoundHalfUp(8, S(x)[1], S(x)[2]) \in Nat
  BY <1>4, RoundedNat DEF Ratio
<1>9. RoundHalfUp(8, T(w)[1], T(w)[2]) <= RoundHalfUp(8, T(v)[1], T(v)[2])
  BY <1>4, <1>5, RoundedMonotone DEF Ratio
<1>10. RoundHalfUp(8, S(w)[1], S(w)[2]) <= RoundHalfUp(8, S(v)[1], S(v)[2])
  BY <1>4, <1>6, RoundedMonotone DEF Ratio
<1> QED BY <1>7, <1>8, <1>9, <1>10

\* Whom settlement rates how.
LEMMA OutcomesFit ==
    ASSUME RatingsAssumption, RostersKept, NEW m \in Matches, NEW r, Written(m, r), NEW w \in DOMAIN roster[m]
    PROVE  /\ Outcome(m, r, w) = IF w \in Leading(m, r) THEN "win" ELSE "loss"
           /\ RatingAfter(m, r, w, roster[m][w].elo) \in Nat
           /\ w \in Leading(m, r) => RatingAfter(m, r, w, roster[m][w].elo) = roster[m][w].elo + Gain(m, r, w)
<1> DEFINE e == roster[m][w].elo
<1>1. Winners(m, r) = Leading(m, r) /\ Leading(m, r) # {}
  BY LeadersWin
<1>2. e \in Nat
  BY DEF RostersKept
<1>3. w \in Leading(m, r) => Gain(m, r, w) \in Nat
  BY GainNat
<1>4. Outcome(m, r, w) = IF w \in Leading(m, r) THEN "win" ELSE "loss"
  BY <1>1 DEF Outcome
<1> HIDE DEF e
<1>5. /\ RatingAfter(m, r, w, e) \in Nat
      /\ w \in Leading(m, r) => RatingAfter(m, r, w, e) = e + Gain(m, r, w)
  BY <1>2, <1>3, <1>4 DEF RatingAfter
<1> QED BY <1>4, <1>5 DEF e

-----------------------------------------------------------------------------
(* The rows of the ledger.                                                 *)

\* A row that is newer than all others is the latest.
LEMMA NewestIsLatest ==
    ASSUME NEW rows, NEW x \in rows, x.at \in Nat,
           \A t \in rows : t # x => t.at \in Nat /\ t.at < x.at
    PROVE  Latest(rows) = x
<1>1. \A t \in rows : t.at <= x.at
  OBVIOUS
<1> DEFINE newest(s) == s \in rows /\ \A t \in rows : t.at <= s.at
<1>2. newest(x)
  BY <1>1
<1>3. \A s : newest(s) => s = x
  OBVIOUS
<1>4. Latest(rows) = CHOOSE s : newest(s)
  BY Zenon DEF Latest
<1> HIDE DEF newest
<1>5. newest(CHOOSE s : newest(s))
  BY <1>2
<1> QED BY <1>3, <1>4, <1>5

LEMMA CompletedCounted ==
    ASSUME RatingsAssumption, FinishedOnce
    PROVE  IsFiniteSet(Completed) /\ Cardinality(Completed) \in Nat
BY FS_Subset, FS_CardinalityType DEF RatingsAssumption, FinishedOnce

\* Every row settles a completed match for one who played it.
LEMMA RowsFit ==
    ASSUME RatingsAssumption, RatingsInv, NEW s \in ledger
    PROVE  /\ s.match \in Completed /\ s.match \in Matches /\ s.who \in DOMAIN roster[s.match]
           /\ s.who \in Competitors
           /\ s = RowOf(s.match, s.who)
           /\ s.at = result[s.match].at /\ s.at \in 1..Cardinality(Completed)
           /\ s.outcome = Outcome(s.match, result[s.match], s.who)
           /\ s.before = roster[s.match][s.who].elo /\ s.before \in Nat
           /\ s.after = RatingAfter(s.match, result[s.match], s.who, s.before) /\ s.after \in Nat
<1>0. PICK m \in Completed : \E w \in DOMAIN roster[m] : s = RowOf(m, w)
  BY DEF RatingsInv, LedgerComplete
<1>1. PICK w \in DOMAIN roster[m] : s = RowOf(m, w)
  BY <1>0
<1>2. m \in Matches /\ Written(m, result[m]) /\ result[m].at \in 1..Cardinality(Completed)
  BY DEF RatingsInv, FinishedOnce
<1>3. w \in Competitors /\ roster[m][w].elo \in Nat
  BY <1>2 DEF RatingsInv, RostersKept
<1>4. RatingAfter(m, result[m], w, roster[m][w].elo) \in Nat
  BY <1>2, OutcomesFit DEF RatingsInv
<1>5. s.match = m /\ s.who = w /\ s.at = result[m].at /\ s.outcome = Outcome(m, result[m], w)
      /\ s.before = roster[m][w].elo /\ s.after = RatingAfter(m, result[m], w, roster[m][w].elo)
  BY <1>1 DEF RowOf
<1> QED BY <1>1, <1>2, <1>3, <1>4, <1>5

\* The row of a completed match and one who played it is in the ledger, and no other is.
LEMMA OneRow ==
    ASSUME RatingsAssumption, RatingsInv, NEW m \in Completed, NEW w \in DOMAIN roster[m]
    PROVE  /\ RowOf(m, w) \in ledger /\ RowOf(m, w).match = m /\ RowOf(m, w).who = w
           /\ RowOf(m, w).at = result[m].at
           /\ \A s \in ledger : s.match = m /\ s.who = w => s = RowOf(m, w)
<1>1. RowOf(m, w) \in ledger
  BY DEF RatingsInv, LedgerComplete
<1>2. RowOf(m, w).match = m /\ RowOf(m, w).who = w /\ RowOf(m, w).at = result[m].at
  BY DEF RowOf
<1>3. \A s \in ledger : s = RowOf(s.match, s.who)
  BY RowsFit
<1> QED BY <1>1, <1>2, <1>3

\* Among rows of one competitor one is the latest.
LEMMA LatestIsThere ==
    ASSUME RatingsAssumption, RatingsInv, NEW w, NEW rows, rows \subseteq Of(w), rows # {}
    PROVE  /\ Latest(rows) \in rows /\ Latest(rows).after \in Nat
           /\ \A t \in rows : t.at <= Latest(rows).at
<1>1. \A s \in rows : s \in ledger /\ s.at \in 0..Cardinality(Completed) /\ s.after \in Nat
  <2>1. ASSUME NEW s \in rows PROVE s \in ledger /\ s.at \in 0..Cardinality(Completed) /\ s.after \in Nat
    <3>1. s \in ledger
      BY DEF Of
    <3>2. s.at \in 1..Cardinality(Completed) /\ s.after \in Nat
      BY <3>1, RowsFit
    <3>3. Cardinality(Completed) \in Nat
      BY CompletedCounted DEF RatingsInv
    <3> QED BY <3>1, <3>2, <3>3
  <2> QED BY <2>1
<1> DEFINE ats == {s.at : s \in rows}
           N == Cardinality(Completed)
<1>2. N \in Nat /\ ats \in SUBSET (0..N) /\ ats # {}
  BY <1>1, CompletedCounted DEF RatingsInv
<1>3. PICK a \in ats : \A b \in ats : b <= a
  <2> HIDE DEF ats, N
  <2> QED BY <1>2, GreatestBoundedNatural
<1>4. PICK x \in rows : x.at = a
  OBVIOUS
<1>5. \A t \in rows : t.at <= x.at
  BY <1>3, <1>4
<1>6. Latest(rows) \in rows /\ \A t \in rows : t.at <= Latest(rows).at
  BY <1>5 DEF Latest
<1> QED BY <1>1, <1>6

-----------------------------------------------------------------------------
(* What the invariant says of ratings.                                     *)

LEMMA InvSettlesOnce == ASSUME RatingsAssumption, RatingsInv PROVE SettledOnce
<1> SUFFICES ASSUME NEW m \in Matches, NEW w \in Competitors
             PROVE  Cardinality({s \in ledger : s.match = m /\ s.who = w}) =
                        IF m \in Completed /\ w \in DOMAIN roster[m] THEN 1 ELSE 0
  BY DEF SettledOnce
<1>1. CASE m \in Completed /\ w \in DOMAIN roster[m]
  <2>1. {s \in ledger : s.match = m /\ s.who = w} = {RowOf(m, w)}
    BY <1>1, OneRow
  <2> QED BY <1>1, <2>1, FS_Singleton
<1>2. CASE ~(m \in Completed /\ w \in DOMAIN roster[m])
  <2>1. \A s \in ledger : ~(s.match = m /\ s.who = w)
    BY <1>2, RowsFit
  <2>2. {s \in ledger : s.match = m /\ s.who = w} = {}
    BY <2>1
  <2> QED BY <1>2, <2>2, FS_EmptySet
<1> QED BY <1>1, <1>2

LEMMA InvNamesWinners == ASSUME RatingsAssumption, RatingsInv PROVE WinnersAgree
<1> SUFFICES ASSUME NEW m \in Completed
             PROVE  LET leaders == Leading(m, result[m])
                    IN  /\ leaders # {} /\ WinningCompetitors(m) = leaders
                        /\ {s.who : s \in {t \in ledger : t.match = m /\ t.outcome = "win"}} = leaders
  BY DEF WinnersAgree, Leading
<1> DEFINE L == Leading(m, result[m])
<1>1. m \in Matches /\ Written(m, result[m]) /\ RostersKept
  BY DEF RatingsInv, FinishedOnce
<1>2. L # {} /\ WinningCompetitors(m) = L
  BY <1>1, LeadersWin, LeadersListed
<1>3. L \subseteq DOMAIN roster[m]
  BY DEF Leading
<1> HIDE DEF L
<1>4. ASSUME NEW w \in DOMAIN roster[m]
      PROVE  Outcome(m, result[m], w) = "win" <=> w \in L
  <2>1. Outcome(m, result[m], w) = IF w \in L THEN "win" ELSE "loss"
    BY <1>1, OutcomesFit DEF L
  <2> QED BY <2>1
<1>5. ASSUME NEW w \in L PROVE w \in {s.who : s \in {t \in ledger : t.match = m /\ t.outcome = "win"}}
  <2>1. RowOf(m, w) \in ledger /\ RowOf(m, w).match = m /\ RowOf(m, w).who = w
    BY <1>3, OneRow
  <2>2. RowOf(m, w).outcome = "win"
    BY <1>3, <1>4 DEF RowOf
  <2> QED BY <2>1, <2>2
<1>6. ASSUME NEW t \in ledger, t.match = m, t.outcome = "win" PROVE t.who \in L
  <2>1. t.who \in DOMAIN roster[m] /\ Outcome(m, result[m], t.who) = "win"
    BY <1>6, RowsFit
  <2> QED BY <1>4, <2>1
<1>7. {s.who : s \in {t \in ledger : t.match = m /\ t.outcome = "win"}} = L
  BY <1>5, <1>6
<1> QED BY <1>2, <1>7 DEF L

LEMMA InvRewardsMerit == ASSUME RatingsAssumption, RatingsInv PROVE RewardFollowsMerit
<1> SUFFICES ASSUME NEW s \in ledger, NEW t \in ledger, s.match = t.match, s.outcome = "win", t.outcome = "win",
                    result[s.match].final.since[s.who] <= result[s.match].final.since[t.who],
                    result[s.match].final.cities[s.who] >= result[s.match].final.cities[t.who]
             PROVE  s.after - s.before >= t.after - t.before
  BY Zenon DEF RewardFollowsMerit
<1> DEFINE m == s.match
           r == result[m]
<1>1. m \in Matches /\ m \in Completed /\ Written(m, r) /\ RostersKept
  BY RowsFit DEF RatingsInv, FinishedOnce
<1> HIDE DEF r
<1>2. ASSUME NEW x \in {s, t}
      PROVE  x.who \in Leading(m, r) /\ x.before \in Nat /\ x.after = x.before + Gain(m, r, x.who)
  <2>1. /\ x.who \in DOMAIN roster[m] /\ Outcome(m, r, x.who) = "win" /\ x.before = roster[m][x.who].elo
        /\ x.after = RatingAfter(m, r, x.who, x.before) /\ x.before \in Nat
    BY RowsFit DEF r
  <2>2. Outcome(m, r, x.who) = IF x.who \in Leading(m, r) THEN "win" ELSE "loss"
    BY <1>1, <2>1, OutcomesFit
  <2>3. x.who \in Leading(m, r)
    BY <2>1, <2>2
  <2>4. RatingAfter(m, r, x.who, roster[m][x.who].elo) = roster[m][x.who].elo + Gain(m, r, x.who)
    BY <1>1, <2>1, <2>3, OutcomesFit
  <2> QED BY <2>1, <2>3, <2>4
<1>3. Gain(m, r, s.who) \in Nat /\ Gain(m, r, t.who) \in Nat
  BY <1>1, <1>2, GainNat
<1>4. r.final.since[s.who] <= r.final.since[t.who] /\ r.final.cities[s.who] >= r.final.cities[t.who]
  BY DEF r
<1>5. Gain(m, r, s.who) >= Gain(m, r, t.who)
  <2>1. s.who \in Leading(m, r) /\ t.who \in Leading(m, r)
    BY <1>2
  <2> QED BY <1>1, <1>4, <2>1, GainByMerit
<1>6. s.after = s.before + Gain(m, r, s.who) /\ t.after = t.before + Gain(m, r, t.who)
      /\ s.before \in Nat /\ t.before \in Nat
  BY <1>2
<1> HIDE DEF m
<1> QED BY <1>3, <1>5, <1>6

LEMMA InvCarriesOver == ASSUME RatingsAssumption, RatingsInv PROVE RatingCarriesOver
<1> SUFFICES ASSUME NEW s \in ledger
             PROVE  StartsWhereLeft(s, Known(s.match, s.who))
  BY Zenon DEF RatingCarriesOver, Known
<1>1. s.match \in Matches /\ s.who \in DOMAIN roster[s.match] /\ s.before = roster[s.match][s.who].elo
  BY RowsFit
<1> QED BY <1>1 DEF StartsWhereLeft, RatingsInv, Carried

\* As many images as there are elements, if no two have the same.
LEMMA ImagesCount ==
    ASSUME NEW S, IsFiniteSet(S), NEW f, \A x, y \in S : f[x] = f[y] => x = y
    PROVE  Cardinality({f[x] : x \in S}) = Cardinality(S)
<1> DEFINE T == {f[x] : x \in S}
           g == [x \in S |-> f[x]]
<1>1. g \in Bijection(S, T)
  BY DEF Bijection, Injection, Surjection, IsInjective
<1>2. ExistsBijection(S, T)
  BY <1>1 DEF ExistsBijection
<1> QED BY <1>2, FS_Bijection

\* The matches a competitor completed and its rows correspond, and the match completed last is
\* that of the latest row.
LEMMA RowsOfOne ==
    ASSUME RatingsAssumption, RatingsInv, NEW w \in Competitors, Of(w) # {}
    PROVE  /\ \A m \in CompletedOf(w) : RowIn(m, w) = RowOf(m, w) /\ RowOf(m, w) \in Of(w) /\ RowOf(m, w).match = m
           /\ \A s \in Of(w) : s.match \in CompletedOf(w) /\ s = RowOf(s.match, w)
           /\ (CHOOSE m \in CompletedOf(w) : \A n \in CompletedOf(w) : result[n].at <= result[m].at)
                = Latest(Of(w)).match
<1> DEFINE C == CompletedOf(w)
           L == Latest(Of(w))
<1>1. ASSUME NEW m \in C PROVE RowIn(m, w) = RowOf(m, w) /\ RowOf(m, w) \in Of(w) /\ RowOf(m, w).match = m
                               /\ RowOf(m, w).at = result[m].at
  <2>1. m \in Completed /\ w \in DOMAIN roster[m]
    BY DEF CompletedOf, Entered
  <2>2. /\ RowOf(m, w) \in ledger /\ RowOf(m, w).match = m /\ RowOf(m, w).who = w
        /\ RowOf(m, w).at = result[m].at
        /\ \A s \in ledger : s.match = m /\ s.who = w => s = RowOf(m, w)
    BY <2>1, OneRow
  <2> DEFINE x == RowOf(m, w)
  <2> HIDE DEF x
  <2>3. x \in ledger /\ x.match = m /\ x.who = w /\ \A s \in ledger : s.match = m /\ s.who = w => s = x
    BY <2>2 DEF x
  <2>4. RowIn(m, w) = x
    BY <2>3 DEF RowIn
  <2> QED BY <2>2, <2>4 DEF Of, x
<1>2. ASSUME NEW s \in Of(w) PROVE s.match \in C /\ s = RowOf(s.match, w) /\ s.at = result[s.match].at
  <2>1. s \in ledger /\ s.who = w
    BY DEF Of
  <2>2. s.match \in Completed /\ s.match \in Matches /\ w \in DOMAIN roster[s.match] /\ s = RowOf(s.match, w)
        /\ s.at = result[s.match].at
    BY <2>1, RowsFit
  <2> QED BY <2>2 DEF CompletedOf, Entered
<1>3. L \in Of(w) /\ \A t \in Of(w) : t.at <= L.at
  BY LatestIsThere
<1>4. L.match \in C /\ L.at = result[L.match].at
  BY <1>2, <1>3
<1>5. \A n \in C : result[n].at <= result[L.match].at
  <2>1. ASSUME NEW n \in C PROVE result[n].at <= result[L.match].at
    <3>1. RowOf(n, w) \in Of(w) /\ RowOf(n, w).at = result[n].at
      BY <1>1
    <3> QED BY <1>3, <1>4, <3>1
  <2> QED BY <2>1
<1>6. \A m \in C : result[m].at \in Nat /\ m \in Completed
  BY CompletedCounted DEF RatingsInv, FinishedOnce, CompletedOf
<1>7. \A m, n \in C : result[m].at = result[n].at => m = n
  BY <1>6 DEF RatingsInv, FinishedOnce
<1>8. (CHOOSE m \in C : \A n \in C : result[n].at <= result[m].at) = L.match
  <2> DEFINE last(m) == m \in C /\ \A n \in C : result[n].at <= result[m].at
  <2>1. last(L.match)
    BY <1>4, <1>5
  <2>2. \A m : last(m) => m = L.match
    <3> SUFFICES ASSUME NEW m, last(m) PROVE m = L.match
      OBVIOUS
    <3>1. result[m].at = result[L.match].at
      BY <1>4, <1>5, <1>6
    <3> QED BY <1>4, <1>7, <3>1
  <2>3. (CHOOSE m \in C : \A n \in C : result[n].at <= result[m].at) = CHOOSE m : last(m)
    BY Zenon
  <2> HIDE DEF last
  <2>4. last(CHOOSE m : last(m))
    BY <2>1
  <2> QED BY <2>2, <2>3, <2>4
<1> QED BY <1>1, <1>2, <1>8

LEMMA InvReadsAgree == ASSUME RatingsAssumption, RatingsInv PROVE ReadsAgree
<1> SUFFICES ASSUME NEW w \in Competitors, Of(w) # {}
             PROVE  /\ Profile(w) = LeaderboardEntry(w)
                    /\ w \in Keys => Profile(w).elo = rating[w]
  BY DEF ReadsAgree
<1> DEFINE C == CompletedOf(w)
           f == [m \in C |-> RowOf(m, w)]
           L == Latest(Of(w))
           newest == CHOOSE m \in C : \A n \in C : result[n].at <= result[m].at
           Wins == {m \in C : RowIn(m, w).outcome = "win"}
           Losses == {m \in C : RowIn(m, w).outcome = "loss"}
<1>1. \A m \in C : RowIn(m, w) = f[m] /\ f[m] \in Of(w) /\ f[m].match = m
  BY RowsOfOne
<1>2. \A s \in Of(w) : s.match \in C /\ s = f[s.match]
  BY RowsOfOne
<1>3. newest = L.match
  BY RowsOfOne
<1>4. L \in Of(w)
  BY LatestIsThere
<1>5. IsFiniteSet(C)
  BY FS_Subset, CompletedCounted DEF CompletedOf, RatingsInv
<1>6. Profile(w) = [elo |-> L.after, played |-> Cardinality(Of(w)),
                    wins |-> Cardinality({s \in Of(w) : s.outcome = "win"}),
                    losses |-> Cardinality({s \in Of(w) : s.outcome = "loss"})]
  BY DEF Profile
<1>7. LeaderboardEntry(w) = [elo |-> RowIn(newest, w).after, played |-> Cardinality(C),
                             wins |-> Cardinality(Wins), losses |-> Cardinality(Losses)]
  BY Zenon DEF LeaderboardEntry
<1> HIDE DEF f, C, L, newest
<1>8. RowIn(newest, w).after = L.after
  <2>1. L.match \in C /\ L = f[L.match]
    BY <1>2, <1>4
  <2>2. RowIn(L.match, w) = f[L.match]
    BY <1>1, <2>1
  <2> QED BY <1>3, <2>1, <2>2, Zenon
<1>9. \A m, n \in C : f[m] = f[n] => m = n
  BY <1>1
<1>10. Cardinality(Of(w)) = Cardinality(C)
  <2>1. {f[m] : m \in C} = Of(w)
    BY <1>1, <1>2
  <2> QED BY <1>5, <1>9, <2>1, ImagesCount
<1>11. Cardinality({s \in Of(w) : s.outcome = "win"}) = Cardinality(Wins)
  <2>1. {f[m] : m \in Wins} = {s \in Of(w) : s.outcome = "win"}
    BY <1>1, <1>2
  <2>2. IsFiniteSet(Wins) /\ \A m, n \in Wins : f[m] = f[n] => m = n
    BY <1>5, <1>9, FS_Subset
  <2> HIDE DEF Wins
  <2> QED BY <2>1, <2>2, ImagesCount
<1>12. Cardinality({s \in Of(w) : s.outcome = "loss"}) = Cardinality(Losses)
  <2>1. {f[m] : m \in Losses} = {s \in Of(w) : s.outcome = "loss"}
    BY <1>1, <1>2
  <2>2. IsFiniteSet(Losses) /\ \A m, n \in Losses : f[m] = f[n] => m = n
    BY <1>5, <1>9, FS_Subset
  <2> HIDE DEF Losses
  <2> QED BY <2>1, <2>2, ImagesCount
<1>13. Profile(w) = LeaderboardEntry(w)
  BY <1>6, <1>7, <1>8, <1>10, <1>11, <1>12, Zenon
<1>14. w \in Keys => Profile(w).elo = rating[w]
  <2>1. Profile(w).elo = L.after
    BY <1>6
  <2>2. w \in Keys => rating[w] = L.after
    BY DEF RatingsInv, Carried, L
  <2> QED BY <2>1, <2>2
<1> QED BY <1>13, <1>14

-----------------------------------------------------------------------------
(* The invariant is kept.                                                  *)

\* Settlement looks at the roster of the match only.
LEMMA SettlementKept ==
    ASSUME NEW m, NEW r, NEW w, roster'[m] = roster[m]
    PROVE  /\ Outcome(m, r, w)' = Outcome(m, r, w)
           /\ \A b : RatingAfter(m, r, w, b)' = RatingAfter(m, r, w, b)
<1>1. \A id : WinnersUnder(m, r, id)' = WinnersUnder(m, r, id)
  BY DEF WinnersUnder, MemberOf
<1>2. Winners(m, r)' = Winners(m, r)
  BY <1>1 DEF Winners, Candidates
<1>3. Outcome(m, r, w)' = Outcome(m, r, w)
  BY <1>2 DEF Outcome
<1>4. Share(m, r, w)' = Share(m, r, w)
  BY <1>2 DEF Share
<1>5. Gain(m, r, w)' = Gain(m, r, w)
  BY <1>4 DEF Gain, Tenure, FormedTick, RoundHalfUp
<1>6. \A b : RatingAfter(m, r, w, b)' = RatingAfter(m, r, w, b)
  BY <1>3, <1>5 DEF RatingAfter
<1> QED BY <1>3, <1>6

LEMMA RowKept ==
    ASSUME NEW m, NEW w, roster'[m] = roster[m], result'[m] = result[m]
    PROVE  RowOf(m, w)' = RowOf(m, w)
<1>1. \A r : Outcome(m, r, w)' = Outcome(m, r, w) /\ \A b : RatingAfter(m, r, w, b)' = RatingAfter(m, r, w, b)
  BY SettlementKept
<1> QED BY <1>1 DEF RowOf

LEMMA WrittenKept ==
    ASSUME NEW m, NEW r, Written(m, r), roster'[m] = roster[m]
    PROVE  Written(m, r)'
BY DEF Written, Result, AllianceRow

LEMMA RatingsStart == ASSUME RatingsAssumption, RatingsInit PROVE RatingsInv
<1>1. Completed = {}
  BY DEF RatingsInit, Completed
<1>2. RostersKept
  BY FS_EmptySet DEF RatingsInit, RostersKept
<1>3. FinishedOnce
  BY <1>1 DEF FinishedOnce
<1>4. LedgerComplete
  BY <1>1 DEF RatingsInit, LedgerComplete
<1>5. Carried
  BY DEF RatingsInit, Carried, Of, Known
<1> QED BY <1>2, <1>3, <1>4, <1>5 DEF RatingsInv

\* The ledger and the results stand when neither they nor the rosters of completed matches change.
LEMMA ResultsStand ==
    ASSUME RatingsInv, UNCHANGED <<result, ledger>>, \A m \in Completed : roster'[m] = roster[m]
    PROVE  FinishedOnce' /\ LedgerComplete'
<1>1. Completed' = Completed
  BY DEF Completed
<1>2. FinishedOnce'
  <2>1. \A m \in Completed : Written(m, result[m])'
    <3>1. ASSUME NEW m \in Completed PROVE Written(m, result[m])'
      <4>1. Written(m, result[m]) /\ roster'[m] = roster[m] /\ result'[m] = result[m]
        BY DEF RatingsInv, FinishedOnce
      <4> QED BY <4>1 DEF Written, Result, AllianceRow
    <3> QED BY <3>1
  <2> QED BY <1>1, <2>1 DEF RatingsInv, FinishedOnce
<1>3. LedgerComplete'
  <2>1. \A m \in Completed : \A w : RowOf(m, w)' = RowOf(m, w)
    BY RowKept
  <2>2. \A m \in Completed : roster'[m] = roster[m]
    OBVIOUS
  <2> QED BY <1>1, <2>1, <2>2 DEF RatingsInv, LedgerComplete
<1> QED BY <1>2, <1>3

\* A person always has a rating.
LEMMA HumanRatingNat ==
    ASSUME RatingsAssumption, RatingsInv, NEW u \in Users PROVE HumanRating(u) \in Nat
<1>1. CASE Of(u) # {}
  <2>1. Latest(Of(u)).after \in Nat
    BY <1>1, LatestIsThere
  <2> QED BY <1>1, <2>1 DEF HumanRating
<1>2. CASE Of(u) = {} /\ Entered(u) # {}
  <2> DEFINE m == CHOOSE m \in Entered(u) : TRUE
  <2>1. m \in Entered(u)
    BY <1>2
  <2> HIDE DEF m
  <2>2. m \in Matches /\ u \in DOMAIN roster[m]
    BY <2>1 DEF Entered
  <2>3. roster[m][u].elo \in Nat
    BY <2>2 DEF RatingsInv, RostersKept
  <2>4. HumanRating(u) = roster[m][u].elo
    BY <1>2 DEF HumanRating, m
  <2> QED BY <2>3, <2>4
<1>3. CASE Of(u) = {} /\ Entered(u) = {}
  BY <1>3 DEF HumanRating
<1> QED BY <1>1, <1>2, <1>3

LEMMA CreateKeyKeeps ==
    ASSUME RatingsAssumption, RatingsInv, NEW k \in Keys, CreateKey(k) PROVE RatingsInv'
<1>1. rating[k] = None /\ rating' = [rating EXCEPT ![k] = HumanRating(Owner[k])] /\ UNCHANGED <<roster, result, ledger>>
  BY DEF CreateKey
<1>2. HumanRating(Owner[k]) \in Nat
  BY HumanRatingNat DEF RatingsAssumption
<1>3. HumanRating(Owner[k]) # None
  BY <1>2 DEF RatingsAssumption
<1>4. FinishedOnce' /\ LedgerComplete'
  BY <1>1, ResultsStand
<1>5. Completed' = Completed
  BY <1>1 DEF Completed
<1>6. RostersKept'
  <2>1. rating' \in [Keys -> Nat \cup {None}] /\ \A j \in Keys : rating[j] # None => rating'[j] # None
    BY <1>1, <1>2, <1>3 DEF RatingsInv, RostersKept
  <2> QED BY <1>1, <1>5, <2>1 DEF RatingsInv, RostersKept
<1>7. Of(k) = {}
  <2>1. ASSUME NEW s \in Of(k) PROVE FALSE
    <3>1. s \in ledger /\ s.who = k
      BY DEF Of
    <3>2. s.match \in Matches /\ k \in DOMAIN roster[s.match]
      BY <3>1, RowsFit
    <3> QED BY <1>1, <3>2 DEF RatingsInv, RostersKept
  <2> QED BY <2>1
<1>8. Carried'
  <2>1. \A w : Of(w)' = Of(w)
    BY <1>1 DEF Of
  <2>2. \A m, w : Known(m, w)' = Known(m, w)
    BY <1>1, <2>1 DEF Known
  <2>3. \A j \in Keys : j # k => rating'[j] = rating[j]
    BY <1>1 DEF RatingsInv, RostersKept
  <2> QED BY <1>1, <1>7, <2>1, <2>2, <2>3 DEF RatingsInv, Carried
<1> QED BY <1>4, <1>6, <1>8 DEF RatingsInv

LEMMA EnterKeeps ==
    ASSUME RatingsAssumption, RatingsInv, NEW m \in Matches, NEW w \in Competitors, Enter(m, w)
    PROVE  RatingsInv'
<1> DEFINE e == [elo |-> CurrentRating(w), after |-> Cardinality(Completed)]
           D == DOMAIN roster[m]
<1>1. m \notin Completed /\ w \notin D /\ (w \in Keys => rating[w] # None) /\ UNCHANGED <<rating, result, ledger>>
  BY DEF Enter
<1>2. roster' = [roster EXCEPT ![m] = [v \in D \cup {w} |-> IF v = w THEN e ELSE roster[m][v]]]
  BY DEF Enter
<1>3. Cardinality(Completed) \in Nat
  BY CompletedCounted DEF RatingsInv
<1>4. CurrentRating(w) \in Nat
  <2>1. CASE w \in Keys
    BY <1>1, <2>1 DEF CurrentRating, RatingsInv, RostersKept
  <2>2. CASE w \notin Keys
    BY <2>2, HumanRatingNat DEF CurrentRating, Competitors
  <2> QED BY <2>1, <2>2
<1>5. e.elo = CurrentRating(w) /\ e.after = Cardinality(Completed)
  OBVIOUS
<1> HIDE DEF e, D
<1>6. /\ DOMAIN roster' = Matches
      /\ \A n \in Matches : n # m => roster'[n] = roster[n]
      /\ DOMAIN roster'[m] = D \cup {w}
      /\ roster'[m][w] = e
      /\ \A v \in D : roster'[m][v] = roster[m][v]
  BY <1>1, <1>2 DEF RatingsInv, RostersKept
<1>7. Completed' = Completed
  BY <1>1 DEF Completed
<1>8. FinishedOnce' /\ LedgerComplete'
  <2>1. \A n \in Completed : roster'[n] = roster[n]
    BY <1>1, <1>6 DEF RatingsInv, FinishedOnce
  <2> QED BY <1>1, <2>1, ResultsStand
<1>9. \A n \in Matches : \A v \in DOMAIN roster'[n] :
          \/ n = m /\ v = w /\ roster'[n][v] = e
          \/ v \in DOMAIN roster[n] /\ roster'[n][v] = roster[n][v]
  BY <1>6 DEF D
<1>10. RostersKept'
  <2>1. \A n \in Matches : DOMAIN roster'[n] \subseteq Competitors /\ IsFiniteSet(DOMAIN roster'[n])
    <3>1. D \subseteq Competitors /\ IsFiniteSet(D)
      BY DEF RatingsInv, RostersKept, D
    <3>2. IsFiniteSet(D \cup {w})
      BY <3>1, FS_AddElement
    <3> QED BY <1>6, <3>1, <3>2 DEF RatingsInv, RostersKept
  <2>2. \A n \in Matches : \A v \in DOMAIN roster'[n] :
            /\ roster'[n][v].elo \in Nat /\ roster'[n][v].after \in 0..Cardinality(Completed)
            /\ v \in Keys => rating[v] # None
    <3> SUFFICES ASSUME NEW n \in Matches, NEW v \in DOMAIN roster'[n]
                 PROVE  /\ roster'[n][v].elo \in Nat /\ roster'[n][v].after \in 0..Cardinality(Completed)
                        /\ v \in Keys => rating[v] # None
      OBVIOUS
    <3>1. CASE n = m /\ v = w /\ roster'[n][v] = e
      BY <1>1, <1>3, <1>4, <1>5, <3>1
    <3>2. CASE v \in DOMAIN roster[n] /\ roster'[n][v] = roster[n][v]
      BY <3>2 DEF RatingsInv, RostersKept
    <3> QED BY <1>9, <3>1, <3>2
  <2> QED BY <1>1, <1>6, <1>7, <2>1, <2>2 DEF RatingsInv, RostersKept
<1>11. Carried'
  <2>1. \A v : Of(v)' = Of(v)
    BY <1>1 DEF Of
  <2>2. ASSUME NEW n \in Matches, NEW v \in DOMAIN roster'[n]
        PROVE  Known(n, v)' # {} => roster'[n][v].elo = Latest(Known(n, v)').after
    <3>1. CASE v \in DOMAIN roster[n] /\ roster'[n][v] = roster[n][v]
      <4>1. Known(n, v)' = Known(n, v)
        BY <2>1, <3>1 DEF Known
      <4> QED BY <3>1, <4>1 DEF RatingsInv, Carried
    <3>2. CASE n = m /\ v = w /\ roster'[n][v] = e
      <4>1. Known(n, v)' = {t \in Of(w) : t.at <= Cardinality(Completed)}
        BY <1>5, <2>1, <3>2 DEF Known
      <4>2. \A t \in Of(w) : t.at <= Cardinality(Completed)
        <5>1. ASSUME NEW t \in Of(w) PROVE t.at <= Cardinality(Completed)
          <6>1. t \in ledger
            BY DEF Of
          <6>2. t.at \in 1..Cardinality(Completed)
            BY <6>1, RowsFit
          <6> QED BY <1>3, <6>2
        <5> QED BY <5>1
      <4>3. Known(n, v)' = Of(w)
        BY <4>1, <4>2
      <4>4. Of(w) # {} => CurrentRating(w) = Latest(Of(w)).after
        BY DEF CurrentRating, HumanRating, RatingsInv, Carried
      <4> QED BY <1>5, <3>2, <4>3, <4>4
    <3> QED BY <1>9, <3>1, <3>2
  <2>3. \A k \in Keys : Of(k) # {} => rating[k] = Latest(Of(k)).after
    BY DEF RatingsInv, Carried
  <2> QED BY <1>1, <2>1, <2>2, <2>3 DEF Carried
<1> QED BY <1>8, <1>10, <1>11 DEF RatingsInv

LEMMA FinishKeeps ==
    ASSUME RatingsAssumption, RatingsInv, NEW m \in Matches, NEW f \in Finals, Finish(m, f)
    PROVE  RatingsInv'
<1> DEFINE D == DOMAIN roster[m]
           N == Cardinality(Completed)
<1>1. m \notin Completed /\ UNCHANGED roster
  BY DEF Finish
<1>2. PICK c \in Leaders(f, D) :
          /\ result' = [n \in Completed \cup {m} |-> IF n = m THEN Result(m, f, c, N + 1) ELSE result[n]]
          /\ ledger' = ledger \cup Settled(m, Result(m, f, c, N + 1))
          /\ rating' = RatingsAfter(m, Result(m, f, c, N + 1))
  BY DEF Finish
<1> DEFINE r == Result(m, f, c, N + 1)
<1>3. PICK v \in D : c = CoalitionOf(f, v)
  BY DEF Leaders
<1>4. r.at = N + 1
  BY DEF Result
<1>5. Written(m, r)
  BY <1>3, <1>4 DEF Written
<1>6. N \in Nat /\ IsFiniteSet(Completed)
  BY CompletedCounted DEF RatingsInv
<1>7. /\ ledger' = ledger \cup Settled(m, r)
      /\ rating' = RatingsAfter(m, r)
      /\ result' = [n \in Completed \cup {m} |-> IF n = m THEN r ELSE result[n]]
  BY <1>2
<1> HIDE DEF r
<1>8. Completed' = Completed \cup {m} /\ result'[m] = r /\ \A n \in Completed : result'[n] = result[n]
  BY <1>1, <1>7 DEF Completed
<1>9. Cardinality(Completed)' = N + 1
  <2>1. Cardinality(Completed \cup {m}) = N + 1
    BY <1>1, <1>6, FS_AddElement
  <2> QED BY <1>8, <2>1
<1> HIDE DEF N
<1>10. \A w \in D : RatingAfter(m, r, w, roster[m][w].elo) \in Nat
  BY <1>5, OutcomesFit DEF RatingsInv
<1>11. rating' \in [Keys -> Nat \cup {None}] /\ \A k \in Keys :
          /\ rating'[k] = IF k \in D THEN RatingAfter(m, r, k, roster[m][k].elo) ELSE rating[k]
          /\ rating[k] # None => rating'[k] # None
  <2>1. \A k \in Keys : rating[k] \in Nat \cup {None}
    BY DEF RatingsInv, RostersKept
  <2>2. None \notin Nat
    BY DEF RatingsAssumption
  <2> QED BY <1>7, <1>10, <2>1, <2>2 DEF RatingsAfter
<1>12. RostersKept'
  <2>1. \A n \in Matches : \A w \in DOMAIN roster[n] :
            /\ roster[n][w].elo \in Nat /\ roster[n][w].after \in 0..(N + 1)
            /\ w \in Keys => rating'[w] # None
    <3> SUFFICES ASSUME NEW n \in Matches, NEW w \in DOMAIN roster[n]
                 PROVE  /\ roster[n][w].elo \in Nat /\ roster[n][w].after \in 0..(N + 1)
                        /\ w \in Keys => rating'[w] # None
      OBVIOUS
    <3>1. /\ roster[n][w].elo \in Nat /\ roster[n][w].after \in 0..N
          /\ w \in Keys => rating[w] # None
      BY DEF RatingsInv, RostersKept, N
    <3>2. roster[n][w].after \in 0..(N + 1)
      BY <1>6, <3>1
    <3> QED BY <1>11, <3>1, <3>2
  <2>2. DOMAIN roster = Matches /\ \A n \in Matches : DOMAIN roster[n] \subseteq Competitors /\ IsFiniteSet(DOMAIN roster[n])
    BY DEF RatingsInv, RostersKept
  <2> QED BY <1>1, <1>9, <1>11, <2>1, <2>2 DEF RostersKept
<1>13. \A n \in Completed : n \in Matches /\ Written(n, result[n]) /\ result[n].at \in 1..N
  BY DEF RatingsInv, FinishedOnce, N
<1>14. FinishedOnce'
  <2>1. \A n \in Completed : Written(n, result[n])'
    <3>1. ASSUME NEW n \in Completed PROVE Written(n, result[n])'
      <4>1. Written(n, result[n]) /\ roster'[n] = roster[n] /\ result'[n] = result[n]
        BY <1>1, <1>8, <1>13
      <4> QED BY <4>1 DEF Written, Result, AllianceRow
    <3> QED BY <3>1
  <2>2. Written(m, result[m])'
    <3>1. Written(m, r) /\ roster'[m] = roster[m] /\ result'[m] = r
      BY <1>1, <1>5, <1>8
    <3> QED BY <3>1 DEF Written, Result, AllianceRow
  <2>3. \A n \in Completed' : Written(n, result[n])'
    BY <1>8, <2>1, <2>2
  <2>4. \A n \in Completed' : result'[n].at \in 1..(N + 1)
    BY <1>4, <1>6, <1>8, <1>13
  <2>5. \A n, o \in Completed' : result'[n].at = result'[o].at => n = o
    <3>1. \A n \in Completed : result[n].at # N + 1
      BY <1>6, <1>13
    <3>2. \A n, o \in Completed : result[n].at = result[o].at => n = o
      BY DEF RatingsInv, FinishedOnce
    <3> QED BY <1>4, <1>8, <3>1, <3>2
  <2>6. Completed' \subseteq Matches
    BY <1>8, <1>13
  <2> QED BY <1>9, <2>3, <2>4, <2>5, <2>6 DEF FinishedOnce
<1>15. \A n \in Completed : \A w : RowOf(n, w)' = RowOf(n, w)
  BY <1>1, <1>8, RowKept
<1>16. ASSUME NEW w
       PROVE  RowOf(m, w)' = [match |-> m, who |-> w, outcome |-> Outcome(m, r, w), at |-> r.at,
                              before |-> roster[m][w].elo, after |-> RatingAfter(m, r, w, roster[m][w].elo)]
  <2>1. \A q : Outcome(m, q, w)' = Outcome(m, q, w) /\ \A b : RatingAfter(m, q, w, b)' = RatingAfter(m, q, w, b)
    BY <1>1, SettlementKept
  <2> QED BY <1>1, <1>8, <2>1 DEF RowOf
<1>17. Settled(m, r) = {RowOf(m, w)' : w \in D}
  BY <1>16 DEF Settled
<1>18. LedgerComplete'
  <2>1. \A s : s \in ledger <=> \E n \in Completed : \E w \in DOMAIN roster[n] : s = RowOf(n, w)'
    BY <1>15 DEF RatingsInv, LedgerComplete
  <2>2. \A s : s \in ledger' <=> s \in ledger \/ \E w \in D : s = RowOf(m, w)'
    BY <1>7, <1>17
  <2>3. \A s : s \in ledger' <=> \E n \in Completed' : \E w \in DOMAIN roster'[n] : s = RowOf(n, w)'
    BY <1>1, <1>8, <2>1, <2>2
  <2> QED BY <2>3 DEF LedgerComplete
<1>19. \A t \in ledger : t.at \in 1..N /\ t.at \in Nat /\ t.at < N + 1
  <2>1. ASSUME NEW t \in ledger PROVE t.at \in 1..N
    BY RowsFit DEF N
  <2> QED BY <1>6, <2>1
<1>20. \A t \in Settled(m, r) : t.at = N + 1 /\ t.match = m /\ t.who \in D
  BY <1>4 DEF Settled
<1>21. Carried'
  <2>1. ASSUME NEW k \in Keys, Of(k)' # {} PROVE rating'[k] = Latest(Of(k)').after
    <3>1. CASE k \in D
      <4> DEFINE x == RowOf(m, k)'
                 rows == Of(k)'
      <4>1. x.at = N + 1 /\ x.who = k /\ x.after = RatingAfter(m, r, k, roster[m][k].elo)
        BY <1>4, <1>16
      <4>2. x \in Settled(m, r)
        BY <1>17, <3>1
      <4>3. \A t \in Settled(m, r) : t.who = k => t = x
        <5>1. \A w \in D : RowOf(m, w)'.who = w
          BY <1>16
        <5> QED BY <1>17, <5>1
      <4> HIDE DEF x
      <4>4. rows = {s \in ledger \cup Settled(m, r) : s.who = k}
        BY <1>7 DEF Of
      <4> HIDE DEF rows
      <4>5. x \in rows /\ x.at \in Nat /\ \A t \in rows : t # x => t.at \in Nat /\ t.at < x.at
        BY <1>6, <1>19, <4>1, <4>2, <4>3, <4>4
      <4>6. Latest(rows) = x
        BY <4>5, NewestIsLatest
      <4> QED BY <1>11, <3>1, <4>1, <4>6 DEF rows
    <3>2. CASE k \notin D
      <4>1. Of(k)' = Of(k)
        BY <1>7, <1>20, <3>2 DEF Of
      <4> QED BY <1>11, <2>1, <3>2, <4>1 DEF RatingsInv, Carried
    <3> QED BY <3>1, <3>2
  <2>2. ASSUME NEW n \in Matches, NEW w \in DOMAIN roster[n]
        PROVE  Known(n, w)' # {} => roster[n][w].elo = Latest(Known(n, w)').after
    <3> DEFINE a == roster[n][w].after
    <3>1. a \in 0..N
      BY DEF RatingsInv, RostersKept, N
    <3>2. \A t \in Settled(m, r) : ~(t.at <= a)
      BY <1>6, <1>20, <3>1
    <3>3. Known(n, w)' = {t \in ledger \cup Settled(m, r) : t.who = w /\ t.at <= a}
      BY <1>1, <1>7 DEF Known, Of
    <3> HIDE DEF a
    <3>4. Known(n, w)' = {t \in ledger : t.who = w /\ t.at <= a}
      BY <3>2, <3>3
    <3>5. Known(n, w)' = Known(n, w)
      BY <3>4 DEF Known, Of, a
    <3> QED BY <3>5 DEF RatingsInv, Carried
  <2> QED BY <1>1, <2>1, <2>2 DEF Carried
<1> QED BY <1>12, <1>14, <1>18, <1>21 DEF RatingsInv

LEMMA RatingsStay == ASSUME RatingsAssumption, RatingsInv, UNCHANGED ratingVars PROVE RatingsInv'
<1>1. UNCHANGED <<rating, roster, result, ledger>>
  BY DEF ratingVars
<1>2. FinishedOnce' /\ LedgerComplete'
  BY <1>1, ResultsStand
<1>3. RostersKept'
  BY <1>1 DEF RatingsInv, RostersKept, Completed
<1>4. Carried'
  BY <1>1 DEF RatingsInv, Carried, Known, Of
<1> QED BY <1>2, <1>3, <1>4 DEF RatingsInv

LEMMA RatingsInvRight == ASSUME RatingsAssumption, RatingsInv PROVE RatingsRight
BY InvReadsAgree, InvSettlesOnce, InvNamesWinners, InvRewardsMerit, InvCarriesOver DEF RatingsRight

\* Whatever matches end in whatever order, each is settled once for each that played it, the
\* winners are those of the board under every id, reward follows merit, and every page tells
\* the same rating, which is carried from match to match.
THEOREM RatingsAreRight ==
    ASSUME RatingsAssumption
    PROVE  RatingsSpec => []RatingsRight
<1>1. RatingsInit => RatingsInv
  BY RatingsStart
<1>2. RatingsInv /\ [RatingsNext]_ratingVars => RatingsInv'
  BY CreateKeyKeeps, EnterKeeps, FinishKeeps, RatingsStay DEF RatingsNext
<1>3. RatingsInv => RatingsRight
  BY RatingsInvRight
<1> QED BY <1>1, <1>2, <1>3, PTL DEF RatingsSpec

=============================================================================
