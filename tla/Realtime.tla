------------------------------ MODULE Realtime ------------------------------
(***************************************************************************)
(* The live view of one match: the sockets of its viewers, the manager's   *)
(* list of subscriptions, and the broadcasts that follow a tick or a chat  *)
(* or diplomacy write.  A payload is a full copy of what a viewer may see, *)
(* so it is known by its edition, the number of changes it contains.       *)
(*                                                                         *)
(* A change and the call of broadcast that follows it are one step: the    *)
(* list of subscriptions is copied before anything is awaited.  The sends  *)
(* are tasks; all of a broadcast run up to their own first await, in the   *)
(* order they were made, before another callback gets its turn.            *)
(*                                                                         *)
(* Init, Next and the like have names of their own, so that the module can *)
(* be extended along with RuntimeStatus.                                   *)
(***************************************************************************)
EXTENDS Naturals, FiniteSets, FiniteSetsExt

CONSTANTS
    None,
    Clients,      \* the connections, each used once
    Humans,       \* the people with a token
    Seats,        \* the player ids of the match's state
    SeatOf,       \* SeatOf[u]: the seat u has joined, or None
    SendSlots,    \* _max_concurrent_sends, for each broadcast
    MaxEdition    \* bound: no change beyond this one

\* A broadcast that runs.
Casts ==
    [to : SUBSET Clients, payload : 0..MaxEdition \cup {None}, waiting : SUBSET Clients,
     sending : SUBSET Clients, raised : BOOLEAN]

\* A person is no seat, and None is neither of them, no edition and no broadcast.
RealtimeAssumption ==
    /\ None \notin Humans \cup Seats \cup Nat \cup Casts
    /\ SeatOf \in [Humans -> Seats \cup {None}]
    /\ SendSlots \in Nat \ {0} /\ MaxEdition \in Nat

VARIABLES
    edition,     \* the changes made to the match so far
    loop,        \* the match's task: sleeping, broadcasting or ended
    ticking,     \* the edition whose broadcast the task awaits
    conn,        \* conn[s]: where the handler of socket s is, and its viewer
    latest,       \* latest[s]: the edition the client of s received last
    connections, \* the manager's subscriptions
    cast         \* cast[e]: the broadcast called with edition e, while it runs

liveVars == <<edition, loop, ticking, conn, latest, connections, cast>>

Spectator == "spectator"

-----------------------------------------------------------------------------
(* Handshake.                                                              *)

\* The seat the token's owner has joined, if the query does not ask for another one.
PlayerViewer(u, asked) == IF asked \in {None, SeatOf[u]} THEN SeatOf[u] ELSE None

Viewers ==
    {Spectator} \cup {PlayerViewer(u, asked) : u \in Humans, asked \in Seats \cup {None, "other"}}

\* Accepted; the greeting is built and on its way, and the manager does not know of it.
Accept(s) ==
    /\ conn[s].phase = "new"
    /\ \E v \in Viewers \ {None} :
           conn' = [conn EXCEPT ![s] = [phase |-> "greeting", viewer |-> v]]
    /\ latest' = [latest EXCEPT ![s] = edition]
    /\ UNCHANGED <<edition, loop, ticking, connections, cast>>

Greeted(s) ==
    /\ conn[s].phase = "greeting"
    /\ conn' = [conn EXCEPT ![s].phase = "open"]
    /\ connections' = connections \cup {s}
    /\ UNCHANGED <<edition, loop, ticking, latest, cast>>

\* The client is gone, or the greeting cannot be sent: a socket in its receive loop
\* learns of it later.
Leave(s) ==
    /\ conn[s].phase \in {"greeting", "open"}
    /\ conn' = [conn EXCEPT ![s].phase = IF @ = "open" THEN "leaving" ELSE "closed"]
    /\ UNCHANGED <<edition, loop, ticking, latest, connections, cast>>

ReceiveEnds(s) ==
    /\ conn[s].phase = "leaving"
    /\ conn' = [conn EXCEPT ![s].phase = "closed"]
    /\ connections' = connections \ {s}
    /\ UNCHANGED <<edition, loop, ticking, latest, cast>>

-----------------------------------------------------------------------------
(* Changes and broadcasts.                                                 *)

\* A broadcast: to whom, the edition of its payloads once they are built, who waits for
\* a slot, who is being sent to, and whether a payload could not be built.
Called == [to |-> connections, payload |-> None, waiting |-> connections, sending |-> {},
           raised |-> FALSE]

\* With nobody subscribed there is no broadcast.
Broadcast ==
    cast' = IF connections = {} THEN cast ELSE [cast EXCEPT ![edition + 1] = Called]

\* The sleep is over; the tick is resolved and stored.
LiveTick ==
    /\ loop = "sleeping" /\ edition < MaxEdition
    /\ edition' = edition + 1
    /\ Broadcast
    /\ ticking' = edition + 1
    /\ loop' = "broadcasting"
    /\ UNCHANGED <<conn, latest, connections>>

\* POST of a message, a group chat, a treaty or an alliance action.
Post ==
    /\ edition < MaxEdition
    /\ edition' = edition + 1
    /\ Broadcast
    /\ UNCHANGED <<loop, ticking, conn, latest, connections>>

Buildable(s) == conn[s].viewer \in Seats \cup {Spectator}

\* Slip: the payload is built before the change is made.
PayloadEditionBefore(e) == e - 1

\* A payload is built from the record as it is when the send starts.
PayloadEdition(e) == edition

\* Oldest first, since the tasks are run in the order they were made.  A payload that
\* cannot be built raises: gather passes the error on and leaves the other sends alone.
StartSends(e) ==
    /\ cast[e] # None /\ cast[e].payload = None
    /\ \A older \in 1..(e - 1) : cast[older] # None => cast[older].payload # None
    /\ LET sendable == {s \in cast[e].to : Buildable(s)}
       IN  \E first \in SUBSET sendable :
              /\ Cardinality(first) = Min({SendSlots, Cardinality(sendable)})
              /\ cast' = [cast EXCEPT ![e].payload = PayloadEdition(e), ![e].sending = first,
                                      ![e].waiting = sendable \ first,
                                      ![e].raised = sendable # cast[e].to]
    /\ UNCHANGED <<edition, loop, ticking, conn, latest, connections>>

\* Slip: a slot that comes free is not given to the next one.
WithoutNext(c, s) == [c EXCEPT !.sending = @ \ {s}]

\* The send to s ends, and the next one waiting gets its slot.
Without(c, s) ==
    LET freed == [c EXCEPT !.sending = @ \ {s}]
    IN  IF c.waiting = {} THEN freed
        ELSE LET next == CHOOSE t \in c.waiting : TRUE
             IN  [freed EXCEPT !.sending = @ \cup {next}, !.waiting = @ \ {next}]

\* What one socket is sent is written in the order it was handed over.
FirstInLine(e, s) == \A older \in 1..(e - 1) : cast[older] # None => s \notin cast[older].sending

Delivered(e, s) ==
    /\ cast[e] # None /\ s \in cast[e].sending
    /\ FirstInLine(e, s)
    /\ conn[s].phase = "open"
    /\ latest' = [latest EXCEPT ![s] = cast[e].payload]
    /\ cast' = [cast EXCEPT ![e] = Without(@, s)]
    /\ UNCHANGED <<edition, loop, ticking, conn, connections>>

\* The send fails or runs out of time, with the client served all the same or not.
\* The socket is unregistered and not closed.
Dropped(e, s) ==
    /\ cast[e] # None /\ s \in cast[e].sending
    /\ connections' = connections \ {s}
    /\ cast' = [cast EXCEPT ![e] = Without(@, s)]
    /\ \/ UNCHANGED latest
       \/ /\ conn[s].phase = "open" /\ FirstInLine(e, s)
          /\ latest' = [latest EXCEPT ![s] = cast[e].payload]
    /\ UNCHANGED <<edition, loop, ticking, conn>>

Ended(c) == c # None /\ c.payload # None /\ c.waiting = {} /\ c.sending = {}

\* gather returns, or has raised: into the match's task if the broadcast was a tick's,
\* into an answer 500 if it was a handler's.
Finish(e) ==
    /\ Ended(cast[e])
    /\ cast' = [cast EXCEPT ![e] = None]
    /\ loop' = IF ticking = e /\ cast[e].raised THEN "dead" ELSE loop
    /\ UNCHANGED <<edition, ticking, conn, latest, connections>>

\* Back in the match's task: a terminal tick ends it, any other goes round to the sleep.
NextTick ==
    /\ loop = "broadcasting" /\ cast[ticking] = None
    /\ loop' \in {"sleeping", "finished"}
    /\ ticking' = 0
    /\ UNCHANGED <<edition, conn, latest, connections, cast>>

-----------------------------------------------------------------------------

LiveInit ==
    /\ edition = 0
    /\ loop = "sleeping" /\ ticking = 0
    /\ conn = [s \in Clients |-> [phase |-> "new", viewer |-> None]]
    /\ latest = [s \in Clients |-> 0]
    /\ connections = {}
    /\ cast = [e \in 1..MaxEdition |-> None]

SendEnds(e) == StartSends(e) \/ Finish(e) \/ \E s \in Clients : Delivered(e, s) \/ Dropped(e, s)

LiveNext ==
    \/ \E s \in Clients : Accept(s) \/ Greeted(s) \/ Leave(s) \/ ReceiveEnds(s)
    \/ LiveTick \/ Post \/ NextTick
    \/ \E e \in 1..MaxEdition : SendEnds(e)

LiveSpec == LiveInit /\ [][LiveNext]_liveVars

\* The event loop runs what is ready, and every send ends within its time limit.  No
\* client has to connect, leave or answer, and nobody has to post.
LiveFairSpec ==
    /\ LiveSpec
    /\ WF_liveVars(NextTick)
    /\ \A e \in 1..MaxEdition : WF_liveVars(SendEnds(e))

-----------------------------------------------------------------------------
(* What viewers and the match can rely on.                                 *)

\* Every variable has the shape of what it stands for.
LiveTypeOK ==
    /\ edition \in 0..MaxEdition /\ ticking \in 0..edition
    /\ loop \in {"sleeping", "broadcasting", "finished", "dead"}
    /\ conn \in [Clients -> [phase : {"new", "greeting", "open", "leaving", "closed"},
                             viewer : Seats \cup {Spectator, None}]]
    /\ latest \in [Clients -> 0..MaxEdition]
    /\ connections \subseteq Clients
    /\ cast \in [1..MaxEdition -> Casts \cup {None}]

\* A subscription has a handler that will take it off the list: however sends, timeouts
\* and disconnects follow each other, none is left to be sent to for ever.
NoOrphans == \A s \in connections : conn[s].phase \in {"open", "leaving"}

\* No viewer's payload can raise out of a broadcast, which would end the match's task.
TickTaskSurvives == loop # "dead"

\* No broadcast sends to more clients at a time than it has slots, and one that has
\* somebody waiting uses them all.
SlotsRespected ==
    \A e \in 1..MaxEdition : cast[e] # None =>
        /\ Cardinality(cast[e].sending) <= SendSlots
        /\ cast[e].payload # None /\ cast[e].waiting # {} => Cardinality(cast[e].sending) = SendSlots

\* There is a slot for everyone who may connect.
SlotsForAll == IsFiniteSet(Clients) /\ Cardinality(Clients) <= SendSlots

\* Nobody who stayed subscribed through a broadcast shows less than it announced, when
\* it ends.
SubscribersReached ==
    \A e \in 1..MaxEdition : cast[e] # None /\ cast'[e] = None =>
        \A s \in cast[e].to \cap connections' : latest'[s] >= e

\* Though broadcasts overlap, the picture a client has goes back in time only by a send of a
\* broadcast in which there was not a slot for everyone.
GoesBackBehindQueueOnly ==
    \A s \in Clients : latest'[s] < latest[s] =>
        \E e \in 1..MaxEdition :
            cast[e] # None /\ s \in cast[e].sending /\ Cardinality(cast[e].to) > SendSlots

\* However sends, timeouts, disconnects and broadcasts follow each other, no subscription is
\* orphaned, none breaks the tick task, slots are used up and not exceeded, no picture goes
\* back but behind a queue for slots, and with slots for all everyone is shown what was announced.
ViewersServed ==
    /\ [](LiveTypeOK /\ NoOrphans /\ TickTaskSurvives /\ SlotsRespected)
    /\ [][GoesBackBehindQueueOnly /\ (SlotsForAll => SubscribersReached)]_liveVars

\* No client, slow, dead or gone, keeps the match from its next tick.
TickGoesOn == loop = "broadcasting" ~> loop # "broadcasting"
=============================================================================
