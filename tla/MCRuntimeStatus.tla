--------------------------- MODULE MCRuntimeStatus ---------------------------
(***************************************************************************)
(* The runtime as its operator and its viewers see it.  The module itself  *)
(* is RuntimeStatus for two matches whose work fits into their interval,   *)
(* and Realtime for the viewers of a match with a send slot for each.      *)
(* Beside them are instances of RuntimeStatus with a match whose ticks     *)
(* take longer than the interval, and with a match with two sockets and    *)
(* two broadcasts, and of Realtime with one slot for two clients.          *)
(* A behaviour is one of a single part, and the others rest.               *)
(***************************************************************************)
EXTENDS RuntimeStatus, Realtime, TLC

CONSTANTS m1, m2, s1, s2, ann, bob

TwoMatches == {m1, m2}
OneSocket == {s1}

\* ann, who has a seat, bob, who has none, and spectators.
MCSeatOf == (ann :> "p1") @@ (bob :> None)

VARIABLES
    part,                                               \* the part that moves
    edition1, loop1, ticking1, conn1, latest1, connections1, cast1  \* where slots are scarce

scarceVars == <<edition1, loop1, ticking1, conn1, latest1, connections1, cast1>>
allVars == <<part, vars, liveVars, scarceVars>>

\* A tick can take longer than the interval.
Overload == INSTANCE RuntimeStatus WITH Work <- 7, Horizon <- 21

\* Two broadcasts at once, and a restart.
Crowded == INSTANCE RuntimeStatus WITH
    Sockets <- {s1, s2}, Work <- 0, Horizon <- 9, MaxStarts <- 2, MaxUpdates <- 1

\* The viewers of a match, one send at a time.
Scarce == INSTANCE Realtime WITH
    SendSlots <- 1,
    edition <- edition1, loop <- loop1, ticking <- ticking1, conn <- conn1, latest <- latest1,
    connections <- connections1, cast <- cast1

ASSUME
    /\ Overload!StatusAssumption /\ Crowded!StatusAssumption
    /\ RealtimeAssumption /\ Scarce!RealtimeAssumption

-----------------------------------------------------------------------------
MCInit ==
    /\ Init /\ LiveInit /\ Scarce!LiveInit
    /\ \/ part = "on time"
       \/ part \in {"overload", "crowded"} /\ stored[m2].status = "lobby"
       \/ part \in {"wide", "scarce"} /\ \A m \in Matches : stored[m].status = "lobby"

MCNext ==
    /\ UNCHANGED part
    /\ \/ /\ \/ part = "on time" /\ Next
             \/ part = "overload" /\ Overload!Next /\ task'[m2] = NoTask
             \/ part = "crowded" /\ Crowded!Next /\ task'[m2] = NoTask
          /\ UNCHANGED <<liveVars, scarceVars>>
       \/ part = "wide" /\ LiveNext /\ UNCHANGED <<vars, scarceVars>>
       \/ part = "scarce" /\ Scarce!LiveNext /\ UNCHANGED <<vars, liveVars>>

\* The event loop runs what is ready, and every send ends within its time limit.  No client
\* has to connect, leave or answer, and nobody has to post.
MCSpec ==
    /\ MCInit /\ [][MCNext]_allVars
    /\ WF_scarceVars(part = "scarce" /\ Scarce!NextTick)
    /\ \A e \in 1..2 : WF_scarceVars(part = "scarce" /\ Scarce!SendEnds(e))

-----------------------------------------------------------------------------
(* The properties where slots are scarce.                                  *)

\* With one slot for two clients, slots are used up and not exceeded, nobody is orphaned or
\* breaks the tick task, pictures go back behind the queue only, and no client, slow, dead or
\* gone, keeps the match from its next tick.
QueueMovesOn == Scarce!ViewersServed /\ (part = "scarce" => Scarce!TickGoesOn)
=============================================================================
