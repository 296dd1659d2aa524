---------------------------- MODULE MCCoalitions ----------------------------
(***************************************************************************)
(* Players who ally and players who talk.  The module itself is Coalitions *)
(* for three players and two cities: two can ally against the third,       *)
(* leaders are replaced, alliance ids are reused, and the cities, each     *)
(* within reach of two of the players, change hands.  Behaviours in which  *)
(* the third player stays out are those of the smallest crowd, in which it *)
(* is also checked that a steady leader wins.  Beside it are instances of  *)
(* Messaging.  A behaviour is one of a single part, and the others rest.   *)
(***************************************************************************)
EXTENDS Coalitions

CONSTANTS c1, c2, amy, bob, cid

ThreePlayers == {1, 2, 3}
TwoCities == {c1, c2}

VARIABLES
    part,                                                          \* the part that moves
    tick, messages, chats, book, cursor, seen, posted, lost, reloads  \* Messaging's

messageVars == <<tick, messages, chats, book, cursor, seen, posted, lost, reloads>>
allVars == <<part, vars, messageVars>>

-----------------------------------------------------------------------------
(* Commands whose messages are good, bad, and good before a bad part.      *)

World == [channel |-> "world", recipient |-> None, chat |-> None]
Direct(p) == [channel |-> "direct", recipient |-> p, chat |-> None]
Group(id) == [channel |-> "group", recipient |-> None, chat |-> id]

MCEnvelopes == {
    [messages |-> <<World, Direct("nobody")>>, rest |-> "none"],
    [messages |-> <<Group(1), Direct(bob)>>, rest |-> "none"],
    [messages |-> <<Group(1)>>, rest |-> "refused"],
    [messages |-> <<Direct(bob)>>, rest |-> "announced"],
    [messages |-> <<[World EXCEPT !.recipient = bob]>>, rest |-> "none"]}

\* Three players with a chat, within a tick.
Chatting == INSTANCE Messaging WITH
    Players <- {amy, bob, cid}, Envelopes <- MCEnvelopes, MaxTick <- 0, MaxMessages <- 2,
    MaxChats <- 1, MaxReloads <- 0, log <- posted

\* Two players over two ticks, whose messages and chats a reload takes away.
Reloading == INSTANCE Messaging WITH
    Players <- {amy, bob}, Envelopes <- MCEnvelopes, MaxTick <- 1, MaxMessages <- 2,
    MaxChats <- 1, MaxReloads <- 1, log <- posted

ASSUME Chatting!MessagingAssumption /\ Reloading!MessagingAssumption

-----------------------------------------------------------------------------
InCrowd ==
    \/ part = "three" /\ owner[c1] # 3 /\ owner[c2] # 1
    \/ part = "two" /\ allianceOf[3] = None /\ \A c \in Cities : owner[c] # 3

AtRest == Init /\ \A c \in Cities : owner[c] = None

MCInit ==
    \/ part \in {"three", "two"} /\ Init /\ InCrowd /\ Chatting!Init
    \/ part = "chatting" /\ AtRest /\ Chatting!Init
    \/ part = "reloading" /\ AtRest /\ Reloading!Init

MCNext ==
    /\ UNCHANGED part
    /\ \/ part \in {"three", "two"} /\ Next /\ InCrowd' /\ UNCHANGED messageVars
       \/ part = "chatting" /\ Chatting!Next /\ UNCHANGED vars
       \/ part = "reloading" /\ Reloading!Next /\ UNCHANGED vars

\* The match loop wakes up again and again; the larger crowd is there for safety alone.
TickOfTwo == part = "two" /\ UNCHANGED part /\ Tick /\ InCrowd'

MCSpec == MCInit /\ [][MCNext]_allVars /\ WF_vars(TickOfTwo)

-----------------------------------------------------------------------------
(* The properties of the parts.                                            *)

\* Of two players, a coalition that leads a running match at or above the threshold from some
\* point on wins, as long as the match loop goes on.
SteadyLeaderOfTwoWins == part = "two" => SteadyLeaderWins

\* Messages, chats and books keep their shapes.
MessagingTypeOK == part = "chatting" => Chatting!TypeOK

\* A player is shown what was meant for it and nothing else, and by every view alike: inbox,
\* chats, briefing and websocket.
ShownToWhomItWasMeant == part = "chatting" => Chatting!ShownToWhomItWasMeant

\* The record holds what was answered with 202 and not lost in a reload, each message once: a
\* refused command leaves nothing behind, not even the parts before the bad one.
OnlyTheAcknowledged ==
    /\ part = "chatting" => Chatting!OnlyTheAcknowledged
    /\ part = "reloading" => Reloading!OnlyTheAcknowledged

\* An agent that asks each time for what came since its last briefing misses nothing but what a
\* reload took away, however its requests fall between ticks and messages.
NothingMissed == [][/\ part = "chatting" => Chatting!BriefsOnAll
                    /\ part = "reloading" => Reloading!BriefsOnAll]_allVars

\* Messages are kept and shown as they were meant, by whatever way they came and are read, and
\* an agent that polls misses none of them.
MessagesKept ==
    /\ [](MessagingTypeOK /\ ShownToWhomItWasMeant /\ OnlyTheAcknowledged)
    /\ NothingMissed
=============================================================================
