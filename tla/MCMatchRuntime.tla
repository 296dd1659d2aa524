--------------------------- MODULE MCMatchRuntime ---------------------------
(***************************************************************************)
(* A match and those who play it.  The module itself is MatchRuntime for   *)
(* two players who both queue orders, are overridden and join again,       *)
(* GuidedPlay for the owners of three agents, and AgentClient for two      *)
(* agents that are run again and again over a network.  Beside them are    *)
(* instances of AgentClient for three agents and for two matches.  They    *)
(* have no variable in common, so a behaviour is one of a single part, and *)
(* the others rest.                                                        *)
(***************************************************************************)
EXTENDS MatchRuntime, GuidedPlay, AgentClient, TLC

CONSTANTS
    p1, p2,
    a1, a2, a3,
    ann, bob, k1, k2, k3, s1, s2, s3

TwoPlayers == {p1, p2}

VARIABLES
    part,                                    \* the part that moves
    match1, run1, wire1, answer1, answered1  \* AgentClient's, with three agents or two matches

moreVars == <<match1, run1, wire1, answer1, answered1>>
allVars == <<part, vars, guidedVars, agentVars, moreVars>>

-----------------------------------------------------------------------------
(* Agents.  a1 opens lobbies with the key of a2, which also joins on its   *)
(* own, as a3 does.                                                        *)

MCPartner == (a1 :> a2) @@ (a2 :> Nothing)

\* Three of them over the two seats of a match.
Three == INSTANCE AgentClient WITH
    Agents <- {a1, a2, a3}, Partner <- (a1 :> a2) @@ (a2 :> Nothing) @@ (a3 :> Nothing),
    MaxPlayers <- 2, MaxRuns <- 1,
    match <- match1, run <- run1, wire <- wire1, answer <- answer1, answered <- answered1

\* Two of them and two matches, and every call answered or given up.
Patient == INSTANCE AgentClient WITH
    Matches <- {1, 2}, MaxPlayers <- 2, Allowance <- 1,
    match <- match1, run <- run1, wire <- wire1, answer <- answer1, answered <- answered1

-----------------------------------------------------------------------------
(* Owners.  ann has two agents, between which there may be a treaty, and   *)
(* bob has one.  One key may be revoked.                                   *)

MCOwner == (k1 :> ann) @@ (k2 :> ann) @@ (k3 :> bob)
MCSeat == (k1 :> s1) @@ (k2 :> s2) @@ (k3 :> s3)

\* ann's agents listen to her, bob's is silent, and nobody submits.  A key is lost only before there is a
\* treaty, after which none is proposed.
Whispers ==
    /\ attempts' = 0 /\ heard'[k3] = heard[k3]
    /\ \A g \in guidance' : g.player # s3
    /\ active' = Keys \/ treaty'.status = "none"
    /\ reloads' = 0

\* One of ann's agents listens, to a single whisper, while the record is loaded again.
Reloads ==
    /\ tick' <= 2 /\ attempts' = 0 /\ heard'[k2] = heard[k2] /\ heard'[k3] = heard[k3]
    /\ Cardinality(guidance') <= 1 /\ \A g \in guidance' : g.player = s1

\* One of ann's agents plays against bob's for two ticks, without guidance or a treaty, while
\* the record is loaded again.
Overrides ==
    /\ tick' <= 2 /\ guidance' = {} /\ treaty' = treaty /\ heard' = heard
    /\ \A s \in queue' \cup audit' : s.player # s2

ASSUME /\ AgentClientAssumption /\ Three!AgentClientAssumption /\ Patient!AgentClientAssumption
       /\ GuidedPlayAssumption

-----------------------------------------------------------------------------
MCInit ==
    /\ Init /\ GuidedInit /\ AgentInit
    /\ \/ part \in {"match", "agents again", "three agents", "whispers", "reloads", "overrides"} /\ Three!AgentInit
       \/ part = "patient agents" /\ Patient!AgentInit

MCNext ==
    /\ UNCHANGED part
    /\ \/ part = "match" /\ Next /\ UNCHANGED <<guidedVars, agentVars, moreVars>>
       \/ part = "agents again" /\ AgentNext /\ UNCHANGED <<vars, guidedVars, moreVars>>
       \/ /\ \/ part = "three agents" /\ Three!AgentNext
             \/ part = "patient agents" /\ Patient!AgentNext
          /\ UNCHANGED <<vars, guidedVars, agentVars>>
       \/ /\ GuidedNext
          /\ \/ part = "whispers" /\ Whispers
             \/ part = "reloads" /\ Reloads
             \/ part = "overrides" /\ Overrides
          /\ UNCHANGED <<vars, agentVars, moreVars>>

\* The fairness of MatchRuntime and of AgentClient, each for its part.
MCSpec ==
    /\ MCInit /\ [][MCNext]_allVars
    /\ WF_vars(part = "match" /\ (Tick \/ TickNotPersisted))
    /\ WF_vars(part = "match" /\ Broadcast)
    /\ \A a \in {a1, a2} :
          /\ WF_moreVars(part = "patient agents" /\ Patient!Receive(a))
          /\ WF_moreVars(part = "patient agents" /\ Patient!GiveUp(a))

-----------------------------------------------------------------------------
(* The properties of the other instances.                                  *)

\* Where two agents want the last seat, and where there are two matches to open and to join,
\* agents are told the truth and keep their seats, too.
SeatsTaken ==
    /\ part = "three agents" => Three!AgentsServed
    /\ part = "patient agents" => Patient!AgentsServed

\* The match goes on, and every run of an agent ends, whatever the network loses, as every call
\* is answered or given up; and the other agents are served as well.
PlayGoesOn ==
    /\ MatchGoesOn /\ []SeatsTaken
    /\ part = "patient agents" => Patient!RunEnds
=============================================================================
