---------------------------- MODULE MCRateLimit ----------------------------
(***************************************************************************)
(* What reaches the server through its routes.  The module itself is       *)
(* RateLimit, with one caller of each kind on routes of each kind, of      *)
(* which one is the legacy path of another.  Beside it is Requests, which  *)
(* bodies are let through.  They have no variable in common, so a          *)
(* behaviour is one of a single part, and the other rests.                 *)
(***************************************************************************)
EXTENDS RateLimit, MCRequests

MCKind == "orders" :> "either" @@ "messages" :> "agent" @@ "keys" :> "human"
          @@ "ws" :> "network" @@ "wsLegacy" :> "network"

MCCanonical == [r \in Routes |-> IF r = "wsLegacy" THEN "ws" ELSE r]

VARIABLE part   \* the part that moves
allVars == <<part, vars, callVars>>

-----------------------------------------------------------------------------
\* A call that nobody makes.
NoCall == route = "join" /\ via = "raw" /\ body = [match_id |-> "ok", extra |-> "absent"]

MCInit ==
    /\ Init /\ CallInit
    /\ \/ part = "limiter" /\ NoCall
       \/ part = "calls"

MCNext ==
    /\ UNCHANGED part
    /\ \/ part = "limiter" /\ Next /\ UNCHANGED callVars
       \/ part = "calls" /\ CallNext /\ UNCHANGED vars

\* A caller goes on until it is let through.
MCSpec == MCInit /\ [][MCNext]_allVars /\ WF_callVars(part = "calls" /\ CallNext)

\* A caller that mends what each answer names gets through in the end: no two answers send it
\* back and forth.
CallersMendingEnds == part = "calls" => MendingEnds

\* Every refusal names something that is wrong with the body, the SDK refuses what the server
\* would, and what a command's envelope lets through is not refused by the models behind it.
AnswersFit == AnswerFits /\ SdkAgrees /\ NothingBreaksInside
=============================================================================
