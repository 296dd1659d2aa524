---------------------------- MODULE MatchHistory ----------------------------
(***************************************************************************)
(* What the server promises of one match: its status only moves forward,   *)
(* every tick of a running match is logged once and in order, and a tick   *)
(* resolves submissions that were accepted and that no tick before it      *)
(* resolved.  How the server gets there (memory, rollback, restarts,       *)
(* reloads) is MatchRuntime's business.                                    *)
(***************************************************************************)
EXTENDS Naturals, Sequences

CONSTANT Submissions    \* the order envelopes that can ever be accepted

VARIABLES
    status,     \* matches.status
    issued,     \* the submissions answered with 202 so far
    log         \* the match's tick_log rows, oldest first

historyVars == <<status, issued, log>>

HistoryInit ==
    /\ status = "lobby"
    /\ issued = {}
    /\ log = <<>>

Start ==
    /\ status = "lobby"
    /\ status' = "active"
    /\ UNCHANGED <<issued, log>>

Accept(s) ==
    /\ s \notin issued
    /\ issued' = issued \cup {s}
    /\ UNCHANGED <<status, log>>

\* One tick of a running match; the last one completes it.
Advance(orders) ==
    /\ status = "active"
    /\ \A i \in DOMAIN log : log[i].orders \cap orders = {}
    /\ log' = Append(log, [tick |-> Len(log) + 1, orders |-> orders])
    /\ status' \in {"active", "completed"}
    /\ UNCHANGED issued

HistoryNext ==
    \/ Start
    \/ \E s \in Submissions : Accept(s)
    \/ \E orders \in SUBSET issued : Advance(orders)

HistorySpec == HistoryInit /\ [][HistoryNext]_historyVars
=============================================================================
