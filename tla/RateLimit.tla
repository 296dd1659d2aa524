----------------------------- MODULE RateLimit -----------------------------
(***************************************************************************)
(* The guard in front of writes, public entry points and websocket         *)
(* handshakes: who a request is counted for, and how many such requests    *)
(* are let through in a sliding window.  What lets a request through is    *)
(* then served by a handler that finds out anew who is asking.             *)
(*                                                                         *)
(* A request that is too large is turned away before anything is counted   *)
(* and is left out.  A deque of request times, oldest first, is a set of   *)
(* them, each with a number, as two requests may share an instant.         *)
(***************************************************************************)
EXTENDS Naturals, FiniteSets

CONSTANTS
    None,
    Keys,        \* valid API keys
    Humans,      \* people with a valid token
    Hosts,       \* network addresses
    Routes,      \* the route templates
    Kind,        \* Kind[r]: whom the handler of r serves, see Kinds
    Canonical,   \* Canonical[r]: r, or the route it is a legacy alias of
    Limit,       \* rate_limit
    Window,      \* rate_window_seconds
    MaxTime,     \* bound: the clock stops here
    MaxRequests  \* bound: requests let through in all

Kinds == {"human", "agent", "either", "network"}

ASSUME RateLimitAssumption ==
    /\ Kind \in [Routes -> Kinds]
    /\ Canonical \in [Routes -> Routes]
    /\ \A r \in Routes : Kind[Canonical[r]] = Kind[r] /\ Canonical[Canonical[r]] = Canonical[r]
    /\ None \notin Keys \cup Humans \cup Hosts
    /\ Keys \cap Humans = {}
    /\ Limit \in Nat \ {0} /\ Window \in Nat \ {0}
    /\ MaxTime \in Nat /\ MaxRequests \in Nat

VARIABLES
    now,      \* the monotonic clock
    windows,  \* the guard's _request_windows
    log,      \* history: every request counted or served, per caller and route
    count     \* history: how many there were

vars == <<now, windows, log, count>>

Callers == Keys \cup Humans \cup Hosts

\* What a request carries: a key and a token, either of them missing or worthless.
Credentials ==
    [key : Keys \cup {None, "bad"}, token : Humans \cup {None, "bad"}, host : Hosts]

-----------------------------------------------------------------------------
(* Who is asking.                                                          *)

ValidHuman(c) == IF c.token \in Humans THEN c.token ELSE None

ValidKey(c) == IF c.key \in Keys THEN c.key ELSE None

\* Slip: a token is looked at first, on every route.
ResolveIdentityKeyToken(c, r) ==
    IF Kind[r] = "network" THEN c.host
    ELSE IF ValidHuman(c) # None THEN ValidHuman(c) ELSE ValidKey(c)

\* Whom the guard counts a request for; None is not counted.  A key comes first, except
\* on the routes for people, and one that is not valid is not made good by a token.
ResolveIdentityKey(c, r) ==
    CASE Kind[r] = "network" -> c.host
      [] Kind[r] # "network" /\ Kind[r] # "human" /\ c.key # None -> ValidKey(c)
      [] OTHER -> ValidHuman(c)

\* Whom the handler serves; None is answered 401.
Served(c, r) ==
    CASE Kind[r] = "network" -> c.host
      [] Kind[r] = "human" -> ValidHuman(c)
      [] Kind[r] = "agent" -> ValidKey(c)
      [] Kind[r] = "either" -> IF c.key # None THEN ValidKey(c) ELSE ValidHuman(c)

ResolveRouteKey(r) == Canonical[r]

-----------------------------------------------------------------------------
(* The sliding window.                                                     *)

Entry == [at : 0..MaxTime, n : 1..MaxRequests]

\* A request stops counting when the window has passed to the instant.
Recent(times) == {t \in times : t.at + Window > now}

HasAllowance(times) == Cardinality(times) < Limit

NewEntry == [at |-> now, n |-> count + 1]

-----------------------------------------------------------------------------

Init ==
    /\ now = 0
    /\ windows = [w \in Callers \X Routes |-> {}]
    /\ log = [w \in Callers \X Routes |-> {}]
    /\ count = 0

ClockTicks ==
    /\ now < MaxTime
    /\ now' = now + 1
    /\ UNCHANGED <<windows, log, count>>

\* Served or counted, the request goes into the history under whom it was for.
Record(who, r) ==
    /\ log' = [log EXCEPT ![<<who, ResolveRouteKey(r)>>] = @ \cup {NewEntry}]
    /\ count' = count + 1

\* Nobody to count the request for: the handler alone decides.
NotCounted(c, r) ==
    /\ ResolveIdentityKey(c, r) = None
    /\ Served(c, r) # None
    /\ Record(Served(c, r), r)
    /\ UNCHANGED <<now, windows>>

\* Slip: a denied request is counted as well.
DeniedCounted(c, r) ==
    LET w == <<ResolveIdentityKey(c, r), ResolveRouteKey(r)>>
    IN  /\ w[1] # None
        /\ ~HasAllowance(Recent(windows[w]))
        /\ windows' = [windows EXCEPT ![w] = Recent(@) \cup {NewEntry}]
        /\ UNCHANGED <<now, log, count>>

Denied(c, r) ==
    LET w == <<ResolveIdentityKey(c, r), ResolveRouteKey(r)>>
    IN  /\ w[1] # None
        /\ ~HasAllowance(Recent(windows[w]))
        /\ windows' = [windows EXCEPT ![w] = Recent(@)]
        /\ UNCHANGED <<now, log, count>>

\* Counted, and then served or answered 401.
Allowed(c, r) ==
    LET w == <<ResolveIdentityKey(c, r), ResolveRouteKey(r)>>
    IN  /\ w[1] # None
        /\ HasAllowance(Recent(windows[w]))
        /\ windows' = [windows EXCEPT ![w] = Recent(@) \cup {NewEntry}]
        /\ Record(IF Served(c, r) = None THEN w[1] ELSE Served(c, r), r)
        /\ UNCHANGED now

Request(c, r) ==
    /\ count < MaxRequests
    /\ NotCounted(c, r) \/ Denied(c, r) \/ Allowed(c, r)

Next == ClockTicks \/ \E c \in Credentials, r \in Routes : Request(c, r)

Spec == Init /\ [][Next]_vars

-----------------------------------------------------------------------------
(* What the limiter promises.                                              *)

\* Every variable has the shape of what it stands for.
TypeOK ==
    /\ now \in 0..MaxTime
    /\ windows \in [Callers \X Routes -> SUBSET Entry]
    /\ log \in [Callers \X Routes -> SUBSET Entry]
    /\ count \in 0..MaxRequests

Within(who, route, t) ==
    {e \in log[<<who, Canonical[route]>>] : e.at <= t /\ t < e.at + Window}

\* However requests with or without good keys and tokens are timed, in no window of time
\* is a caller served more than Limit requests on a route, under whatever path.
BurstBounded ==
    \A who \in Callers, r \in Routes, t \in 0..MaxTime : Cardinality(Within(who, r, t)) <= Limit

\* Nobody is turned away for what others did, on another route, or before the window: a
\* denied caller has had its Limit requests on that route in the window that ends now.
DenialEarned ==
    [][\A c \in Credentials, r \in Routes : Denied(c, r) =>
           Cardinality(Within(ResolveIdentityKey(c, r), r, now)) = Limit]_vars

=============================================================================
