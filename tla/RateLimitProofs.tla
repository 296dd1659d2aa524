-------------------------- MODULE RateLimitProofs --------------------------
(***************************************************************************)
(* The limiter's promises for every limit, window, route and caller.  The  *)
(* inductive invariant says that, as far as the window reaches back, the   *)
(* guard's times are the history; it needs that the guard counts a request *)
(* for nobody but whom the handler then serves.  After it, what visitors   *)
(* of the public pages are told.                                           *)
(***************************************************************************)
EXTENDS RateLimit, PublicReads, FiniteFacts, TLAPS

\* The guard and the handler agree on who is asking.
LEMMA SameCaller ==
    ASSUME NEW c \in Credentials, NEW r \in Routes, Served(c, r) # None
    PROVE  ResolveIdentityKey(c, r) = Served(c, r)
<1>1. Kind[r] \in Kinds
  BY RateLimitAssumption
<1>2. CASE Kind[r] = "network"
  BY <1>2 DEF Served, ResolveIdentityKey
<1>3. CASE Kind[r] = "human"
  BY <1>3 DEF Served, ResolveIdentityKey
<1>4. CASE Kind[r] = "agent"
  <2>1. Served(c, r) = ValidKey(c)
    BY <1>4 DEF Served
  <2>2. c.key # None
    BY <2>1, RateLimitAssumption DEF ValidKey
  <2> QED
    BY <2>1, <2>2, <1>4 DEF ResolveIdentityKey
<1>5. CASE Kind[r] = "either"
  BY <1>5 DEF Served, ResolveIdentityKey
<1> QED
  BY <1>1, <1>2, <1>3, <1>4, <1>5 DEF Kinds

LEMMA CallerType ==
    ASSUME NEW c \in Credentials, NEW r \in Routes
    PROVE  /\ ResolveIdentityKey(c, r) \in Callers \cup {None}
           /\ ResolveRouteKey(r) \in Routes
<1>1. c.host \in Callers /\ ValidKey(c) \in Callers \cup {None} /\ ValidHuman(c) \in Callers \cup {None}
  BY DEF Credentials, Callers, ValidKey, ValidHuman
<1>2. ResolveIdentityKey(c, r) \in {c.host, ValidKey(c), ValidHuman(c)}
  BY DEF ResolveIdentityKey
<1> QED
  BY <1>1, <1>2, RateLimitAssumption DEF ResolveRouteKey

-----------------------------------------------------------------------------

\* The windows of the guard are the history as far as it still counts.
WindowsTrue ==
    \A w \in Callers \X Routes :
        /\ IsFiniteSet(windows[w]) /\ IsFiniteSet(log[w])
        /\ Recent(log[w]) = Recent(windows[w])
        /\ \A e \in log[w] : e.at <= now

IInv == TypeOK /\ WindowsTrue /\ BurstBounded

LEMMA OneMore ==
    ASSUME NEW S, NEW x, IsFiniteSet(S)
    PROVE  /\ IsFiniteSet(S \cup {x})
           /\ Cardinality(S) \in Nat
           /\ Cardinality(S \cup {x}) <= Cardinality(S) + 1
<1>1. Cardinality(S) \in Nat
  BY FS_CardinalityType
<1> QED
  BY <1>1, FS_AddElement

LEMMA EntryType ==
    ASSUME TypeOK, count < MaxRequests
    PROVE  NewEntry \in Entry
BY RateLimitAssumption DEF TypeOK, NewEntry, Entry

\* What a request that is let through does to the windows and the history.
LEMMA AllowedStep ==
    ASSUME IInv, NEW c \in Credentials, NEW r \in Routes, Allowed(c, r), count < MaxRequests
    PROVE  \E w \in Callers \X Routes :
               /\ w = <<ResolveIdentityKey(c, r), ResolveRouteKey(r)>>
               /\ Cardinality(Recent(windows[w])) < Limit
               /\ windows' = [windows EXCEPT ![w] = Recent(windows[w]) \cup {NewEntry}]
               /\ log' = [log EXCEPT ![w] = log[w] \cup {NewEntry}]
               /\ now' = now /\ count' = count + 1
<1> DEFINE w == <<ResolveIdentityKey(c, r), ResolveRouteKey(r)>>
<1>1. ResolveIdentityKey(c, r) # None
  BY DEF Allowed
<1>2. w \in Callers \X Routes
  BY <1>1, CallerType
<1>3. (IF Served(c, r) = None THEN ResolveIdentityKey(c, r) ELSE Served(c, r)) = ResolveIdentityKey(c, r)
  BY SameCaller
<1>4. log' = [log EXCEPT ![w] = log[w] \cup {NewEntry}] /\ count' = count + 1
  BY <1>3 DEF Allowed, Record
<1>5. windows' = [windows EXCEPT ![w] = Recent(windows[w]) \cup {NewEntry}] /\ now' = now
  BY DEF Allowed
<1>6. Cardinality(Recent(windows[w])) < Limit
  BY DEF Allowed, HasAllowance
<1> QED
  BY <1>2, <1>4, <1>5, <1>6

LEMMA InitIInv == Init => IInv
<1> SUFFICES ASSUME Init PROVE IInv
  OBVIOUS
<1>1. TypeOK
  BY RateLimitAssumption DEF Init, TypeOK
<1>2. WindowsTrue
  BY FS_EmptySet DEF Init, WindowsTrue, Recent
<1>3. BurstBounded
  <2> SUFFICES ASSUME NEW who \in Callers, NEW r \in Routes, NEW t \in 0..MaxTime
               PROVE  Cardinality(Within(who, r, t)) <= Limit
    BY DEF BurstBounded
  <2>1. Canonical[r] \in Routes
    BY RateLimitAssumption
  <2>2. Within(who, r, t) = {}
    BY <2>1 DEF Init, Within
  <2> QED
    BY <2>2, FS_EmptySet, RateLimitAssumption
<1> QED
  BY <1>1, <1>2, <1>3 DEF IInv

\* Time passes: what no longer counts is gone from both sides.
LEMMA ClockIInv == IInv /\ ClockTicks => IInv'
<1> SUFFICES ASSUME IInv, ClockTicks PROVE IInv'
  OBVIOUS
<1> USE DEF IInv
<1>1. TypeOK'
  BY RateLimitAssumption DEF ClockTicks, TypeOK
<1>2. WindowsTrue'
  <2> SUFFICES ASSUME NEW w \in Callers \X Routes
               PROVE  /\ IsFiniteSet(windows[w]) /\ IsFiniteSet(log[w])
                      /\ Recent(log[w])' = Recent(windows[w])'
                      /\ \A e \in log[w] : e.at <= now'
    BY DEF WindowsTrue, ClockTicks, Recent
  <2>1. /\ IsFiniteSet(windows[w]) /\ IsFiniteSet(log[w])
        /\ Recent(log[w]) = Recent(windows[w])
        /\ \A e \in log[w] : e.at <= now
    BY DEF WindowsTrue
  <2>2. now \in Nat /\ now' = now + 1 /\ windows' = windows /\ log' = log
    BY RateLimitAssumption DEF ClockTicks, TypeOK
  <2>3. \A e \in Entry : e.at \in Nat
    BY DEF Entry
  <2>4. windows[w] \subseteq Entry /\ log[w] \subseteq Entry
    BY DEF TypeOK
  <2>5. \A e \in log[w] : e.at <= now'
    BY <2>1, <2>2, <2>3, <2>4
  <2>6. \A e \in Entry : e.at + Window > now + 1 => e.at + Window > now
    BY <2>2, <2>3, RateLimitAssumption
  <2>7. Recent(log[w])' = Recent(windows[w])'
    BY <2>1, <2>2, <2>4, <2>6 DEF Recent
  <2> QED
    BY <2>1, <2>5, <2>7
<1>3. BurstBounded'
  BY DEF BurstBounded, Within, ClockTicks
<1> QED
  BY <1>1, <1>2, <1>3

\* Denied: only times that no longer count are dropped.
LEMMA DeniedIInv ==
    ASSUME IInv, NEW c \in Credentials, NEW r \in Routes, Denied(c, r)
    PROVE  IInv'
<1> USE DEF IInv
<1> DEFINE w == <<ResolveIdentityKey(c, r), ResolveRouteKey(r)>>
<1>0. w \in Callers \X Routes
  BY CallerType DEF Denied
<1>1. windows' = [windows EXCEPT ![w] = Recent(windows[w])] /\ UNCHANGED <<now, log, count>>
  BY DEF Denied
<1>2. TypeOK'
  <2>1. Recent(windows[w]) \subseteq Entry
    BY <1>0 DEF TypeOK, Recent
  <2> QED
    BY <1>0, <1>1, <2>1 DEF TypeOK
<1>3. WindowsTrue'
  <2> SUFFICES ASSUME NEW v \in Callers \X Routes
               PROVE  /\ IsFiniteSet(windows'[v]) /\ IsFiniteSet(log[v])
                      /\ Recent(log[v]) = Recent(windows'[v])
                      /\ \A e \in log[v] : e.at <= now
    BY <1>1 DEF WindowsTrue, Recent
  <2>1. /\ IsFiniteSet(windows[v]) /\ IsFiniteSet(log[v])
        /\ Recent(log[v]) = Recent(windows[v])
        /\ \A e \in log[v] : e.at <= now
    BY DEF WindowsTrue
  <2>2. Recent(windows[v]) \subseteq windows[v] /\ Recent(Recent(windows[v])) = Recent(windows[v])
    BY DEF Recent
  <2>3. windows'[v] \in {windows[v], Recent(windows[v])}
    BY <1>0, <1>1 DEF TypeOK
  <2> QED
    BY <2>1, <2>2, <2>3, FS_Subset
<1>4. BurstBounded'
  BY <1>1 DEF BurstBounded, Within
<1> QED
  BY <1>2, <1>3, <1>4

\* Allowed: the request enters the window and the history alike, and the window had room.
LEMMA AllowedIInv ==
    ASSUME IInv, NEW c \in Credentials, NEW r \in Routes, Allowed(c, r), count < MaxRequests
    PROVE  IInv'
<1> USE DEF IInv
<1>0. PICK w \in Callers \X Routes :
          /\ Cardinality(Recent(windows[w])) < Limit
          /\ windows' = [windows EXCEPT ![w] = Recent(windows[w]) \cup {NewEntry}]
          /\ log' = [log EXCEPT ![w] = log[w] \cup {NewEntry}]
          /\ now' = now /\ count' = count + 1
  BY AllowedStep
<1>1. NewEntry \in Entry /\ NewEntry.at = now /\ now \in Nat
  BY EntryType, RateLimitAssumption DEF NewEntry, TypeOK
<1>2. windows[w] \subseteq Entry /\ log[w] \subseteq Entry
  BY DEF TypeOK
<1>3. TypeOK'
  <2>1. Recent(windows[w]) \cup {NewEntry} \subseteq Entry /\ log[w] \cup {NewEntry} \subseteq Entry
    BY <1>1, <1>2 DEF Recent
  <2>2. count' \in 0..MaxRequests
    BY <1>0, RateLimitAssumption DEF TypeOK
  <2> QED
    BY <1>0, <2>1, <2>2 DEF TypeOK
<1>4. /\ IsFiniteSet(windows[w]) /\ IsFiniteSet(log[w])
      /\ Recent(log[w]) = Recent(windows[w])
      /\ \A e \in log[w] : e.at <= now
  BY DEF WindowsTrue
<1>5. IsFiniteSet(Recent(windows[w])) /\ Recent(windows[w]) \subseteq windows[w]
  <2>1. Recent(windows[w]) \subseteq windows[w]
    BY DEF Recent
  <2> QED
    BY <2>1, <1>4, FS_Subset
<1>6. Recent(log[w] \cup {NewEntry}) = Recent(windows[w]) \cup {NewEntry}
  <2>1. NewEntry.at + Window > now
    BY <1>1, RateLimitAssumption
  <2>2. Recent(log[w] \cup {NewEntry}) = Recent(log[w]) \cup {NewEntry}
    BY <2>1 DEF Recent
  <2> QED
    BY <2>2, <1>4
<1>7. WindowsTrue'
  <2> SUFFICES ASSUME NEW v \in Callers \X Routes
               PROVE  /\ IsFiniteSet(windows'[v]) /\ IsFiniteSet(log'[v])
                      /\ Recent(log'[v]) = Recent(windows'[v])
                      /\ \A e \in log'[v] : e.at <= now
    BY <1>0 DEF WindowsTrue, Recent
  <2>1. CASE v = w
    <3>1. windows'[v] = Recent(windows[w]) \cup {NewEntry} /\ log'[v] = log[w] \cup {NewEntry}
      BY <1>0, <2>1 DEF TypeOK
    <3>2. IsFiniteSet(windows'[v]) /\ IsFiniteSet(log'[v])
      <4>1. IsFiniteSet(Recent(windows[w]) \cup {NewEntry})
        BY <1>5, OneMore
      <4>2. IsFiniteSet(log[w] \cup {NewEntry})
        BY <1>4, OneMore
      <4> QED
        BY <3>1, <4>1, <4>2
    <3>3. Recent(Recent(windows[w]) \cup {NewEntry}) = Recent(windows[w]) \cup {NewEntry}
      BY <1>1, RateLimitAssumption DEF Recent
    <3>4. \A e \in log'[v] : e.at <= now
      BY <3>1, <1>1, <1>4
    <3> QED
      BY <3>1, <3>2, <3>3, <3>4, <1>6
  <2>2. CASE v # w
    <3>1. windows'[v] = windows[v] /\ log'[v] = log[v]
      BY <1>0, <2>2 DEF TypeOK
    <3> QED
      BY <3>1 DEF WindowsTrue
  <2> QED
    BY <2>1, <2>2
<1>8. BurstBounded'
  <2> SUFFICES ASSUME NEW who \in Callers, NEW q \in Routes, NEW t \in 0..MaxTime
               PROVE  Cardinality(Within(who, q, t)') <= Limit
    BY DEF BurstBounded
  <2> DEFINE v == <<who, Canonical[q]>>
  <2>0. v \in Callers \X Routes
    BY RateLimitAssumption
  <2>1. Cardinality(Within(who, q, t)) <= Limit
    BY DEF BurstBounded
  <2>2. CASE v # w
    <3>1. log'[v] = log[v]
      BY <1>0, <2>0, <2>2 DEF TypeOK
    <3>2. Within(who, q, t)' = Within(who, q, t)
      BY <3>1 DEF Within
    <3> QED
      BY <3>2, <2>1
  <2>3. CASE v = w /\ t < now
    <3>1. log'[v] = log[v] \cup {NewEntry}
      BY <1>0, <2>0, <2>3 DEF TypeOK
    <3>2. ~(NewEntry.at <= t)
      BY <2>3, <1>1
    <3>3. Within(who, q, t)' = Within(who, q, t)
      BY <3>1, <3>2 DEF Within
    <3> QED
      BY <3>3, <2>1
  <2>4. CASE v = w /\ ~(t < now)
    <3>1. log'[v] = log[w] \cup {NewEntry}
      BY <1>0, <2>0, <2>4 DEF TypeOK
    <3>2. \A e \in log[w] \cup {NewEntry} : t < e.at + Window => e.at + Window > now
      <4>1. \A e \in log[w] \cup {NewEntry} : e.at \in Nat
        BY <1>1, <1>2 DEF Entry
      <4> QED
        BY <4>1, <2>4, <1>1, RateLimitAssumption
    <3>3. Within(who, q, t)' \subseteq Recent(log[w] \cup {NewEntry})
      BY <3>1, <3>2 DEF Within, Recent
    <3>4. Within(who, q, t)' \subseteq Recent(windows[w]) \cup {NewEntry}
      BY <3>3, <1>6
    <3>5. /\ IsFiniteSet(Recent(windows[w]) \cup {NewEntry})
          /\ Cardinality(Recent(windows[w]) \cup {NewEntry}) <= Cardinality(Recent(windows[w])) + 1
      BY <1>5, OneMore
    <3>6. /\ IsFiniteSet(Within(who, q, t)')
          /\ Cardinality(Within(who, q, t)') <= Cardinality(Recent(windows[w]) \cup {NewEntry})
      BY <3>4, <3>5, FS_Subset
    <3>7. /\ Cardinality(Within(who, q, t)') \in Nat
          /\ Cardinality(Recent(windows[w]) \cup {NewEntry}) \in Nat
          /\ Cardinality(Recent(windows[w])) \in Nat
      BY <3>5, <3>6, <1>5, FS_CardinalityType
    <3> QED
      BY <3>5, <3>6, <3>7, <1>0, RateLimitAssumption
  <2> QED
    BY <2>2, <2>3, <2>4
<1> QED
  BY <1>3, <1>7, <1>8

LEMMA NextIInv == IInv /\ [Next]_vars => IInv'
<1> SUFFICES ASSUME IInv, [Next]_vars PROVE IInv'
  OBVIOUS
<1>1. CASE ClockTicks
  BY <1>1, ClockIInv
<1>2. CASE \E c \in Credentials, r \in Routes : Request(c, r)
  <2>1. PICK c \in Credentials, r \in Routes : Request(c, r)
    BY <1>2
  <2>2. CASE NotCounted(c, r)
    BY <2>2, SameCaller DEF NotCounted
  <2>3. CASE Denied(c, r)
    BY <2>3, DeniedIInv
  <2>4. CASE Allowed(c, r)
    BY <2>1, <2>4, AllowedIInv DEF Request
  <2> QED
    BY <2>1, <2>2, <2>3, <2>4 DEF Request
<1>3. CASE UNCHANGED vars
  BY <1>3 DEF vars, IInv, TypeOK, WindowsTrue, Recent, BurstBounded, Within
<1> QED
  BY <1>1, <1>2, <1>3 DEF Next

-----------------------------------------------------------------------------

\* For every limit and window, however requests are timed and whatever keys and tokens
\* they carry: _consume_rate_allowance lets no caller have more than Limit requests on a
\* route in any window of time, and every variable keeps its shape.
THEOREM LimitHolds == Spec => [](TypeOK /\ BurstBounded)
<1>1. IInv => TypeOK /\ BurstBounded
  BY DEF IInv
<1> QED
  BY InitIInv, NextIInv, <1>1, PTL DEF Spec

\* A caller is denied only after Limit requests of its own on the route in the window that
\* ends now: neither other callers nor denied requests nor older ones count.
THEOREM DenialsAreEarned == Spec => DenialEarned
<1>1. ASSUME IInv, NEW c \in Credentials, NEW r \in Routes, Denied(c, r)
      PROVE  Cardinality(Within(ResolveIdentityKey(c, r), r, now)) = Limit
  <2> USE <1>1 DEF IInv
  <2> DEFINE w == <<ResolveIdentityKey(c, r), ResolveRouteKey(r)>>
  <2>0. w \in Callers \X Routes /\ ResolveIdentityKey(c, r) \in Callers
    BY CallerType DEF Denied
  <2>1. now \in 0..MaxTime /\ log[w] \subseteq Entry
    BY <2>0 DEF TypeOK
  <2>2. Within(ResolveIdentityKey(c, r), r, now) = Recent(log[w])
    <3>1. \A e \in log[w] : e.at \in Nat /\ e.at <= now
      BY <2>0, <2>1 DEF WindowsTrue, Entry
    <3> QED
      BY <3>1, <2>1, RateLimitAssumption DEF Within, Recent, ResolveRouteKey
  <2>3. Recent(log[w]) = Recent(windows[w]) /\ IsFiniteSet(Recent(log[w]))
    <3>1. Recent(log[w]) \subseteq log[w]
      BY DEF Recent
    <3> QED
      BY <3>1, <2>0, FS_Subset DEF WindowsTrue
  <2>4. ~(Cardinality(Recent(windows[w])) < Limit)
    BY DEF Denied, HasAllowance
  <2>5. Cardinality(Within(ResolveIdentityKey(c, r), r, now)) <= Limit
    BY <2>0, <2>1 DEF BurstBounded
  <2>6. Cardinality(Recent(log[w])) \in Nat
    BY <2>3, FS_CardinalityType
  <2> QED
    BY <2>2, <2>3, <2>4, <2>5, <2>6, RateLimitAssumption
<1>2. IInv /\ [Next]_vars =>
          [\A c \in Credentials, r \in Routes : Denied(c, r) =>
               Cardinality(Within(ResolveIdentityKey(c, r), r, now)) = Limit]_vars
  BY <1>1
<1> QED
  BY InitIInv, NextIInv, <1>2, PTL DEF Spec, DenialEarned
-----------------------------------------------------------------------------
(* The public pages, for every number of matches, people and seats.  The  *)
(* inductive invariant says of every match that its row fits, and that     *)
(* what the page and those before it told was so once and the row has gone *)
(* on from there.                                                          *)

\* The rows of a match's players, and the ids of who may have won it.
PlayerRows(m) ==
    [who : Players, index : 1..MaxPlayers, alliance : {NoId, <<"alliance", m>>}]
WinnerIds(m) == {NoId, <<"alliance", m>>} \cup {<<"player", m, i>> : i \in 1..MaxPlayers}

RowShapes(m) ==
    [status : {"none", "lobby", "active", "completed"}, tick : Nat, overdrawn : BOOLEAN, players : SUBSET PlayerRows(m),
     updated : Nat, log : SUBSET Nat, winner : WinnerIds(m), won : SUBSET Players]

\* The seats are taken in turn, each by another competitor.
SeatsFit(r) ==
    /\ IsFiniteSet(r.players) /\ Cardinality(r.players) <= MaxPlayers
    /\ \A p \in r.players : p.index \in 1..Cardinality(r.players)
    /\ \A p, q \in r.players : p.who = q.who \/ p.index = q.index => p = q

\* The log has every tick, and the winner's id stands for those who won.
RowFits(m, r) ==
    /\ r \in RowShapes(m)
    /\ SeatsFit(r)
    /\ r.log = 1..r.tick
    /\ r.status = "none" => r.players = {} /\ r.tick = 0
    /\ r.overdrawn => r.status = "active"
    /\ r.status # "completed" => \A p \in r.players : p.alliance = NoId
    /\ r.status = "completed" => {p.who : p \in WinnerRows(m, r)} = r.won

\* One roster line before another, or the same.
Listed(c, d, r) ==
    \E p \in r.players : \E q \in r.players :
        c = Competitor(p) /\ d = Competitor(q) /\ (p = q \/ RosterBefore(p, q))

\* A roster lists players of the match in the order of the roster.
RosterFits(roster, r) ==
    \A i, j \in DOMAIN roster : i <= j => Listed(roster[i], roster[j], r)

Snapshot(t) == [status |-> t.status, tick |-> t.tick, count |-> t.count, roster |-> t.roster]

\* What a page said of a match was so once.
SnapFits(t, r) ==
    /\ t = Snapshot(t)
    /\ t.status \in DOMAIN Progress /\ Progress[t.status] <= Progress[r.status]
    /\ t.tick \in Nat /\ t.tick <= r.tick
    /\ t.count \in Nat /\ t.count <= Cardinality(r.players)
    /\ DOMAIN t.roster \subseteq Nat /\ RosterFits(t.roster, r)

RowsFit == DOMAIN row = MatchIds /\ \A m \in MatchIds : RowFits(m, row[m])

SeenFits == DOMAIN seen = MatchIds /\ \A m \in MatchIds : SnapFits(seen[m], row[m])

ToldFits(p) == \A m \in MatchIds : \A t \in Told(p, m) : t.status # "none" /\ SnapFits(t, row[m])

\* What is in the list of completed matches is completed, and a history is of a match's
\* first ticks.
PlaceFits(p) ==
    /\ p.kind = "completed" => \A s \in Range(p.rows) : s.id \in MatchIds /\ row[s.id].status = "completed"
    /\ p.kind = "history" =>
           /\ p.code = "ok" /\ p.id \in MatchIds
           /\ p.tick \in Nat /\ p.ticks = 1..p.tick /\ p.tick <= row[p.id].tick
    /\ p.kind = "replay" => p.code = "ok"

PagesInv ==
    /\ clock \in Nat
    /\ RowsFit
    /\ SeenFits
    /\ ToldFits(page)
    /\ PlaceFits(page)
    /\ NothingTakenBack
    /\ RosterWhole
    /\ WinnersNamed

-----------------------------------------------------------------------------
(* The lists, in their orders.                                             *)

RosterRanked(R) ==
    /\ IsFiniteSet(R)
    /\ \A p \in R : p.who \in Players /\ p.index \in Nat
    /\ \A p, q \in R : p.index = q.index => p = q

LEMMA RosterOrder ==
    ASSUME PublicReadsAssumption, NEW R, RosterRanked(R)
    PROVE  /\ \A p \in R : ~RosterBefore(p, p)
           /\ \A p, q \in R : p # q => RosterBefore(p, q) \/ RosterBefore(q, p)
           /\ \A p, q, o \in R : RosterBefore(p, q) /\ RosterBefore(q, o) => RosterBefore(p, o)
<1>1. \A p \in R : Name[p.who] \in Nat /\ p.index \in Nat
  BY DEF RosterRanked, PublicReadsAssumption
<1> QED BY <1>1 DEF RosterBefore, RosterRanked

LEMMA SortedRoster ==
    ASSUME PublicReadsAssumption, NEW R, RosterRanked(R)
    PROVE  LET s == InOrder(R, RosterBefore)
           IN  Lists(s, R) /\ \A i, j \in 1..Cardinality(R) : i < j => RosterBefore(s[i], s[j])
<1> DEFINE ahead == [q \in R |-> {p \in R : RosterBefore(p, q)}]
           s == InOrder(R, RosterBefore)
<1>1. IsFiniteSet(R)
  BY DEF RosterRanked
<1>2. /\ \A p \in R : ~RosterBefore(p, p)
      /\ \A p, q \in R : p # q => RosterBefore(p, q) \/ RosterBefore(q, p)
      /\ \A p, q, o \in R : RosterBefore(p, q) /\ RosterBefore(q, o) => RosterBefore(p, o)
  BY RosterOrder
<1>3. \A p, q \in R : p \in ahead[q] <=> RosterBefore(p, q)
  OBVIOUS
<1>4. \A q \in R : ahead[q] \subseteq R
  OBVIOUS
<1>5. Ranks(ahead, R)
  <2> HIDE DEF ahead
  <2> QED BY <1>2, <1>3, <1>4 DEF Ranks
<1> HIDE DEF ahead
<1>6. \E t \in [1..Cardinality(R) -> R] : \A i, j \in 1..Cardinality(R) : i < j => t[i] \in ahead[t[j]]
  BY <1>1, <1>5, RankedList
<1>7. \E t \in [1..Cardinality(R) -> R] : \A i, j \in 1..Cardinality(R) : i < j => RosterBefore(t[i], t[j])
  BY <1>3, <1>6
<1>8. s \in [1..Cardinality(R) -> R] /\ \A i, j \in 1..Cardinality(R) : i < j => RosterBefore(s[i], s[j])
  BY <1>7, Zenon DEF InOrder
<1> HIDE DEF s
<1>9. \A i, j \in 1..Cardinality(R) : i < j => s[i] \in ahead[s[j]]
  BY <1>3, <1>8
<1>10. Lists(s, R)
  BY <1>1, <1>5, <1>8, <1>9, ListHasAll
<1> QED BY <1>8, <1>10 DEF s

LEMMA SortedBrowse ==
    ASSUME PublicReadsAssumption, RowsFit
    PROVE  Lists(InOrder(PublicMatches, BrowseBefore), PublicMatches)
<1> DEFINE S == PublicMatches
           ahead == [n \in S |-> {m \in S : BrowseBefore(m, n)}]
           s == InOrder(S, BrowseBefore)
<1>1. IsFiniteSet(S) /\ \A m \in S : m \in Nat /\ row[m].updated \in Nat /\ row[m].tick \in Nat
                                     /\ StatusPriority(row[m].status) \in Nat
  BY FS_Subset DEF PublicMatches, PublicReadsAssumption, RowsFit, RowFits, RowShapes, StatusPriority
<1> HIDE DEF S
<1>2. /\ \A p \in S : ~BrowseBefore(p, p)
      /\ \A p, q \in S : p # q => BrowseBefore(p, q) \/ BrowseBefore(q, p)
      /\ \A p, q, o \in S : BrowseBefore(p, q) /\ BrowseBefore(q, o) => BrowseBefore(p, o)
  BY <1>1 DEF BrowseBefore
<1>3. \A p, q \in S : p \in ahead[q] <=> BrowseBefore(p, q)
  OBVIOUS
<1>4. \A q \in S : ahead[q] \subseteq S
  OBVIOUS
<1>5. Ranks(ahead, S)
  <2> HIDE DEF ahead
  <2> QED BY <1>2, <1>3, <1>4 DEF Ranks
<1> HIDE DEF ahead
<1>6. \E t \in [1..Cardinality(S) -> S] : \A i, j \in 1..Cardinality(S) : i < j => t[i] \in ahead[t[j]]
  BY <1>1, <1>5, RankedList
<1>7. \E t \in [1..Cardinality(S) -> S] : \A i, j \in 1..Cardinality(S) : i < j => BrowseBefore(t[i], t[j])
  BY <1>3, <1>6
<1>8. s \in [1..Cardinality(S) -> S] /\ \A i, j \in 1..Cardinality(S) : i < j => BrowseBefore(s[i], s[j])
  BY <1>7, Zenon DEF InOrder
<1> HIDE DEF s
<1>9. \A i, j \in 1..Cardinality(S) : i < j => s[i] \in ahead[s[j]]
  BY <1>3, <1>8
<1>10. Lists(s, S)
  BY <1>1, <1>5, <1>8, <1>9, ListHasAll
<1> QED BY <1>10 DEF s, S

LEMMA SortedCompleted ==
    ASSUME PublicReadsAssumption, RowsFit
    PROVE  Lists(InOrder(CompletedMatches, CompletedBefore), CompletedMatches)
<1> DEFINE S == CompletedMatches
           ahead == [n \in S |-> {m \in S : CompletedBefore(m, n)}]
           s == InOrder(S, CompletedBefore)
<1>1. IsFiniteSet(S) /\ \A m \in S : m \in Nat /\ row[m].updated \in Nat /\ row[m].tick \in Nat
  BY FS_Subset DEF CompletedMatches, PublicReadsAssumption, RowsFit, RowFits, RowShapes
<1> HIDE DEF S
<1>2. /\ \A p \in S : ~CompletedBefore(p, p)
      /\ \A p, q \in S : p # q => CompletedBefore(p, q) \/ CompletedBefore(q, p)
      /\ \A p, q, o \in S : CompletedBefore(p, q) /\ CompletedBefore(q, o) => CompletedBefore(p, o)
  BY <1>1 DEF CompletedBefore
<1>3. \A p, q \in S : p \in ahead[q] <=> CompletedBefore(p, q)
  OBVIOUS
<1>4. \A q \in S : ahead[q] \subseteq S
  OBVIOUS
<1>5. Ranks(ahead, S)
  <2> HIDE DEF ahead
  <2> QED BY <1>2, <1>3, <1>4 DEF Ranks
<1> HIDE DEF ahead
<1>6. \E t \in [1..Cardinality(S) -> S] : \A i, j \in 1..Cardinality(S) : i < j => t[i] \in ahead[t[j]]
  BY <1>1, <1>5, RankedList
<1>7. \E t \in [1..Cardinality(S) -> S] : \A i, j \in 1..Cardinality(S) : i < j => CompletedBefore(t[i], t[j])
  BY <1>3, <1>6
<1>8. s \in [1..Cardinality(S) -> S] /\ \A i, j \in 1..Cardinality(S) : i < j => CompletedBefore(s[i], s[j])
  BY <1>7, Zenon DEF InOrder
<1> HIDE DEF s
<1>9. \A i, j \in 1..Cardinality(S) : i < j => s[i] \in ahead[s[j]]
  BY <1>3, <1>8
<1>10. Lists(s, S)
  BY <1>1, <1>5, <1>8, <1>9, ListHasAll
<1> QED BY <1>10 DEF s, S

-----------------------------------------------------------------------------
(* Rosters.                                                                *)

\* L is the roster of the rows of R.
IsRoster(L, R) ==
    /\ DOMAIN L = 1..Cardinality(R) /\ Len(L) = Cardinality(R)
    /\ \A i, j \in DOMAIN L : i <= j =>
           \E p \in R : \E q \in R : /\ L[i] = Competitor(p) /\ L[j] = Competitor(q)
                                     /\ p = q \/ RosterBefore(p, q)
    /\ \A p, q \in R : p = q \/ RosterBefore(p, q) =>
           \E k, l \in DOMAIN L : k <= l /\ L[k] = Competitor(p) /\ L[l] = Competitor(q)

LEMMA RosterMade ==
    ASSUME PublicReadsAssumption, NEW R, RosterRanked(R)
    PROVE  IsRoster(CompetitorSummaries(R), R)
<1> DEFINE s == InOrder(R, RosterBefore)
           L == [i \in DOMAIN s |-> Competitor(s[i])]
           n == Cardinality(R)
<1>1. Lists(s, R) /\ \A i, j \in 1..n : i < j => RosterBefore(s[i], s[j])
  BY SortedRoster
<1>2. n \in Nat
  BY FS_CardinalityType DEF RosterRanked
<1>3. CompetitorSummaries(R) = L
  BY DEF CompetitorSummaries
<1> HIDE DEF s, n
<1>4. s \in [1..n -> R] /\ \A p \in R : \E i \in 1..n : s[i] = p
  BY <1>1 DEF Lists, n
<1>5. DOMAIN L = 1..n /\ \A i \in 1..n : L[i] = Competitor(s[i])
  BY <1>4
<1>6. L \in Seq({Competitor(p) : p \in R})
  BY <1>2, <1>4
<1> HIDE DEF L
<1>7. Len(L) = n
  BY <1>2, <1>5, <1>6
<1>8. ASSUME NEW i \in DOMAIN L, NEW j \in DOMAIN L, i <= j
      PROVE  \E p \in R : \E q \in R : /\ L[i] = Competitor(p) /\ L[j] = Competitor(q)
                                       /\ p = q \/ RosterBefore(p, q)
  <2>0. i \in 1..n /\ j \in 1..n
    BY <1>5
  <2>1. s[i] \in R /\ s[j] \in R
    BY <1>4, <2>0
  <2>2. s[i] = s[j] \/ RosterBefore(s[i], s[j])
    BY <1>1, <1>2, <1>8, <2>0
  <2> QED BY <1>5, <2>0, <2>1, <2>2
<1>9. ASSUME NEW p \in R, NEW q \in R, p = q \/ RosterBefore(p, q)
      PROVE  \E k, l \in DOMAIN L : k <= l /\ L[k] = Competitor(p) /\ L[l] = Competitor(q)
  <2>1. PICK k \in 1..n : s[k] = p
    BY <1>4
  <2>2. PICK l \in 1..n : s[l] = q
    BY <1>4
  <2>3. CASE p = q
    BY <1>2, <1>5, <2>1, <2>3
  <2>4. CASE p # q
    <3>1. ~RosterBefore(q, p)
      BY <1>9, <2>4, RosterOrder
    <3>2. ~(l < k)
      BY <1>1, <2>1, <2>2, <3>1
    <3>3. k <= l
      BY <1>2, <3>2
    <3> QED BY <1>5, <2>1, <2>2, <3>3
  <2> QED BY <2>3, <2>4
<1>10. /\ \A i, j \in DOMAIN L : i <= j =>
              \E p \in R : \E q \in R : /\ L[i] = Competitor(p) /\ L[j] = Competitor(q)
                                        /\ p = q \/ RosterBefore(p, q)
       /\ \A p, q \in R : p = q \/ RosterBefore(p, q) =>
              \E k, l \in DOMAIN L : k <= l /\ L[k] = Competitor(p) /\ L[l] = Competitor(q)
  <2>1. \A i, j \in DOMAIN L : i <= j =>
            \E p \in R : \E q \in R : /\ L[i] = Competitor(p) /\ L[j] = Competitor(q)
                                      /\ p = q \/ RosterBefore(p, q)
    BY <1>8, Zenon
  <2> QED BY <1>9, <2>1, Zenon
<1>11. IsRoster(L, R)
  BY <1>5, <1>7, <1>10, Zenon DEF IsRoster, n
<1> QED BY <1>3, <1>11

\* The competitors of a roster are those of its rows.
LEMMA RosterNames ==
    ASSUME NEW R, NEW L, IsRoster(L, R)
    PROVE  {c.who : c \in Range(L)} = {p.who : p \in R}
<1>1. ASSUME NEW i \in DOMAIN L PROVE \E p \in R : L[i].who = p.who
  <2>1. PICK p \in R : L[i] = Competitor(p)
    BY DEF IsRoster
  <2> QED BY <2>1 DEF Competitor
<1>2. ASSUME NEW p \in R PROVE \E i \in DOMAIN L : L[i].who = p.who
  <2>1. PICK k \in DOMAIN L : L[k] = Competitor(p)
    BY DEF IsRoster
  <2> QED BY <2>1 DEF Competitor
<1> QED BY <1>1, <1>2 DEF Range

\* The rows of a match make a roster.
LEMMA PlayersRanked ==
    ASSUME NEW m \in MatchIds, NEW r, RowFits(m, r), NEW R \in SUBSET r.players
    PROVE  RosterRanked(R)
<1>1. IsFiniteSet(R)
  BY FS_Subset DEF RowFits, SeatsFit
<1>2. \A p \in R : p.who \in Players /\ p.index \in Nat
  BY DEF RowFits, RowShapes, PlayerRows
<1> QED BY <1>1, <1>2 DEF RosterRanked, RowFits, SeatsFit

\* A page fresh from the row after one that was so once.
Fresh(t, r) ==
    /\ t = Snapshot(t)
    /\ t.status = r.status /\ t.tick = r.tick /\ t.count = Cardinality(r.players)
    /\ t.roster = <<>> \/ IsRoster(t.roster, r.players)

LEMMA FreshFits ==
    ASSUME NEW m \in MatchIds, NEW r, RowFits(m, r), NEW t, Fresh(t, r)
    PROVE  SnapFits(t, r)
<1>1. r.tick \in Nat /\ Cardinality(r.players) \in Nat /\ r.status \in DOMAIN Progress
  BY FS_CardinalityType DEF RowFits, RowShapes, SeatsFit, Progress
<1>2. Progress[r.status] <= Progress[r.status]
  BY <1>1 DEF Progress
<1>3. DOMAIN t.roster \subseteq Nat /\ RosterFits(t.roster, r)
  BY <1>1 DEF Fresh, IsRoster, RosterFits, Listed
<1> QED BY <1>1, <1>2, <1>3 DEF Fresh, SnapFits

\* What NothingTakenBack asks of two pages.
Forward(old, t) ==
    /\ Progress[t.status] >= Progress[old.status]
    /\ t.tick >= old.tick /\ t.count >= old.count
    /\ t.roster # <<>> => Continues(t.roster, old.roster)

LEMMA FreshForward ==
    ASSUME NEW r, NEW old, SnapFits(old, r), NEW t, Fresh(t, r), r.tick \in Nat,
           Cardinality(r.players) \in Nat, r.status \in DOMAIN Progress
    PROVE  Forward(old, t)
<1>1. Progress[t.status] >= Progress[old.status] /\ t.tick >= old.tick /\ t.count >= old.count
  BY DEF Fresh, SnapFits, Progress
<1>2. ASSUME t.roster # <<>>, NEW i \in DOMAIN old.roster, NEW j \in DOMAIN old.roster, i <= j
      PROVE  \E k, l \in DOMAIN t.roster : k <= l /\ t.roster[k] = old.roster[i] /\ t.roster[l] = old.roster[j]
  <2>1. Listed(old.roster[i], old.roster[j], r)
    BY <1>2 DEF SnapFits, RosterFits
  <2>2. IsRoster(t.roster, r.players)
    BY <1>2 DEF Fresh
  <2>3. PICK p \in r.players : \E q \in r.players :
            /\ old.roster[i] = Competitor(p) /\ old.roster[j] = Competitor(q)
            /\ p = q \/ RosterBefore(p, q)
    BY <2>1 DEF Listed
  <2>4. PICK q \in r.players :
            /\ old.roster[i] = Competitor(p) /\ old.roster[j] = Competitor(q)
            /\ p = q \/ RosterBefore(p, q)
    BY <2>3
  <2>5. \E k, l \in DOMAIN t.roster :
            k <= l /\ t.roster[k] = Competitor(p) /\ t.roster[l] = Competitor(q)
    BY <2>2, <2>4, Zenon DEF IsRoster
  <2> QED BY <2>4, <2>5
<1>3. t.roster # <<>> => Continues(t.roster, old.roster)
  BY <1>2 DEF Continues
<1> QED BY <1>1, <1>3 DEF Forward

-----------------------------------------------------------------------------
(* Rows only go on.                                                        *)

Later(s, r) ==
    /\ Progress[r.status] <= Progress[s.status] /\ r.tick <= s.tick
    /\ Cardinality(r.players) <= Cardinality(s.players)
    /\ \A p \in r.players : \E q \in s.players : q.who = p.who /\ q.index = p.index

LEMMA SnapLater ==
    ASSUME NEW m \in MatchIds, NEW r, RowFits(m, r), NEW s, RowFits(m, s), Later(s, r),
           NEW t, SnapFits(t, r)
    PROVE  SnapFits(t, s)
<1>1. /\ r.tick \in Nat /\ Cardinality(r.players) \in Nat /\ r.status \in DOMAIN Progress
      /\ s.tick \in Nat /\ Cardinality(s.players) \in Nat /\ s.status \in DOMAIN Progress
  BY FS_CardinalityType DEF RowFits, RowShapes, SeatsFit, Progress
<1>2. Progress[t.status] <= Progress[s.status]
  BY <1>1 DEF SnapFits, Later, Progress
<1>3. t.tick <= s.tick /\ t.count <= Cardinality(s.players)
  BY <1>1 DEF SnapFits, Later
<1>4. ASSUME NEW c, NEW d, Listed(c, d, r) PROVE Listed(c, d, s)
  <2>1. PICK p \in r.players : \E q \in r.players :
            c = Competitor(p) /\ d = Competitor(q) /\ (p = q \/ RosterBefore(p, q))
    BY <1>4 DEF Listed
  <2>2. PICK q \in r.players : c = Competitor(p) /\ d = Competitor(q) /\ (p = q \/ RosterBefore(p, q))
    BY <2>1
  <2>3. PICK x \in s.players : x.who = p.who /\ x.index = p.index
    BY DEF Later
  <2>4. PICK y \in s.players : y.who = q.who /\ y.index = q.index
    BY DEF Later
  <2>5. Competitor(x) = Competitor(p) /\ Competitor(y) = Competitor(q)
    BY <2>3, <2>4 DEF Competitor
  <2>6. p = q => x = y
    BY <2>3, <2>4 DEF RowFits, SeatsFit
  <2>7. RosterBefore(p, q) => RosterBefore(x, y)
    BY <2>3, <2>4 DEF RosterBefore
  <2> QED BY <2>2, <2>5, <2>6, <2>7 DEF Listed
<1>5. RosterFits(t.roster, s)
  BY <1>4 DEF SnapFits, RosterFits
<1> QED BY <1>2, <1>3, <1>5 DEF SnapFits

LEMMA SameLater == ASSUME NEW m \in MatchIds, NEW r, RowFits(m, r) PROVE Later(r, r)
<1>1. r.tick \in Nat /\ Cardinality(r.players) \in Nat /\ r.status \in DOMAIN Progress
  BY FS_CardinalityType DEF RowFits, RowShapes, SeatsFit, Progress
<1> QED BY <1>1 DEF Later, Progress

\* A write that lets a row go on keeps the invariant, for the page is as old as it was.
LEMMA WriteKeeps ==
    ASSUME PagesInv, NEW m \in MatchIds, NEW r, Write(m, r), RowFits(m, r), Later(r, row[m]),
           row[m].status # "completed", clock' \in Nat
    PROVE  PagesInv'
<1>1. row' = [row EXCEPT ![m] = r] /\ page' = page /\ seen' = seen
  BY DEF Write
<1>2. DOMAIN row = MatchIds /\ \A n \in MatchIds : RowFits(n, row[n])
  BY DEF PagesInv, RowsFit
<1>3. /\ DOMAIN row' = MatchIds /\ row'[m] = r
      /\ \A n \in MatchIds : n # m => row'[n] = row[n]
  BY <1>1, <1>2
<1>4. \A n \in MatchIds : RowFits(n, row'[n]) /\ Later(row'[n], row[n])
  BY <1>2, <1>3, SameLater
<1>5. RowsFit'
  BY <1>3, <1>4 DEF RowsFit
<1>6. \A n \in MatchIds : \A t : SnapFits(t, row[n]) => SnapFits(t, row'[n])
  BY <1>2, <1>4, SnapLater
<1>7. SeenFits'
  BY <1>1, <1>6 DEF PagesInv, SeenFits
<1>8. ToldFits(page)'
  <2>1. ASSUME NEW n \in MatchIds, NEW t \in Told(page, n)
        PROVE  t.status # "none" /\ SnapFits(t, row'[n])
    BY <1>6 DEF PagesInv, ToldFits
  <2> QED BY <1>1, <2>1 DEF ToldFits
<1>9. ASSUME NEW n \in MatchIds, row[n].status = "completed" PROVE row'[n] = row[n]
  BY <1>3, <1>9
<1>10. PlaceFits(page)'
  <2>1. ASSUME page.kind = "completed", NEW s \in Range(page.rows)
        PROVE  s.id \in MatchIds /\ row'[s.id].status = "completed"
    BY <1>9, <2>1 DEF PagesInv, PlaceFits
  <2>2. ASSUME page.kind = "history"
        PROVE  /\ page.code = "ok" /\ page.id \in MatchIds
               /\ page.tick \in Nat /\ page.ticks = 1..page.tick /\ page.tick <= row'[page.id].tick
    <3>1. /\ page.code = "ok" /\ page.id \in MatchIds
          /\ page.tick \in Nat /\ page.ticks = 1..page.tick /\ page.tick <= row[page.id].tick
      BY <2>2 DEF PagesInv, PlaceFits
    <3>2. /\ row[page.id].tick <= row'[page.id].tick
          /\ row[page.id].tick \in Nat /\ row'[page.id].tick \in Nat
      BY <1>2, <1>4, <3>1 DEF Later, RowFits, RowShapes
    <3> QED BY <3>1, <3>2
  <2> QED BY <1>1, <2>1, <2>2 DEF PagesInv, PlaceFits
<1>11. NothingTakenBack' /\ RosterWhole'
  BY <1>1 DEF PagesInv, NothingTakenBack, RosterWhole
<1>12. WinnersNamed'
  <2>1. ASSUME page.kind = "completed", NEW s \in Range(page.rows)
        PROVE  {c.who : c \in Range(s.winners)} = row'[s.id].won
    <3>1. s.id \in MatchIds /\ row[s.id].status = "completed"
      BY <2>1 DEF PagesInv, PlaceFits
    <3>2. {c.who : c \in Range(s.winners)} = row[s.id].won
      BY <2>1 DEF PagesInv, WinnersNamed
    <3> QED BY <1>9, <3>1, <3>2
  <2> QED BY <1>1, <2>1 DEF WinnersNamed
<1> QED BY <1>5, <1>7, <1>8, <1>10, <1>11, <1>12 DEF PagesInv

-----------------------------------------------------------------------------
(* The writes.                                                             *)

LEMMA NewRow ==
    ASSUME NEW m, NEW u \in Nat, NEW P \in SUBSET PlayerRows(m), NEW r,
           r = [NoRow EXCEPT !.status = "lobby", !.updated = u, !.players = P]
    PROVE  /\ r \in RowShapes(m)
           /\ r.status = "lobby" /\ r.tick = 0 /\ r.players = P /\ r.log = {} /\ ~r.overdrawn
<1>1. NoRow \in RowShapes(m)
  BY DEF NoRow, RowShapes, WinnerIds
<1>2. NoRow.tick = 0 /\ NoRow.log = {} /\ ~NoRow.overdrawn
  BY DEF NoRow
<1>3. /\ r.status = "lobby" /\ r.tick = NoRow.tick /\ r.players = P /\ r.log = NoRow.log
      /\ r.overdrawn = NoRow.overdrawn
  BY <1>1 DEF RowShapes
<1>4. r \in RowShapes(m)
  BY <1>1 DEF RowShapes
<1> QED BY <1>2, <1>3, <1>4

LEMMA CreateKeeps ==
    ASSUME PublicReadsAssumption, PagesInv, NEW m \in MatchIds, NEW c \in Players, CreateMatch(m, c)
    PROVE  PagesInv'
<1> DEFINE p == PlayerRow(c, 1)
           r == [NoRow EXCEPT !.status = "lobby", !.updated = clock', !.players = {p}]
<1>1. clock' \in Nat
  BY DEF PagesInv, CreateMatch, Passes
<1>2. RowFits(m, row[m]) /\ row[m].status = "none"
  BY DEF PagesInv, RowsFit, CreateMatch
<1>4. p = [who |-> c, index |-> 1, alliance |-> NoId]
  BY DEF PlayerRow
<1> HIDE DEF p
<1>5. IsFiniteSet({p}) /\ Cardinality({p}) = 1
  BY FS_Singleton
<1>6. MaxPlayers \in Nat /\ 1 <= MaxPlayers
  BY DEF PublicReadsAssumption
<1>7. p \in PlayerRows(m)
  BY <1>4, <1>6 DEF PlayerRows
<1>3. /\ r \in RowShapes(m)
      /\ r.status = "lobby" /\ r.tick = 0 /\ r.players = {p} /\ r.log = {} /\ ~r.overdrawn
  <2>1. {p} \in SUBSET PlayerRows(m)
    BY <1>7
  <2> QED BY <1>1, <2>1, NewRow
<1> HIDE DEF r
<1>8. r \in RowShapes(m)
  BY <1>3
<1>9. SeatsFit(r)
  <2>1. r.players = {p}
    BY <1>3
  <2>2. p.index \in 1..1
    BY <1>4
  <2> QED BY <1>5, <1>6, <2>1, <2>2 DEF SeatsFit
<1>10. r.log = 1..r.tick
  BY <1>3
<1>11. RowFits(m, r)
  BY <1>3, <1>4, <1>8, <1>9, <1>10 DEF RowFits
<1>12. Later(r, row[m])
  <2>1. row[m].players = {} /\ row[m].tick = 0
    BY <1>2 DEF RowFits
  <2>2. Cardinality(row[m].players) = 0 /\ Cardinality(r.players) = 1
    BY <1>3, <1>5, <2>1, FS_EmptySet
  <2> QED BY <1>2, <1>3, <2>1, <2>2 DEF Later, Progress
<1>13. Write(m, r)
  BY DEF CreateMatch, r, p
<1> QED BY <1>1, <1>2, <1>11, <1>12, <1>13, WriteKeeps

LEMMA JoinKeeps ==
    ASSUME PublicReadsAssumption, PagesInv, NEW m \in MatchIds, NEW c \in Players, JoinMatch(m, c)
    PROVE  PagesInv'
<1> DEFINE w == row[m]
           n == Cardinality(w.players)
           p == PlayerRow(c, n + 1)
           r == [w EXCEPT !.players = @ \cup {p}]
<1>1. clock' \in Nat
  BY DEF PagesInv, JoinMatch
<1>2. RowFits(m, w) /\ w.status = "lobby" /\ n < MaxPlayers /\ c \notin {q.who : q \in w.players}
  BY DEF PagesInv, RowsFit, JoinMatch
<1>3. Write(m, r)
  BY DEF JoinMatch, JoinIndex
<1>4. p = [who |-> c, index |-> n + 1, alliance |-> NoId]
  BY DEF PlayerRow
<1> HIDE DEF w, p
<1>5. w \in RowShapes(m) /\ IsFiniteSet(w.players) /\ w.players \in SUBSET PlayerRows(m)
  BY <1>2 DEF RowFits, RowShapes, SeatsFit
<1>6. n \in Nat /\ MaxPlayers \in Nat
  BY <1>5, FS_CardinalityType DEF PublicReadsAssumption
<1>7. p \in PlayerRows(m)
  BY <1>2, <1>4, <1>6 DEF PlayerRows
<1>8. /\ r \in RowShapes(m)
      /\ r.status = w.status /\ r.tick = w.tick /\ r.players = w.players \cup {p} /\ r.log = w.log
      /\ r.overdrawn = w.overdrawn
  BY <1>5, <1>7 DEF RowShapes
<1> HIDE DEF r
<1>9. /\ p \notin w.players /\ \A q \in w.players : q.who # p.who /\ q.index # p.index
  <2>1. \A q \in w.players : q.who # c /\ q.index \in 1..n
    BY <1>2 DEF RowFits, SeatsFit
  <2> QED BY <1>4, <1>6, <2>1
<1>10. IsFiniteSet(r.players) /\ Cardinality(r.players) = n + 1
  <2> DEFINE R == w.players
  <2>1. IsFiniteSet(R) /\ p \notin R /\ r.players = R \cup {p} /\ n = Cardinality(R)
    BY <1>5, <1>8, <1>9
  <2> HIDE DEF R
  <2>2. IsFiniteSet(R \cup {p}) /\ Cardinality(R \cup {p}) = Cardinality(R) + 1
    BY <2>1, FS_AddElement
  <2> QED BY <2>1, <2>2
<1>11. SeatsFit(r)
  <2>1. ASSUME NEW q \in r.players PROVE q.index \in 1..(n + 1)
    <3>1. CASE q = p
      BY <1>4, <1>6, <3>1
    <3>2. CASE q \in w.players
      <4>1. q.index \in 1..n
        BY <1>2, <3>2 DEF RowFits, SeatsFit
      <4> QED BY <1>6, <4>1
    <3> QED BY <1>8, <3>1, <3>2
  <2>2. \A x, y \in r.players : x.who = y.who \/ x.index = y.index => x = y
    BY <1>2, <1>8, <1>9 DEF RowFits, SeatsFit
  <2> HIDE DEF n
  <2>3. n + 1 <= MaxPlayers
    BY <1>2, <1>6
  <2> QED BY <1>10, <2>1, <2>2, <2>3 DEF SeatsFit
<1>12. RowFits(m, r)
  <2>1. \A q \in r.players : q.alliance = NoId
    BY <1>2, <1>4, <1>8 DEF RowFits
  <2> QED BY <1>2, <1>8, <1>11, <2>1 DEF RowFits
<1>13. Later(r, w)
  <2>1. Cardinality(w.players) <= Cardinality(r.players)
    BY <1>6, <1>10
  <2>2. w.tick <= r.tick
    BY <1>5, <1>8 DEF RowShapes
  <2> QED BY <1>2, <1>8, <2>1, <2>2 DEF Later, Progress
<1>14. row[m].status # "completed" /\ Later(r, row[m])
  BY <1>2, <1>13 DEF w
<1> QED BY <1>1, <1>3, <1>12, <1>14, WriteKeeps

LEMMA StartKeeps ==
    ASSUME PublicReadsAssumption, PagesInv, NEW m \in MatchIds, StartMatch(m)
    PROVE  PagesInv'
<1> DEFINE w == row[m]
           r == [w EXCEPT !.status = "active"]
<1>1. clock' \in Nat
  BY DEF PagesInv, StartMatch
<1>2. RowFits(m, w) /\ w.status = "lobby"
  BY DEF PagesInv, RowsFit, StartMatch
<1>3. Write(m, r)
  BY DEF StartMatch
<1> HIDE DEF w
<1>4. w \in RowShapes(m)
  BY <1>2 DEF RowFits
<1>5. /\ r \in RowShapes(m)
      /\ r.status = "active" /\ r.tick = w.tick /\ r.players = w.players /\ r.log = w.log
      /\ r.overdrawn = w.overdrawn
  BY <1>4 DEF RowShapes
<1> HIDE DEF r
<1>6. SeatsFit(r)
  BY <1>2, <1>5 DEF RowFits, SeatsFit
<1>7. RowFits(m, r)
  BY <1>2, <1>5, <1>6 DEF RowFits
<1>8. Later(r, w)
  <2>1. w.tick \in Nat /\ Cardinality(w.players) \in Nat
    BY <1>2, FS_CardinalityType DEF RowFits, RowShapes, SeatsFit
  <2> QED BY <1>2, <1>5, <2>1 DEF Later, Progress
<1>9. row[m].status # "completed" /\ Later(r, row[m])
  BY <1>2, <1>8 DEF w
<1> QED BY <1>1, <1>3, <1>7, <1>9, WriteKeeps

\* A tick's log entry is the next one.
LEMMA LogNext == \A n \in Nat : 1..(n + 1) = (1..n) \cup {n + 1}
OBVIOUS

LEMMA LoggedFits ==
    ASSUME NEW m \in MatchIds, NEW w, RowFits(m, w), NEW o \in BOOLEAN
    PROVE  /\ Logged(w, o) \in RowShapes(m)
           /\ Logged(w, o).status = w.status /\ Logged(w, o).tick = w.tick + 1
           /\ Logged(w, o).players = w.players /\ Logged(w, o).log = 1..(w.tick + 1)
           /\ Logged(w, o).overdrawn = o /\ w.tick \in Nat
<1>1. w \in RowShapes(m) /\ w.log = 1..w.tick
  BY DEF RowFits
<1>2. w.tick \in Nat
  BY <1>1 DEF RowShapes
<1>3. w.log \cup {w.tick + 1} = 1..(w.tick + 1)
  BY <1>1, <1>2, LogNext
<1>4. /\ Logged(w, o).status = w.status /\ Logged(w, o).tick = w.tick + 1
      /\ Logged(w, o).players = w.players /\ Logged(w, o).log = w.log \cup {w.tick + 1}
      /\ Logged(w, o).overdrawn = o
  BY <1>1 DEF Logged, RowShapes
<1>5. Logged(w, o) \in RowShapes(m)
  <2> DEFINE t == w.tick + 1
             lines == w.log \cup {w.tick + 1}
  <2>1. t \in Nat /\ lines \in SUBSET Nat
    BY <1>1, <1>2 DEF RowShapes
  <2>2. Logged(w, o) = [w EXCEPT !.tick = t, !.log = lines, !.overdrawn = o]
    BY DEF Logged
  <2> HIDE DEF t, lines
  <2>3. [w EXCEPT !.tick = t, !.log = lines, !.overdrawn = o] \in RowShapes(m)
    BY <1>1, <2>1 DEF RowShapes
  <2> QED BY <2>2, <2>3
<1> QED BY <1>2, <1>3, <1>4, <1>5

LEMMA TickKeeps ==
    ASSUME PublicReadsAssumption, PagesInv, NEW m \in MatchIds, Tick(m)
    PROVE  PagesInv'
<1> PICK o \in BOOLEAN : Write(m, Logged(row[m], o))
  BY DEF Tick
<1> DEFINE w == row[m]
           r == Logged(w, o)
<1>1. clock' \in Nat
  BY DEF PagesInv, Tick
<1>2. RowFits(m, w) /\ w.status = "active"
  BY DEF PagesInv, RowsFit, Tick
<1>3. Write(m, r)
  OBVIOUS
<1> HIDE DEF w
<1>4. /\ r \in RowShapes(m) /\ r.status = "active" /\ r.tick = w.tick + 1
      /\ r.players = w.players /\ r.log = 1..r.tick /\ w.tick \in Nat
  BY <1>2, LoggedFits
<1> HIDE DEF r
<1>5. SeatsFit(r)
  BY <1>2, <1>4 DEF RowFits, SeatsFit
<1>6. RowFits(m, r)
  BY <1>2, <1>4, <1>5 DEF RowFits
<1>7. Later(r, w)
  <2>1. Cardinality(w.players) \in Nat
    BY <1>2, FS_CardinalityType DEF RowFits, SeatsFit
  <2> QED BY <1>2, <1>4, <2>1 DEF Later, Progress
<1>8. row[m].status # "completed" /\ Later(r, row[m])
  BY <1>2, <1>7 DEF w
<1> QED BY <1>1, <1>3, <1>6, <1>8, WriteKeeps

\* The end of a match gives its allied players an alliance, and takes nobody away.
Allied(m, allied, p) == IF p.who \in allied THEN [p EXCEPT !.alliance = <<"alliance", m>>] ELSE p

AlliedRows(m, allied, P) == {Allied(m, allied, p) : p \in P}

Unallied(m, p) == p \in PlayerRows(m) /\ p.alliance = NoId

MadeAllied(m, allied, p, q) ==
    /\ q \in PlayerRows(m) /\ q.who = p.who /\ q.index = p.index
    /\ q.alliance = IF p.who \in allied THEN <<"alliance", m>> ELSE NoId

LEMMA AlliedRow ==
    ASSUME NEW m, NEW allied, NEW p, Unallied(m, p)
    PROVE  MadeAllied(m, allied, p, Allied(m, allied, p))
BY DEF Unallied, MadeAllied, Allied, PlayerRows

LEMMA AlliedSame ==
    ASSUME NEW m, NEW allied, NEW P, IsFiniteSet(P),
           \A p \in P : Unallied(m, p), \A p, q \in P : p.index = q.index => p = q
    PROVE  /\ AlliedRows(m, allied, P) \in SUBSET PlayerRows(m)
           /\ IsFiniteSet(AlliedRows(m, allied, P))
           /\ Cardinality(AlliedRows(m, allied, P)) = Cardinality(P)
<1> DEFINE Q == AlliedRows(m, allied, P)
           f == [p \in P |-> Allied(m, allied, p)]
<1>1. ASSUME NEW p \in P PROVE f[p] \in PlayerRows(m) /\ f[p].index = p.index
  <2>1. f[p] = Allied(m, allied, p)
    OBVIOUS
  <2>2. MadeAllied(m, allied, p, f[p])
    BY <2>1, AlliedRow
  <2> QED BY <2>2 DEF MadeAllied
<1>2. \A p \in P : f[p] \in Q
  BY DEF AlliedRows
<1>3. \A q \in Q : \E p \in P : f[p] = q
  BY DEF AlliedRows
<1>4. f \in [P -> Q]
  BY <1>2
<1> HIDE DEF f, Q
<1>5. f \in Injection(P, Q)
  BY <1>1, <1>4 DEF Injection, IsInjective
<1>6. f \in Surjection(P, Q)
  BY <1>3, <1>4 DEF Surjection
<1>7. IsFiniteSet(Q) /\ Cardinality(Q) = Cardinality(P)
  BY <1>5, <1>6, FS_Surjection, FS_Injection
<1>8. Q \in SUBSET PlayerRows(m)
  BY <1>1, <1>3
<1> QED BY <1>7, <1>8 DEF Q

LEMMA IdsDiffer ==
    ASSUME NEW m, NEW i
    PROVE  /\ NoId # <<"alliance", m>> /\ NoId # <<"player", m, i>>
           /\ <<"alliance", m>> # <<"player", m, i>>
BY DEF NoId

\* The allied win: the winner's id is that of their alliance.
LEMMA AlliesNamed ==
    ASSUME NEW m, NEW allied, allied # {}, NEW P, \A p \in P : Unallied(m, p), allied \subseteq {p.who : p \in P},
           NEW r, r.players = AlliedRows(m, allied, P), r.winner = <<"alliance", m>>
    PROVE  {p.who : p \in WinnerRows(m, r)} = allied
<1> DEFINE W == {q \in r.players : q.alliance # NoId /\ q.alliance = r.winner}
<1>1. ASSUME NEW q \in W PROVE q.who \in allied
  <2>1. PICK p \in P : q = Allied(m, allied, p)
    BY DEF AlliedRows
  <2>2. MadeAllied(m, allied, p, q)
    BY <2>1, AlliedRow
  <2>3. q.who = p.who /\ q.alliance = IF p.who \in allied THEN <<"alliance", m>> ELSE NoId
    BY <2>2 DEF MadeAllied
  <2> QED BY <2>3
<1>2. ASSUME NEW a \in allied PROVE \E q \in W : q.who = a
  <2>1. PICK p \in P : p.who = a
    OBVIOUS
  <2>0. PICK q : q = Allied(m, allied, p)
    OBVIOUS
  <2>2. q \in r.players
    BY <2>0 DEF AlliedRows
  <2>4. MadeAllied(m, allied, p, q)
    BY <2>0, AlliedRow
  <2>3. q.who = a /\ q.alliance = <<"alliance", m>>
    BY <2>1, <2>4 DEF MadeAllied
  <2> QED BY <2>2, <2>3, IdsDiffer
<1>3. W # {}
  BY <1>2
<1>4. WinnerRows(m, r) = W
  BY <1>3 DEF WinnerRows
<1> HIDE DEF W
<1> QED BY <1>1, <1>2, <1>4

\* One wins alone: the winner's id is that of a seat nobody else has.
LEMMA LoneWinnerNamed ==
    ASSUME NEW m, NEW allied, NEW P, \A p \in P : Unallied(m, p),
           \A p, q \in P : p.index = q.index => p = q,
           NEW x \in P, NEW r, r.players = AlliedRows(m, allied, P), r.winner = <<"player", m, x.index>>
    PROVE  {p.who : p \in WinnerRows(m, r)} = {x.who}
<1> DEFINE W == {q \in r.players : <<"player", m, q.index>> = r.winner}
<1>1. ASSUME NEW q \in r.players PROVE ~(q.alliance # NoId /\ q.alliance = r.winner)
  <2>1. PICK p \in P : q = Allied(m, allied, p)
    BY DEF AlliedRows
  <2>2. MadeAllied(m, allied, p, q)
    BY <2>1, AlliedRow
  <2>3. q.alliance = IF p.who \in allied THEN <<"alliance", m>> ELSE NoId
    BY <2>2 DEF MadeAllied
  <2> QED BY <2>3, IdsDiffer
<1>2. WinnerRows(m, r) = W
  BY <1>1 DEF WinnerRows
<1>3. ASSUME NEW q \in W PROVE q.who = x.who
  <2>1. PICK p \in P : q = Allied(m, allied, p)
    BY DEF AlliedRows
  <2>2. MadeAllied(m, allied, p, q)
    BY <2>1, AlliedRow
  <2>3. q.who = p.who /\ q.index = p.index
    BY <2>2 DEF MadeAllied
  <2>4. q.index = x.index
    OBVIOUS
  <2> QED BY <2>3, <2>4
<1>4. \E q \in W : q.who = x.who
  <2>0. PICK q : q = Allied(m, allied, x)
    OBVIOUS
  <2>1. q \in r.players
    BY <2>0 DEF AlliedRows
  <2>3. MadeAllied(m, allied, x, q)
    BY <2>0, AlliedRow
  <2>2. q.who = x.who /\ q.index = x.index
    BY <2>3 DEF MadeAllied
  <2> QED BY <2>1, <2>2
<1> HIDE DEF W
<1> QED BY <1>2, <1>3, <1>4

\* The id a final tick writes down for the winners.
WinnerId(m, P, ws) ==
    IF Cardinality(ws) > 1 THEN <<"alliance", m>>
    ELSE <<"player", m, (CHOOSE p \in P : {p.who} = ws).index>>

\* Those who win: the allied, of whom there are several, or one who is not among them.
Wins(P, allied, ws) ==
    \/ ws = allied /\ allied # {} /\ Cardinality(allied) # 1 /\ allied \subseteq {p.who : p \in P}
    \/ \E x \in P : ws = {x.who}

LEMMA WinnerIdRight ==
    ASSUME NEW m, NEW P, IsFiniteSet(P), \A p \in P : Unallied(m, p),
           \A p, q \in P : p.who = q.who \/ p.index = q.index => p = q,
           NEW allied, NEW ws, Wins(P, allied, ws),
           NEW r, r.players = AlliedRows(m, allied, P), r.winner = WinnerId(m, P, ws)
    PROVE  /\ WinnerId(m, P, ws) \in WinnerIds(m)
           /\ {p.who : p \in WinnerRows(m, r)} = ws
           /\ ws \in SUBSET Players
<1>0. \A p \in P : p.who \in Players /\ p.index \in 1..MaxPlayers
  BY DEF Unallied, PlayerRows
<1>1. CASE ws = allied /\ allied # {} /\ Cardinality(allied) # 1 /\ allied \subseteq {p.who : p \in P}
  <2> DEFINE f == [p \in P |-> p.who]
             img == {p.who : p \in P}
  <2>1. IsFiniteSet(img)
    <3>1. f \in [P -> img] /\ \A c \in img : \E p \in P : f[p] = c
      OBVIOUS
    <3> HIDE DEF f, img
    <3>2. f \in Surjection(P, img)
      BY <3>1 DEF Surjection
    <3> QED BY <3>2, FS_Surjection
  <2>2. allied \subseteq img
    BY <1>1
  <2> HIDE DEF img
  <2>3. IsFiniteSet(allied) /\ Cardinality(allied) \in Nat
    BY <2>1, <2>2, FS_Subset, FS_CardinalityType
  <2>4. Cardinality(allied) # 0
    BY <1>1, <2>3, FS_EmptySet
  <2>5. Cardinality(ws) > 1
    BY <1>1, <2>3, <2>4
  <2>6. WinnerId(m, P, ws) = <<"alliance", m>>
    BY <2>5 DEF WinnerId
  <2>7. {p.who : p \in WinnerRows(m, r)} = allied
    BY <1>1, <2>6, AlliesNamed
  <2> QED BY <1>0, <1>1, <2>6, <2>7 DEF WinnerIds
<1>2. CASE \E x \in P : ws = {x.who}
  <2>1. PICK x \in P : ws = {x.who}
    BY <1>2
  <2>2. Cardinality(ws) = 1
    BY <2>1, FS_Singleton
  <2>3. \A p \in P : {p.who} = ws => p = x
    BY <2>1
  <2>4. (CHOOSE p \in P : {p.who} = ws) = x
    BY <2>1, <2>3
  <2>5. WinnerId(m, P, ws) = <<"player", m, x.index>>
    <3>1. ~(Cardinality(ws) > 1)
      BY <2>2
    <3>2. WinnerId(m, P, ws) = <<"player", m, (CHOOSE p \in P : {p.who} = ws).index>>
      BY <3>1, Zenon DEF WinnerId
    <3> QED BY <2>4, <3>2
  <2>6. {p.who : p \in WinnerRows(m, r)} = {x.who}
    BY <2>5, LoneWinnerNamed
  <2> QED BY <1>0, <2>1, <2>5, <2>6 DEF WinnerIds
<1> QED BY <1>1, <1>2 DEF Wins

LEMMA FinalKeeps ==
    ASSUME PublicReadsAssumption, PagesInv, NEW m \in MatchIds, NEW allied, NEW ws,
           Wins(row[m].players, allied, ws), FinalTick(m, allied, ws)
    PROVE  PagesInv'
<1> DEFINE w == row[m]
           P == w.players
           r == Logged(w, FALSE)
           Q == AlliedRows(m, allied, P)
           i == WinnerId(m, P, ws)
           e == [r EXCEPT !.status = "completed", !.updated = clock', !.won = ws,
                          !.winner = i, !.players = Q]
<1>1. clock' \in Nat
  BY DEF PagesInv, FinalTick, Passes
<1>2. RowFits(m, w) /\ w.status = "active"
  BY DEF PagesInv, RowsFit, FinalTick
<1>3. /\ r \in RowShapes(m) /\ r.tick = w.tick + 1
      /\ r.players = P /\ r.log = 1..r.tick /\ ~r.overdrawn /\ w.tick \in Nat
  <2>1. FALSE \in BOOLEAN
    OBVIOUS
  <2>2. /\ r \in RowShapes(m) /\ r.tick = w.tick + 1
        /\ r.players = P /\ r.log = 1..(w.tick + 1) /\ r.overdrawn = FALSE /\ w.tick \in Nat
    BY <1>2, <2>1, LoggedFits
  <2> QED BY <2>2
<1>4. Write(m, e)
  <2>1. Write(m, [r EXCEPT !.status = "completed", !.updated = clock', !.won = ws,
                           !.winner = WinnerId(m, r.players, ws),
                           !.players = AlliedRows(m, allied, r.players)])
    BY DEF FinalTick, WinnerId, AlliedRows, Allied
  <2> QED BY <1>3, <2>1
<1> HIDE DEF w, r
<1>5. IsFiniteSet(P) /\ \A p \in P : Unallied(m, p)
  BY <1>2 DEF RowFits, SeatsFit, RowShapes, Unallied
<1>6. \A p, q \in P : p.who = q.who \/ p.index = q.index => p = q
  BY <1>2 DEF RowFits, SeatsFit
<1>7. Q \in SUBSET PlayerRows(m) /\ IsFiniteSet(Q) /\ Cardinality(Q) = Cardinality(P)
  <2> HIDE DEF P
  <2>1. \A p \in P : p \in PlayerRows(m) /\ p.alliance = NoId
    BY <1>5 DEF Unallied
  <2> QED BY <1>5, <1>6, AlliedSame
<1>8. Wins(P, allied, ws)
  BY DEF w
<1>9. \A x : x.players = Q /\ x.winner = i =>
          /\ i \in WinnerIds(m)
          /\ {p.who : p \in WinnerRows(m, x)} = ws
          /\ ws \in SUBSET Players
  <2> HIDE DEF P
  <2> QED BY <1>5, <1>6, <1>8, WinnerIdRight
<1>10. i \in WinnerIds(m) /\ ws \in SUBSET Players
  <2> DEFINE x == [players |-> Q, winner |-> i]
  <2>1. x.players = Q /\ x.winner = i
    OBVIOUS
  <2> HIDE DEF x, Q, i
  <2> QED BY <1>9, <2>1
<1> HIDE DEF P, Q, i
<1>11. /\ e \in RowShapes(m)
       /\ e.status = "completed" /\ e.tick = r.tick /\ e.players = Q /\ e.log = r.log
       /\ e.winner = i /\ e.won = ws /\ e.overdrawn = r.overdrawn
  <2>1. PICK u \in Nat : u = clock'
    BY <1>1
  <2>2. e = [r EXCEPT !.status = "completed", !.updated = u, !.won = ws,
                      !.winner = i, !.players = Q]
    BY <2>1
  <2> HIDE DEF e
  <2>3. r \in RowShapes(m) /\ Q \in SUBSET PlayerRows(m)
    BY <1>3, <1>7
  <2>4. e \in RowShapes(m)
    BY <1>10, <2>2, <2>3 DEF RowShapes
  <2>5. /\ e.status = "completed" /\ e.tick = r.tick /\ e.players = Q /\ e.log = r.log
        /\ e.winner = i /\ e.won = ws /\ e.overdrawn = r.overdrawn
    BY <2>2, <2>3 DEF RowShapes
  <2> QED BY <2>4, <2>5
<1> HIDE DEF e
<1>12. \A q \in Q : \E p \in P : q.who = p.who /\ q.index = p.index
  <2> SUFFICES ASSUME NEW q \in Q PROVE \E p \in P : q.who = p.who /\ q.index = p.index
    OBVIOUS
  <2>1. PICK p \in P : q = Allied(m, allied, p)
    BY DEF Q, AlliedRows
  <2>2. MadeAllied(m, allied, p, q)
    BY <1>5, <2>1, AlliedRow
  <2> QED BY <2>2 DEF MadeAllied
<1>13. \A p \in P : \E q \in Q : q.who = p.who /\ q.index = p.index
  <2> SUFFICES ASSUME NEW p \in P PROVE \E q \in Q : q.who = p.who /\ q.index = p.index
    OBVIOUS
  <2>1. MadeAllied(m, allied, p, Allied(m, allied, p))
    BY <1>5, AlliedRow
  <2>2. Allied(m, allied, p) \in Q
    BY DEF Q, AlliedRows
  <2> QED BY <2>1, <2>2 DEF MadeAllied
<1>14. \A x, y \in Q : x.who = y.who \/ x.index = y.index => x = y
  <2> SUFFICES ASSUME NEW x \in Q, NEW y \in Q, x.who = y.who \/ x.index = y.index PROVE x = y
    OBVIOUS
  <2>1. PICK p \in P : x = Allied(m, allied, p)
    BY DEF Q, AlliedRows
  <2>2. PICK q \in P : y = Allied(m, allied, q)
    BY DEF Q, AlliedRows
  <2>3. MadeAllied(m, allied, p, x) /\ MadeAllied(m, allied, q, y)
    BY <1>5, <2>1, <2>2, AlliedRow
  <2>4. p = q
    BY <1>6, <2>3 DEF MadeAllied
  <2> QED BY <2>1, <2>2, <2>4
<1>15. SeatsFit(e)
  <2>1. \A p \in P : p.index \in 1..Cardinality(P)
    BY <1>2 DEF RowFits, SeatsFit, P
  <2>2. \A q \in Q : q.index \in 1..Cardinality(Q)
    BY <1>7, <1>12, <2>1
  <2>3. Cardinality(P) <= MaxPlayers
    BY <1>2 DEF RowFits, SeatsFit, P
  <2> QED BY <1>7, <1>11, <1>14, <2>2, <2>3 DEF SeatsFit
<1>16. RowFits(m, e)
  <2>1. {p.who : p \in WinnerRows(m, e)} = e.won
    BY <1>9, <1>11
  <2> QED BY <1>3, <1>11, <1>15, <2>1 DEF RowFits
<1>17. Later(e, w)
  <2>1. Cardinality(P) \in Nat
    BY <1>5, FS_CardinalityType
  <2>2. Cardinality(w.players) <= Cardinality(e.players) /\ w.tick <= e.tick
    BY <1>3, <1>7, <1>11, <2>1 DEF P
  <2>3. Progress[w.status] <= Progress[e.status]
    BY <1>2, <1>11 DEF Progress
  <2> QED BY <1>11, <1>13, <2>2, <2>3 DEF Later, P
<1>18. row[m].status # "completed" /\ Later(e, row[m])
  BY <1>2, <1>17 DEF w
<1> QED BY <1>1, <1>4, <1>16, <1>18, WriteKeeps

LEMMA EndKeeps ==
    ASSUME PublicReadsAssumption, PagesInv, NEW m \in MatchIds, Ends(m)
    PROVE  PagesInv'
<1> DEFINE P == row[m].players
           all == {p.who : p \in P}
<1>1. PICK allied \in {a \in SUBSET all : Cardinality(a) # 1} :
          \/ allied # {} /\ FinalTick(m, allied, allied)
          \/ \E c \in all \ allied : FinalTick(m, allied, {c})
  BY DEF Ends
<1>2. CASE allied # {} /\ FinalTick(m, allied, allied)
  <2>1. Wins(P, allied, allied)
    BY <1>2 DEF Wins
  <2> QED BY <1>2, <2>1, FinalKeeps
<1>3. CASE \E c \in all \ allied : FinalTick(m, allied, {c})
  <2>1. PICK c \in all \ allied : FinalTick(m, allied, {c})
    BY <1>3
  <2>2. PICK x \in P : x.who = c
    BY <2>1
  <2>3. Wins(P, allied, {c})
    BY <2>2 DEF Wins
  <2> QED BY <2>1, <2>3, FinalKeeps
<1> QED BY <1>1, <1>2, <1>3

-----------------------------------------------------------------------------
(* The pages.                                                              *)

WholeRoster(p) ==
    p.kind = "detail" /\ p.code = "ok" =>
        /\ Len(p.roster) = p.summary.count
        /\ Cardinality({c.who : c \in Range(p.roster)}) = p.summary.count
        /\ p.summary.count + p.summary.open = MaxPlayers

NamesWinners(p) ==
    p.kind = "completed" =>
        \A s \in Range(p.rows) : {c.who : c \in Range(s.winners)} = row[s.id].won

ToldFresh(p) == \A m \in MatchIds : \A t \in Told(p, m) : t.status # "none" /\ Fresh(t, row[m])

\* A page put together now.
PageFresh(p) == ToldFresh(p) /\ PlaceFits(p) /\ WholeRoster(p) /\ NamesWinners(p)

\* The visitor goes on to a page put together now.
LEMMA ShowKeeps ==
    ASSUME PagesInv, NEW p, Show(p), PageFresh(p)
    PROVE  PagesInv'
<1>1. page' = p /\ row' = row /\ clock' = clock
  BY DEF Show
<1>2. DOMAIN seen' = MatchIds
  BY DEF Show
<1>3. ASSUME NEW m \in MatchIds PROVE SnapFits(seen'[m], row[m])
  <2>1. SnapFits(seen[m], row[m])
    BY DEF PagesInv, SeenFits
  <2>2. CASE Told(page, m) = {}
    <3>1. seen'[m] = seen[m]
      BY <2>2 DEF Show
    <3> QED BY <2>1, <3>1
  <2>3. CASE Told(page, m) # {}
    <3>1. PICK t \in Told(page, m) :
              seen'[m] = IF t.roster = <<>> THEN [t EXCEPT !.roster = seen[m].roster] ELSE t
      BY <2>3 DEF Show
    <3>2. SnapFits(t, row[m])
      BY DEF PagesInv, ToldFits
    <3> DEFINE u == [t EXCEPT !.roster = seen[m].roster]
    <3>3. /\ u = Snapshot(u) /\ u.status = t.status /\ u.tick = t.tick /\ u.count = t.count
          /\ u.roster = seen[m].roster
      BY <3>2 DEF SnapFits, Snapshot
    <3> HIDE DEF u
    <3>4. SnapFits(u, row[m])
      BY <2>1, <3>2, <3>3 DEF SnapFits
    <3> QED BY <3>1, <3>2, <3>4 DEF u
  <2> QED BY <2>2, <2>3
<1>4. SeenFits'
  BY <1>1, <1>2, <1>3 DEF SeenFits
<1>5. \A m \in MatchIds : RowFits(m, row[m])
  BY DEF PagesInv, RowsFit
<1>6. \A m \in MatchIds : \A t \in Told(p, m) : t.status # "none" /\ Fresh(t, row[m])
  BY DEF PageFresh, ToldFresh
<1>7. ToldFits(p)'
  <2>1. \A m \in MatchIds : \A t \in Told(p, m) : t.status # "none" /\ SnapFits(t, row[m])
    BY <1>5, <1>6, FreshFits
  <2> QED BY <1>1, <2>1 DEF ToldFits
<1>8. NothingTakenBack'
  <2>1. ASSUME NEW m \in MatchIds, NEW t \in Told(p, m) PROVE Forward(seen'[m], t)
    <3>1. /\ row[m].tick \in Nat /\ Cardinality(row[m].players) \in Nat
          /\ row[m].status \in DOMAIN Progress
      BY <1>5, FS_CardinalityType DEF RowFits, RowShapes, SeatsFit, Progress
    <3> QED BY <1>3, <1>6, <3>1, FreshForward
  <2> QED BY <1>1, <2>1 DEF NothingTakenBack, Forward
<1>9. PlaceFits(p)'
  BY <1>1 DEF PageFresh, PlaceFits
<1>10. RosterWhole' /\ WinnersNamed'
  BY <1>1 DEF PageFresh, WholeRoster, NamesWinners, RosterWhole, WinnersNamed
<1>11. RowsFit' /\ clock' \in Nat
  BY <1>1 DEF PagesInv, RowsFit
<1> QED BY <1>1, <1>4, <1>7, <1>8, <1>9, <1>10, <1>11 DEF PagesInv

\* What stands in a list made from S.
LEMMA ListedAll ==
    ASSUME NEW S, NEW s, Lists(s, S), NEW rows, DOMAIN rows = DOMAIN s
    PROVE  /\ \A x \in Range(rows) : \E n \in S : \E i \in DOMAIN s : n = s[i] /\ x = rows[i]
           /\ \A n \in S : \E i \in DOMAIN s : n = s[i] /\ rows[i] \in Range(rows)
BY DEF Lists, Range

LEMMA BrowseFresh ==
    ASSUME PublicReadsAssumption, PagesInv
    PROVE  PageFresh(MatchList)
<1> DEFINE s == InOrder(PublicMatches, BrowseBefore)
           rows == [i \in DOMAIN s |-> MatchSummary(s[i])]
<1>1. Lists(s, PublicMatches)
  BY SortedBrowse DEF PagesInv
<1>2. MatchList = [kind |-> "list", rows |-> rows]
  BY DEF MatchList
<1> HIDE DEF s
<1>3. \A i \in DOMAIN s : rows[i] = MatchSummary(s[i])
  OBVIOUS
<1>4. DOMAIN rows = DOMAIN s
  OBVIOUS
<1> HIDE DEF rows
<1>5. \A x \in Range(rows) : \E n \in PublicMatches : x = MatchSummary(n)
  BY <1>1, <1>3, <1>4, ListedAll
<1>6. ToldFresh(MatchList)
  <2>1. ASSUME NEW m \in MatchIds, NEW t \in Told(MatchList, m)
        PROVE  t.status # "none" /\ Fresh(t, row[m])
    <3>1. PICK x \in Range(rows) :
              /\ x.id = m
              /\ t = [status |-> x.status, tick |-> x.tick, count |-> x.count, roster |-> <<>>]
      BY <1>2 DEF Told
    <3>2. PICK n \in PublicMatches : x = MatchSummary(n)
      BY <1>5
    <3>3. n = m /\ x.status = row[m].status /\ x.tick = row[m].tick
          /\ x.count = Cardinality(row[m].players)
      BY <3>1, <3>2 DEF MatchSummary
    <3> QED BY <3>1, <3>2, <3>3 DEF Fresh, Snapshot, PublicMatches
  <2> QED BY <2>1 DEF ToldFresh
<1> QED BY <1>2, <1>6 DEF PageFresh, PlaceFits, WholeRoster, NamesWinners

LEMMA CompletedFresh ==
    ASSUME PublicReadsAssumption, PagesInv
    PROVE  /\ PageFresh(CompletedList)
           /\ \A m \in MatchIds : row[m].status = "completed" <=> \E x \in Range(CompletedList.rows) : x.id = m
<1> DEFINE s == InOrder(CompletedMatches, CompletedBefore)
           rows == [i \in DOMAIN s |-> CompletedSummary(s[i])]
<1>1. Lists(s, CompletedMatches)
  BY SortedCompleted DEF PagesInv
<1>2. CompletedList = [kind |-> "completed", rows |-> rows]
  BY DEF CompletedList
<1> HIDE DEF s
<1>3. \A i \in DOMAIN s : rows[i] = CompletedSummary(s[i])
  OBVIOUS
<1>4. DOMAIN rows = DOMAIN s
  OBVIOUS
<1> HIDE DEF rows
<1>5. \A x \in Range(rows) : \E n \in CompletedMatches : x = CompletedSummary(n)
  BY <1>1, <1>3, <1>4, ListedAll
<1>6. \A n \in CompletedMatches : CompletedSummary(n) \in Range(rows)
  BY <1>1, <1>3, <1>4, ListedAll
<1>7. ToldFresh(CompletedList)
  <2>1. ASSUME NEW m \in MatchIds, NEW t \in Told(CompletedList, m)
        PROVE  t.status # "none" /\ Fresh(t, row[m])
    <3>1. PICK x \in Range(rows) :
              /\ x.id = m
              /\ t = [status |-> x.status, tick |-> x.tick, count |-> x.count, roster |-> <<>>]
      BY <1>2 DEF Told
    <3>2. PICK n \in CompletedMatches : x = CompletedSummary(n)
      BY <1>5
    <3>3. n = m /\ x.status = row[m].status /\ x.tick = row[m].tick
          /\ x.count = Cardinality(row[m].players) /\ x.status = "completed"
      BY <3>1, <3>2 DEF CompletedSummary, CompletedMatches
    <3> QED BY <3>1, <3>2, <3>3 DEF Fresh, Snapshot
  <2> QED BY <2>1 DEF ToldFresh
<1>8. ASSUME NEW x \in Range(rows)
      PROVE  /\ x.id \in MatchIds /\ row[x.id].status = "completed"
             /\ {c.who : c \in Range(x.winners)} = row[x.id].won
  <2>1. PICK n \in CompletedMatches : x = CompletedSummary(n)
    BY <1>5
  <2>2. n \in MatchIds /\ row[n].status = "completed" /\ RowFits(n, row[n])
    BY DEF CompletedMatches, PagesInv, RowsFit
  <2> DEFINE W == WinnerRows(n, row[n])
  <2>3. x.id = n /\ x.winners = CompetitorSummaries(W)
    BY <2>1 DEF CompletedSummary
  <2>4. W \in SUBSET row[n].players
    BY DEF WinnerRows
  <2>5. {p.who : p \in W} = row[n].won
    BY <2>2 DEF RowFits
  <2> HIDE DEF W
  <2>6. RosterRanked(W)
    BY <2>2, <2>4, PlayersRanked
  <2>7. {c.who : c \in Range(CompetitorSummaries(W))} = {p.who : p \in W}
    BY <2>6, RosterMade, RosterNames
  <2> QED BY <2>2, <2>3, <2>5, <2>7
<1>9. PageFresh(CompletedList)
  BY <1>2, <1>7, <1>8 DEF PageFresh, PlaceFits, WholeRoster, NamesWinners
<1>10. ASSUME NEW m \in MatchIds
       PROVE  row[m].status = "completed" <=> \E x \in Range(CompletedList.rows) : x.id = m
  <2>1. ASSUME row[m].status = "completed" PROVE \E x \in Range(rows) : x.id = m
    <3>1. m \in CompletedMatches
      BY <2>1 DEF CompletedMatches
    <3>2. CompletedSummary(m).id = m
      BY DEF CompletedSummary
    <3> QED BY <1>6, <3>1, <3>2
  <2>2. ASSUME NEW x \in Range(rows), x.id = m PROVE row[m].status = "completed"
    BY <1>8, <2>2
  <2> QED BY <1>2, <2>1, <2>2
<1> QED BY <1>9, <1>10

\* Every row of a match stands for a seat of its own.
LEMMA AllSeated ==
    ASSUME PublicReadsAssumption, NEW m \in MatchIds, NEW r, RowFits(m, r)
    PROVE  /\ RosterRows(r) = CompetitorSummaries(r.players)
           /\ IsRoster(RosterRows(r), r.players)
           /\ Cardinality({c.who : c \in Range(RosterRows(r))}) = Cardinality(r.players)
<1> DEFINE P == r.players
           names == {p.who : p \in P}
           f == [p \in P |-> p.who]
<1>1. /\ \A p, q \in P : p.who = q.who \/ p.index = q.index => p = q
      /\ \A p \in P : p.index \in 1..Cardinality(P)
      /\ IsFiniteSet(P) /\ Cardinality(P) <= MaxPlayers
  BY DEF RowFits, SeatsFit
<1>2. Cardinality(P) \in Nat /\ MaxPlayers \in Nat
  BY <1>1, FS_CardinalityType DEF PublicReadsAssumption
<1>3. SeatedRows(r) = P
  <2>1. ~\E p, q \in r.players : p # q /\ p.index = q.index
    BY <1>1
  <2>2. \A p \in r.players : p.index \in 1..MaxPlayers
    BY <1>1, <1>2
  <2> QED BY <2>1, <2>2 DEF SeatedRows
<1>4. r.players \cap SeatedRows(r) = r.players
  BY <1>3
<1>5. RosterRows(r) = CompetitorSummaries(r.players)
  BY <1>4 DEF RosterRows
<1>6. IsRoster(RosterRows(r), r.players)
  BY <1>5, RosterMade, PlayersRanked
<1>7. {c.who : c \in Range(RosterRows(r))} = names
  BY <1>6, RosterNames
<1>8. /\ f \in [P -> names] /\ \A p, q \in P : f[p] = f[q] => p = q
      /\ \A n \in names : \E p \in P : f[p] = n
  BY <1>1
<1> HIDE DEF f, names, P
<1>9. f \in Injection(P, names) /\ f \in Surjection(P, names)
  BY <1>8 DEF Injection, IsInjective, Surjection
<1>10. Cardinality(names) = Cardinality(P)
  BY <1>1, <1>9, FS_Surjection
<1> QED BY <1>5, <1>6, <1>7, <1>10 DEF P

LEMMA SummaryFresh ==
    ASSUME NEW m
    PROVE  /\ MatchSummary(m).id = m /\ MatchSummary(m).status = row[m].status
           /\ MatchSummary(m).tick = row[m].tick
           /\ MatchSummary(m).count = Cardinality(row[m].players)
           /\ MatchSummary(m).open = IF MaxPlayers > Cardinality(row[m].players)
                                     THEN MaxPlayers - Cardinality(row[m].players) ELSE 0
BY DEF MatchSummary

LEMMA DetailFresh ==
    ASSUME PublicReadsAssumption, PagesInv, NEW m \in MatchIds
    PROVE  PageFresh(MatchDetail(m))
<1>1. CASE m \notin PublicMatches
  <2>1. MatchDetail(m) = [kind |-> "detail", code |-> "not_found"]
    BY <1>1 DEF MatchDetail, NotFound
  <2>2. ToldFresh(MatchDetail(m))
    BY <2>1 DEF ToldFresh, Told
  <2> QED BY <2>1, <2>2 DEF PageFresh, PlaceFits, WholeRoster, NamesWinners
<1>2. CASE m \in PublicMatches /\ row[m].overdrawn
  <2>1. MatchDetail(m) = [kind |-> "detail", code |-> "error"]
    BY <1>2 DEF MatchDetail
  <2>2. ToldFresh(MatchDetail(m))
    BY <2>1 DEF ToldFresh, Told
  <2> QED BY <2>1, <2>2 DEF PageFresh, PlaceFits, WholeRoster, NamesWinners
<1>3. CASE m \in PublicMatches /\ ~row[m].overdrawn
  <2> DEFINE summary == MatchSummary(m)
             roster == RosterRows(row[m])
  <2>1. MatchDetail(m) = [kind |-> "detail", code |-> "ok", summary |-> summary, roster |-> roster]
    BY <1>3 DEF MatchDetail
  <2>2. RowFits(m, row[m]) /\ row[m].status # "none"
    BY <1>3 DEF PagesInv, RowsFit, PublicMatches
  <2>3. IsRoster(roster, row[m].players)
        /\ Cardinality({c.who : c \in Range(roster)}) = Cardinality(row[m].players)
    BY <2>2, AllSeated
  <2>4. /\ summary.id = m /\ summary.status = row[m].status /\ summary.tick = row[m].tick
        /\ summary.count = Cardinality(row[m].players)
        /\ summary.open = IF MaxPlayers > Cardinality(row[m].players)
                          THEN MaxPlayers - Cardinality(row[m].players) ELSE 0
    BY SummaryFresh
  <2> HIDE DEF summary, roster
  <2>5. ToldFresh(MatchDetail(m))
    <3>1. ASSUME NEW n \in MatchIds, NEW t \in Told(MatchDetail(m), n)
          PROVE  t.status # "none" /\ Fresh(t, row[n])
      <4>1. /\ summary.id = n
            /\ t = [status |-> summary.status, tick |-> summary.tick, count |-> summary.count,
                    roster |-> roster]
        BY <2>1 DEF Told
      <4> QED BY <2>2, <2>3, <2>4, <4>1 DEF Fresh, Snapshot
    <3> QED BY <3>1 DEF ToldFresh
  <2>6. WholeRoster(MatchDetail(m))
    <3>1. Len(roster) = summary.count /\ Cardinality({c.who : c \in Range(roster)}) = summary.count
      BY <2>3, <2>4 DEF IsRoster
    <3>2. summary.count + summary.open = MaxPlayers
      <4>1. Cardinality(row[m].players) \in Nat /\ Cardinality(row[m].players) <= MaxPlayers
            /\ MaxPlayers \in Nat
        BY <2>2, FS_CardinalityType DEF RowFits, SeatsFit, PublicReadsAssumption
      <4> QED BY <2>4, <4>1
    <3> QED BY <2>1, <3>1, <3>2 DEF WholeRoster
  <2> QED BY <2>1, <2>5, <2>6 DEF PageFresh, PlaceFits, NamesWinners
<1> QED BY <1>1, <1>2, <1>3

LEMMA HistoryFresh ==
    ASSUME PublicReadsAssumption, PagesInv, NEW m \in MatchIds, row[m].status # "none"
    PROVE  PageFresh(MatchHistory(m))
<1> DEFINE roster == CompetitorSummaries(row[m].players)
           p == MatchHistory(m)
<1>1. p = [kind |-> "history", code |-> "ok", id |-> m, status |-> row[m].status, tick |-> row[m].tick,
           competitors |-> roster, ticks |-> row[m].log]
  BY DEF MatchHistory
<1>2. RowFits(m, row[m])
  BY DEF PagesInv, RowsFit
<1>3. IsRoster(roster, row[m].players)
  BY <1>2, RosterMade, PlayersRanked
<1>4. row[m].tick \in Nat /\ row[m].log = 1..row[m].tick
  BY <1>2 DEF RowFits, RowShapes
<1> HIDE DEF roster, p
<1>5. ToldFresh(p)
  <2>1. ASSUME NEW n \in MatchIds, NEW t \in Told(p, n)
        PROVE  t.status # "none" /\ Fresh(t, row[n])
    <3>1. /\ n = m
          /\ t = [status |-> row[m].status, tick |-> row[m].tick, count |-> Len(roster),
                  roster |-> roster]
      BY <1>1 DEF Told
    <3>2. Len(roster) = Cardinality(row[m].players)
      BY <1>3 DEF IsRoster
    <3> QED BY <1>3, <3>1, <3>2 DEF Fresh, Snapshot
  <2> QED BY <2>1 DEF ToldFresh
<1>6. PlaceFits(p)
  BY <1>1, <1>4 DEF PlaceFits
<1>7. WholeRoster(p) /\ NamesWinners(p)
  BY <1>1 DEF WholeRoster, NamesWinners
<1> QED BY <1>5, <1>6, <1>7 DEF PageFresh, p

LEMMA ReplayFresh ==
    ASSUME PagesInv, page.kind = "history", NEW t \in page.ticks
    PROVE  PageFresh(ReplayTick(page.id, t))
<1>1. /\ page.id \in MatchIds /\ page.tick \in Nat /\ page.ticks = 1..page.tick
      /\ page.tick <= row[page.id].tick
  BY DEF PagesInv, PlaceFits
<1>2. row[page.id].tick \in Nat /\ row[page.id].log = 1..row[page.id].tick
  BY <1>1 DEF PagesInv, RowsFit, RowFits, RowShapes
<1>3. t \in row[page.id].log
  BY <1>1, <1>2
<1>4. ReplayTick(page.id, t) = [kind |-> "replay", code |-> "ok", id |-> page.id, tick |-> t]
  BY <1>3 DEF ReplayTick
<1>5. ToldFresh(ReplayTick(page.id, t))
  BY <1>4 DEF ToldFresh, Told
<1> QED BY <1>4, <1>5 DEF PageFresh, PlaceFits, WholeRoster, NamesWinners

\* A match a page tells of is there.
LEMMA LinkedIsThere ==
    ASSUME PagesInv, NEW m \in Linked(page)
    PROVE  m \in MatchIds /\ row[m].status \in {"lobby", "active", "completed"}
<1>1. m \in MatchIds /\ Told(page, m) # {}
  BY DEF Linked
<1>2. PICK t \in Told(page, m) : TRUE
  BY <1>1
<1>3. t.status # "none" /\ SnapFits(t, row[m])
  BY <1>1 DEF PagesInv, ToldFits
<1>4. row[m].status \in {"none", "lobby", "active", "completed"}
  BY <1>1 DEF PagesInv, RowsFit, RowFits, RowShapes
<1>5. row[m].status # "none"
  BY <1>3, <1>4 DEF SnapFits, Progress
<1> QED BY <1>1, <1>4, <1>5

LEMMA LinksHold ==
    ASSUME PublicReadsAssumption, PagesInv
    PROVE  LinksLead
<1>1. ASSUME NEW m \in Linked(page)
      PROVE  /\ (MatchDetail(m).code # "not_found") # (\E s \in Range(CompletedList.rows) : s.id = m)
             /\ MatchDetail(m).code = "error" => row[m].status = "active" /\ row[m].overdrawn
             /\ MatchHistory(m).code = "ok"
  <2>1. m \in MatchIds /\ row[m].status \in {"lobby", "active", "completed"}
    BY LinkedIsThere
  <2>2. MatchDetail(m).code # "not_found" <=> row[m].status \in {"lobby", "active"}
    BY <2>1 DEF MatchDetail, NotFound, PublicMatches
  <2>5. row[m].overdrawn => row[m].status = "active"
    BY <2>1 DEF PagesInv, RowsFit, RowFits
  <2>6. MatchDetail(m).code = "error" => row[m].status = "active" /\ row[m].overdrawn
    BY <2>1, <2>5 DEF MatchDetail, NotFound
  <2>3. (\E s \in Range(CompletedList.rows) : s.id = m) <=> row[m].status = "completed"
    BY <2>1, CompletedFresh
  <2>4. MatchHistory(m).code = "ok"
    BY <2>1 DEF MatchHistory
  <2> QED BY <2>1, <2>2, <2>3, <2>4, <2>6
<1>2. ASSUME page.kind = "history"
      PROVE  /\ page.ticks = 1..page.tick
             /\ \A t \in page.ticks : ReplayTick(page.id, t).code = "ok"
  <2>1. /\ page.id \in MatchIds /\ page.tick \in Nat /\ page.ticks = 1..page.tick
        /\ page.tick <= row[page.id].tick
    BY <1>2 DEF PagesInv, PlaceFits
  <2>2. row[page.id].tick \in Nat /\ row[page.id].log = 1..row[page.id].tick
    BY <2>1 DEF PagesInv, RowsFit, RowFits, RowShapes
  <2>3. \A t \in page.ticks : t \in row[page.id].log
    BY <2>1, <2>2
  <2> QED BY <2>1, <2>3 DEF ReplayTick
<1>3. page.kind = "replay" => page.code = "ok"
  BY DEF PagesInv, PlaceFits
<1> QED BY <1>1, <1>2, <1>3 DEF LinksLead

-----------------------------------------------------------------------------
LEMMA PagesStart ==
    ASSUME PublicReadsAssumption, PagesInit
    PROVE  PagesInv
<1>1. Cardinality({}) = 0 /\ IsFiniteSet({})
  BY FS_EmptySet
<1>2. ASSUME NEW m \in MatchIds PROVE RowFits(m, NoRow)
  <2>1. NoRow \in RowShapes(m) /\ NoRow.players = {} /\ NoRow.tick = 0 /\ NoRow.log = {}
        /\ NoRow.status = "none" /\ ~NoRow.overdrawn
    BY DEF NoRow, RowShapes, WinnerIds
  <2>2. SeatsFit(NoRow)
    BY <1>1, <2>1 DEF SeatsFit, PublicReadsAssumption
  <2> QED BY <2>1, <2>2 DEF RowFits
<1>3. SnapFits(NotSeen, NoRow)
  <2>1. /\ NotSeen = [status |-> "none", tick |-> 0, count |-> 0, roster |-> <<>>]
        /\ NoRow.players = {} /\ NoRow.tick = 0 /\ NoRow.status = "none"
    BY DEF NoRow, NotSeen
  <2>2. DOMAIN NotSeen.roster = {}
    BY <2>1
  <2> QED BY <1>1, <2>1, <2>2 DEF SnapFits, Snapshot, RosterFits, Progress
<1>4. RowsFit /\ SeenFits
  BY <1>2, <1>3 DEF PagesInit, RowsFit, SeenFits
<1>5. page = [kind |-> "home"]
  BY DEF PagesInit
<1>6. \A m \in MatchIds : Told(page, m) = {}
  BY <1>5 DEF Told
<1> QED BY <1>4, <1>5, <1>6 DEF PagesInit, PagesInv, ToldFits, PlaceFits, NothingTakenBack,
       RosterWhole, WinnersNamed

LEMMA PagesStep ==
    ASSUME PublicReadsAssumption, PagesInv, [PagesNext]_pageVars
    PROVE  PagesInv'
<1>1. ASSUME NEW m \in MatchIds, NEW c \in Players, CreateMatch(m, c) \/ JoinMatch(m, c)
      PROVE  PagesInv'
  BY <1>1, CreateKeeps, JoinKeeps
<1>2. ASSUME NEW m \in MatchIds, StartMatch(m) \/ Tick(m) \/ Ends(m)
      PROVE  PagesInv'
  BY <1>2, StartKeeps, TickKeeps, EndKeeps
<1>3. CASE ListMatches
  BY <1>3, BrowseFresh, ShowKeeps DEF ListMatches
<1>4. CASE ListCompleted
  BY <1>4, CompletedFresh, ShowKeeps DEF ListCompleted
<1>5. CASE OpenMatch
  <2>1. PICK m \in Linked(page) : Show(MatchDetail(m))
    BY <1>5 DEF OpenMatch
  <2> QED BY <2>1, LinkedIsThere, DetailFresh, ShowKeeps
<1>6. CASE OpenHistory
  <2>1. PICK m \in Linked(page) : Show(MatchHistory(m))
    BY <1>6 DEF OpenHistory
  <2>2. m \in MatchIds /\ row[m].status # "none"
    BY LinkedIsThere
  <2> QED BY <2>1, <2>2, HistoryFresh, ShowKeeps
<1>7. CASE OpenReplay
  <2>1. page.kind = "history"
    BY <1>7 DEF OpenReplay
  <2>2. PICK t \in page.ticks : Show(ReplayTick(page.id, t))
    BY <1>7 DEF OpenReplay
  <2> QED BY <2>1, <2>2, ReplayFresh, ShowKeeps
<1>8. CASE UNCHANGED pageVars
  BY <1>8 DEF pageVars, PagesInv, RowsFit, SeenFits, ToldFits, PlaceFits, NothingTakenBack,
       RosterWhole, WinnersNamed
<1> QED BY <1>1, <1>2, <1>3, <1>4, <1>5, <1>6, <1>7, <1>8 DEF PagesNext

\* The public pages of matches that move on between them fit together: no page takes back
\* what one before said, rosters are whole, winners are named, and links lead somewhere.
THEOREM PagesAreRight ==
    ASSUME PublicReadsAssumption
    PROVE  PagesSpec => []PagesRight
<1>1. PagesInit => PagesInv
  BY PagesStart
<1>2. PagesInv /\ [PagesNext]_pageVars => PagesInv'
  BY PagesStep
<1>3. PagesInv => PagesRight
  BY LinksHold DEF PagesInv, PagesRight
<1> QED BY <1>1, <1>2, <1>3, PTL DEF PagesSpec
=============================================================================
