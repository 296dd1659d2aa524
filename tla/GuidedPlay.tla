----------------------------- MODULE GuidedPlay -----------------------------
(***************************************************************************)
(* Guided play in one running match.  A person who owns agents whispers    *)
(* guidance to them, looks at what they are about to do, and overrides     *)
(* their orders; an agent polls its briefing and submits orders; the match *)
(* ticks.  Guidance and the audit of overrides are database rows, orders,  *)
(* treaties and messages live in the record and go with it when it is      *)
(* loaded again.                                                           *)
(*                                                                         *)
(* A handler is one action: none has an await after its first read.  What  *)
(* it wrote to the database may be there although it failed, because a     *)
(* commit or the read-back after it can fail once the row is stored.       *)
(* A handler that answers with an error and stores nothing is left out,    *)
(* and so is a load that fails (MatchRuntime has it).                      *)
(* Its names differ from those of MatchRuntime and of Coalitions, so that  *)
(* it can be extended together with each.                                  *)
(***************************************************************************)
EXTENDS Naturals, FiniteSets

CONSTANTS
    Users,       \* the people
    Keys,        \* API keys, each standing for one agent
    Owner,       \* Owner[k]: whose key k is
    Seat,        \* Seat[k]: the player k plays, for the agents that joined the match
    Parties,     \* the two players of the treaty in the match; none without one
    Revocable,   \* the keys an owner may revoke during the match
    LastTick,    \* bound: no tick beyond this one
    MaxWhispers, \* bound: guidance posted
    MaxOrders,   \* bound: submissions and overrides attempted
    MaxReloads   \* bound: reloads of the record

\* Every key has an owner, and no two share a seat.
GuidedPlayAssumption ==
    /\ Owner \in [Keys -> Users] /\ Revocable \subseteq Keys
    /\ DOMAIN Seat \subseteq Keys
    /\ \A j, k \in DOMAIN Seat : Seat[j] = Seat[k] => j = k
    /\ LastTick \in Nat /\ MaxWhispers \in Nat /\ MaxOrders \in Nat /\ MaxReloads \in Nat

VARIABLES
    active,    \* the keys whose row is active
    cached,    \* the keys the registry resolves without asking the database
    tick,      \* the match's tick
    queue,     \* order_submissions, whose order is that of their ids
    guidance,  \* the owned_agent_guidance rows
    audit,     \* the owned_agent_override rows
    treaty,    \* the treaty between Parties
    news,      \* the world messages about it, by what they announce and their tick
    attempts,  \* how many submissions and overrides were attempted
    reloads,   \* how often the record was loaded again
    heard,     \* history: heard[k], all that the briefings of k have told it
    resolved,  \* history: what the last tick carried out for each player
    announced, \* history: every world message there has been
    missed,    \* history: missed[k], the messages that were dropped before k was told
    lost       \* history: the submissions that were dropped with a record

guidedVars == <<active, cached, tick, queue, guidance, audit, treaty, news, attempts, heard, resolved,
                announced, reloads, missed, lost>>

\* What only a reload changes.
reloadVars == <<cached, reloads, missed, lost>>

Joined == DOMAIN Seat
PlayerIds == {Seat[k] : k \in Joined}
Ticks == 0..LastTick

GuidanceRow == [id : 1..MaxWhispers, owner : Users, player : PlayerIds, tick : Ticks]
OverrideRow == [id : 1..MaxOrders, owner : Users, player : PlayerIds, tick : Ticks]
Queued == [id : 1..MaxOrders, player : PlayerIds, tick : Ticks, kind : {"orders", "override"}]
Treaty == [status : {"none", "proposed", "active", "withdrawn", "broken"},
           proposed : Ticks, signed : Ticks, ended : Ticks]

NoTreaty == [status |-> "none", proposed |-> 0, signed |-> 0, ended |-> 0]

News == [what : {"active", "withdrawn", "broken"}, tick : Ticks]

-----------------------------------------------------------------------------
(* Who is who.                                                             *)

\* The person an agent's key belongs to, as the database has it: nobody once it is revoked.
OwnersOf(k) == {Owner[j] : j \in active \cap {k}}

\* A key is its owner's whether it is active or not.
Owns(u, k) == u = Owner[k]

MayGuide(u, k) == Owns(u, k) /\ k \in Joined

-----------------------------------------------------------------------------
(* Guidance.                                                               *)

ListGuidance(u, p) == {g \in guidance : g.owner = u /\ g.player = p}

NewGuidance(u, k) ==
    [id |-> Cardinality(guidance) + 1, owner |-> u, player |-> Seat[k], tick |-> tick]

\* POST guidance for the present tick.
PostGuidance(u, k) ==
    /\ MayGuide(u, k)
    /\ Cardinality(guidance) < MaxWhispers
    /\ guidance' = guidance \cup {NewGuidance(u, k)}
    /\ UNCHANGED <<active, tick, queue, audit, treaty, news, attempts, heard, resolved, announced, reloadVars>>

-----------------------------------------------------------------------------
(* Orders and overrides.                                                   *)

NewQueued(k, kind) == [id |-> attempts + 1, player |-> Seat[k], tick |-> tick, kind |-> kind]

\* A player's submissions are one, their orders in the order they came: that of the ids.
Combined(subs, p) == {s.id : s \in {q \in subs : q.player = p}}

Due(subs) == {s \in subs : s.tick = tick}

\* The registry took the agent's key as valid when the match was loaded and goes on doing so
\* until the process ends.
AgentSubmits(k) ==
    /\ k \in Joined \cap cached
    /\ attempts < MaxOrders
    /\ attempts' = attempts + 1
    /\ queue' = queue \cup {NewQueued(k, "orders")}
    /\ UNCHANGED <<active, tick, guidance, audit, treaty, news, heard, resolved, announced, reloadVars>>

ReplaceSubmissions(s) ==
    {q \in queue : q.player # s.player \/ q.tick # s.tick} \cup {s}

OverrideRowFor(u, s) == [id |-> s.id, owner |-> u, player |-> s.player, tick |-> s.tick]

\* POST override for the present tick: it takes the place of what is queued, and is audited.
Override(u, k) ==
    /\ MayGuide(u, k)
    /\ attempts < MaxOrders
    /\ attempts' = attempts + 1
    /\ LET s == NewQueued(k, "override")
       IN  /\ queue' = ReplaceSubmissions(s)
           /\ audit' = audit \cup {OverrideRowFor(u, s)}
    /\ UNCHANGED <<active, tick, guidance, treaty, news, heard, resolved, announced, reloadVars>>

\* The audit fails, before or after its commit took effect: the record is put back.
OverrideNotAudited(u, k) ==
    /\ MayGuide(u, k)
    /\ attempts < MaxOrders
    /\ attempts' = attempts + 1
    /\ LET s == NewQueued(k, "override")
       IN  audit' \in {audit, audit \cup {OverrideRowFor(u, s)}}
    /\ UNCHANGED <<active, tick, queue, guidance, treaty, news, heard, resolved, announced, reloadVars>>

-----------------------------------------------------------------------------
(* What a briefing and a guided session tell.                              *)

LatestTick(t) == LET m == {t.proposed, t.signed, t.ended} IN CHOOSE x \in m : \A y \in m : y <= x

ListTreaties(since) == {t \in {treaty} : t.status # "none" /\ LatestTick(t) >= since}

\* Slip: what is as old as the last briefing was in it.
NewerThan(entries, since) == {e \in entries : e.tick > since}

Since(entries, since) == {e \in entries : e.tick >= since}

\* GET agent-briefing: the guidance of the person the key still leads to.
BriefingFor(k, since) ==
    [guidance |-> Since(UNION {ListGuidance(u, Seat[k]) : u \in OwnersOf(k)}, since),
     treaties |-> ListTreaties(since),
     news |-> Since(news, since)]

\* The agent's client asks for what is new since the tick its last briefing showed.
Briefing(k) ==
    /\ k \in Joined \cap cached
    /\ LET b == BriefingFor(k, heard[k].tick)
       IN  heard' = [heard EXCEPT ![k] = [tick |-> tick, guidance |-> @.guidance \cup b.guidance,
                                          treaties |-> IF b.treaties = {} THEN @.treaties
                                                       ELSE b.treaties,
                                          news |-> @.news \cup b.news]]
    /\ UNCHANGED <<active, tick, queue, guidance, audit, treaty, news, attempts, resolved, announced, reloadVars>>

\* The session filters the queue by player and tick and takes what is left as one.
QueuedOrders(k) == {s.id : s \in {q \in queue : q.player = Seat[k] /\ q.tick = tick}}

\* GET guided-session: "recent" is what carries the present tick.
GuidedSession(k) ==
    [queued |-> QueuedOrders(k),
     guidance |-> ListGuidance(Owner[k], Seat[k]),
     treaties |-> {t \in ListTreaties(tick) : Seat[k] \in Parties},
     news |-> Since(news, tick)]

-----------------------------------------------------------------------------
(* The match goes on.                                                      *)

RevokeKey(k) ==
    /\ k \in active \cap Revocable
    /\ active' = active \ {k}
    /\ UNCHANGED <<tick, queue, guidance, audit, treaty, news, attempts, heard, resolved, announced, reloadVars>>

Announced(status, at) == news \cup {[what |-> status, tick |-> at]}

\* One of the parties proposes, the other signs, either withdraws; the last two are announced.
TreatyAction(status) ==
    /\ Parties # {}
    /\ <<treaty.status, status>> \in {<<"none", "proposed">>, <<"proposed", "active">>,
                                      <<"proposed", "withdrawn">>, <<"active", "withdrawn">>}
    /\ treaty' = IF status = "proposed" THEN [treaty EXCEPT !.status = status, !.proposed = tick]
                 ELSE IF status = "active" THEN [treaty EXCEPT !.status = status, !.signed = tick]
                 ELSE [treaty EXCEPT !.status = status, !.ended = tick]
    /\ news' = IF status = "proposed" THEN news ELSE Announced(status, tick)
    /\ announced' = announced \cup news'
    /\ UNCHANGED <<active, tick, queue, guidance, audit, attempts, heard, resolved, reloadVars>>

\* A hostile move breaks an active treaty.  The break and its message carry the tick that was.
BreakTreaty ==
    \/ UNCHANGED <<treaty, news>>
    \/ /\ treaty.status = "active"
       /\ treaty' = [treaty EXCEPT !.status = "broken", !.ended = tick]
       /\ news' = Announced("broken", tick)

GuidedTick ==
    /\ tick < LastTick
    /\ BreakTreaty
    /\ resolved' = [p \in PlayerIds |-> Combined(Due(queue), p)]
    /\ queue' = queue \ Due(queue)
    /\ tick' = tick + 1
    /\ announced' = announced \cup news'
    /\ UNCHANGED <<active, guidance, audit, attempts, heard, reloadVars>>

\* The record is loaded from the database: neither the queue nor treaties nor messages are there.
Reloaded(keys) ==
    /\ reloads < MaxReloads /\ reloads' = reloads + 1
    /\ queue' = {} /\ treaty' = NoTreaty /\ news' = {}
    /\ cached' = keys
    /\ lost' = lost \cup {s.id : s \in queue}
    /\ missed' = [k \in Joined |-> missed[k] \cup (news \ heard[k].news)]
    /\ UNCHANGED <<active, tick, guidance, audit, attempts, heard, resolved, announced>>

\* Somebody who plays in the match joins it again.  No key is forgotten.
JoinAgain == Reloaded(cached)

\* The process is restarted, and knows the keys that are active now.
ServerRestarts == Reloaded(active)

GuidedInit ==
    /\ active = Keys /\ cached = Keys
    /\ tick = 0
    /\ queue = {} /\ guidance = {} /\ audit = {} /\ attempts = 0 /\ reloads = 0
    /\ treaty = NoTreaty
    /\ news = {} /\ announced = {} /\ lost = {} /\ missed = [k \in Joined |-> {}]
    /\ heard = [k \in Joined |-> [tick |-> 0, guidance |-> {}, treaties |-> {}, news |-> {}]]
    /\ resolved = [p \in PlayerIds |-> {}]

GuidedNext ==
    \/ \E k \in Keys : RevokeKey(k) \/ AgentSubmits(k) \/ Briefing(k)
    \/ \E u \in Users, k \in Keys :
          PostGuidance(u, k) \/ Override(u, k) \/ OverrideNotAudited(u, k)
    \/ \E status \in {"proposed", "active", "withdrawn"} : TreatyAction(status)
    \/ GuidedTick
    \/ JoinAgain
    \/ ServerRestarts

GuidedSpec == GuidedInit /\ [][GuidedNext]_guidedVars

-----------------------------------------------------------------------------
(* Properties.                                                             *)

\* Every variable has the shape of what it stands for.
GuidedTypeOK ==
    /\ active \subseteq Keys /\ cached \subseteq Keys /\ tick \in Ticks /\ attempts \in 0..MaxOrders
    /\ reloads \in 0..MaxReloads
    /\ queue \subseteq Queued
    /\ guidance \subseteq GuidanceRow
    /\ audit \subseteq OverrideRow
    /\ treaty \in Treaty
    /\ news \subseteq News /\ announced \subseteq News /\ missed \in [Joined -> SUBSET News]
    /\ heard \in [Joined -> [tick : Ticks, guidance : SUBSET GuidanceRow,
                         treaties : SUBSET Treaty, news : SUBSET News]]
    /\ resolved \in [PlayerIds -> SUBSET (1..MaxOrders)] /\ lost \subseteq 1..MaxOrders

\* An agent that always asks for what is new since the tick its last briefing showed misses
\* nothing that was there to be asked for: whatever was announced before the tick it has seen
\* it was told, also what a tick wrote about itself while it was resolved, unless a reload
\* dropped the message before its next briefing; what was last done to the treaty the record
\* has it knows; and as long as its key is active it knows what was whispered to it, which no
\* reload drops.
BriefedInFull ==
    \A k \in Joined :
        /\ k \in active => \A g \in guidance :
              g.player = Seat[k] /\ g.tick < heard[k].tick => g \in heard[k].guidance
        /\ \A n \in announced : n.tick < heard[k].tick => n \in heard[k].news \cup missed[k]
        /\ treaty.status # "none" /\ LatestTick(treaty) < heard[k].tick
              => heard[k].treaties = {treaty}

\* Guidance is private: what an agent hears was said to it, not to another agent of its owner
\* or of anyone else in the match.
GuidanceStaysPrivate ==
    \A k \in Joined : \A g \in heard[k].guidance : g.player = Seat[k] /\ g.owner = Owner[k]

\* No override takes effect unseen: one that is queued has its audit row, by the owner of the
\* seat, however its writing went.
OverridesAudited ==
    \A s \in queue : s.kind = "override" =>
        \E a \in audit : /\ a.id = s.id /\ a.tick = s.tick /\ a.player = s.player
                         /\ \E k \in Joined : Seat[k] = s.player /\ Owner[k] = a.owner

\* The owner's own override of the present tick has taken the place of submission s.
Overridden(s, k) ==
    \E a \in audit' : /\ a.player = Seat[k] /\ a.owner = Owner[k]
                      /\ a.tick = tick /\ s < a.id

CarriesOutShown ==
    \A k \in Joined :
        IF tick' # tick THEN resolved'[Seat[k]] = GuidedSession(k).queued
        ELSE \A s \in GuidedSession(k).queued \ GuidedSession(k).queued' :
                s \in lost' \/ Overridden(s, k)

\* What the owner is shown as queued for the agent is what the tick then carries out, if the
\* owner does not override it and the record is not loaded again before: session and resolution
\* filter the queue by themselves, one by seat and tick, the other by tick and then by seat.
ShownIsCarriedOut == [][CarriesOutShown]_guidedVars

\* Owners reach their agents and nobody else's, and their overrides are on record and carried
\* out as shown, as far as no reload takes them away.
OwnersServed ==
    /\ [](GuidedTypeOK /\ BriefedInFull /\ GuidanceStaysPrivate /\ OverridesAudited)
    /\ ShownIsCarriedOut
=============================================================================
