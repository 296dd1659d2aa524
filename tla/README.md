# Iron Council: TLA+ models, checks and proofs

Iron Council is a server for a multiplayer strategy game on a map of the United Kingdom
in 1900. Agents and people join a match, submit orders and diplomacy over HTTP, and a task
per match resolves a tick at fixed intervals. This directory models the server, the
database it is provisioned on, the SDK's example agent and the regression harness. Paths
below are relative to `src/server` unless they begin with `src/`.

## 1. The system

The server is one process with one asyncio event loop. The registry
(`agent_registry.py`) keeps a `MatchRecord` per match in memory. The database keeps the
match row (tick, status, state), a row per tick, players, alliances, keys, grants,
settlements, guidance and override audits. Everything is written by two sorts of code:
HTTP handlers, which run without an `await` from their first check to their last write,
and the match tasks of `runtime.py`, which `await` a sleep and a broadcast. What no tick
writes to the database (queued orders, messages, chats, treaties) is gone after a reload
of the record, and a reload happens at a restart, at match start and at every join,
repeated ones included. A reload validates the stored board, and fails while a stock of
food or money is below zero, which a tick can leave behind (section 4).

| Component | State | Operations | Interacts with | What makes it correct |
|---|---|---|---|---|
| match runtime (`runtime.py`) | a task per match | start, tick, roll back, broadcast | registry, tick persistence, websockets | memory and row agree; no tick is lost, repeated or logged after the end; a running match goes on, on schedule |
| registry and commands (`agent_registry*.py`) | records, queue, key cache | submit, override, advance, seed | all handlers and the runtime | accepted orders are accounted for; a command counts in full or not at all |
| alliances (`agent_registry_diplomacy.py`) | membership, victory state | create, join, leave, derive, merge | victory phase, hydration | both copies agree; the victory state follows the board |
| treaties (`agent_registry_diplomacy.py`) | treaties, notices | propose, accept, withdraw, break | tick, world chat, profiles | one open treaty of a type; breaks are announced once and blame an attacker |
| messaging (`agent_registry_messaging.py`) | messages, chats | send, create chat, read | briefing, websocket | shown to whom it was meant, missed by nobody |
| resolver, validation (`resolver.py`, `order_validation.py`) | the board | eight phases per tick | runtime, simulation | budgets, ownership, casualties, elimination |
| initialization (`match_initialization.py`) | an assignment in progress | deal out starting cities | lobby | starts are apart; an assignment is found if there is one |
| fog (`fog.py`) | none | project the state for a player | reads, websocket | nothing out of sight is shown, no attack comes unseen |
| lobby, identity, keys (`db/lobby_registry.py`, `db/identity*.py`) | match, player, key rows | create, join, start, issue, revoke | registry's cache | seats are unique and as promised; allowances hold |
| overrides and guidance (`db/overrides.py`, `db/guidance.py`) | audit and guidance rows | whisper, override, brief | queue, treaties, messages | private, audited, complete |
| persistence, settlement (`db/tick_persistence.py`, `db/rating_settlement.py`) | rows, ratings | write a tick, settle | runtime, public pages | one transaction; everyone is told the same winner and rating |
| public reads (`db/public_read*.py`) | none | lists, pages, history, profiles | rows | links lead somewhere, nothing is taken back |
| websockets (`websocket.py`, `api/realtime_routes.py`) | subscriptions | register, broadcast, drop | match task | no client holds the match up; nobody's picture goes back |
| HTTP edge (`api/abuse.py`, `api/errors.py`, `models/api.py`) | windows of requests | guard, validate, answer | every route | limits hold, refusals fit |
| runtime report (`runtime_observability.py`, `main.py`) | last ticks and fan-outs | start, stop, report | runtime | what the operator reads is true |
| schema, provisioning (`src/alembic`, `db/testing.py`, `settings.py`) | a database's tables and rows | migrate, reset, seed, name | everything above | a rerun mends an interrupt; lanes are apart |
| agent SDK (`src/agent-sdk`) | a run of the agent | list, join, look, submit, lobby | server over a network | one seat, true summary, every run ends |
| regression harness (`simulation*.py`) | a simulated board | simulate, check snapshots | resolver | silent on good states, loud on bad ones |

What is hard here, and what the properties are aimed at: handlers that run while a task
sleeps or broadcasts; reloads in the middle of a tick interval; writes that fail after
memory has changed; crashes between a commit and what follows it; facts kept in two or
three copies and recomputed by different code (membership, victory, seats, identities,
winners, ratings, request models); late and lost requests; broadcasts that overtake each
other; rounding, windows and limits. `PROJECT.json` lists each at its line.

## 2. Modules

| Module | Models | State and actions, and the code they stand for |
|---|---|---|
| `MatchRuntime` | `runtime.py`, order queue | `record` in memory, `row` and `tickLog` in the database, `loop` the task's program counter between its two awaits; submit, override, join, start, tick, tick whose write fails, broadcast, restart. A tick may leave the row `overdrawn`: nothing loads it then, a join or start fails and changes nothing, and the process of a restart does not come `up` (`RestartFails`) |
| `MatchHistory` | what rows promise | abstract: status moves forward, ticks are logged once and in order, orders are resolved once. `MatchRuntime` implements it |
| `Coalitions` | alliances, victory | `owner`, `allianceOf`, `alliances`, `victory` in memory, `saved` in the database; every alliance action ends in `SyncVictoryState` as in the code; `streak` is history |
| `Treaties` | treaties, breaks | treaty list with its notices, and the board as far as attacks need it: fights and attrition may destroy any army the rules allow |
| `Economy`, `Warfare`, `TickResolver` | validation and all phases of a tick | operators on a match state, in the code's order; `TickResolver` runs them tick after tick. Troops, stocks, queues and tiers are numbers |
| `Fog` | `fog.py` | the projection, on the states `TickResolver` reaches |
| `Regression` | harness | `simulate_ticks` on the three harness boards, and each of its checks |
| `StartingCities` | city assignment | the depth-first search with its trail; one action per choice and retreat |
| `Lobby` | seats, keys, occupancy | key, match and player rows, the registry's records and key cache; one action per route |
| `Profiles` | identities, reputation | extends `Lobby` with provisioned matches, agents with seeded ids, treaty rows and pacts in memory |
| `Ratings` | settlement | the terminal rows and the three places a rating is read from |
| `PublicReads` | public pages | rows that move on, and a visitor who follows links between pages; the page of a match whose row is overdrawn answers with an error |
| `Messaging` | messages, chats, command messages | the record's lists, every player's book of chats and polling cursor, and the four views |
| `GuidedPlay` | guidance, overrides, briefings | database rows next to the record's queue, a set whose order is that of its ids; commits that fail before or after storing; repeated joins and restarts, which drop queue, treaty and messages; `missed` and `lost` are history of what went |
| `AgentClient` | SDK client, example agent | runs of agents, requests on the wire that are delayed or lost, a cut-down server |
| `Requests` | request models, error handlers, SDK copies | a caller that posts a body, raw or through the SDK, which checks it first and sends what its models make of it, and mends what the answer names |
| `RateLimit` | `api/abuse.py` | windows of request times per caller and route, and who the handler then serves |
| `Realtime` | websockets | sockets, subscriptions, overlapping broadcasts with their slots and payload editions |
| `RuntimeStatus` | schedule, start-up, report | a clock in units; loops, sends and work share one event loop |
| `Provisioning` | migrations, provisioning tool | tables, rows and versions per database, statements of a run, interrupts; names are sequences that are slugged, joined and cut as in `settings.py` |
| `FiniteFacts` | lemmas | least and greatest naturals, sums over finite sets and along lists, ranks, parts of a set; it models no code |
| `…Proofs` | | theorems about the module in the name; `TickResolverProofs` also has `Fog`'s, `SetupProofs` those of `Lobby` and `StartingCities`, `MatchRuntimeProofs` also `Ratings`', `RateLimitProofs` also `PublicReads`', `RuntimeStatusProofs` also `Realtime`'s, `CoalitionsProofs` also `GuidedPlay`'s and `AgentClient`'s |
| `MC…` | | instances for TLC |

`Realtime`, `GuidedPlay`, `AgentClient`, `PublicReads`, `Ratings` and `StartingCities` name
their actions apart (`LiveNext`, `GuidedNext`, ...), so that one module can extend two of them: the run
then checks, and the proof proves, the very definitions of the module and not an instance's.

A definition whose comment begins "Slip:" is a wrong variant of the definition after it:
putting it in that definition's place must violate the property paired with it in
`PROJECT.json` ("mutants"), which shows that the property can see such a mistake.

Atomicity. A handler is one action, because it has no `await` between its first check and
its last write. The tick task is split at its awaits. A transaction happens or does not;
where the code can see an error after a commit (`GuidedPlay`, `RuntimeStatus`), both
outcomes are there. The processes of `Realtime`, `RuntimeStatus` and `AgentClient` are
split at every await, send and network hop.

## 3. Runs

Several runs check parts that have nothing in common. Such a run has a variable `part`
(`board` in `MCTickResolver`) that is chosen in the initial state and never changes; only
that part's variables move, the others rest in their initial state. The state space is
the sum of the parts', and no behaviour mixes them. A property of a part is stated as an
implication from `part`.

The configurations name one property per subject. It is the conjunction of named parts,
each stated in a comment where it is defined:

| Property | Its parts |
|---|---|
| `BoardSound`, `BoardConsistent` | `TypeOK`, `ProductionCovered`, `OverdraftsPass`, `OneUpgradePerTrack`, `CasualtiesShared`; `OwnershipConsistent`, `EliminationConsistent` |
| `TiersByRule`, `FogHolds` | `BuiltInOrder`, `FortificationFallsByOne`; `FogHides`, `AlliesShareOneMap`, `EarlyWarning` |
| `HarnessRight` | `HarnessStaysSilent`, `CorruptionsReported` |
| `RecordConsistent`, `MessagesKept` | `MembershipConsistent`, `CountdownSound`, `VictoryMatchesBoard`; `ShownToWhomItWasMeant`, `OnlyTheAcknowledged`, `NothingMissed` |
| `OrdersHonored` | `OrdersAccountedFor`, `OverrideTakesPrecedence` |
| `AgentsServed` | `AgentTypeOK`, `OneSeatEach`, `SummaryTrue`, `RefusedForCause`, `NothingForThePast` |
| `PlayGoesOn` | `MatchGoesOn`; `RunEnds` with two matches; `AgentsServed` with three agents and with two matches |
| `OwnersServed` | `GuidedTypeOK`, `BriefedInFull`, `GuidanceStaysPrivate`, `OverridesAudited`, `ShownIsCarriedOut` |
| `TreatiesSound`, `BreaksAreJust`, `BreaksTold` | `OneLiveTreaty`, `AnnouncedInFull`; `AttackEndsTreaties`, `BlameIsEarned`; `EachTypeAnnounced`, `OutsideAnnounced`, `BlameIsEarnedThere` |
| `AnswersFit` | `AnswerFits`, `SdkAgrees`, `NothingBreaksInside` |
| `ReportTrue` | `NeverAhead`, `LastTickTrue`, `LostAreGone`, `ShownIsKept`, `ResumedHaveLoops` |
| `OnTimeAndTold` | `OnSchedule`, `SilenceMeansDead`, both while there is `RoomForAll` |
| `ViewersServed` | `LiveTypeOK`, `NoOrphans`, `TickTaskSurvives`, `SlotsRespected`, `GoesBackBehindQueueOnly`; `SubscribersReached` while there are `SlotsForAll` |
| `QueueMovesOn` | `ViewersServed` and `TickGoesOn`, with one slot for two sockets |
| `AssignmentRight` | `AssignTypeOK`, `Apart`, `DealtFairly`, `FailsOnlyForCause` |
| `SetupGivesBaseline` | `DoneIsBaseline`, `NothingHalfDone`, `RerunsSucceed`, `DoneHasBaselineRows`, `ReferencesHold`, `LanesApart` |
| `SeatsRight` | `TypeOK`, `SeatPromised`, `OneSeatEach`, `RegistryMatchesRows`, `OccupancyBounded`, `RevokedGainsNothing`, `RosterFixedAtStart` |
| `ReputationsRight` | `BooksBalance`, `BlameAgrees`, `OneIdentity`, `ReputationStands` |
| `RatingsRight` | `ReadsAgree`, `SettledOnce`, `WinnersAgree`, `RewardFollowsMerit`, `RatingCarriesOver` |
| `PagesRight` | `NothingTakenBack`, `RosterWhole`, `WinnersNamed`, `LinksLead` |

| Run | Parts and instances | Shows |
|---|---|---|
| `board` | economy, siege, raid, absentee: 3 players, 4 cities, 3-4 ticks, a few batches of orders each; fog: 3 players, of whom the third never joined, 4 cities, 3 ticks; frontier, attrition, countdown: the harness boards, 8 ticks | `BoardSound`, `BoardConsistent`, `TiersByRule`, `EliminationIsFinal`; `AbsentNeverLeads`; `FogHolds`; `HarnessRight` |
| `coalitions` | three players and two cities (all interleavings of a few players), two players for liveness; messaging of 3 players in one tick, and of 2 over two ticks with a reload | `RecordConsistent`, `SustainedControl`, `CompletionIsFinal`, `SteadyLeaderOfTwoWins`; `MessagesKept` |
| `handoff` | as `coalitions` | violated: `HandoffClearsCountdown` |
| `runtime` | a match with 2 players, 3 ticks, 3 submissions; agents: two that run twice, three over two seats, two over two matches; owners: three agents of two people, one of whose keys may be revoked; whispers: guidance and a treaty over 3 ticks, overrides: 3 submissions over 2 ticks | `MemoryMatchesRow`, `OrdersHonored`, `HistorySpec`, `AgentsServed`, `OwnersServed`; `PlayGoesOn` |
| `rejoin` | as `runtime` | violated: `RejoinIsIdempotent` |
| `treaties` | 3 armies of 2 players; 2 types; 3 players | `TreatiesSound`, `BreaksAreJust`, `EndedIsFinal`, `BreaksTold` |
| `transit` | as `treaties` | violated: `NoCaptureUnderTreaty` |
| `traffic` | limiter: 1 caller of each kind, 5 routes, limit 2 in a window of 2, 4 requests; calls: every body of every route | `BurstBounded`, `DenialEarned`; `AnswersFit`, `CallersMendingEnds` |
| `status` | on time: 2 matches, interval 6, work 1, horizon 13; overload: 1 match, work 7, horizon 21; crowded: 1 match, 2 sockets, 2 starts, 1 update, horizon 9; wide and scarce: 2 sockets, 2 editions, 2 slots or 1 | `ReportTrue`, `OnTimeAndTold`; `ViewersServed`, `QueueMovesOn` |
| `setup` | crowd: a lobby of 2 people, 2 agents and 2 matches; cities: 2-3 players with two cities each on all 256 maps over 8 edges of 7 cities; databases: Postgres and SQLite from every release; two lanes of one worktree at work at once, with names that just fit; two lanes cut to one name, beside a worktree of the same name | `SeatsRight`; `AssignmentRight`, `Terminates`; `SetupGivesBaseline` |
| `people` | profiles: full and growing; ratings: 2 people and an agent in 2 matches, four final boards; visitors: one match, two matches | `ReputationsRight`, `RatingsRight`, `PagesRight` |
| `overlap` | as `people` | violated: `AdjustmentsAddUp` |

Why the bounds are enough to meet the cases:

- **Coalitions.** Three players are the least with which an alliance can outlive its leader
  and still face a rival. Each of the two cities is within reach of two players, so the
  lead can tie, pass and return. `Threshold` is both a number of cities and the length of
  the countdown, as in the code.
- **Messaging.** Bounded by messages, chats and reloads; a command envelope has a good
  part before a bad one. Three players are the least for a chat that leaves one out.
- **MatchRuntime.** Three ticks give one before and after a reload or failed write; three
  submissions give orders, an override, and orders after it or another player's.
- **AgentClient.** Two runs per agent let a run's late request arrive in its successor;
  one tick makes orders late. Three agents over two seats let a lobby fill while it is
  looked at.
- **GuidedPlay.** A treaty may be broken by the very tick an agent asks about. Guidance and
  overrides meet in the key and the seat only, so each has a part; a key is revoked before
  there is a treaty. One reload (`MaxReloads`) falls before, between and after briefing,
  override and tick.
- **Realtime.** Two broadcasts, of which either may overtake, or wait for a slot behind, the
  other.
- **Treaties.** Two treaties allow a treaty, its end, and a second one, or two types at
  once. One army each is enough for mutual attacks; the road takes one tick, in which a
  treaty can be signed. A third army lets a player attack an army that stands in a city it
  does not own. A third player owns a city that is attacked without touching the others'
  treaty. Cities are symmetric there: they differ only in owner and occupants.
- **Boards.** Each has more orders than can be paid or won, in combinations chosen for its
  phases: partial acceptance, sieges that meet unpaid upkeep, an elimination with an army
  at sea, an unjoined seat whose city falls. Food and money are overdrawn in some. At most nine players make string-sorted
  seat ids numeric.
- **Harness.** Any scripted order may come at any tick. `Corrupted` lists one-field
  corruptions. Two go unreported by the harness and are not in the list: a state whose
  leader is unset although one coalition leads, and a countdown with a wrong number.
- **RateLimit.** Time goes to twice the window; a legacy route shares its window.
- **RuntimeStatus.** `Horizon` bounds the clock, `MaxStarts` and `MaxFailures` restarts
  and failed writes; there are no more sockets than send slots. HTTP handlers take no time.
  A tick's work is any number of units up to `Work`. `OnTimeAndTold` is about the time in
  which the process has had `RoomForAll`: the interval exceeds three times the others' work,
  one's own and a send timeout. With intervals of 30 s and the send timeout of 0.1 s that is
  so while `n` matches have no tick longer than 29.9 s / (3`n` - 2).
  Interval 6 with work 1 is the least with which two matches have room; in the overloaded
  part there is room until the first long tick.
- **Provisioning.** Two interrupts on Postgres and one on SQLite, before any statement, the
  second in the run that mends the first. Limits of 10 to 12 letters stand for 63: at 11 the
  longer of two lanes' names just fits, and the two run at once, statement by statement; at
  10 it loses its lane, so that two lanes share a database and a worktree of that name, with
  another digest, does not. `LanesApart` is about names that tell each other apart after the
  cut (`TellsApart`); that others share one is in section 4.
- **Ratings.** The final boards have unequal members, a lone winner against allied losers,
  an owner next to its own agent, and equal merit. **PublicReads.** The second match is
  there for order and paging, and moves less far.

Deadlock is checked in `treaties`. Elsewhere it is off, because the parts end: clocks and
bounds run out, searches end, runs of agents and tools are over.

Fairness. `Tick` and `Broadcast` are weakly fair: the loop wakes up after each interval and
every send has a timeout. Whether a write succeeds is not promised, so `MatchGoesOn` allows
a failed task as an outcome: nothing restarts one. Its other outcome is a process that was
restarted while the board was overdrawn and cannot load it. An agent's call is answered or given up
by its timeout (`RunEnds`). The event loop runs what is ready and ends sends (`QueueMovesOn`).
The assignment is a plain function and runs on (`Terminates`). `CallersMendingEnds` assumes
that a caller goes on mending, which is an assumption about the environment. Players,
restarts, joins and network deliveries are never assumed to happen.

## 4. Where the code and its documents differ

Four runs exhibit a disagreement; `PROJECT.json` quotes the lines.

- `handoff`: a tick that passes the lead to another coalition restarts the countdown in
  the same tick. The resolver clears it, and `sync_victory_state`, called right after, sees
  the new leader without a countdown and starts one. Story 6.2 says it is cleared "on that
  tick instead of restarting it immediately".
- `rejoin`: a repeated join, documented as idempotent, reloads the record and drops queued
  orders (and treaties, messages and alliances made since the last tick).
- `transit`: an army that left before a treaty was signed takes the partner's city after
  it, and the treaty stays active with nothing posted; the plan says an attack breaks a
  treaty and is announced.
- `overlap`: a settlement starts from the rating of the day the player joined and overwrites
  the key's, so of two matches at once the one that ends last erases the other's change.

Reading the code for the models showed more, which no run states:

- Recruitment and transfers are validated before upkeep is taken and subtracted without a
  check, so food and money can go below zero (`resolver.py:633`), though the state declares
  them `ge=0` (`models/state.py:17-20`); and starvation looks for a stock of exactly zero
  after the build phase (`resolver.py:202`). An overdraft lasts one tick (`OverdraftsPass`),
  but it is stored unchecked (`db/tick_persistence.py:26`), and whatever validates the state
  raises until then. A join or start of the match answers 500 and changes nothing in memory.
  A restart cannot load the registry, so that no match is served at all (`db/hydration.py:158`),
  although `docs/operations/runtime-runbook.md:161` has workers restart with the process and
  matches resume. The match's public page (`db/public_reads.py:184`), a person's own calls
  (`db/identity.py:126`) and the owner's handlers (`api/app_services.py:468`) answer 500. A
  terminal tick that leaves an overdraft is not written (`db/rating_settlement.py:71`), and
  the task has then failed.
- A reload leaves agents behind: one that was told of a treaty goes on believing in it
  (`db/hydration.py:316` finds none), and an override that was dropped keeps its audit row.
- A queued upgrade assigns its own tier when it completes, so after a siege a
  fortification can rise by two (`resolver.py:572`).
- A revoked key stays in the registry's cache, and routes of a running match accept it until
  a restart (`agent_registry_access.py:20`); its agent still gets briefings, but without
  its owner's guidance (`api/app_services.py:265`).
- A socket is registered after its awaited greeting (`api/realtime_routes.py:76`): what is
  broadcast in between reaches it neither way. A timed-out socket is unregistered but not
  closed (`websocket.py:97`). With more sockets than slots an older payload can arrive after
  a newer one (`websocket.py:90`).
- Chat ids begin again at 1 after a reload, so an id handed out before names another chat
  (`agent_registry_messaging.py:326`).
- The guided session shows activity of the present tick only, but a break is stamped with
  the tick before (`api/authenticated_read_routes.py:344`).
- No code writes treaty rows, so profiles never hear of treaties made in play. The list of
  a person's keys names agents by the key's row id even where a seeded profile has another
  id (`db/api_key_lifecycle.py:95`).
- Database names are cut at 63 characters from the end, where digest and lane are
  (`settings.py:189`). Two lanes of a worktree with a long name share a database, and if the
  digest is cut off too, worktrees of that name do, though they are said not to collide
  (`src/README.md:70`).
- On SQLite each statement of a migration stands by itself (`db/testing.py:33`): after an
  interrupt a rerun fails until the file is deleted, or, if only an index is missing, it
  reports success.
- `updated_at` of a match is written at its creation and its last tick only, so "recently
  updated" lists are in order of creation. A lobby whose creation was not answered stays open
  and counts against the allowance.

## 5. Proofs

The theorems hold for all values of the constants that satisfy the `ASSUME`s of their
modules: finite sets of players numbered by naturals, any cities, maps, stocks, thresholds,
routes, windows, sockets, slots, keys, seats, rosters, final boards, loads and bounds. Every
invariant was checked by TLC before it was proved.

- **Coalitions**: `TypeCorrect`, `MembershipAgrees`, `CountdownIsSound`, `VictoryIsCurrent`,
  `VictoryIsEarned`, `ResultIsFinal`, `RecordIsConsistent`. None of the properties is inductive alone because every
  reload copies the stored state into memory: `IndInv` says the same of `saved` as of memory
  and relates the two (`CountdownEarned`: a countdown in memory that is no longer full belongs
  to the stored leader and is short by no more than the streak). An alliance action never
  lowers a countdown (`SyncFacts`), a tick only for the leader it ran for (`TickFacts`).
- **MatchRuntime**: `TypeCorrect`, `MemoryFollowsRow`, `NoOrderUnaccounted`,
  `OverridePrecedence`, `OrdersAreHonored`, `ImplementsHistory`. `IndInv` adds that submissions are numbered in
  order, that the task sleeps only while the match is active, that only accepted submissions
  are queued or logged, and that the queue already obeys the overrides. `StepRefines` shows
  action by action that a step is a `MatchHistory` step or a stutter.
- **Treaties**: `LatestAloneIsLive`, `EveryTreatyIsTold`, `EndedTreatiesStay`, `TypeCorrect`,
  `AttackersHaveNoTreaty`, `BlameNeedsAttack`, `BreaksAreEarned`, `RecordIsSound`. `RecordInv`
  joins the record's shape with the two invariants, since looking up the latest treaty is
  only meaningful when older ones have ended. Only the reconciliation of a tick
  breaks treaties (`ActionBreaksNone`), and whom it names has sent an army against the other
  party (`BreakerAttacks`).
- **TickResolver** and **Fog**, in layers that each rest on the one before.
  - *Who owns what* (`OwnershipIsConsistent`, `EliminationIsConsistent`, `EliminationStays`,
    `BoardIsConsistent`): `BoardInv` has the shape of the board with the two invariants. A
    lemma per phase says which fields it leaves alone (`Quiet`, `OnlyChanges`); combat,
    control and attrition each have one of what they do to armies and lists.
  - *The fog* (`FogIsRight`, `ArmiesAreSeenComing`): the projection, computed city by city
    and army by army, is put in the design's words, and then reads the same off a state and
    off that state with the hidden parts erased (`ErasedLooksTheSame`). An army in a city is
    traced back through the phases to where it stood or marched before the tick.
  - *Upgrades* (`UpgradesAreStartedOnce`, `TiersGoByRule`): `WorksInv` adds that a queue
    holds one item per track, above the city's tier, and next to it where no siege lowers the
    track. That the orders of a tick do not double an item comes from validation, so the
    lemmas of what validation leaves of a list come first.
    A siege and unpaid upkeep together lower a tier once because a besieged city is exempt
    from the second.
  - *Production* (`ProductionIsCovered`): what the build phase takes is a sum over all
    accepted orders, and validation took that sum from a budget that never
    went below zero (`AdmittedArePaid`). The resource phase only adds.
  - *Overdrafts* (`DebtsPass`): the resource phase leaves food and money at zero or more, and
    what the build phase takes was found in the stock before the tick. So a debt is at most
    that stock, and who starts a tick with a debt ends it without.
  - *Armies and losses* (`StateIsTyped`, `LossesAreShared`, `BoardIsSound`): `Fielded` keeps
    ids apart, since a recruit gets the least free number of its city. Shares of a loss are
    rounded down, so what is left over is at most one troop per army; ranks by remainder and
    id are all different, so exactly that many armies get one more (`RankCounts`).
    `SoundInv` joins it with the invariants of upgrades and production, and was also checked
    as an invariant.
  - *A seat nobody joined* (`AbsentSeatNeverLeads`): only who has an army or recruits one comes
    to have an army or another's city in a tick (`TickRaises`), so the seat keeps at most what
    it was dealt (`AbsentInv`). Did everyone else have fewer cities, some starting city would
    belong to nobody (`PartsAdd`, `PartsAtMost`), and a city once somebody's never becomes
    nobody's. This rests on `DealtEvenly`: match initialization deals every
    seat the same number of cities (`match_initialization.py:130`), and a match starts only
    when two players have joined (`db/lobby_registry.py:534`).
- **RateLimit**: `LimitHolds`, `DenialsAreEarned`. The invariant ties what was let through in
  any window to the entries that are kept, under whichever route's path a request came.
- **Lobby**: `SeatsAreRight`. Two people join one after the other, and each path counts
  seats differently: the number of joins, the first open seat of a record, the rows of the
  database. `LobbyInv` says that the seats taken are always the first ones, that a record is
  what its rows load as, and that every answer has its row; that the counts agree follows
  (`SeatsInOrder`). An agent's open matches are finite and within its owner's allowance.
- **StartingCities**: `NeverNextToEachOther` and `AssignmentIsRight`, for every map and roster.
  That the search misses no assignment is the hard part. It takes the trails in the order of
  their cities. A fair assignment, written down slot by slot with each player's cities in
  ascending order, is a trail that `Solves` the search (`FairSolves`); `SearchInv` says that
  no such trail has been `Passed`. Where no city is left for a slot every trail with that
  beginning is passed, and none of them solves (`DeadEnd`), so to go back passes none
  (`TakenBack`); with an empty trail that leaves no solution. What an entry asks for and is
  refused no assignment can have, and more cities than asked for no player can have (`TooMany`).
  A finished search has dealt as many cities to each as it was to get (`DealtInFull`).
- **Ratings**: `RatingsAreRight`. `RatingsInv` says that the ledger has the rows of the completed
  matches and no others (`LedgerComplete`), that no two matches were completed at once, and
  that a rating in use is that of the newest row its owner could know of when it got it
  (`Carried`). The winners are those of one final board because what was written is what
  `Result` makes of it (`Written`).
- **PublicReads**: `PagesAreRight`. `PagesInv` says of every page and of what visitors remember that
  it was so once (`SnapFits`): status, tick, seats and roster order in the rows have only
  moved on since. A link therefore leads to a match that is at least as far. Its page fails only
  while the match is active with an overdraft, which a match that has ended never has. The pages'
  orders are given by ranks; that ranking lists each element once and in order is proved once
  for any finite set (`RankedList`, `ListHasAll`).
- **GuidedPlay**: `OwnersAreServed`. An agent misses nothing because what a briefing leaves out
  is dated before the tick the one before has shown; `GuidedInv` adds that nothing is dated
  in the future (`Dated`) and that guidance for a seat comes from its agent's owner
  (`OwnersSay`). What a reload drops is accounted for: messages as `missed`, submissions as
  `lost`. `ShownIsCarriedOut` compares two filters of one queue, and what is no longer shown
  is lost or overridden.
- **AgentClient**: `AgentsAreServed`. A run acts on answers about a moment that has passed, so
  `AgentInv` says what each request on its way, each answer and each run knows, in terms that
  only become truer (`GrowsTo`: seats are kept, ticks and status move on, a full or running
  match stays closed). Two facts need more. A lobby can be started by its opener only, so until
  the run that opened it asks for that, it is a lobby still (`OwnLobby`). And a request that is
  still awaited is the one the run sent last, unanswered (`RequestFits`), so nothing sent
  before can answer it. A late join finds a seat taken by the same agent and takes none.
- **RuntimeStatus**: `TicksNeverAhead`, `ReportedTickIsTrue`, `LostSocketsAreGone`,
  `ShownTicksStay`, `ResumedMatchesRun`, `ReportIsTrue`. `IndInv` is one conjunct per variable and its
  relations; every action has a lemma that it preserves all of them.
- **RuntimeStatus, on time**: `LateByOthersWorkOnly`. That a loop is late by at most the work
  of each other match is not inductive. `TimeInv` (`OwedOnly`) is finer: past its time, a
  loop is late only by the work of those who had a turn since, and nobody has two turns while
  it waits, because with `RoomForAll` the next turn of a loop is due after that. It is stated
  for every bound `w` on the work so far, since the longest work grows. `SilenceMeansDead`
  then adds up lateness, work, sends and interval.
- **Realtime**: `ViewersAreServed`, for any sockets, slots and number of broadcasts. `LiveInv` says of
  each broadcast that its slots are full while somebody waits (`CastFits`), that of one with a
  slot for everyone nobody waits and nobody it is sending to has seen more than what is on its
  way (`FitIsFresh`), and that who is out of its hands has seen as much or is off the list
  (`ServedHaveSeen`); and of any two that the later call has no older payload (`InLine`).
- **FiniteFacts**: the lemmas on sums, ranks and extrema that these share. The prover cannot
  instantiate induction theorems with an operator, so induction over the subsets of a finite
  set is a lemma about families of sets (`SubsetInduction`).

## 6. Checked by TLC only

- Liveness, which is out of the prover's reach: `SteadyLeaderOfTwoWins`, `CallersMendingEnds`,
  `Terminates`, and in `PlayGoesOn` and `QueueMovesOn` the parts `MatchGoesOn`, `RunEnds` and
  `TickGoesOn`. The rest of these two are instances of `AgentsAreServed` and `ViewersAreServed`.
- `BreaksTold` is about two more instances of `Treaties`, for which the theorems on that module
  hold; it is checked because two treaty types and an outside city need them.
- `MessagesKept`, `AnswersFit` and `SetupGivesBaseline` rest on folds and `SelectSeq` over command
  envelopes, model fields and names. What a fold computes for every input takes an induction
  over data.
- `HarnessRight` is about three boards that the code fixes, and the run visits all of their states
  within eight ticks.
- `ReputationsRight` of `Profiles`, which would need `LobbyInv` extended by provisioned
  matches, was not attempted.

## 7. Plan

1. Proofs: `ReputationsRight` from `LobbyInv`;
   `OnlyTheAcknowledged` of `Messaging`, which needs no fold.
2. Compositions: `Treaties` with the outcomes of `Warfare` as its refinement; `AgentClient`
   with `MatchRuntime` in the place of its cut-down server.
3. Larger instances: four players in `Coalitions`, three sockets in `Realtime`.
4. The web client's reconnecting socket hook against `Realtime`.

## 8. Not modelled

- The web client (`src/client`): rendering and view state; it changes the server by the
  modelled routes only.
- Joining and listing a registry without a database: then the registry starts empty and
  only tests fill it.
- Token verification, SQL transactions and asyncio are what the code relies on. Grants are
  edited outside the server and are constants. Columns, wording, content limits of messages
  and display names are left out, as are router inclusion, CORS and most settings.
- No code pauses a match, and no outcome is a draw as long as a winner is written, so there
  is neither. A match that was started after startup and has not ticked has no time in the
  runtime report.
- Two runs of the provisioning tool on one database at once, and a server that writes
  meanwhile.
- Overdrawn boards outside `MatchRuntime`, `TickResolver` and `PublicReads`: the reloads of
  `Coalitions`, `Messaging`, `RuntimeStatus`, `Lobby` and `GuidedPlay` are of boards that can
  be loaded, and handlers that would answer 500 on others are left out of `GuidedPlay`.
- In `AgentClient`, answers 429, 403 and 500 and the SDK's own refusal of a state with a
  negative stock (`iron_council_client.py:49`): each ends the run as any error does. In
  `Requests`, faults inside an order are of one type.
- Vendored and generated code: `src/.agents`, `src/_bmad` and their scripts.
