-------------------------------- MODULE Fog --------------------------------
(***************************************************************************)
(* The fog of war on the board that TickResolver moves: what project_agent *)
(* _state shows a player of a match state, by HTTP and by websocket alike. *)
(*                                                                         *)
(* A city's details are its upgrades and its queue, and an army's are its  *)
(* troops; population, a city's own stock and its garrison, which no tick  *)
(* changes, are masked in the same places and left out.                    *)
(***************************************************************************)
EXTENDS TickResolver

CONSTANT Unknown   \* the mask

-----------------------------------------------------------------------------

AlliedPlayerIds(s, p) ==
    IF s.alliance[p] = None THEN {p} ELSE {q \in Players : s.alliance[q] = s.alliance[p]}

FullVisibilityCities(s, p) == {c \in Cities : s.owner[c] \in AlliedPlayerIds(s, p)}

AdjacentCities(cities) == UNION {Neighbours(c) : c \in cities}

VisibleCities(s, p) ==
    FullVisibilityCities(s, p) \cup AdjacentCities(FullVisibilityCities(s, p))

ProjectCity(s, p, c) ==
    IF c \in FullVisibilityCities(s, p)
    THEN [owner |-> s.owner[c], visibility |-> "full",
          upgrades |-> s.upgrades[c], queue |-> s.queue[c]]
    ELSE [owner |-> s.owner[c], visibility |-> "partial",
          upgrades |-> Unknown, queue |-> Unknown]

\* Slip: an army on its way is seen by nobody but its own side.
ArmyIsVisibleStanding(s, p, a) ==
    a.owner \in AlliedPlayerIds(s, p) \/ a.location \in VisibleCities(s, p)

ArmyIsVisible(s, p, a) ==
    \/ a.owner \in AlliedPlayerIds(s, p)
    \/ a.location \in VisibleCities(s, p)
    \/ a.destination \in VisibleCities(s, p)

ProjectArmy(s, p, a) ==
    IF a.owner \in AlliedPlayerIds(s, p)
    THEN [id |-> a.id, owner |-> a.owner, visibility |-> "full", troops |-> a.troops,
          location |-> a.location, destination |-> a.destination, ticks |-> a.ticks]
    ELSE [id |-> a.id, owner |-> a.owner, visibility |-> "partial", troops |-> Unknown,
          location |-> a.location, destination |-> a.destination, ticks |-> a.ticks]

VisibleArmies(s, p) == {ProjectArmy(s, p, a) : a \in {b \in s.armies : ArmyIsVisible(s, p, b)}}

ProjectAgentState(s, p) ==
    [resources |-> s.resources[p],
     cities |-> [c \in VisibleCities(s, p) |-> ProjectCity(s, p, c)],
     armies |-> VisibleArmies(s, p),
     alliance |-> s.alliance[p],
     members |-> AlliedPlayerIds(s, p)]

-----------------------------------------------------------------------------
(* What the fog promises.                                                  *)

Side(s, p) == {p} \cup {q \in Players : Allied(s, p, q)}
Held(s, p) == {c \in Cities : s.owner[c] \in Side(s, p)}
InSight(s, p) == Held(s, p) \cup {c \in Cities : \E e \in Edges : c \in e.ends /\ e.ends \cap Held(s, p) # {}}

\* The state with everything erased that the game design keeps from p's side: the stocks and
\* alliances of the others, the works of their cities, the strength of their armies, and all
\* that lies beyond the cities next to its own.
Erased(s, p) ==
    [s EXCEPT
        !.resources = [q \in Players |-> IF q = p THEN @[q] ELSE StartingResources],
        !.alliance = [q \in Players |-> IF q \in Side(s, p) THEN @[q] ELSE None],
        !.owner = [c \in Cities |-> IF c \in InSight(s, p) THEN @[c] ELSE None],
        !.upgrades = [c \in Cities |-> IF c \in Held(s, p) THEN @[c] ELSE [t \in Tracks |-> 0]],
        !.queue = [c \in Cities |-> IF c \in Held(s, p) THEN @[c] ELSE <<>>],
        !.armies = {IF a.owner \in Side(s, p) THEN a ELSE [a EXCEPT !.troops = 1] :
                       a \in {b \in @ : \/ b.owner \in Side(s, p)
                                        \/ {b.location, b.destination} \cap InSight(s, p) # {}}}]

\* Nothing a player is shown depends on what the fog hides from its alliance.
FogHides == \A p \in Players : ProjectAgentState(state, p) = ProjectAgentState(Erased(state, p), p)

\* Allies look at one map: each is shown the cities and armies the other is shown.
AlliesShareOneMap ==
    \A p, q \in Players : Allied(state, p, q) =>
        /\ ProjectAgentState(state, p).cities = ProjectAgentState(state, q).cities
        /\ VisibleArmies(state, p) = VisibleArmies(state, q)

\* Nobody is attacked out of the fog: an army that stands in a city which was a player's
\* before the tick was on the player's map then, in that city or on its way to it.
EarlyWarning ==
    [][\A p \in Players, a \in state'.armies :
           a.location \in FullVisibilityCities(state, p) /\ a.owner \notin AlliedPlayerIds(state, p)
           => \E shown \in ProjectAgentState(state, p).armies :
                  shown.id = a.id /\ a.location \in {shown.location, shown.destination}]_vars

\* Nothing a player is shown depends on what the fog hides from its alliance, allies are shown
\* the same, and no city is attacked out of the fog.
FogHolds == [](FogHides /\ AlliesShareOneMap) /\ EarlyWarning

============================================================================
