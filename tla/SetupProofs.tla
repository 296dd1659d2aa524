----------------------------- MODULE SetupProofs -----------------------------
(***************************************************************************)
(* What is set up before anybody plays, for any number of people, keys,    *)
(* matches and seats, and for every map and roster.                        *)
(*                                                                         *)
(* Lobbies: the seats of a match are numbered without a gap in the order   *)
(* of the joins, so that the first open seat is one more than the number   *)
(* of joins; and a record is what its rows load as.  From these follow all *)
(* that SeatsRight says.  Starting cities: every city is assigned under    *)
(* the guard of CanAssign, and taking one back takes nothing from the      *)
(* rule; owners, lists and trail agree through every step back; and the    *)
(* search, which takes the trails in the order of their cities, passes no  *)
(* solution, so that it fails only where there is none.                    *)
(***************************************************************************)
EXTENDS Lobby, StartingCities, FiniteFacts, SequenceTheorems, TLAPS

-----------------------------------------------------------------------------
(* Lobbies.                                                                *)

\* Those who have a player row.
Whos(r) == {p.who : p \in r.players}

\* The rows of a match: nobody has two seats, and the seats taken are the first ones.
RowInv(r) ==
    /\ r \in [status : {"none", "lobby", "active", "completed"},
              creator : Competitors \cup {None}, players : SUBSET [who : Competitors, index : Seats]]
    /\ \A p, q \in r.players : p.who = q.who \/ p.index = q.index => p = q
    /\ IsFiniteSet(Whos(r))
    /\ {p.index : p \in r.players} = 1..Cardinality(Whos(r))
    /\ r.status = "none" => r = NoRow

\* The open matches an agent is in.
OpenMatches(k) ==
    {m \in Matches : row[m].status \in {"lobby", "active"} /\ \E p \in row[m].players : p.who = k}

KeysInv ==
    /\ key \in [Keys -> {"unissued", "active", "revoked"}]
    /\ cache \subseteq {k \in Keys : key[k] # "unissued"}

RowsInv == row = [m \in Matches |-> row[m]] /\ \A m \in Matches : RowInv(row[m])

RecordsInv ==
    record = [m \in Matches |-> IF row[m].status = "none" THEN None ELSE LoadedRecord(row[m])]

\* Every answer has its row.
AnswersInv ==
    \A t \in told : /\ t \in [match : Matches, who : Competitors, seat : Seats]
                   /\ [who |-> t.who, index |-> t.seat] \in row[t.match].players

AllowancesInv ==
    \A k \in Keys : IsFiniteSet(OpenMatches(k)) /\ Cardinality(OpenMatches(k)) <= Allowance[Owner[k]]

LobbyInv == KeysInv /\ RowsInv /\ RecordsInv /\ AnswersInv /\ AllowancesInv

USE ConstantsFit

\* How many there are, and how the players' rows read: every row stands for a seat, the seats
\* taken are the first ones, and so are the open ones of a lobby the others.
LEMMA SeatsInOrder ==
    ASSUME NEW STATE r, RowInv(r)
    PROVE  /\ Cardinality(Whos(r)) \in Nat
           /\ JoinIndex(r) = Cardinality(Whos(r)) + 1
           /\ SeatedRows(r) = r.players
           /\ Joined(r) \in [Whos(r) -> Seats]
           /\ \A p \in r.players : Joined(r)[p.who] = p.index
           /\ r.status = "lobby" => Joinable(r) = JoinIndex(r)..MaxPlayers
           /\ r.status # "lobby" => Joinable(r) = {}
<1>1. Cardinality(Whos(r)) \in Nat
  BY FS_CardinalityType DEF RowInv
<1>2. JoinIndex(r) = Cardinality(Whos(r)) + 1
  BY DEF JoinIndex, Whos
<1>3. \A p \in r.players : p.who \in Competitors /\ p.index \in Seats
  BY DEF RowInv
<1>4. SeatedRows(r) = r.players
  BY <1>3 DEF SeatedRows, RowInv
<1>5. \A p \in r.players : JoinedAs(r, p.who) = {p.index}
  BY <1>4 DEF JoinedAs, RowInv
<1>6. Joined(r) = [w \in Whos(r) |-> CHOOSE i \in JoinedAs(r, w) : TRUE]
  BY <1>4 DEF Joined, Whos
<1>7. \A p \in r.players : p.who \in Whos(r) /\ Joined(r)[p.who] = p.index
  BY <1>5, <1>6 DEF Whos
<1>8. \A w \in Whos(r) : \E p \in r.players : w = p.who
  BY DEF Whos
<1>9. Joined(r) \in [Whos(r) -> Seats]
  <2> DEFINE seat(w) == CHOOSE i \in JoinedAs(r, w) : TRUE
  <2>1. \A w \in Whos(r) : seat(w) \in Seats
    BY <1>3, <1>5, <1>8
  <2> QED
    BY <1>6, <2>1
<1>10. {Joined(r)[w] : w \in DOMAIN Joined(r)} = {p.index : p \in r.players}
  BY <1>7, <1>8, <1>9
<1>11. {Joined(r)[w] : w \in DOMAIN Joined(r)} = 1..Cardinality(Whos(r))
  BY <1>10 DEF RowInv
<1>12. r.status = "lobby" => Joinable(r) = JoinIndex(r)..MaxPlayers
  <2>1. r.status = "lobby" => Joinable(r) = Seats \ (1..Cardinality(Whos(r)))
    BY <1>11 DEF Joinable
  <2>2. ASSUME NEW n \in Nat PROVE Seats \ (1..n) = (n + 1)..MaxPlayers
    BY DEF LobbyAssumption, Seats
  <2> QED
    BY <1>1, <1>2, <2>1, <2>2
<1> QED
  BY <1>1, <1>2, <1>4, <1>7, <1>9, <1>12 DEF Joinable

\* What join_match never compares: the open seat it answers with is the number it gives the row.
LEMMA AnswerIsRow ==
    ASSUME NEW STATE r, RowInv(r), Joinable(r) # {}
    PROVE  r.status = "lobby" /\ Min(Joinable(r)) = JoinIndex(r) /\ JoinIndex(r) \in Seats
<1>1. r.status = "lobby" /\ Joinable(r) = JoinIndex(r)..MaxPlayers /\ JoinIndex(r) \in Nat \ {0}
  BY SeatsInOrder
<1>2. MaxPlayers \in Nat
  BY DEF LobbyAssumption
<1>3. JoinIndex(r) \in Joinable(r) /\ JoinIndex(r) \in Seats /\ \A i \in Joinable(r) : JoinIndex(r) <= i
  BY <1>1, <1>2 DEF Seats
<1>4. \A i \in Joinable(r) : i \in Nat
  BY <1>1, <1>2
<1>5. Min(Joinable(r)) \in Joinable(r) /\ \A i \in Joinable(r) : Min(Joinable(r)) <= i
  BY <1>3 DEF Min
<1> QED
  BY <1>1, <1>3, <1>4, <1>5

\* A newcomer's row keeps the seats in order.
LEMMA NewRow ==
    ASSUME NEW STATE r, RowInv(r), Joinable(r) # {}, NEW w \in Competitors, w \notin Whos(r),
           NEW STATE s, s = [r EXCEPT !.players = @ \cup {[who |-> w, index |-> JoinIndex(r)]}]
    PROVE  RowInv(s)
<1> DEFINE new == [who |-> w, index |-> JoinIndex(r)]
<1>1. r.status = "lobby" /\ JoinIndex(r) \in Seats
  BY AnswerIsRow
<1>2. Cardinality(Whos(r)) \in Nat /\ JoinIndex(r) = Cardinality(Whos(r)) + 1
  BY SeatsInOrder
<1>3. s.players = r.players \cup {new} /\ s.status = "lobby" /\ s.creator = r.creator
  BY <1>1 DEF RowInv
<1>4. s \in [status : {"none", "lobby", "active", "completed"}, creator : Competitors \cup {None},
             players : SUBSET [who : Competitors, index : Seats]]
  BY <1>1, <1>3 DEF RowInv
<1>5. Whos(s) = Whos(r) \cup {w}
  <2>1. new.who = w
    OBVIOUS
  <2> HIDE DEF new
  <2> QED
    BY <1>3, <2>1 DEF Whos
<1>6. IsFiniteSet(Whos(s)) /\ Cardinality(Whos(s)) = JoinIndex(r)
  <2>1. IsFiniteSet(Whos(r))
    BY DEF RowInv
  <2>2. /\ IsFiniteSet(Whos(r) \cup {w})
        /\ Cardinality(Whos(r) \cup {w}) = Cardinality(Whos(r)) + 1
    BY <2>1, FS_AddElement, Zenon
  <2> QED
    BY <1>2, <1>5, <2>2
<1>7. \A p \in r.players : p.who # w /\ p.index # JoinIndex(r)
  <2>1. \A p \in r.players : p.index \in 1..Cardinality(Whos(r))
    BY DEF RowInv
  <2> QED
    BY <1>2, <2>1 DEF Whos
<1>8. \A p, q \in s.players : p.who = q.who \/ p.index = q.index => p = q
  BY <1>3, <1>7 DEF RowInv
<1>9. {p.index : p \in s.players} = 1..Cardinality(Whos(s))
  <2>1. {p.index : p \in s.players} = {p.index : p \in r.players} \cup {JoinIndex(r)}
    <3>1. new.index = JoinIndex(r)
      OBVIOUS
    <3> HIDE DEF new
    <3> QED
      BY <1>3, <3>1
  <2>2. {p.index : p \in r.players} = 1..Cardinality(Whos(r))
    BY DEF RowInv
  <2> QED
    BY <1>2, <1>6, <2>1, <2>2
<1> QED
  BY <1>3, <1>4, <1>6, <1>8, <1>9 DEF RowInv

\* A creator's row is the first.
LEMMA FirstRow ==
    ASSUME NEW w \in Competitors,
           NEW STATE s, s = [status |-> "lobby", creator |-> w, players |-> {[who |-> w, index |-> 1]}]
    PROVE  RowInv(s)
<1>1. Whos(s) = {w}
  BY DEF Whos
<1>2. IsFiniteSet(Whos(s)) /\ Cardinality(Whos(s)) = 1
  BY <1>1, FS_Singleton
<1>3. {p.index : p \in s.players} = {1} /\ 1..1 = {1}
  OBVIOUS
<1>4. 1 \in Seats
  BY DEF Seats, LobbyAssumption
<1> QED
  BY <1>2, <1>3, <1>4 DEF RowInv

\* A match that is not there has no rows.
LEMMA NoRowRight == RowInv(NoRow)
<1>1. Whos(NoRow) = {}
  BY DEF Whos, NoRow
<1>2. IsFiniteSet(Whos(NoRow)) /\ Cardinality(Whos(NoRow)) = 0
  BY <1>1, FS_EmptySet
<1>3. {p.index : p \in NoRow.players} = {} /\ 1..0 = {}
  BY DEF NoRow
<1> QED
  BY <1>2, <1>3 DEF RowInv, NoRow

\* A status further on changes nobody's seat.
LEMMA NextStatus ==
    ASSUME NEW STATE r, RowInv(r), r.status # "none", NEW v \in {"active", "completed"},
           NEW STATE s, s = [r EXCEPT !.status = v]
    PROVE  RowInv(s) /\ Joined(s) = Joined(r)
<1>1. s.players = r.players /\ s.status = v /\ s.creator = r.creator /\ Whos(s) = Whos(r)
  BY DEF RowInv, Whos
<1>2. RowInv(s)
  BY <1>1 DEF RowInv
<1>3. Joined(s) = Joined(r)
  BY <1>1 DEF Joined, JoinedAs, SeatedRows
<1> QED
  BY <1>2, <1>3

\* Nothing is there at first.
LEMMA NobodyAtFirst == Init => LobbyInv
<1> SUFFICES ASSUME Init PROVE LobbyInv
  OBVIOUS
<1>1. KeysInv
  BY DEF Init, KeysInv
<1>2. RowsInv
  BY NoRowRight DEF Init, RowsInv
<1>3. RecordsInv
  BY DEF Init, RecordsInv, NoRow
<1>4. AnswersInv
  BY DEF Init, AnswersInv
<1>5. AllowancesInv
  <2>1. \A k \in Keys : OpenMatches(k) = {} /\ Allowance[Owner[k]] \in Nat
    BY DEF Init, OpenMatches, NoRow, LobbyAssumption
  <2> QED
    BY <2>1, FS_EmptySet DEF AllowancesInv
<1> QED
  BY <1>1, <1>2, <1>3, <1>4, <1>5 DEF LobbyInv

\* A match written and seeded again: row, record and cache are right afterwards.
LEMMA SeededAgain ==
    ASSUME LobbyInv, NEW m \in Matches, NEW STATE s, RowInv(s), s.status # "none",
           row' = [row EXCEPT ![m] = s], Seed(m, s), key' = key
    PROVE  /\ KeysInv' /\ RowsInv' /\ RecordsInv'
           /\ row'[m] = s /\ \A n \in Matches : n # m => row'[n] = row[n]
<1>1. row'[m] = s /\ \A n \in Matches : n # m => row'[n] = row[n]
  BY DEF LobbyInv, RowsInv
<1>2. RowsInv'
  <2>1. row' = [n \in Matches |-> row'[n]]
    BY DEF LobbyInv, RowsInv
  <2>2. \A n \in Matches : RowInv(row'[n])
    BY <1>1 DEF LobbyInv, RowsInv
  <2> QED
    BY <2>1, <2>2 DEF RowsInv
<1>3. RecordsInv'
  <2>1. record' = [record EXCEPT ![m] = LoadedRecord(s)]
    BY DEF Seed
  <2>2. record' = [n \in Matches |-> IF n = m THEN LoadedRecord(s) ELSE record[n]]
    BY <2>1 DEF LobbyInv, RecordsInv
  <2>3. \A n \in Matches : record[n] = IF row[n].status = "none" THEN None ELSE LoadedRecord(row[n])
    BY DEF LobbyInv, RecordsInv
  <2>4. \A n \in Matches : (IF n = m THEN LoadedRecord(s) ELSE record[n])
                           = (IF row'[n].status = "none" THEN None ELSE LoadedRecord(row'[n]))
    BY <1>1, <2>3
  <2> QED
    BY <2>2, <2>4 DEF RecordsInv
<1>4. KeysInv'
  BY DEF LobbyInv, KeysInv, Seed
<1> QED
  BY <1>1, <1>2, <1>3, <1>4

\* Who is in no further match stays within the allowance.
LEMMA NoMoreMatches ==
    ASSUME LobbyInv, NEW k \in Keys, OpenMatches(k)' \subseteq OpenMatches(k)
    PROVE  IsFiniteSet(OpenMatches(k)') /\ Cardinality(OpenMatches(k)') <= Allowance[Owner[k]]
<1>1. IsFiniteSet(OpenMatches(k)) /\ Cardinality(OpenMatches(k)) <= Allowance[Owner[k]]
  BY DEF LobbyInv, AllowancesInv
<1>2. IsFiniteSet(OpenMatches(k)') /\ Cardinality(OpenMatches(k)') <= Cardinality(OpenMatches(k))
  BY <1>1, FS_Subset
<1>3. /\ Cardinality(OpenMatches(k)) \in Nat /\ Cardinality(OpenMatches(k)') \in Nat
      /\ Allowance[Owner[k]] \in Nat
  BY <1>1, <1>2, FS_CardinalityType DEF LobbyAssumption
<1> QED
  BY <1>1, <1>2, <1>3

\* Whose capacity was looked up may be in one match more.
LEMMA OneMatchMore ==
    ASSUME LobbyInv, NEW k \in Keys, HasCapacity(k), NEW m, OpenMatches(k)' \subseteq OpenMatches(k) \cup {m}
    PROVE  IsFiniteSet(OpenMatches(k)') /\ Cardinality(OpenMatches(k)') <= Allowance[Owner[k]]
<1>1. IsFiniteSet(OpenMatches(k)) /\ Cardinality(OpenMatches(k)) < Allowance[Owner[k]]
  BY DEF LobbyInv, AllowancesInv, HasCapacity, Occupancy, OpenMatches
<1>2. /\ IsFiniteSet(OpenMatches(k) \cup {m})
      /\ \/ Cardinality(OpenMatches(k) \cup {m}) = Cardinality(OpenMatches(k))
         \/ Cardinality(OpenMatches(k) \cup {m}) = Cardinality(OpenMatches(k)) + 1
  BY <1>1, FS_AddElement
<1>3. /\ IsFiniteSet(OpenMatches(k)')
      /\ Cardinality(OpenMatches(k)') <= Cardinality(OpenMatches(k) \cup {m})
  BY <1>2, FS_Subset
<1>4. /\ Cardinality(OpenMatches(k)) \in Nat /\ Cardinality(OpenMatches(k)') \in Nat
      /\ Cardinality(OpenMatches(k) \cup {m}) \in Nat /\ Allowance[Owner[k]] \in Nat
  BY <1>1, <1>2, <1>3, FS_CardinalityType DEF LobbyAssumption
<1> QED
  BY <1>1, <1>2, <1>3, <1>4

\* A new answer has its row, when rows stay.
LEMMA Answered ==
    ASSUME LobbyInv, NEW m \in Matches, NEW w \in Competitors, NEW i \in Seats,
           told' = told \cup {[match |-> m, who |-> w, seat |-> i]},
           [who |-> w, index |-> i] \in row'[m].players,
           \A t \in told : row[t.match].players \subseteq row'[t.match].players
    PROVE  AnswersInv'
<1> DEFINE a == [match |-> m, who |-> w, seat |-> i]
<1>1. /\ a \in [match : Matches, who : Competitors, seat : Seats]
      /\ [who |-> a.who, index |-> a.seat] \in row'[a.match].players
  OBVIOUS
<1>2. \A t \in told : /\ t \in [match : Matches, who : Competitors, seat : Seats]
                      /\ [who |-> t.who, index |-> t.seat] \in row'[t.match].players
  BY DEF LobbyInv, AnswersInv
<1> HIDE DEF a
<1>3. told' = told \cup {a}
  BY DEF a
<1> QED
  BY <1>1, <1>2, <1>3 DEF AnswersInv

\* Through every action of keys, matches and restarts the rows, records, answers and allowances
\* fit together.
LEMMA LobbyStep ==
    ASSUME LobbyInv, [Next]_vars
    PROVE  LobbyInv'
<1>1. CASE \E k \in Keys : CreateKey(k) \/ RevokeKey(k)
  <2>1. row' = row /\ record' = record /\ cache' = cache /\ told' = told
    BY <1>1 DEF CreateKey, RevokeKey
  <2>2. PICK k \in Keys, v \in {"active", "revoked"} : key' = [key EXCEPT ![k] = v]
    BY <1>1 DEF CreateKey, RevokeKey
  <2>3. KeysInv'
    BY <2>1, <2>2 DEF LobbyInv, KeysInv
  <2>4. RowsInv' /\ RecordsInv' /\ AnswersInv' /\ AllowancesInv'
    BY <2>1 DEF LobbyInv, RowsInv, RecordsInv, AnswersInv, AllowancesInv, OpenMatches
  <2> QED
    BY <2>3, <2>4 DEF LobbyInv
<1>2. ASSUME NEW m \in Matches, NEW w \in Competitors, CreateMatch(m, w)
      PROVE  LobbyInv'
  <2> DEFINE s == [status |-> "lobby", creator |-> w, players |-> {[who |-> w, index |-> 1]}]
  <2>1. /\ row[m] = NoRow /\ row' = [row EXCEPT ![m] = s] /\ row'[m] = s
        /\ Seed(m, s) /\ key' = key /\ MayEnter(w)
        /\ told' = told \cup {[match |-> m, who |-> w, seat |-> 1]}
    BY <1>2 DEF CreateMatch, LobbyInv, RowsInv, RowInv
  <2>2. RowInv(s) /\ s.status = "lobby" /\ s.players = {[who |-> w, index |-> 1]}
    BY FirstRow
  <2> HIDE DEF s
  <2>3. KeysInv' /\ RowsInv' /\ RecordsInv' /\ row'[m] = s /\ \A n \in Matches : n # m => row'[n] = row[n]
    BY <2>1, <2>2, SeededAgain
  <2>4. AnswersInv'
    <3>1. row[m].players = {}
      BY <2>1 DEF NoRow
    <3>2. \A t \in told : t.match \in Matches /\ row[t.match].players # {}
      BY DEF LobbyInv, AnswersInv
    <3>3. \A t \in told : row[t.match].players \subseteq row'[t.match].players
      BY <2>3, <3>1, <3>2
    <3>4. 1 \in Seats
      BY DEF Seats, LobbyAssumption
    <3> QED
      BY <2>1, <2>2, <2>3, <3>3, <3>4, Answered
  <2>5. AllowancesInv'
    <3> SUFFICES ASSUME NEW k \in Keys
                 PROVE  IsFiniteSet(OpenMatches(k)') /\ Cardinality(OpenMatches(k)') <= Allowance[Owner[k]]
      BY DEF AllowancesInv
    <3>1. CASE k = w
      <4>1. OpenMatches(k)' \subseteq OpenMatches(k) \cup {m}
        BY <2>3 DEF OpenMatches
      <4> QED
        BY <2>1, <3>1, <4>1, OneMatchMore DEF MayEnter
    <3>2. CASE k # w
      <4>1. OpenMatches(k)' \subseteq OpenMatches(k)
        BY <2>2, <2>3, <3>2 DEF OpenMatches
      <4> QED
        BY <4>1, NoMoreMatches
    <3> QED
      BY <3>1, <3>2
  <2> QED
    BY <2>3, <2>4, <2>5 DEF LobbyInv
<1>3. ASSUME NEW m \in Matches, NEW w \in Competitors, JoinAgain(m, w)
      PROVE  LobbyInv'
  <2>1. /\ row' = row /\ Seed(m, row[m]) /\ key' = key /\ w \in DOMAIN Joined(row[m])
        /\ told' = told \cup {[match |-> m, who |-> w, seat |-> Joined(row[m])[w]]}
    BY <1>3 DEF JoinAgain
  <2>2. RowInv(row[m]) /\ row[m].status # "none" /\ row' = [row EXCEPT ![m] = row[m]]
    BY <1>3, <2>1 DEF JoinAgain, LobbyInv, RowsInv, RecordsInv
  <2>3. KeysInv' /\ RowsInv' /\ RecordsInv'
    BY <2>1, <2>2, SeededAgain
  <2>4. PICK p \in row[m].players : p.who = w /\ Joined(row[m])[w] = p.index
    <3>1. w \in Whos(row[m]) /\ \A p \in row[m].players : Joined(row[m])[p.who] = p.index
      BY <2>1, <2>2, SeatsInOrder
    <3> QED
      BY <3>1 DEF Whos
  <2>5. p = [who |-> w, index |-> Joined(row[m])[w]] /\ p.index \in Seats
    BY <2>2, <2>4 DEF RowInv
  <2>6. AnswersInv'
    BY <2>1, <2>4, <2>5, Answered
  <2>7. AllowancesInv'
    BY <2>1 DEF LobbyInv, AllowancesInv, OpenMatches
  <2> QED
    BY <2>3, <2>6, <2>7 DEF LobbyInv
<1>4. ASSUME NEW m \in Matches, NEW w \in Competitors, JoinMatch(m, w)
      PROVE  LobbyInv'
  <2> DEFINE new == [who |-> w, index |-> JoinIndex(row[m])]
             s == [row[m] EXCEPT !.players = @ \cup {new}]
  <2>1. RowInv(row[m]) /\ m \in DOMAIN row
    BY DEF LobbyInv, RowsInv
  <2>2. /\ row' = [row EXCEPT ![m] = s] /\ key' = key /\ MayEnter(w)
        /\ w \notin Whos(row[m]) /\ Joinable(row[m]) # {}
        /\ told' = told \cup {[match |-> m, who |-> w, seat |-> Min(Joinable(row[m]))]}
        /\ Seed(m, row'[m])
    BY <1>4, <2>1, SeatsInOrder DEF JoinMatch
  <2>3. Seed(m, s)
    BY <2>1, <2>2
  <2>4. RowInv(s)
    BY <2>1, <2>2, NewRow
  <2>5. row[m].status = "lobby" /\ Min(Joinable(row[m])) = JoinIndex(row[m]) /\ JoinIndex(row[m]) \in Seats
    BY <2>1, <2>2, AnswerIsRow
  <2>6. s.status = "lobby" /\ s.players = row[m].players \cup {new}
    BY <2>1, <2>5 DEF RowInv
  <2> HIDE DEF s
  <2>7. KeysInv' /\ RowsInv' /\ RecordsInv' /\ row'[m] = s /\ \A n \in Matches : n # m => row'[n] = row[n]
    BY <2>2, <2>3, <2>4, <2>6, SeededAgain
  <2>8. AnswersInv'
    <3>1. \A t \in told : row[t.match].players \subseteq row'[t.match].players
      BY <2>6, <2>7 DEF LobbyInv, AnswersInv
    <3>2. new \in row'[m].players
      BY <2>6, <2>7
    <3> QED
      BY <2>2, <2>5, <3>1, <3>2, Answered
  <2>9. AllowancesInv'
    <3> SUFFICES ASSUME NEW k \in Keys
                 PROVE  IsFiniteSet(OpenMatches(k)') /\ Cardinality(OpenMatches(k)') <= Allowance[Owner[k]]
      BY DEF AllowancesInv
    <3>1. CASE k = w
      <4>1. OpenMatches(k)' \subseteq OpenMatches(k) \cup {m}
        BY <2>7 DEF OpenMatches
      <4> QED
        BY <2>2, <3>1, <4>1, OneMatchMore DEF MayEnter
    <3>2. CASE k # w
      <4>1. OpenMatches(k)' \subseteq OpenMatches(k)
        BY <2>5, <2>6, <2>7, <3>2 DEF OpenMatches
      <4> QED
        BY <4>1, NoMoreMatches
    <3> QED
      BY <3>1, <3>2
  <2> QED
    BY <2>7, <2>8, <2>9 DEF LobbyInv
<1>5. ASSUME NEW m \in Matches, NEW w \in Competitors, StartMatch(m, w)
      PROVE  LobbyInv'
  <2> DEFINE s == [row[m] EXCEPT !.status = "active"]
  <2>1. RowInv(row[m]) /\ row[m].status = "lobby"
    BY <1>5 DEF StartMatch, LobbyInv, RowsInv
  <2>2. row' = [row EXCEPT ![m] = s] /\ row'[m] = s /\ Seed(m, s) /\ key' = key /\ told' = told
    BY <1>5 DEF StartMatch, LobbyInv, RowsInv
  <2>3. RowInv(s) /\ s.status = "active" /\ s.players = row[m].players
    BY <2>1, NextStatus DEF RowInv
  <2> HIDE DEF s
  <2>4. KeysInv' /\ RowsInv' /\ RecordsInv' /\ row'[m] = s /\ \A n \in Matches : n # m => row'[n] = row[n]
    BY <2>2, <2>3, SeededAgain
  <2>5. AnswersInv'
    BY <2>2, <2>3, <2>4 DEF LobbyInv, AnswersInv
  <2>6. AllowancesInv'
    <3>1. \A k \in Keys : OpenMatches(k)' = OpenMatches(k)
      BY <2>1, <2>3, <2>4 DEF OpenMatches
    <3> QED
      BY <3>1 DEF LobbyInv, AllowancesInv
  <2> QED
    BY <2>4, <2>5, <2>6 DEF LobbyInv
<1>6. ASSUME NEW m \in Matches, CompleteMatch(m)
      PROVE  LobbyInv'
  <2> DEFINE s == [row[m] EXCEPT !.status = "completed"]
  <2>1. RowInv(row[m]) /\ row[m].status = "active"
    BY <1>6 DEF CompleteMatch, LobbyInv, RowsInv
  <2>2. /\ row' = [row EXCEPT ![m] = s] /\ record' = [record EXCEPT ![m].status = "completed"]
        /\ UNCHANGED <<key, cache, told>>
    BY <1>6 DEF CompleteMatch
  <2>3. RowInv(s) /\ s.status = "completed" /\ s.players = row[m].players /\ Joined(s) = Joined(row[m])
    BY <2>1, NextStatus DEF RowInv
  <2> HIDE DEF s
  <2>4. row' = [n \in Matches |-> row'[n]] /\ row'[m] = s /\ \A n \in Matches : n # m => row'[n] = row[n]
    BY <2>2 DEF LobbyInv, RowsInv
  <2>5. KeysInv' /\ RowsInv'
    BY <2>2, <2>3, <2>4 DEF LobbyInv, KeysInv, RowsInv
  <2>6. RecordsInv'
    <3>1. record[m] = LoadedRecord(row[m])
      BY <2>1 DEF LobbyInv, RecordsInv
    <3>2. [record[m] EXCEPT !.status = "completed"] = LoadedRecord(s)
      BY <2>1, <2>3, <3>1 DEF LoadedRecord, Joinable
    <3>3. \A n \in Matches : record[n] = IF row[n].status = "none" THEN None ELSE LoadedRecord(row[n])
      BY DEF LobbyInv, RecordsInv
    <3>4. record' = [n \in Matches |-> IF n = m THEN LoadedRecord(s) ELSE record[n]]
      BY <2>2, <3>2 DEF LobbyInv, RecordsInv
    <3>5. \A n \in Matches : (IF n = m THEN LoadedRecord(s) ELSE record[n])
                             = (IF row'[n].status = "none" THEN None ELSE LoadedRecord(row'[n]))
      BY <2>3, <2>4, <3>3
    <3> QED
      BY <3>4, <3>5 DEF RecordsInv
  <2>7. AnswersInv'
    BY <2>2, <2>3, <2>4 DEF LobbyInv, AnswersInv
  <2>8. AllowancesInv'
    <3>1. \A k \in Keys : OpenMatches(k)' \subseteq OpenMatches(k)
      BY <2>1, <2>3, <2>4 DEF OpenMatches
    <3> QED
      BY <3>1, NoMoreMatches DEF AllowancesInv
  <2> QED
    BY <2>5, <2>6, <2>7, <2>8 DEF LobbyInv
<1>7. CASE Restart
  <2>1. RowsInv' /\ AnswersInv' /\ AllowancesInv'
    BY <1>7 DEF Restart, LobbyInv, RowsInv, AnswersInv, AllowancesInv, OpenMatches
  <2>2. RecordsInv'
    BY <1>7 DEF Restart, RecordsInv
  <2>3. KeysInv'
    BY <1>7 DEF Restart, LobbyInv, KeysInv
  <2> QED
    BY <2>1, <2>2, <2>3 DEF LobbyInv
<1>8. CASE UNCHANGED vars
  BY <1>8 DEF vars, LobbyInv, KeysInv, RowsInv, RecordsInv, AnswersInv, AllowancesInv, OpenMatches
<1> QED
  BY <1>1, <1>2, <1>3, <1>4, <1>5, <1>6, <1>7, <1>8 DEF Next

\* What the invariant says of rows, records, answers and allowances.
LEMMA LobbyInvImplies ==
    ASSUME LobbyInv
    PROVE  TypeOK /\ SeatPromised /\ OneSeatEach /\ RegistryMatchesRows /\ OccupancyBounded
<1>1. \A m \in Matches : RowInv(row[m])
  BY DEF LobbyInv, RowsInv
<1>2. \A m \in Matches : record[m] = IF row[m].status = "none" THEN None ELSE LoadedRecord(row[m])
  BY DEF LobbyInv, RecordsInv
<1>3. TypeOK
  <2>1. ASSUME NEW m \in Matches, record[m] # None
        PROVE  record[m] \in Record
    <3>1. RowInv(row[m]) /\ row[m].status # "none" /\ record[m] = LoadedRecord(row[m])
      BY <1>1, <1>2, <2>1
    <3>2. Joined(row[m]) \in [Whos(row[m]) -> Seats] /\ Whos(row[m]) \in SUBSET Competitors
      <4>1. Joined(row[m]) \in [Whos(row[m]) -> Seats]
        BY <3>1, SeatsInOrder
      <4>2. \A p \in row[m].players : p.who \in Competitors
        BY <3>1 DEF RowInv
      <4> QED
        BY <4>1, <4>2 DEF Whos
    <3>3. Joinable(row[m]) \subseteq Seats
      BY DEF Joinable
    <3>4. Joined(row[m]) \in UNION {[S -> Seats] : S \in SUBSET Competitors}
      BY <3>2
    <3>5. row[m].status \in {"lobby", "active", "completed"}
      BY <3>1 DEF RowInv
    <3> DEFINE joined == Joined(row[m])
               joinable == Joinable(row[m])
    <3>6. LoadedRecord(row[m]) = [status |-> row[m].status, joined |-> joined, joinable |-> joinable]
      BY DEF LoadedRecord
    <3> HIDE DEF joined, joinable
    <3>7. [status |-> row[m].status, joined |-> joined, joinable |-> joinable] \in Record
      BY <3>3, <3>4, <3>5 DEF Record, joined, joinable
    <3> QED
      BY <3>1, <3>6, <3>7
  <2>2. \A m \in Matches : /\ row[m].status \in {"none", "lobby", "active", "completed"}
                           /\ row[m].creator \in Competitors \cup {None}
                           /\ row[m].players \subseteq [who : Competitors, index : Seats]
    BY <1>1 DEF RowInv
  <2>3. told \subseteq [match : Matches, who : Competitors, seat : Seats]
    BY DEF LobbyInv, AnswersInv
  <2> QED
    BY <2>1, <2>2, <2>3 DEF TypeOK, LobbyInv, KeysInv
<1>4. SeatPromised
  <2> SUFFICES ASSUME NEW t \in told
               PROVE  /\ ResolvedSeat(t.match, t.who) = t.seat
                      /\ {p.who : p \in PersistedPlayers(t.match, t.seat)} = {t.who}
    BY DEF SeatPromised
  <2> DEFINE r == row[t.match]
             p0 == [who |-> t.who, index |-> t.seat]
  <2>1. t.match \in Matches /\ t.who \in Competitors /\ p0 \in r.players
    BY DEF LobbyInv, AnswersInv
  <2>2. RowInv(r)
    BY <1>1, <2>1
  <2>3. r.status # "none"
    BY <2>1, <2>2 DEF RowInv, NoRow
  <2>4. record[t.match] = LoadedRecord(r)
    BY <1>2, <2>1, <2>3
  <2> HIDE DEF r
  <2>5. /\ SeatedRows(r) = r.players /\ DOMAIN Joined(r) = Whos(r)
        /\ \A p \in r.players : Joined(r)[p.who] = p.index
    BY <2>2, SeatsInOrder
  <2>6. Joined(r)[t.who] = t.seat /\ t.who \in DOMAIN Joined(r)
    BY <2>1, <2>5 DEF Whos
  <2>7. ResolvedSeat(t.match, t.who) = t.seat
    BY <2>4, <2>6 DEF ResolvedSeat, AgentSeat, HumanSeat, LoadedRecord, r
  <2>8. PersistedPlayers(t.match, t.seat) = {p0}
    <3>1. PersistedPlayers(t.match, t.seat) = {p \in r.players : p.index = p0.index}
      BY <2>5 DEF PersistedPlayers, r
    <3> HIDE DEF p0
    <3> QED
      BY <2>1, <2>2, <3>1 DEF RowInv
  <2> QED
    BY <2>7, <2>8
<1>5. OneSeatEach
  BY <1>1 DEF OneSeatEach, RowInv
<1>6. RegistryMatchesRows
  <2> SUFFICES ASSUME NEW m \in Matches
               PROVE  IF row[m].status = "none" THEN record[m] = None
                      ELSE record[m].status = row[m].status /\ record[m].joined = Joined(row[m])
    BY DEF RegistryMatchesRows
  <2>1. /\ LoadedRecord(row[m]).status = row[m].status
        /\ LoadedRecord(row[m]).joined = Joined(row[m])
    BY DEF LoadedRecord
  <2> QED
    BY <1>2, <2>1
<1>7. OccupancyBounded
  BY DEF LobbyInv, AllowancesInv, OccupancyBounded, Occupancy, OpenMatches
<1> QED
  BY <1>3, <1>4, <1>5, <1>6, <1>7

\* What changes the row of a match is an action on this match.
LEMMA ElsewhereUnchanged ==
    ASSUME LobbyInv, [Next]_vars, NEW m \in Matches
    PROVE  \/ row'[m] = row[m]
           \/ CompleteMatch(m)
           \/ \E w \in Competitors : CreateMatch(m, w) \/ JoinMatch(m, w) \/ StartMatch(m, w)
<1>1. ASSUME NEW n \in Matches, NEW w \in Competitors, n # m,
             CreateMatch(n, w) \/ JoinMatch(n, w) \/ StartMatch(n, w)
      PROVE  row'[m] = row[m]
  <2>1. PICK r : row' = [row EXCEPT ![n] = r]
    BY <1>1 DEF CreateMatch, JoinMatch, StartMatch
  <2> QED
    BY <1>1, <2>1 DEF LobbyInv, RowsInv
<1>2. ASSUME NEW n \in Matches, n # m, CompleteMatch(n)
      PROVE  row'[m] = row[m]
  <2>1. PICK r : row' = [row EXCEPT ![n] = r]
    BY <1>2 DEF CompleteMatch
  <2> QED
    BY <1>2, <2>1 DEF LobbyInv, RowsInv
<1>3. ASSUME \/ \E k \in Keys : CreateKey(k) \/ RevokeKey(k)
             \/ \E n \in Matches, w \in Competitors : JoinAgain(n, w)
             \/ Restart
             \/ UNCHANGED vars
      PROVE  row' = row
  BY <1>3 DEF CreateKey, RevokeKey, JoinAgain, Restart, vars
<1> QED
  BY <1>1, <1>2, <1>3 DEF Next

\* An agent whose key was revoked neither comes in nor starts what it opened.
LEMMA RevokedStaysOut ==
    ASSUME LobbyInv, [Next]_vars
    PROVE  NothingForRevoked
<1> SUFFICES ASSUME NEW k \in Keys, NEW m \in Matches, key[k] = "revoked"
             PROVE  /\ (\E p \in row'[m].players : p.who = k) => \E p \in row[m].players : p.who = k
                    /\ row[m].status = "lobby" /\ row[m].creator = k => row'[m].status = "lobby"
  BY DEF NothingForRevoked
<1>1. ~MayAct(k)
  BY DEF MayAct, ActiveInDatabase
<1>2. m \in DOMAIN row /\ {"status", "creator", "players"} = DOMAIN row[m]
  BY DEF LobbyInv, RowsInv, RowInv
<1>3. CASE row'[m] = row[m]
  BY <1>3
<1>4. ASSUME NEW w \in Competitors, CreateMatch(m, w)
      PROVE  w # k /\ row[m].status = "none" /\ row'[m].players = {[who |-> w, index |-> 1]}
  BY <1>1, <1>2, <1>4 DEF CreateMatch
<1>5. ASSUME NEW w \in Competitors, JoinMatch(m, w)
      PROVE  /\ w # k /\ row'[m].status = row[m].status
             /\ row'[m].players = row[m].players \cup {[who |-> w, index |-> JoinIndex(row[m])]}
  BY <1>1, <1>2, <1>5 DEF JoinMatch
<1>6. ASSUME NEW w \in Competitors, StartMatch(m, w)
      PROVE  row'[m].players = row[m].players /\ row[m].creator # k
  BY <1>1, <1>2, <1>6 DEF StartMatch
<1>7. CASE CompleteMatch(m)
  BY <1>2, <1>7 DEF CompleteMatch
<1>8. \/ row'[m] = row[m]
      \/ CompleteMatch(m)
      \/ \E w \in Competitors : CreateMatch(m, w) \/ JoinMatch(m, w) \/ StartMatch(m, w)
  BY ElsewhereUnchanged
<1> QED
  BY <1>3, <1>4, <1>5, <1>6, <1>7, <1>8

\* Lobbies alone take newcomers in.
LEMMA StartedTakesNobody ==
    ASSUME LobbyInv, [Next]_vars
    PROVE  RosterStays
<1> SUFFICES ASSUME NEW m \in Matches, row[m].status \in {"active", "completed"}
             PROVE  row'[m].players = row[m].players
  BY DEF RosterStays
<1>1. m \in DOMAIN row /\ {"status", "creator", "players"} = DOMAIN row[m]
  BY DEF LobbyInv, RowsInv, RowInv
<1>2. \A w \in Competitors : ~CreateMatch(m, w) /\ ~JoinMatch(m, w)
  BY DEF CreateMatch, JoinMatch, Joinable
<1>3. \A w \in Competitors : StartMatch(m, w) => row'[m].players = row[m].players
  BY <1>1 DEF StartMatch
<1>4. CompleteMatch(m) => row'[m].players = row[m].players
  BY <1>1 DEF CompleteMatch
<1> QED
  BY <1>2, <1>3, <1>4, ElsewhereUnchanged

\* However many people, agents, matches and seats, through revoked keys, repeated joins and
\* restarts: the seat a join was answered with is the one that is played, everybody has one, no
\* agent is in more matches than its owner's grant allows, and neither a revoked key nor a
\* started match lets anybody in.
THEOREM SeatsAreRight == Spec => SeatsRight
<1>1. Spec => []LobbyInv
  BY NobodyAtFirst, LobbyStep, PTL DEF Spec
<1>2. LobbyInv => TypeOK /\ SeatPromised /\ OneSeatEach /\ RegistryMatchesRows /\ OccupancyBounded
  BY LobbyInvImplies
<1>3. LobbyInv /\ [Next]_vars => [NothingForRevoked]_vars /\ [RosterStays]_vars
  BY RevokedStaysOut, StartedTakesNobody
<1> QED
  BY <1>1, <1>2, <1>3, PTL DEF Spec, SeatsRight, RevokedGainsNothing, RosterFixedAtStart

-----------------------------------------------------------------------------
(* Starting cities.                                                        *)

\* Owners are a function on the cities that gives no two players cities next to each other.
DealingInv == owner = [c \in Cities |-> owner[c]] /\ Apart

\* Adjacency is symmetric, as the lookup enters every edge at both its ends.
LEMMA Symmetric ==
    ASSUME NEW c \in Cities, NEW d \in Cities, {c, d} \in edges
    PROVE  d \in Adjacency(c) /\ c \in Adjacency(d)
<1>1. {c, d} = {d, c}
  OBVIOUS
<1> QED
  BY <1>1 DEF Adjacency

\* Cities that can be assigned to a player may be assigned to it together.
LEMMA AssignTogether ==
    ASSUME DealingInv, NEW STATE p, NEW STATE S, S \subseteq Cities, \A c \in S : CanAssign(c, p),
           owner' = [c \in Cities |-> IF c \in S THEN p ELSE owner[c]], edges' = edges
    PROVE  DealingInv'
<1>1. owner' = [c \in Cities |-> owner'[c]]
  OBVIOUS
<1>2. Apart'
  <2> SUFFICES ASSUME NEW c \in Cities, NEW d \in Cities, {c, d} \in edges,
                      owner'[c] # Unassigned, owner'[d] # Unassigned
               PROVE  owner'[c] = owner'[d]
    BY DEF Apart
  <2>1. d \in Adjacency(c) /\ c \in Adjacency(d)
    BY Symmetric
  <2>2. CASE c \in S /\ d \in S
    BY <2>2
  <2>3. CASE c \in S /\ d \notin S
    <3>1. owner[d] \in {Unassigned, p}
      BY <2>1, <2>3 DEF CanAssign
    <3> QED
      BY <3>1, <2>3
  <2>4. CASE c \notin S /\ d \in S
    <3>1. owner[c] \in {Unassigned, p}
      BY <2>1, <2>4 DEF CanAssign
    <3> QED
      BY <3>1, <2>4
  <2>5. CASE c \notin S /\ d \notin S
    BY <2>5 DEF DealingInv, Apart
  <2> QED
    BY <2>2, <2>3, <2>4, <2>5
<1> QED
  BY <1>1, <1>2 DEF DealingInv

\* The start of initialize_match_state assigns nothing.
LEMMA NothingDealtAtFirst == AssignInit => DealingInv
BY DEF AssignInit, DealingInv, Apart

\* Every step of the assignment preserves the rule.
LEMMA DealingKeepsApart ==
    ASSUME DealingInv, [AssignNext]_assignVars
    PROVE  DealingInv'
<1>1. CASE ReadEntry
  <2> DEFINE e == roster[entry]
  <2>1. CASE owner' = owner
    BY <1>1, <2>1 DEF ReadEntry, DealingInv, Apart
  <2>2. CASE owner' # owner
    <3>1. ValidEntry(e) /\ e.cities # Unassigned
      BY <1>1, <2>2 DEF ReadEntry
    <3>2. owner' = [c \in Cities |-> IF c \in ToSet(e.cities) \cap Cities THEN e.player ELSE owner[c]]
      BY <1>1, <2>2, <3>1 DEF ReadEntry
    <3>3. \A c \in ToSet(e.cities) \cap Cities : CanAssign(c, e.player)
      BY <3>1 DEF ValidEntry
    <3>4. edges' = edges
      BY <1>1 DEF ReadEntry
    <3> QED
      BY <3>2, <3>3, <3>4, AssignTogether
  <2> QED
    BY <2>1, <2>2
<1>2. CASE AssignCity
  <2>1. PICK c \in Candidates : owner' = [owner EXCEPT ![c] = Turn]
    BY <1>2 DEF AssignCity
  <2>2. c \in Cities /\ CanAssign(c, Turn)
    BY <2>1, CitiesAssumption DEF Candidates
  <2> DEFINE S == {c}
  <2>3. owner' = [d \in Cities |-> IF d \in S THEN Turn ELSE owner[d]]
    BY <2>1, <2>2 DEF DealingInv
  <2>4. edges' = edges
    BY <1>2 DEF AssignCity
  <2>5. S \subseteq Cities /\ \A d \in S : CanAssign(d, Turn)
    BY <2>2
  <2> HIDE DEF S
  <2> QED
    BY <2>3, <2>4, <2>5, AssignTogether
<1>3. CASE Backtrack
  <2>1. edges' = edges
    BY <1>3 DEF Backtrack
  <2>2. CASE owner' = owner
    BY <2>1, <2>2 DEF DealingInv, Apart
  <2>3. CASE owner' = [owner EXCEPT ![Last(trail)] = Unassigned]
    <3>1. owner' = [d \in Cities |-> IF d = Last(trail) THEN Unassigned ELSE owner[d]]
      BY <2>3 DEF DealingInv
    <3> QED
      BY <3>1, <2>1 DEF DealingInv, Apart
  <2> QED
    BY <1>3, <2>2, <2>3 DEF Backtrack
<1>4. CASE StartSearch \/ Complete \/ UNCHANGED assignVars
  <2>1. owner' = owner /\ edges' = edges
    BY <1>4 DEF StartSearch, Complete, assignVars
  <2> QED
    BY <2>1 DEF DealingInv, Apart
<1> QED
  BY <1>1, <1>2, <1>3, <1>4 DEF AssignNext

\* Whatever the map, the roster and the search, no two players are ever given cities next to
\* each other: what _validate_starting_city and _can_assign_city check adds up to the rule.
THEOREM NeverNextToEachOther == AssignSpec => []Apart
<1>1. DealingInv => Apart
  BY DEF DealingInv
<1> QED
  BY NothingDealtAtFirst, DealingKeepsApart, <1>1, PTL DEF AssignSpec

-----------------------------------------------------------------------------
(* The search for starting cities: it takes the trails in the order of     *)
(* their cities, and SearchInv says that it has not passed a solution.     *)

\* What the entries read so far have asked for.
Asked(c, p) ==
    \E i \in 1..(entry - 1) : /\ roster[i].player = p /\ roster[i].cities # Unassigned
                              /\ c \in ToSet(roster[i].cities)

\* What the search has dealt out and not taken back.
Dealt(c, p) == \E j \in DOMAIN trail : trail[j] = c /\ AssignmentOrder[j] = p

\* The entries read name a player each, and legal cities.
ReadWell ==
    \A i \in 1..(entry - 1) :
        /\ \A j \in 1..(i - 1) : roster[j].player # roster[i].player
        /\ roster[i].cities # Unassigned =>
              /\ Len(roster[i].cities) = PerPlayer /\ IsInjective(roster[i].cities)
              /\ ToSet(roster[i].cities) \subseteq Legal

\* Who owns a city has asked for it or was dealt it.
Owners == \A c \in Cities, p \in Players : owner[c] = p <=> Asked(c, p) \/ Dealt(c, p)

\* The search deals each city once, and none that was asked for.
TrailFits ==
    /\ Len(trail) <= Slots
    /\ \A j \in DOMAIN trail : trail[j] \in Legal /\ \A p \in Players : ~Asked(trail[j], p)
    /\ \A i, j \in DOMAIN trail : trail[i] = trail[j] => i = j

\* How far the start has come.
Phases ==
    /\ phase # "failed" => roster # <<>> /\ PerPlayer \in 2..3
    /\ phase = "reading" => trail = <<>> /\ candidate = 0
    /\ phase \in {"searching", "done"} => entry = Len(roster) + 1
    /\ phase = "done" => Len(trail) = Slots

\* The players' lists are those of the cities they own.
Books ==
    \A p \in Players : /\ IsInjective(assigned[p])
                       /\ ToSet(assigned[p]) = {c \in Cities : owner[c] = p}

\* A player's list has its dealt cities in the order in which they were dealt.
DealtInOrder ==
    \A p \in Players : \A a, b \in DOMAIN assigned[p] : a < b =>
        \A i, j \in DOMAIN trail : trail[i] = assigned[p][a] /\ trail[j] = assigned[p][b] => i < j

\* A city for each slot, next to what was asked for and to one another where one player's are.
Solves(s) ==
    /\ \A i \in 1..Slots : \A p \in Players :
           /\ ~Asked(s[i], p)
           /\ \A d \in Adjacency(s[i]) : Asked(d, p) => p = AssignmentOrder[i]
    /\ \A i, j \in 1..Slots :
           /\ s[i] = s[j] => i = j
           /\ {s[i], s[j]} \in edges => AssignmentOrder[i] = AssignmentOrder[j]

\* s has the first n cities of the trail.
Shares(s, n) == \A j \in 1..n : s[j] = trail[j]

\* The search is past s: it would come before trail and candidate.
Passed(s) ==
    \/ \E i \in 1..Len(trail) : s[i] < trail[i] /\ Shares(s, i - 1)
    \/ Len(trail) < Slots /\ s[Len(trail) + 1] < candidate /\ Shares(s, Len(trail))

\* No solution has been passed.
NothingPassed ==
    phase = "searching" => \A s \in [1..Slots -> Legal] : Solves(s) => ~Passed(s)

\* What the search relies on.
SearchInv ==
    /\ AssignTypeOK /\ Phases /\ ReadWell /\ Owners /\ TrailFits /\ Books /\ DealtInOrder
    /\ NothingPassed /\ FailsOnlyForCause

USE CitiesAssumption, MapsAssumption, PerPlayerAssumption, UnassignedAssumption, RostersAssumption
USE DEF AssignTypeOK

\* The places of those to whom cities are dealt are listed in the roster's order.
LEMMA PlacesListed ==
    ASSUME roster \in Rosters
    PROVE  /\ IsFiniteSet(Undecided) /\ Cardinality(Undecided) \in Nat
           /\ Lists(Places, Undecided)
<1> DEFINE N == Cardinality(Undecided)
           ahead == [i \in Undecided |-> {j \in Undecided : j < i}]
<1>1. roster \in Seq([player : Players, cities : Seq(Cities) \cup {Unassigned}])
  OBVIOUS
<1>2. Undecided \subseteq 1..Len(roster) /\ Len(roster) \in Nat
  BY <1>1 DEF Undecided
<1>3. IsFiniteSet(Undecided) /\ N \in Nat
  <2>1. IsFiniteSet(1..Len(roster))
    BY <1>2, FS_Interval
  <2>2. IsFiniteSet(Undecided)
    BY <1>2, <2>1, FS_Subset
  <2> QED
    BY <2>2, FS_CardinalityType
<1>4. Ranks(ahead, Undecided)
  <2>1. \A i \in Undecided : i \in Nat /\ ahead[i] = {j \in Undecided : j < i}
    BY <1>2
  <2> HIDE DEF ahead
  <2>2. \A i \in Undecided : ahead[i] \subseteq Undecided /\ i \notin ahead[i]
    BY <2>1
  <2>3. \A i, j \in Undecided : j \in ahead[i] => ahead[j] \subseteq ahead[i]
    BY <2>1
  <2>4. \A i, j \in Undecided : i # j => i \in ahead[j] \/ j \in ahead[i]
    BY <2>1
  <2> QED
    BY <2>2, <2>3, <2>4 DEF Ranks
<1>5. \A i, j \in Undecided : i \in ahead[j] <=> i < j
  BY <1>2
<1> HIDE DEF ahead
<1>6. PICK s \in [1..N -> Undecided] : \A i, j \in 1..N : i < j => s[i] \in ahead[s[j]]
  BY <1>3, <1>4, RankedList
<1>7. \A i, j \in DOMAIN s : i < j => s[i] < s[j]
  BY <1>5, <1>6
<1>8. /\ Places \in [1..N -> Undecided]
      /\ \A i, j \in DOMAIN Places : i < j => Places[i] < Places[j]
  BY <1>7 DEF Places
<1>9. \A i, j \in 1..N : i < j => Places[i] \in ahead[Places[j]]
  BY <1>5, <1>8
<1> QED
  BY <1>3, <1>4, <1>8, <1>9, ListHasAll

\* The round of a slot, counted from 0, and the place in the list of those it is dealt to.
Round(j) ==
    IF j <= Cardinality(Undecided) THEN 0 ELSE IF j <= 2 * Cardinality(Undecided) THEN 1 ELSE 2

At(j) == ((j - 1) % Cardinality(Undecided)) + 1

\* Each round deals a city to everybody in the list.
LEMMA RoundByRound ==
    ASSUME Cardinality(Undecided) \in Nat, PerPlayer \in 2..3
    PROVE  /\ Slots \in Nat
           /\ \A j \in 1..Slots : /\ At(j) \in 1..Cardinality(Undecided)
                                  /\ Round(j) \in 0..(PerPlayer - 1)
                                  /\ j = At(j) + Round(j) * Cardinality(Undecided)
           /\ \A k \in 1..Cardinality(Undecided), r \in 0..(PerPlayer - 1) :
                  /\ k + r * Cardinality(Undecided) \in 1..Slots
                  /\ At(k + r * Cardinality(Undecided)) = k
                  /\ Round(k + r * Cardinality(Undecided)) = r
<1> DEFINE N == Cardinality(Undecided)
<1>1. N \in Nat /\ Slots = PerPlayer * N
  BY DEF Slots
<1> HIDE DEF N
<1>2. /\ PerPlayer = 2 => Slots = 2 * N /\ 0..(PerPlayer - 1) = {0, 1}
      /\ PerPlayer = 3 => Slots = 3 * N /\ 0..(PerPlayer - 1) = {0, 1, 2}
  BY <1>1
<1>3. PerPlayer = 2 \/ PerPlayer = 3
  OBVIOUS
<1>4. \A x \in 0..(N - 1) : x % N = x /\ (x + N) % N = x /\ (x + 2 * N) % N = x
  BY <1>1
<1>5. \A j : Round(j) = IF j <= N THEN 0 ELSE IF j <= 2 * N THEN 1 ELSE 2
  BY DEF Round, N
<1>6. \A j : At(j) = ((j - 1) % N) + 1
  BY DEF At, N
<1>7. \A k \in 1..N : /\ At(k) = k /\ Round(k) = 0 /\ At(k + N) = k /\ Round(k + N) = 1
                      /\ At(k + 2 * N) = k /\ Round(k + 2 * N) = 2
  <2> SUFFICES ASSUME NEW k \in 1..N
               PROVE  /\ At(k) = k /\ Round(k) = 0 /\ At(k + N) = k /\ Round(k + N) = 1
                      /\ At(k + 2 * N) = k /\ Round(k + 2 * N) = 2
    OBVIOUS
  <2>1. k - 1 \in 0..(N - 1) /\ (k + N) - 1 = (k - 1) + N /\ (k + 2 * N) - 1 = (k - 1) + 2 * N
    BY <1>1
  <2>2. At(k) = k /\ At(k + N) = k /\ At(k + 2 * N) = k
    <3>1. PICK x \in 0..(N - 1) : x = k - 1
      BY <2>1
    <3>2. x % N = x /\ (x + N) % N = x /\ (x + 2 * N) % N = x
      BY <1>4
    <3>3. k - 1 = x /\ (k + N) - 1 = x + N /\ (k + 2 * N) - 1 = x + 2 * N /\ x + 1 = k
      BY <1>1, <3>1
    <3>4. At(k) = x + 1
      BY <1>6, <3>2, <3>3, Zenon
    <3>5. At(k + N) = x + 1
      BY <1>6, <3>2, <3>3, Zenon
    <3>6. At(k + 2 * N) = x + 1
      BY <1>6, <3>2, <3>3, Zenon
    <3> QED
      BY <3>3, <3>4, <3>5, <3>6, Zenon
  <2>3. Round(k) = 0 /\ Round(k + N) = 1 /\ Round(k + 2 * N) = 2
    BY <1>1, <1>5
  <2> QED
    BY <2>2, <2>3
<1>8. \A k \in 1..N, r \in 0..(PerPlayer - 1) :
          k + r * N \in 1..Slots /\ At(k + r * N) = k /\ Round(k + r * N) = r
  <2> SUFFICES ASSUME NEW k \in 1..N, NEW r \in 0..(PerPlayer - 1)
               PROVE  k + r * N \in 1..Slots /\ At(k + r * N) = k /\ Round(k + r * N) = r
    OBVIOUS
  <2>1. k + 0 * N = k /\ k + 1 * N = k + N
    BY <1>1
  <2>2. r * N <= (PerPlayer - 1) * N /\ r * N \in Nat
    BY <1>1, <1>2, <1>3
  <2>3. k + r * N \in 1..Slots
    BY <1>1, <1>2, <1>3, <2>2
  <2>4. r = 0 \/ r = 1 \/ r = 2
    BY <1>2, <1>3
  <2>5. /\ At(k) = k /\ Round(k) = 0 /\ At(k + N) = k /\ Round(k + N) = 1
        /\ At(k + 2 * N) = k /\ Round(k + 2 * N) = 2
    BY <1>7
  <2>6. At(k + r * N) = k /\ Round(k + r * N) = r
    BY <2>1, <2>4, <2>5, Zenon
  <2> QED
    BY <2>3, <2>6
<1>9. ASSUME NEW j \in 1..Slots
      PROVE  At(j) \in 1..N /\ Round(j) \in 0..(PerPlayer - 1) /\ j = At(j) + Round(j) * N
  <2>1. PICK k \in 1..N, r \in 0..(PerPlayer - 1) : j = k + r * N
    <3>1. CASE j <= N
      <4>1. j \in 1..N /\ 0 \in 0..(PerPlayer - 1) /\ j = j + 0 * N
        BY <1>1, <1>2, <1>3, <3>1
      <4> QED
        BY <4>1
    <3>2. CASE j > N /\ j <= 2 * N
      <4>1. j - N \in 1..N /\ 1 \in 0..(PerPlayer - 1) /\ j = (j - N) + 1 * N
        BY <1>1, <1>2, <1>3, <3>2
      <4> QED
        BY <4>1
    <3>3. CASE j > 2 * N
      <4>1. j - 2 * N \in 1..N /\ 2 \in 0..(PerPlayer - 1) /\ j = (j - 2 * N) + 2 * N
        BY <1>1, <1>2, <1>3, <3>3
      <4> QED
        BY <4>1
    <3> QED
      BY <1>1, <1>2, <1>3, <3>1, <3>2, <3>3
  <2> QED
    BY <1>8, <2>1
<1>10. Slots \in Nat
  BY <1>1, <1>2, <1>3
<1> QED
  BY <1>8, <1>9, <1>10 DEF N

\* Everybody in the roster is named once.
Distinct == \A i, j \in DOMAIN roster : roster[i].player = roster[j].player => i = j

\* What the entries of the roster are.
LEMMA Entries ==
    ASSUME roster \in Rosters
    PROVE  /\ Len(roster) \in Nat /\ DOMAIN roster = 1..Len(roster)
           /\ \A i \in DOMAIN roster :
                  /\ roster[i].player \in Players /\ roster[i].player # Unassigned
                  /\ roster[i].cities # Unassigned =>
                         /\ roster[i].cities \in Seq(Cities) /\ ToSet(roster[i].cities) \subseteq Cities
<1>1. roster \in Seq([player : Players, cities : Seq(Cities) \cup {Unassigned}])
  OBVIOUS
<1>2. Len(roster) \in Nat /\ DOMAIN roster = 1..Len(roster)
  BY <1>1
<1>3. \A i \in DOMAIN roster : roster[i] \in [player : Players, cities : Seq(Cities) \cup {Unassigned}]
  <2> DEFINE R == [player : Players, cities : Seq(Cities) \cup {Unassigned}]
  <2>1. roster \in Seq(R)
    BY <1>1
  <2> HIDE DEF R
  <2>2. \A i \in DOMAIN roster : roster[i] \in R
    BY <2>1
  <2> QED
    BY <2>2 DEF R
<1>4. \A i \in DOMAIN roster : /\ roster[i].player \in Players
                               /\ roster[i].cities \in Seq(Cities) \cup {Unassigned}
  BY <1>3
<1>5. \A s \in Seq(Cities) : ToSet(s) \subseteq Cities
  BY DEF ToSet
<1>6. \A p \in Players : p # Unassigned
  OBVIOUS
<1> QED
  BY <1>2, <1>4, <1>5, <1>6

\* Each slot is for a player that asked for no cities.
LEMMA OrderRight ==
    ASSUME roster \in Rosters, PerPlayer \in 2..3
    PROVE  \A j \in 1..Slots :
               /\ Places[At(j)] \in Undecided
               /\ AssignmentOrder[j] = roster[Places[At(j)]].player
               /\ AssignmentOrder[j] \in Players
<1> SUFFICES ASSUME NEW j \in 1..Slots
             PROVE  /\ Places[At(j)] \in Undecided
                    /\ AssignmentOrder[j] = roster[Places[At(j)]].player
                    /\ AssignmentOrder[j] \in Players
  OBVIOUS
<1>1. At(j) \in 1..Cardinality(Undecided)
  BY PlacesListed, RoundByRound
<1>2. Places[At(j)] \in Undecided
  BY <1>1, PlacesListed DEF Lists
<1>3. AssignmentOrder[j] = roster[Places[At(j)]].player
  BY DEF AssignmentOrder, At
<1>4. Places[At(j)] \in DOMAIN roster
  BY <1>2 DEF Undecided
<1> QED
  BY <1>2, <1>3, <1>4, Entries

\* Who is dealt cities is named by no entry that asks for some.
LEMMA DealtOnly ==
    ASSUME roster \in Rosters, PerPlayer \in 2..3, Distinct, NEW j \in 1..Slots,
           NEW i \in DOMAIN roster, roster[i].player = AssignmentOrder[j]
    PROVE  i = Places[At(j)] /\ roster[i].cities = Unassigned
<1>1. Places[At(j)] \in DOMAIN roster /\ roster[Places[At(j)]].cities = Unassigned
  BY OrderRight DEF Undecided
<1>2. roster[Places[At(j)]].player = roster[i].player
  BY OrderRight
<1>3. Places[At(j)] = i
  BY <1>1, <1>2 DEF Distinct
<1> QED
  BY <1>1, <1>3

\* What is asked for is asked for by an entry of the roster.
LEMMA AskedBy ==
    ASSUME AssignTypeOK, NEW c, NEW p, Asked(c, p)
    PROVE  /\ p \in Players /\ c \in Cities
           /\ \E i \in DOMAIN roster : /\ i < entry /\ roster[i].player = p /\ roster[i].cities # Unassigned
                                       /\ c \in ToSet(roster[i].cities)
<1>1. PICK i \in 1..(entry - 1) : /\ roster[i].player = p /\ roster[i].cities # Unassigned
                                  /\ c \in ToSet(roster[i].cities)
  BY DEF Asked
<1>2. i \in DOMAIN roster /\ i < entry
  BY Entries
<1> QED
  BY <1>1, <1>2, Entries

\* Who was dealt a city is no player with cities asked for, once all entries are read.
LEMMA DealtNotAsked ==
    ASSUME AssignTypeOK, PerPlayer \in 2..3, Distinct, NEW j \in 1..Slots, NEW c
    PROVE  ~Asked(c, AssignmentOrder[j])
<1> SUFFICES ASSUME Asked(c, AssignmentOrder[j]) PROVE FALSE
  OBVIOUS
<1>1. PICK i \in DOMAIN roster : roster[i].player = AssignmentOrder[j] /\ roster[i].cities # Unassigned
  BY AskedBy
<1> QED
  BY <1>1, DealtOnly

\* A fair assignment gives what was asked for.
LEMMA FairKeeps ==
    ASSUME AssignTypeOK, NEW f, Fair(f, roster), NEW c, NEW p, Asked(c, p)
    PROVE  f[c] = p
<1>1. PICK i \in DOMAIN roster : /\ roster[i].player = p /\ roster[i].cities # Unassigned
                                 /\ c \in ToSet(roster[i].cities)
  BY AskedBy
<1>2. {d \in Cities : f[d] = roster[i].player} = ToSet(roster[i].cities)
  BY <1>1 DEF Fair
<1> QED
  BY <1>1, <1>2

\* Every fair assignment solves the search.
LEMMA FairSolves ==
    ASSUME AssignTypeOK, PerPlayer \in 2..3, Distinct, NEW f, Fair(f, roster)
    PROVE  \E s \in [1..Slots -> Legal] : Solves(s)
<1> DEFINE own(i) == {c \in Cities : f[c] = roster[i].player}
           bij == [i \in Undecided |-> CHOOSE g : g \in Bijection(1..PerPlayer, own(i))]
           s == [j \in 1..Slots |-> bij[Places[At(j)]][Round(j) + 1]]
<1>1. ASSUME NEW i \in Undecided
      PROVE  /\ \A r \in 1..PerPlayer : bij[i][r] \in Cities /\ f[bij[i][r]] = roster[i].player
             /\ \A q, r \in 1..PerPlayer : bij[i][q] = bij[i][r] => q = r
  <2>1. Cardinality(own(i)) = PerPlayer
    BY DEF Fair, Undecided
  <2>2. IsFiniteSet(own(i))
    BY FS_Subset
  <2> HIDE DEF own
  <2>3. \E g : g \in Bijection(1..PerPlayer, own(i))
    BY <2>1, <2>2, FS_CardinalityType DEF ExistsBijection
  <2>4. bij[i] \in Bijection(1..PerPlayer, own(i))
    BY <2>3
  <2> HIDE DEF bij
  <2>5. bij[i] \in [1..PerPlayer -> own(i)] /\ IsInjective(bij[i])
    BY <2>4 DEF Bijection, Injection
  <2> QED
    BY <2>5 DEF own, IsInjective
<1> HIDE DEF bij
<1>2. ASSUME NEW j \in 1..Slots
      PROVE  /\ s[j] = bij[Places[At(j)]][Round(j) + 1] /\ Round(j) + 1 \in 1..PerPlayer
             /\ Places[At(j)] \in Undecided
             /\ f[s[j]] = AssignmentOrder[j] /\ s[j] \in Cities /\ s[j] \in Legal
  <2>1. Round(j) + 1 \in 1..PerPlayer
    <3>1. Round(j) \in 0..(PerPlayer - 1)
      BY PlacesListed, RoundByRound
    <3> QED
      BY <3>1
  <2>2. Places[At(j)] \in Undecided /\ AssignmentOrder[j] = roster[Places[At(j)]].player
    BY OrderRight
  <2>3. s[j] = bij[Places[At(j)]][Round(j) + 1]
    OBVIOUS
  <2> HIDE DEF s
  <2>4. s[j] \in Cities /\ f[s[j]] = AssignmentOrder[j]
    BY <1>1, <2>1, <2>2, <2>3
  <2>5. AssignmentOrder[j] # Unassigned
    BY OrderRight
  <2> QED
    BY <2>1, <2>2, <2>3, <2>4, <2>5 DEF Fair
<1>3. s \in [1..Slots -> Legal]
  BY <1>2
<1> HIDE DEF s
<1>4. ASSUME NEW i \in 1..Slots, NEW p \in Players
      PROVE  /\ ~Asked(s[i], p)
             /\ \A d \in Adjacency(s[i]) : Asked(d, p) => p = AssignmentOrder[i]
  <2>1. ~Asked(s[i], p)
    <3>1. Asked(s[i], p) => p = AssignmentOrder[i]
      BY <1>2, FairKeeps
    <3>2. ~Asked(s[i], AssignmentOrder[i])
      BY DealtNotAsked
    <3> QED
      BY <3>1, <3>2
  <2>2. ASSUME NEW d \in Adjacency(s[i]), Asked(d, p) PROVE p = AssignmentOrder[i]
    <3>1. f[d] = p /\ p # Unassigned /\ d \in Cities /\ {s[i], d} \in edges
      BY <2>2, FairKeeps DEF Adjacency
    <3>2. f[s[i]] = AssignmentOrder[i] /\ s[i] \in Cities /\ AssignmentOrder[i] # Unassigned
      BY <1>2, OrderRight
    <3> QED
      BY <3>1, <3>2 DEF Fair
  <2> QED
    BY <2>1, <2>2
<1>5. ASSUME NEW i \in 1..Slots, NEW j \in 1..Slots, s[i] = s[j] PROVE i = j
  <2>1. f[s[i]] = AssignmentOrder[i] /\ f[s[i]] = AssignmentOrder[j]
    BY <1>2, <1>5
  <2>2. Places[At(i)] = Places[At(j)]
    <3>1. Places[At(i)] \in DOMAIN roster /\ roster[Places[At(i)]].player = AssignmentOrder[j]
      BY <2>1, OrderRight DEF Undecided
    <3> QED
      BY <3>1, DealtOnly
  <2>3. At(i) = At(j)
    <3>1. At(i) \in 1..Cardinality(Undecided) /\ At(j) \in 1..Cardinality(Undecided)
      BY PlacesListed, RoundByRound
    <3> QED
      BY <2>2, <3>1, PlacesListed DEF Lists
  <2>4. Round(i) = Round(j)
    <3>1. Round(i) + 1 = Round(j) + 1
      BY <1>1, <1>2, <1>5, <2>2
    <3>2. Round(i) \in 0..(PerPlayer - 1) /\ Round(j) \in 0..(PerPlayer - 1)
      BY PlacesListed, RoundByRound
    <3> QED
      BY <3>1, <3>2
  <2> QED
    BY <2>3, <2>4, PlacesListed, RoundByRound, Zenon
<1>6. ASSUME NEW i \in 1..Slots, NEW j \in 1..Slots, {s[i], s[j]} \in edges
      PROVE  AssignmentOrder[i] = AssignmentOrder[j]
  <2>1. /\ f[s[i]] = AssignmentOrder[i] /\ s[i] \in Cities /\ AssignmentOrder[i] # Unassigned
        /\ f[s[j]] = AssignmentOrder[j] /\ s[j] \in Cities /\ AssignmentOrder[j] # Unassigned
    BY <1>2, OrderRight
  <2> QED
    BY <1>6, <2>1 DEF Fair
<1>7. Solves(s)
  BY <1>4, <1>5, <1>6 DEF Solves
<1> QED
  BY <1>3, <1>7

\* How many slots there are is a number, whoever is in the roster.
LEMMA SlotsNatural ==
    ASSUME roster \in Rosters
    PROVE  Slots \in Nat
<1>1. Cardinality(Undecided) \in Nat /\ PerPlayer \in Nat
  BY PlacesListed
<1> QED
  BY <1>1 DEF Slots

\* The next city of a solution that goes on from the trail can be assigned.
LEMMA SolutionFits ==
    ASSUME AssignTypeOK, PerPlayer \in 2..3, Owners, TrailFits, Len(trail) < Slots,
           NEW s \in [1..Slots -> Legal], Solves(s), Shares(s, Len(trail))
    PROVE  /\ Len(trail) + 1 \in 1..Slots
           /\ s[Len(trail) + 1] \in Legal /\ CanAssign(s[Len(trail) + 1], Turn)
<1> DEFINE n == Len(trail)
           c == s[n + 1]
<1>1. n \in Nat /\ DOMAIN trail = 1..n /\ Slots \in Nat /\ n < Slots
  BY SlotsNatural
<1>2. n + 1 \in 1..Slots /\ \A j \in 1..n : j \in 1..Slots /\ j # n + 1 /\ s[j] = trail[j]
  <2>1. \A j \in 1..n : s[j] = trail[j]
    BY DEF Shares
  <2> HIDE DEF n
  <2>2. n + 1 \in 1..Slots /\ \A j \in 1..n : j \in 1..Slots /\ j # n + 1
    BY <1>1
  <2> QED
    BY <2>1, <2>2
<1>3. c \in Legal /\ c \in Cities
  BY <1>2
<1>4. Turn = AssignmentOrder[n + 1]
  BY DEF Turn
<1> HIDE DEF n
<1>5. owner[c] = Unassigned
  <2> SUFFICES ASSUME NEW p \in Players, owner[c] = p PROVE FALSE
    BY <1>3
  <2>1. ~Asked(c, p)
    BY <1>2 DEF Solves
  <2>2. Dealt(c, p)
    BY <1>3, <2>1 DEF Owners
  <2>3. PICK j \in 1..n : trail[j] = c
    BY <1>1, <2>2 DEF Dealt
  <2> QED
    BY <1>2, <2>3 DEF Solves
<1>6. ASSUME NEW d \in Adjacency(c), NEW p \in Players, owner[d] = p PROVE p = Turn
  <2>1. d \in Cities /\ {c, d} \in edges
    BY DEF Adjacency
  <2>2. CASE Asked(d, p)
    BY <1>2, <1>4, <2>2 DEF Solves
  <2>3. CASE Dealt(d, p)
    <3>1. PICK j \in 1..n : trail[j] = d /\ AssignmentOrder[j] = p
      BY <1>1, <2>3 DEF Dealt
    <3>2. {s[n + 1], s[j]} \in edges
      BY <1>2, <2>1, <3>1
    <3> QED
      BY <1>2, <1>4, <3>1, <3>2 DEF Solves
  <2> QED
    BY <1>6, <2>1, <2>2, <2>3 DEF Owners
<1>7. \A d \in Adjacency(c) : owner[d] \in {Unassigned, Turn}
  <2>1. \A d \in Adjacency(c) : d \in Cities /\ owner[d] \in Players \cup {Unassigned}
    BY DEF Adjacency
  <2> QED
    BY <1>6, <2>1
<1>8. CanAssign(c, Turn)
  BY <1>5, <1>7 DEF CanAssign
<1> QED
  BY <1>2, <1>3, <1>8 DEF n

\* Where no city is left for the next slot, no solution goes on from the trail.
LEMMA DeadEnd ==
    ASSUME AssignTypeOK, PerPlayer \in 2..3, Owners, TrailFits, Len(trail) < Slots, Candidates = {},
           NEW s \in [1..Slots -> Legal], Solves(s), ~Passed(s)
    PROVE  ~Shares(s, Len(trail))
<1> SUFFICES ASSUME Shares(s, Len(trail)) PROVE FALSE
  OBVIOUS
<1>1. s[Len(trail) + 1] \in Legal /\ CanAssign(s[Len(trail) + 1], Turn)
  BY SolutionFits
<1>2. ~(s[Len(trail) + 1] < candidate)
  BY DEF Passed
<1>3. s[Len(trail) + 1] \in Nat /\ candidate \in Nat
  BY <1>1
<1>4. s[Len(trail) + 1] >= candidate
  BY <1>2, <1>3
<1> QED
  BY <1>1, <1>4 DEF Candidates

\* The order of the slots is the roster's.
LEMMA SameOrder ==
    ASSUME roster' = roster
    PROVE  Undecided' = Undecided /\ Slots' = Slots /\ AssignmentOrder' = AssignmentOrder
<1>1. Undecided' = Undecided
  BY DEF Undecided
<1>2. Slots' = Slots
  BY <1>1 DEF Slots
<1>3. Places' = Places
  BY <1>1 DEF Places
<1> QED
  BY <1>1, <1>2, <1>3 DEF AssignmentOrder

\* What was asked for, and what solves the search, is settled once all entries are read.
LEMMA SameSearch ==
    ASSUME roster' = roster, entry' = entry, edges' = edges
    PROVE  /\ \A c, p : Asked(c, p)' <=> Asked(c, p)
           /\ \A s : Solves(s)' <=> Solves(s)
           /\ ReadWell' <=> ReadWell
<1>1. \A c, p : Asked(c, p)' <=> Asked(c, p)
  BY DEF Asked
<1>2. Slots' = Slots /\ AssignmentOrder' = AssignmentOrder
  BY SameOrder
<1>3. \A c : Adjacency(c)' = Adjacency(c)
  BY DEF Adjacency
<1>4. \A s : Solves(s)' <=> Solves(s)
  BY <1>1, <1>2, <1>3 DEF Solves
<1>5. ReadWell' <=> ReadWell
  BY DEF ReadWell
<1> QED
  BY <1>1, <1>4, <1>5

\* Nothing is asked for or dealt at first.
LEMMA NothingAskedAtFirst == AssignInit => SearchInv
<1> SUFFICES ASSUME AssignInit PROVE SearchInv
  OBVIOUS
<1>1. roster \in Rosters /\ Len(roster) \in Nat
  BY Entries DEF AssignInit
<1>2. AssignTypeOK
  BY <1>1 DEF AssignInit
<1>3. Phases /\ ReadWell /\ NothingPassed /\ FailsOnlyForCause
  BY DEF AssignInit, Phases, ReadWell, NothingPassed, FailsOnlyForCause
<1>4. Owners
  BY DEF AssignInit, Owners, Asked, Dealt
<1>5. TrailFits
  BY <1>1, SlotsNatural DEF AssignInit, TrailFits
<1>6. Books /\ DealtInOrder
  BY DEF AssignInit, Books, DealtInOrder, IsInjective, ToSet
<1> QED
  BY <1>2, <1>3, <1>4, <1>5, <1>6 DEF SearchInv

\* A list without repetitions is as long as the set of its elements is large.
LEMMA DifferentElements ==
    ASSUME NEW S, NEW s \in Seq(S), IsInjective(s)
    PROVE  Cardinality(ToSet(s)) = Len(s)
<1> DEFINE n == Len(s)
<1>1. n \in Nat /\ DOMAIN s = 1..n /\ s \in [1..n -> ToSet(s)]
  BY DEF ToSet
<1>2. s \in Bijection(1..n, ToSet(s))
  BY <1>1 DEF Bijection, Injection, Surjection, ToSet
<1>3. IsFiniteSet(1..n) /\ Cardinality(1..n) = n
  <2> HIDE DEF n
  <2>1. IsFiniteSet(1..n) /\ Cardinality(1..n) = IF 1 > n THEN 0 ELSE n - 1 + 1
    BY <1>1, FS_Interval
  <2> QED
    BY <1>1, <2>1
<1> QED
  BY <1>2, <1>3, FS_Bijection DEF ExistsBijection

\* As long as the entries are read, nothing is dealt.
LEMMA NothingDealt ==
    ASSUME trail = <<>>
    PROVE  \A c, p : ~Dealt(c, p)
BY DEF Dealt

\* An entry is refused for something no fair assignment can give.
LEMMA EntryRefused ==
    ASSUME SearchInv, phase = "reading", entry <= Len(roster), Distinct, PerPlayer \in 2..3,
           ~ValidEntry(roster[entry]), NEW f \in [Cities -> Players \cup {Unassigned}]
    PROVE  ~Fair(f, roster)
<1> SUFFICES ASSUME Fair(f, roster) PROVE FALSE
  OBVIOUS
<1> DEFINE e == roster[entry]
<1>1. entry \in DOMAIN roster /\ \A i \in 1..(entry - 1) : i \in DOMAIN roster /\ i # entry
  BY Entries DEF SearchInv
<1>2. \A i \in 1..(entry - 1) : roster[i].player # e.player
  BY <1>1 DEF Distinct
<1>3. e.cities # Unassigned
  BY <1>2 DEF ValidEntry
<1>4. /\ e.player \in Players /\ e.player # Unassigned
      /\ e.cities \in Seq(Cities) /\ ToSet(e.cities) \subseteq Cities
  BY <1>1, <1>3, Entries DEF SearchInv
<1>5. /\ {c \in Cities : f[c] = e.player} = ToSet(e.cities) /\ IsInjective(e.cities)
      /\ Cardinality(ToSet(e.cities)) = PerPlayer
  BY <1>1, <1>3 DEF Fair
<1>6. Len(e.cities) = PerPlayer
  BY <1>4, <1>5, DifferentElements
<1> HIDE DEF e
<1>7. \A c \in Cities, p \in Players : owner[c] = p => f[c] = p
  <2>1. trail = <<>>
    BY DEF SearchInv, Phases
  <2>2. \A c \in Cities, p \in Players : owner[c] = p => Asked(c, p)
    BY <2>1, NothingDealt DEF SearchInv, Owners
  <2>3. \A c, p : Asked(c, p) => f[c] = p
    BY FairKeeps DEF SearchInv
  <2> QED
    BY <2>2, <2>3
<1>8. ASSUME NEW c \in ToSet(e.cities) PROVE c \in Legal /\ CanAssign(c, e.player)
  <2>1. c \in Cities /\ f[c] = e.player
    BY <1>5
  <2>2. c \in Legal
    BY <1>4, <2>1 DEF Fair
  <2>3. owner[c] = Unassigned
    <3> SUFFICES ASSUME owner[c] \in Players PROVE FALSE
      BY <2>1 DEF SearchInv
    <3>1. owner[c] = e.player
      BY <1>7, <2>1
    <3>2. Asked(c, e.player)
      BY <1>4, <2>1, <3>1, NothingDealt DEF SearchInv, Owners, Phases
    <3>3. PICK i \in 1..(entry - 1) : roster[i].player = e.player
      BY <3>2 DEF Asked
    <3> QED
      BY <1>2, <3>3 DEF e
  <2>4. ASSUME NEW d \in Adjacency(c) PROVE owner[d] \in {Unassigned, e.player}
    <3>1. d \in Cities /\ {c, d} \in edges
      BY DEF Adjacency
    <3> SUFFICES ASSUME NEW p \in Players, owner[d] = p PROVE p = e.player
      BY <3>1 DEF SearchInv
    <3>2. f[d] = p /\ p # Unassigned
      BY <1>7, <3>1
    <3> QED
      BY <1>4, <2>1, <3>1, <3>2 DEF Fair
  <2> QED
    BY <2>2, <2>3, <2>4 DEF CanAssign
<1> QED
  BY <1>2, <1>3, <1>5, <1>6, <1>8 DEF ValidEntry, e

\* An entry that is not refused is kept to.
LEMMA EntryRead ==
    ASSUME SearchInv, ReadEntry, ValidEntry(roster[entry])
    PROVE  SearchInv'
<1> DEFINE e == roster[entry]
<1>1. /\ phase = "reading" /\ phase' = phase /\ entry' = entry + 1 /\ trail = <<>> /\ trail' = <<>>
      /\ candidate = 0 /\ candidate' = 0 /\ roster' = roster /\ edges' = edges
      /\ entry \in DOMAIN roster /\ entry \in Nat \ {0}
  BY Entries DEF SearchInv, Phases, ReadEntry
<1>2. e.player \in Players /\ e.player # Unassigned
  BY <1>1, Entries DEF SearchInv
<1>3. e.cities # Unassigned =>
          /\ e.cities \in Seq(Cities) /\ ToSet(e.cities) \subseteq Cities
          /\ Len(e.cities) = PerPlayer /\ IsInjective(e.cities)
          /\ \A c \in ToSet(e.cities) : c \in Legal /\ owner[c] = Unassigned
  BY <1>1, Entries DEF SearchInv, ValidEntry, CanAssign
<1>4. \A i \in 1..(entry - 1) : roster[i].player # e.player
  BY DEF ValidEntry
<1>5. \A c, p : Asked(c, p)' <=> \/ Asked(c, p)
                                 \/ e.cities # Unassigned /\ p = e.player /\ c \in ToSet(e.cities)
  <2>1. 1..(entry' - 1) = (1..(entry - 1)) \cup {entry}
    BY <1>1
  <2> SUFFICES ASSUME NEW c, NEW p
               PROVE  Asked(c, p)' <=> \/ Asked(c, p)
                                       \/ e.cities # Unassigned /\ p = e.player /\ c \in ToSet(e.cities)
    OBVIOUS
  <2> DEFINE Names(i) == /\ roster[i].player = p /\ roster[i].cities # Unassigned
                         /\ c \in ToSet(roster[i].cities)
  <2>2. Asked(c, p)' <=> \E i \in 1..(entry' - 1) : Names(i)
    BY <1>1 DEF Asked
  <2>3. Asked(c, p) <=> \E i \in 1..(entry - 1) : Names(i)
    BY DEF Asked
  <2>4. Names(entry) <=> e.cities # Unassigned /\ p = e.player /\ c \in ToSet(e.cities)
    OBVIOUS
  <2> HIDE DEF Names
  <2> QED
    BY <2>1, <2>2, <2>3, <2>4
<1>6. \A c, p : ~Dealt(c, p) /\ ~Dealt(c, p)'
  BY <1>1 DEF Dealt
<1>7. \A c : ~Asked(c, e.player)
  BY <1>4 DEF Asked
<1>8. CASE e.cities = Unassigned
  <2>1. owner' = owner /\ assigned' = assigned
    BY <1>8 DEF ReadEntry
  <2>2. AssignTypeOK'
    BY <1>1, <2>1, Entries DEF SearchInv
  <2>3. ReadWell'
    <3>1. 1..(entry' - 1) = (1..(entry - 1)) \cup {entry}
      BY <1>1
    <3>2. \A i \in 1..(entry - 1) : i \in Nat /\ i # entry
      BY <1>1
    <3> QED
      BY <1>1, <1>4, <1>8, <3>1, <3>2 DEF SearchInv, ReadWell
  <2>4. Owners'
    <3>1. \A c, p : Asked(c, p)' <=> Asked(c, p)
      BY <1>5, <1>8
    <3>2. \A c \in Cities, p \in Players : owner[c] = p <=> Asked(c, p)
      BY <1>6 DEF SearchInv, Owners
    <3> QED
      BY <1>6, <2>1, <3>1, <3>2 DEF Owners
  <2>5. TrailFits' /\ Phases' /\ NothingPassed' /\ FailsOnlyForCause'
    BY <1>1, SlotsNatural, SameOrder DEF SearchInv, TrailFits, Phases, NothingPassed, FailsOnlyForCause
  <2>6. Books' /\ DealtInOrder'
    BY <1>1, <2>1 DEF SearchInv, Books, DealtInOrder
  <2> QED
    BY <2>2, <2>3, <2>4, <2>5, <2>6 DEF SearchInv
<1>9. CASE e.cities # Unassigned
  <2>1. /\ owner' = [c \in Cities |-> IF c \in ToSet(e.cities) THEN e.player ELSE owner[c]]
        /\ assigned' = [assigned EXCEPT ![e.player] = e.cities]
    BY <1>9 DEF ReadEntry
  <2> HIDE DEF e
  <2>2. /\ \A c \in Cities : owner'[c] = IF c \in ToSet(e.cities) THEN e.player ELSE owner[c]
        /\ \A p \in Players : assigned'[p] = IF p = e.player THEN e.cities ELSE assigned[p]
    BY <2>1 DEF SearchInv
  <2>3. AssignTypeOK'
    <3>1. owner' \in [Cities -> Players \cup {Unassigned}]
      BY <1>2, <2>1 DEF SearchInv
    <3>2. assigned' \in [Players -> Seq(Cities)]
      BY <1>2, <1>3, <1>9, <2>1 DEF SearchInv
    <3>3. entry' \in 1..(Len(roster') + 1) /\ trail' \in Seq(Cities)
      BY <1>1, Entries DEF SearchInv
    <3> QED
      BY <1>1, <3>1, <3>2, <3>3 DEF SearchInv
  <2>4. ReadWell'
    <3>1. 1..(entry' - 1) = (1..(entry - 1)) \cup {entry}
      BY <1>1
    <3> QED
      BY <1>1, <1>3, <1>4, <1>9, <3>1 DEF SearchInv, ReadWell, e
  <2>5. Owners'
    <3> SUFFICES ASSUME NEW c \in Cities, NEW p \in Players
                 PROVE  owner'[c] = p <=> Asked(c, p)' \/ Dealt(c, p)'
      BY DEF Owners
    <3>1. owner[c] = p <=> Asked(c, p)
      BY <1>6 DEF SearchInv, Owners
    <3>2. p # Unassigned
      OBVIOUS
    <3>3. CASE c \in ToSet(e.cities)
      <4>1. owner'[c] = e.player /\ ~Asked(c, p)
        BY <1>3, <1>9, <2>2, <3>1, <3>2, <3>3
      <4>2. Asked(c, p)' <=> p = e.player
        BY <1>5, <1>9, <3>3, <4>1
      <4> QED
        BY <1>6, <4>1, <4>2
    <3>4. CASE c \notin ToSet(e.cities)
      BY <1>5, <1>6, <2>2, <3>1, <3>4
    <3> QED
      BY <3>3, <3>4
  <2>6. TrailFits' /\ Phases' /\ NothingPassed' /\ FailsOnlyForCause'
    BY <1>1, SlotsNatural, SameOrder DEF SearchInv, TrailFits, Phases, NothingPassed, FailsOnlyForCause
  <2>7. Books'
    <3> SUFFICES ASSUME NEW p \in Players
                 PROVE  IsInjective(assigned'[p]) /\ ToSet(assigned'[p]) = {c \in Cities : owner'[c] = p}
      BY DEF Books
    <3>1. CASE p = e.player
      <4>1. \A c \in Cities : owner[c] # e.player
        BY <1>2, <1>6, <1>7 DEF SearchInv, Owners
      <4>2. assigned'[p] = e.cities
        BY <2>2, <3>1
      <4>3. \A c \in Cities : owner'[c] = p <=> c \in ToSet(e.cities)
        BY <2>2, <3>1, <4>1
      <4> QED
        BY <1>3, <1>9, <4>2, <4>3
    <3>2. CASE p # e.player
      <4>1. assigned'[p] = assigned[p]
        BY <2>2, <3>2
      <4>2. \A c \in Cities : owner'[c] = p <=> owner[c] = p
        BY <1>3, <1>9, <2>2, <3>2
      <4>3. IsInjective(assigned[p]) /\ ToSet(assigned[p]) = {c \in Cities : owner[c] = p}
        BY DEF SearchInv, Books
      <4> QED
        BY <4>1, <4>2, <4>3
    <3> QED
      BY <3>1, <3>2
  <2>8. DealtInOrder'
    BY <1>1 DEF DealtInOrder
  <2> QED
    BY <2>3, <2>4, <2>5, <2>6, <2>7, <2>8 DEF SearchInv
<1> QED
  BY <1>8, <1>9

\* A roster that asks for more cities than may be dealt has no fair assignment.
LEMMA TooMany ==
    ASSUME AssignTypeOK, Distinct, Len(roster) * PerPlayer > Cardinality(Legal),
           NEW f \in [Cities -> Players \cup {Unassigned}]
    PROVE  ~Fair(f, roster)
<1> SUFFICES ASSUME Fair(f, roster) PROVE FALSE
  OBVIOUS
<1> DEFINE N == Len(roster)
           own == [i \in 1..N |-> {c \in Cities : f[c] = roster[i].player}]
<1>1. N \in Nat /\ DOMAIN roster = 1..N /\ PerPlayer \in Nat
  BY Entries
<1>2. IsFiniteSet(1..N) /\ Cardinality(1..N) = N
  <2> HIDE DEF N
  <2>1. IsFiniteSet(1..N) /\ Cardinality(1..N) = IF 1 > N THEN 0 ELSE N - 1 + 1
    BY <1>1, FS_Interval
  <2> QED
    BY <1>1, <2>1
<1>3. \A i \in 1..N : IsFiniteSet(own[i]) /\ Cardinality(own[i]) = PerPlayer
  <2> SUFFICES ASSUME NEW i \in 1..N PROVE IsFiniteSet(own[i]) /\ Cardinality(own[i]) = PerPlayer
    OBVIOUS
  <2>1. own[i] \subseteq Cities
    OBVIOUS
  <2>2. Cardinality(own[i]) = PerPlayer
    <3>1. Cardinality({c \in Cities : f[c] = roster[i].player}) = PerPlayer
      BY <1>1 DEF Fair
    <3> QED
      BY <3>1
  <2> HIDE DEF own
  <2> QED
    BY <2>1, <2>2, FS_Subset
<1>4. \A i, j \in 1..N : i # j => own[i] \cap own[j] = {}
  BY <1>1 DEF Distinct
<1>5. PartsOf(own, 1..N) \subseteq Legal
  <2>1. \A i \in 1..N : own[i] \subseteq Legal
    <3>1. \A i \in 1..N : roster[i].player # Unassigned
      BY <1>1, Entries
    <3> QED
      BY <3>1 DEF Fair
  <2> HIDE DEF own
  <2> QED
    BY <2>1 DEF PartsOf
<1> HIDE DEF own
<1>6. Cardinality(PartsOf(own, 1..N)) = PerPlayer * N
  <2>1. /\ IsFiniteSet(PartsOf(own, 1..N))
        /\ Cardinality(PartsOf(own, 1..N)) = PerPlayer * Cardinality(1..N)
    BY <1>1, <1>2, <1>3, <1>4, PartsAdd
  <2> QED
    BY <1>2, <2>1
<1>7. IsFiniteSet(Legal) /\ Cardinality(Legal) \in Nat
  BY FS_Subset, FS_CardinalityType
<1>8. Cardinality(PartsOf(own, 1..N)) <= Cardinality(Legal)
  BY <1>5, <1>7, FS_Subset
<1>9. PerPlayer * N <= Cardinality(Legal) /\ N * PerPlayer = PerPlayer * N /\ N * PerPlayer \in Nat
  BY <1>1, <1>6, <1>8
<1> QED
  BY <1>7, <1>9

\* A start that goes on or fails without a change of roster, owners and trail.
LEMMA OnlyPhase ==
    ASSUME SearchInv, UNCHANGED <<edges, roster, entry, owner, assigned, trail, candidate>>,
           phase' \in {"reading", "searching", "done", "failed"}
    PROVE  /\ AssignTypeOK' /\ ReadWell' /\ Owners' /\ TrailFits' /\ Books' /\ DealtInOrder'
           /\ \A s : Passed(s)' <=> Passed(s)
<1>1. Slots' = Slots /\ AssignmentOrder' = AssignmentOrder
  BY SameOrder
<1>2. (\A c, p : Asked(c, p)' <=> Asked(c, p)) /\ ReadWell' <=> ReadWell
  BY SameSearch
<1>3. \A c, p : Dealt(c, p)' <=> Dealt(c, p)
  BY <1>1 DEF Dealt
<1>4. AssignTypeOK'
  BY DEF SearchInv
<1>5. ReadWell'
  BY SameSearch DEF SearchInv
<1>6. Owners'
  BY <1>2, <1>3 DEF SearchInv, Owners
<1>7. TrailFits'
  BY <1>1, <1>2 DEF SearchInv, TrailFits
<1>8. Books' /\ DealtInOrder'
  BY DEF SearchInv, Books, DealtInOrder
<1>9. \A s : Passed(s)' <=> Passed(s)
  BY <1>1 DEF Passed, Shares
<1> QED
  BY <1>4, <1>5, <1>6, <1>7, <1>8, <1>9

\* A start fails for a cause where no assignment is fair.
LEMMA FailedForCause ==
    ASSUME AssignTypeOK, roster' = roster, edges' = edges,
           PerPlayer \in 2..3 /\ Distinct => \A f \in [Cities -> Players \cup {Unassigned}] : ~Fair(f, roster)
    PROVE  FailsOnlyForCause'
<1>1. \A f : Fair(f, roster)' <=> Fair(f, roster)
  BY DEF Fair
<1>2. {roster[i].player : i \in DOMAIN roster} \subseteq Players
  BY Entries
<1>3. \A f \in [Cities -> {roster[i].player : i \in DOMAIN roster} \cup {Unassigned}] :
          f \in [Cities -> Players \cup {Unassigned}]
  BY <1>2
<1>4. PerPlayer \in 2..3 /\ Distinct =>
          ~\E f \in [Cities -> {roster[i].player : i \in DOMAIN roster} \cup {Unassigned}] : Fair(f, roster)'
  BY <1>1, <1>3
<1> QED
  BY <1>4 DEF FailsOnlyForCause, Distinct

\* An entry that is refused ends the start.
LEMMA RefusedStep ==
    ASSUME SearchInv, ReadEntry, ~ValidEntry(roster[entry])
    PROVE  SearchInv'
<1>1. /\ phase = "reading" /\ entry <= Len(roster) /\ phase' = "failed"
      /\ UNCHANGED <<edges, roster, entry, owner, assigned, trail, candidate>>
  BY DEF ReadEntry
<1>2. AssignTypeOK' /\ ReadWell' /\ Owners' /\ TrailFits' /\ Books' /\ DealtInOrder'
  BY <1>1, OnlyPhase
<1>3. Phases' /\ NothingPassed'
  BY <1>1 DEF Phases, NothingPassed
<1>4. FailsOnlyForCause'
  BY <1>1, EntryRefused, FailedForCause DEF SearchInv
<1> QED
  BY <1>2, <1>3, <1>4 DEF SearchInv

\* When all entries are read, everybody is named once.
LEMMA AllRead ==
    ASSUME AssignTypeOK, ReadWell, entry = Len(roster) + 1
    PROVE  Distinct
<1>1. 1..(entry - 1) = DOMAIN roster /\ DOMAIN roster \subseteq Nat \ {0}
  BY Entries
<1>2. \A i, j \in DOMAIN roster : j < i => j \in 1..(i - 1)
  BY <1>1
<1>3. \A i, j \in DOMAIN roster : j < i => roster[j].player # roster[i].player
  BY <1>1, <1>2 DEF ReadWell
<1> QED
  BY <1>1, <1>3 DEF Distinct

\* The search starts, unless more cities are asked for than there are.
LEMMA StartStep ==
    ASSUME SearchInv, StartSearch
    PROVE  SearchInv'
<1>1. /\ phase = "reading" /\ entry = Len(roster) + 1 /\ trail = <<>> /\ candidate = 0
      /\ roster # <<>> /\ PerPlayer \in 2..3
      /\ UNCHANGED <<edges, roster, entry, owner, assigned, trail, candidate>>
      /\ phase' = IF Len(roster) * PerPlayer > Cardinality(Legal) THEN "failed" ELSE "searching"
  BY Entries DEF SearchInv, Phases, StartSearch
<1>2. AssignTypeOK' /\ ReadWell' /\ Owners' /\ TrailFits' /\ Books' /\ DealtInOrder'
  BY <1>1, OnlyPhase
<1>3. Phases'
  BY <1>1 DEF Phases
<1>4. NothingPassed'
  <2>1. trail' = <<>> /\ candidate' = 0 /\ Slots' = Slots /\ Slots \in Nat
    BY <1>1, SameOrder, SlotsNatural DEF SearchInv
  <2>2. ASSUME NEW s \in [1..Slots -> Legal] PROVE ~Passed(s)'
    <3>1. Len(trail') = 0
      BY <2>1
    <3>2. 0 < Slots => s[1] \in Nat
      <4>1. 0 < Slots => 1 \in 1..Slots
        BY <2>1
      <4>2. \A i \in 1..Slots : s[i] \in Legal
        OBVIOUS
      <4> QED
        BY <4>1, <4>2
    <3>3. ~\E i \in 1..Len(trail') : TRUE
      BY <3>1
    <3>4. ~(Len(trail') < Slots' /\ s[Len(trail') + 1] < candidate')
      BY <2>1, <3>1, <3>2
    <3> QED
      BY <3>3, <3>4, Zenon DEF Passed
  <2> QED
    BY <2>1, <2>2 DEF NothingPassed
<1>5. FailsOnlyForCause'
  <2>1. CASE phase' = "failed"
    BY <1>1, <2>1, TooMany, FailedForCause DEF SearchInv
  <2>2. CASE phase' # "failed"
    BY <2>2 DEF FailsOnlyForCause
  <2> QED
    BY <2>1, <2>2
<1> QED
  BY <1>2, <1>3, <1>4, <1>5 DEF SearchInv

\* The search ends when every slot has its city.
LEMMA CompleteStep ==
    ASSUME SearchInv, Complete
    PROVE  SearchInv'
<1>1. /\ phase = "searching" /\ phase' = "done" /\ Len(trail) = Slots
      /\ UNCHANGED <<edges, roster, entry, owner, assigned, trail, candidate>>
  BY DEF Complete
<1>2. AssignTypeOK' /\ ReadWell' /\ Owners' /\ TrailFits' /\ Books' /\ DealtInOrder'
  BY <1>1, OnlyPhase
<1>3. Phases' /\ NothingPassed' /\ FailsOnlyForCause'
  BY <1>1, SameOrder DEF SearchInv, Phases, NothingPassed, FailsOnlyForCause
<1> QED
  BY <1>2, <1>3 DEF SearchInv

\* What the search starts a step from.
LEMMA Searching ==
    ASSUME SearchInv, phase = "searching"
    PROVE  /\ AssignTypeOK /\ Owners /\ TrailFits /\ Books /\ DealtInOrder /\ ReadWell
           /\ entry = Len(roster) + 1 /\ roster # <<>> /\ PerPlayer \in 2..3 /\ Distinct
           /\ Slots \in Nat /\ Len(trail) \in Nat /\ DOMAIN trail = 1..Len(trail)
           /\ \A s \in [1..Slots -> Legal] : Solves(s) => ~Passed(s)
           /\ \A j \in 1..Slots : AssignmentOrder[j] \in Players /\ AssignmentOrder[j] # Unassigned
           /\ \A p \in Players : /\ assigned[p] \in Seq(Cities) /\ Len(assigned[p]) \in Nat
                                 /\ DOMAIN assigned[p] = 1..Len(assigned[p])
<1>1. /\ AssignTypeOK /\ Owners /\ TrailFits /\ Books /\ DealtInOrder /\ ReadWell
      /\ entry = Len(roster) + 1 /\ roster # <<>> /\ PerPlayer \in 2..3
      /\ \A s \in [1..Slots -> Legal] : Solves(s) => ~Passed(s)
  BY DEF SearchInv, Phases, NothingPassed
<1>2. Distinct
  BY <1>1, AllRead
<1>3. Slots \in Nat
  BY <1>1, SlotsNatural
<1>4. \A j \in 1..Slots : AssignmentOrder[j] \in Players /\ AssignmentOrder[j] # Unassigned
  BY <1>1, OrderRight
<1>5. \A p \in Players : /\ assigned[p] \in Seq(Cities) /\ Len(assigned[p]) \in Nat
                         /\ DOMAIN assigned[p] = 1..Len(assigned[p])
  BY <1>1
<1>6. Len(trail) \in Nat /\ DOMAIN trail = 1..Len(trail)
  BY <1>1
<1> QED
  BY <1>1, <1>2, <1>3, <1>4, <1>5, <1>6

\* The search deals a city to the player whose turn it is.
LEMMA AssignStep ==
    ASSUME SearchInv, AssignCity
    PROVE  SearchInv'
<1> DEFINE n == Len(trail)
<1>1. /\ phase = "searching" /\ phase' = phase /\ n < Slots /\ candidate' = 0
      /\ edges' = edges /\ roster' = roster /\ entry' = entry
  BY DEF AssignCity
<1>2. PICK c \in Candidates :
          /\ \A d \in Candidates : c <= d
          /\ owner' = [owner EXCEPT ![c] = Turn]
          /\ assigned' = [assigned EXCEPT ![Turn] = Append(@, c)]
          /\ trail' = Append(trail, c)
  BY DEF AssignCity
<1>3. c \in Legal /\ c \in Cities /\ c \in Nat /\ owner[c] = Unassigned
  BY <1>2 DEF Candidates, CanAssign
<1>4. /\ AssignTypeOK /\ Owners /\ TrailFits /\ Books /\ DealtInOrder /\ ReadWell
      /\ entry = Len(roster) + 1 /\ roster # <<>> /\ PerPlayer \in 2..3
      /\ Slots \in Nat /\ n \in Nat /\ DOMAIN trail = 1..n
  BY <1>1, Searching
<1>5. n + 1 \in 1..Slots /\ Turn = AssignmentOrder[n + 1] /\ Turn \in Players /\ Turn # Unassigned
  <2>1. n + 1 \in 1..Slots
    BY <1>1, <1>4
  <2>2. Turn = AssignmentOrder[n + 1]
    BY DEF Turn
  <2> HIDE DEF n
  <2> QED
    BY <1>1, <2>1, <2>2, Searching
<1> HIDE DEF n
<1>6. /\ Len(trail') = n + 1 /\ DOMAIN trail' = 1..(n + 1) /\ trail'[n + 1] = c
      /\ \A j \in 1..n : trail'[j] = trail[j]
  <2>1. Len(trail) = n /\ trail \in Seq(Cities)
    BY <1>4 DEF n
  <2> QED
    BY <1>2, <1>3, <1>4, <2>1
<1>7. /\ \A d \in Cities : owner'[d] = IF d = c THEN Turn ELSE owner[d]
      /\ owner' \in [Cities -> Players \cup {Unassigned}]
  BY <1>2, <1>3, <1>4, <1>5
<1>8. /\ \A p \in Players : assigned'[p] = IF p = Turn THEN Append(assigned[p], c) ELSE assigned[p]
      /\ assigned' \in [Players -> Seq(Cities)]
  BY <1>2, <1>3, <1>4, <1>5
<1>9. /\ \A a, p : Asked(a, p)' <=> Asked(a, p)
      /\ \A s : Solves(s)' <=> Solves(s)
      /\ ReadWell' /\ Slots' = Slots /\ AssignmentOrder' = AssignmentOrder
  BY <1>1, <1>4, SameSearch, SameOrder
<1>10. \A p \in Players : ~Asked(c, p) /\ ~Dealt(c, p)
  BY <1>3, <1>4 DEF Owners
<1>11. \A j \in 1..n : trail[j] # c
  <2>1. \A j \in 1..n : AssignmentOrder[j] \in Players
    BY <1>1, <1>4, Searching DEF n
  <2> QED
    BY <1>4, <1>10, <2>1 DEF Dealt
<1>12. AssignTypeOK'
  <2>1. trail' \in Seq(Cities)
    BY <1>2, <1>3, <1>4
  <2> QED
    BY <1>1, <1>4, <1>7, <1>8, <2>1
<1>13. Phases'
  BY <1>1, <1>4 DEF Phases
<1>14. \A d, p : Dealt(d, p)' <=> Dealt(d, p) \/ (d = c /\ p = Turn)
  <2>1. 1..(n + 1) = (1..n) \cup {n + 1}
    BY <1>4
  <2> SUFFICES ASSUME NEW d, NEW p PROVE Dealt(d, p)' <=> Dealt(d, p) \/ (d = c /\ p = Turn)
    OBVIOUS
  <2>2. Dealt(d, p)' <=> \E j \in 1..(n + 1) : trail'[j] = d /\ AssignmentOrder[j] = p
    BY <1>6, <1>9 DEF Dealt
  <2>3. Dealt(d, p) <=> \E j \in 1..n : trail'[j] = d /\ AssignmentOrder[j] = p
    BY <1>4, <1>6 DEF Dealt
  <2> QED
    BY <1>5, <1>6, <2>1, <2>2, <2>3
<1>15. Owners'
  <2> SUFFICES ASSUME NEW d \in Cities, NEW p \in Players
               PROVE  owner'[d] = p <=> Asked(d, p)' \/ Dealt(d, p)'
    BY DEF Owners
  <2>1. CASE d = c
    BY <1>7, <1>9, <1>10, <1>14, <2>1
  <2>2. CASE d # c
    <3>1. owner'[d] = owner[d] /\ (Dealt(d, p)' <=> Dealt(d, p))
      BY <1>7, <1>14, <2>2
    <3>2. owner[d] = p <=> Asked(d, p) \/ Dealt(d, p)
      BY <1>4 DEF Owners
    <3> QED
      BY <1>9, <3>1, <3>2
  <2> QED
    BY <2>1, <2>2
<1>16. TrailFits'
  <2>1. Len(trail') <= Slots'
    BY <1>5, <1>6, <1>9
  <2>2. \A j \in 1..(n + 1) : j \in 1..n \/ j = n + 1
    BY <1>4
  <2>3. \A j \in 1..(n + 1) : trail'[j] \in Legal /\ \A p \in Players : ~Asked(trail'[j], p)
    BY <1>3, <1>4, <1>6, <1>10, <2>2 DEF TrailFits
  <2>4. \A i, j \in 1..(n + 1) : trail'[i] = trail'[j] => i = j
    BY <1>4, <1>6, <1>11, <2>2 DEF TrailFits
  <2> QED
    BY <1>6, <1>9, <2>1, <2>3, <2>4 DEF TrailFits
<1>17. ASSUME NEW p \in Players, p = Turn
       PROVE  /\ Len(assigned'[p]) = Len(assigned[p]) + 1 /\ Len(assigned[p]) \in Nat
              /\ DOMAIN assigned'[p] = 1..(Len(assigned[p]) + 1)
              /\ assigned'[p][Len(assigned[p]) + 1] = c
              /\ \A a \in 1..Len(assigned[p]) :
                     /\ a \in DOMAIN assigned[p] /\ assigned'[p][a] = assigned[p][a]
                     /\ assigned[p][a] # c
              /\ \A a \in DOMAIN assigned'[p] : a \in 1..Len(assigned[p]) \/ a = Len(assigned[p]) + 1
  <2> DEFINE s == assigned[p]
  <2>1. s \in Seq(Cities) /\ assigned'[p] = Append(s, c)
    BY <1>4, <1>8, <1>17
  <2>2. c \notin ToSet(s)
    BY <1>3, <1>4 DEF Books
  <2> HIDE DEF s
  <2>3. /\ Len(s) \in Nat /\ DOMAIN s = 1..Len(s) /\ Len(Append(s, c)) = Len(s) + 1
        /\ DOMAIN Append(s, c) = 1..(Len(s) + 1) /\ Append(s, c)[Len(s) + 1] = c
        /\ \A a \in 1..Len(s) : Append(s, c)[a] = s[a]
    BY <1>3, <2>1
  <2>4. \A a \in 1..Len(s) : s[a] # c
    BY <2>2, <2>3 DEF ToSet
  <2>5. \A a \in 1..(Len(s) + 1) : a \in 1..Len(s) \/ a = Len(s) + 1
    BY <2>3
  <2> QED
    BY <2>1, <2>3, <2>4, <2>5 DEF s
<1>18. Books'
  <2> SUFFICES ASSUME NEW p \in Players
               PROVE  IsInjective(assigned'[p]) /\ ToSet(assigned'[p]) = {d \in Cities : owner'[d] = p}
    BY DEF Books
  <2>1. IsInjective(assigned[p]) /\ ToSet(assigned[p]) = {d \in Cities : owner[d] = p}
    BY <1>4 DEF Books
  <2>2. CASE p = Turn
    <3>1. IsInjective(assigned'[p])
      <4> SUFFICES ASSUME NEW a \in DOMAIN assigned'[p], NEW b \in DOMAIN assigned'[p],
                          assigned'[p][a] = assigned'[p][b]
                   PROVE  a = b
        BY DEF IsInjective
      <4>1. /\ a \in 1..Len(assigned[p]) => a \in DOMAIN assigned[p] /\ assigned'[p][a] = assigned[p][a]
            /\ b \in 1..Len(assigned[p]) => b \in DOMAIN assigned[p] /\ assigned'[p][b] = assigned[p][b]
        BY <1>17, <2>2
      <4>2. a \in 1..Len(assigned[p]) <=> b \in 1..Len(assigned[p])
        BY <1>17, <2>2
      <4> QED
        BY <1>17, <2>1, <2>2, <4>1, <4>2, Zenon DEF IsInjective
    <3>2. \A d : d \in ToSet(assigned'[p]) <=> d \in ToSet(assigned[p]) \/ d = c
      <4>1. \A d : d \in ToSet(assigned'[p]) <=> \E a \in 1..(Len(assigned[p]) + 1) : assigned'[p][a] = d
        BY <1>17, <2>2 DEF ToSet
      <4>2. \A d : d \in ToSet(assigned[p]) <=> \E a \in 1..Len(assigned[p]) : assigned[p][a] = d
        BY <1>1, Searching DEF ToSet
      <4>3. /\ Len(assigned[p]) + 1 \in 1..(Len(assigned[p]) + 1)
            /\ 1..Len(assigned[p]) \subseteq 1..(Len(assigned[p]) + 1)
        BY <1>17, <2>2
      <4>4. /\ assigned'[p][Len(assigned[p]) + 1] = c
            /\ \A a \in 1..Len(assigned[p]) : assigned'[p][a] = assigned[p][a]
            /\ \A a \in 1..(Len(assigned[p]) + 1) : a \in 1..Len(assigned[p]) \/ a = Len(assigned[p]) + 1
        BY <1>17, <2>2, Zenon
      <4> QED
        BY <4>1, <4>2, <4>3, <4>4, Zenon
    <3>3. \A d \in Cities : owner'[d] = p <=> owner[d] = p \/ d = c
      BY <1>7, <2>2
    <3>4. \A d : d \in ToSet(assigned[p]) <=> d \in Cities /\ owner[d] = p
      BY <2>1
    <3>5. \A d : d \in ToSet(assigned'[p]) <=> d \in Cities /\ owner'[d] = p
      BY <1>3, <3>2, <3>3, <3>4
    <3> QED
      BY <3>1, <3>5
  <2>3. CASE p # Turn
    <3>1. assigned'[p] = assigned[p]
      BY <1>8, <2>3
    <3>2. \A d \in Cities : owner'[d] = p <=> owner[d] = p
      BY <1>3, <1>7, <2>3
    <3> QED
      BY <2>1, <3>1, <3>2
  <2> QED
    BY <2>2, <2>3
<1>19. DealtInOrder'
  <2> SUFFICES ASSUME NEW p \in Players, NEW a \in DOMAIN assigned'[p], NEW b \in DOMAIN assigned'[p], a < b,
                      NEW i \in DOMAIN trail', NEW j \in DOMAIN trail',
                      trail'[i] = assigned'[p][a], trail'[j] = assigned'[p][b]
               PROVE  i < j
    BY Zenon DEF DealtInOrder
  <2>0. i \in 1..(n + 1) /\ j \in 1..(n + 1)
    BY <1>6
  <2>1. (i \in 1..n \/ i = n + 1) /\ (j \in 1..n \/ j = n + 1)
    BY <1>4, <2>0
  <2>2. CASE p = Turn
    <3>1. a \in 1..Len(assigned[p]) /\ assigned'[p][a] = assigned[p][a] /\ assigned[p][a] # c
      BY <1>17, <2>2
    <3>2. i \in 1..n
      BY <1>6, <2>1, <3>1
    <3>3. CASE b \in 1..Len(assigned[p])
      <4>1. j \in 1..n /\ assigned'[p][b] = assigned[p][b]
        BY <1>6, <1>17, <2>1, <2>2, <3>3
      <4>2. a \in DOMAIN assigned[p] /\ b \in DOMAIN assigned[p]
        BY <1>17, <2>2, <3>1, <3>3
      <4>3. \A k, l \in DOMAIN trail : trail[k] = assigned[p][a] /\ trail[l] = assigned[p][b] => k < l
        BY <1>4, <4>2, Zenon DEF DealtInOrder
      <4> QED
        BY <1>4, <1>6, <3>1, <3>2, <4>1, <4>3
    <3>4. CASE b = Len(assigned[p]) + 1
      <4>1. j = n + 1
        BY <1>6, <1>11, <1>17, <2>1, <2>2, <3>4
      <4> QED
        BY <1>4, <3>2, <4>1
    <3> QED
      BY <1>17, <2>2, <3>3, <3>4
  <2>3. CASE p # Turn
    <3>1. assigned'[p] = assigned[p]
      BY <1>8, <2>3
    <3>2. \A d \in DOMAIN assigned[p] : assigned[p][d] # c
      <4>1. c \notin ToSet(assigned[p])
        BY <1>3, <1>4 DEF Books
      <4> QED
        BY <4>1 DEF ToSet
    <3>3. i \in 1..n /\ j \in 1..n
      BY <1>6, <2>1, <3>1, <3>2
    <3>4. \A k, l \in DOMAIN trail : trail[k] = assigned[p][a] /\ trail[l] = assigned[p][b] => k < l
      BY <1>4, <3>1, Zenon DEF DealtInOrder
    <3> QED
      BY <1>4, <1>6, <3>1, <3>3, <3>4
  <2> QED
    BY <2>2, <2>3
<1>20. NothingPassed'
  <2> SUFFICES ASSUME NEW s \in [1..Slots -> Legal], Solves(s), Passed(s)' PROVE FALSE
    BY <1>9 DEF NothingPassed
  <2>1. ~Passed(s)
    BY <1>1, Searching
  <2>2. \A m \in 0..n : Shares(s, m)' <=> Shares(s, m)
    BY <1>4, <1>6 DEF Shares
  <2>3. \/ \E i \in 1..(n + 1) : s[i] < trail'[i] /\ Shares(s, i - 1)'
        \/ n + 1 < Slots /\ s[(n + 1) + 1] < 0
    BY <1>1, <1>6, <1>9, <2>1 DEF Passed
  <2>4. ASSUME n + 1 < Slots PROVE ~(s[(n + 1) + 1] < 0)
    <3>1. (n + 1) + 1 \in 1..Slots
      BY <1>4, <2>4
    <3>2. s[(n + 1) + 1] \in Nat
      BY <3>1
    <3> QED
      BY <3>2
  <2>5. PICK i \in 1..(n + 1) : s[i] < trail'[i] /\ Shares(s, i - 1)'
    BY <2>3, <2>4
  <2>6. i - 1 \in 0..n /\ (i \in 1..n \/ i = n + 1) /\ (n + 1) - 1 = n
    BY <1>4
  <2>7. CASE i \in 1..n
    BY <1>6, <2>1, <2>2, <2>5, <2>6, <2>7 DEF Passed, n
  <2>8. CASE i = n + 1
    <3>1. Shares(s, n) /\ s[n + 1] < c
      BY <1>6, <2>2, <2>5, <2>6, <2>8
    <3>2. s[n + 1] \in Legal /\ CanAssign(s[n + 1], Turn)
      BY <1>1, <1>4, <3>1, SolutionFits DEF n
    <3>3. ~(s[n + 1] < candidate)
      BY <1>1, <2>1, <3>1 DEF Passed, n
    <3>4. s[n + 1] \in Nat /\ candidate \in Nat
      BY <1>4, <3>2
    <3>5. s[n + 1] \in Candidates
      BY <3>2, <3>3, <3>4 DEF Candidates
    <3> QED
      BY <1>2, <1>3, <3>1, <3>4, <3>5
  <2> QED
    BY <2>6, <2>7, <2>8
<1>21. FailsOnlyForCause'
  BY <1>1 DEF FailsOnlyForCause
<1> QED
  BY <1>9, <1>12, <1>13, <1>15, <1>16, <1>18, <1>19, <1>20, <1>21 DEF SearchInv

\* The search gives up with nothing to take back only where no assignment is fair.
LEMMA GivingUpStep ==
    ASSUME SearchInv, Backtrack, trail = <<>>
    PROVE  SearchInv'
<1>1. /\ phase = "searching" /\ phase' = "failed" /\ 0 < Slots /\ Len(trail) = 0 /\ Candidates = {}
      /\ UNCHANGED <<edges, roster, entry, owner, assigned, trail, candidate>>
  BY DEF Backtrack
<1>2. AssignTypeOK' /\ ReadWell' /\ Owners' /\ TrailFits' /\ Books' /\ DealtInOrder'
  BY <1>1, OnlyPhase
<1>3. Phases' /\ NothingPassed'
  BY <1>1 DEF Phases, NothingPassed
<1>4. ASSUME NEW f \in [Cities -> Players \cup {Unassigned}], Fair(f, roster) PROVE FALSE
  <2>1. PICK s \in [1..Slots -> Legal] : Solves(s)
    BY <1>1, <1>4, Searching, FairSolves
  <2>2. ~Passed(s)
    BY <1>1, <2>1, Searching
  <2>3. Shares(s, Len(trail))
    BY <1>1 DEF Shares
  <2> QED
    BY <1>1, <2>1, <2>2, <2>3, Searching, DeadEnd
<1>5. FailsOnlyForCause'
  BY <1>1, <1>4, FailedForCause DEF SearchInv
<1> QED
  BY <1>2, <1>3, <1>5 DEF SearchInv

\* What the search takes back is what it dealt last, from the end of the player's list.
LEMMA TakenBack ==
    ASSUME SearchInv, phase = "searching", trail # <<>>
    PROVE  LET n == Len(trail)
               p == AssignmentOrder[n]
           IN  /\ n \in 1..Slots /\ p \in Players /\ owner[trail[n]] = p
               /\ Len(assigned[p]) \in Nat \ {0} /\ assigned[p][Len(assigned[p])] = trail[n]
<1> DEFINE n == Len(trail)
           p == AssignmentOrder[n]
           l == Len(assigned[p])
<1>1. /\ AssignTypeOK /\ Owners /\ TrailFits /\ Books /\ DealtInOrder /\ PerPlayer \in 2..3 /\ Distinct
      /\ Slots \in Nat /\ n \in Nat /\ DOMAIN trail = 1..n
  BY Searching
<1>2. n \in 1..n /\ n \in 1..Slots
  <2>1. n # 0
    BY <1>1
  <2>2. n <= Slots
    BY <1>1 DEF TrailFits
  <2> QED
    BY <1>1, <2>1, <2>2
<1> HIDE DEF n
<1>3. p \in Players
  BY <1>2, Searching
<1> HIDE DEF p
<1>4. trail[n] \in Cities /\ owner[trail[n]] = p
  <2>1. Dealt(trail[n], p)
    BY <1>1, <1>2 DEF Dealt, p
  <2>2. trail[n] \in Cities
    BY <1>1, <1>2
  <2> QED
    BY <1>1, <1>3, <2>1, <2>2 DEF Owners
<1>5. l \in Nat /\ DOMAIN assigned[p] = 1..l /\ assigned[p] \in Seq(Cities)
  BY <1>3, Searching
<1>6. ToSet(assigned[p]) = {c \in Cities : owner[c] = p} /\ IsInjective(assigned[p])
  BY <1>1, <1>3 DEF Books
<1>7. PICK b \in 1..l : assigned[p][b] = trail[n]
  <2>1. trail[n] \in ToSet(assigned[p])
    BY <1>4, <1>6
  <2> QED
    BY <1>5, <2>1 DEF ToSet
<1> HIDE DEF l
<1>8. ASSUME b # l PROVE FALSE
  <2>1. l \in 1..l /\ b < l
    BY <1>5, <1>8
  <2>2. assigned[p][l] \in Cities /\ owner[assigned[p][l]] = p
    <3>1. assigned[p][l] \in ToSet(assigned[p])
      BY <1>5, <2>1 DEF ToSet
    <3> QED
      BY <1>6, <3>1
  <2>3. ~Asked(assigned[p][l], p)
    BY <1>1, <1>2, DealtNotAsked DEF p
  <2>4. PICK j \in 1..n : trail[j] = assigned[p][l]
    <3>1. Dealt(assigned[p][l], p)
      BY <1>1, <1>3, <2>2, <2>3 DEF Owners
    <3> QED
      BY <1>1, <3>1 DEF Dealt
  <2>5. n < j
    <3>1. b \in DOMAIN assigned[p] /\ l \in DOMAIN assigned[p]
      BY <1>5, <2>1
    <3>2. \A i, k \in DOMAIN trail : trail[i] = assigned[p][b] /\ trail[k] = assigned[p][l] => i < k
      BY <1>1, <1>3, <2>1, <3>1, Zenon DEF DealtInOrder
    <3> QED
      BY <1>1, <1>2, <1>7, <2>4, <3>2
  <2> QED
    BY <1>1, <2>4, <2>5
<1>9. l \in Nat \ {0}
  BY <1>5, <1>7
<1> QED
  BY <1>2, <1>3, <1>4, <1>7, <1>8, <1>9 DEF n, p, l

\* What a list loses at its end.
LEMMA WithoutLast ==
    ASSUME NEW S, NEW s \in Seq(S), Len(s) \in Nat \ {0}
    PROVE  /\ Front(s) \in Seq(S) /\ Len(Front(s)) = Len(s) - 1 /\ Last(s) = s[Len(s)]
           /\ DOMAIN Front(s) = 1..(Len(s) - 1)
           /\ \A i \in 1..(Len(s) - 1) : i \in DOMAIN s /\ Front(s)[i] = s[i]
           /\ \A i \in DOMAIN s : i \in 1..(Len(s) - 1) \/ i = Len(s)
<1> DEFINE n == Len(s)
<1>1. n \in Nat \ {0} /\ DOMAIN s = 1..n /\ \A i \in 1..n : s[i] \in S
  OBVIOUS
<1>2. Front(s) = SubSeq(s, 1, n - 1) /\ Last(s) = s[n]
  BY DEF Front, Last
<1> HIDE DEF n
<1>3. n - 1 \in Nat /\ \A i \in 1..(n - 1) : i \in 1..n
  BY <1>1
<1>4. \A i \in 1..n : i \in 1..(n - 1) \/ i = n
  BY <1>1
<1>5. /\ SubSeq(s, 1, n - 1) \in Seq(S) /\ Len(SubSeq(s, 1, n - 1)) = n - 1
      /\ \A i \in 1..(n - 1) : SubSeq(s, 1, n - 1)[i] = s[i]
  <2>1. PICK k \in Nat : k = n - 1 /\ \A i \in 1..k : s[i] \in S
    BY <1>1, <1>3
  <2>2. /\ SubSeq(s, 1, k) \in Seq(S) /\ Len(SubSeq(s, 1, k)) = IF 1 <= k THEN k - 1 + 1 ELSE 0
        /\ \A i \in 1..(k - 1 + 1) : SubSeq(s, 1, k)[i] = s[1 + i - 1]
    BY <2>1, SubSeqProperties
  <2>3. (IF 1 <= k THEN k - 1 + 1 ELSE 0) = k /\ \A i \in 1..k : i \in 1..(k - 1 + 1) /\ 1 + i - 1 = i
    BY <2>1
  <2> QED
    BY <2>1, <2>2, <2>3, Zenon
<1>6. DOMAIN Front(s) = 1..(n - 1)
  BY <1>2, <1>5
<1> QED
  BY <1>1, <1>2, <1>3, <1>4, <1>5, <1>6 DEF n

\* The search goes back to the slot before and tries the next city for it.
LEMMA BacktrackStep ==
    ASSUME SearchInv, Backtrack, trail # <<>>
    PROVE  SearchInv'
<1> DEFINE n == Len(trail)
           c == trail[n]
           p == AssignmentOrder[n]
           l == Len(assigned[p])
<1>1. /\ phase = "searching" /\ phase' = phase /\ n < Slots /\ candidate' = Last(trail) + 1
      /\ edges' = edges /\ roster' = roster /\ entry' = entry /\ Candidates = {}
      /\ owner' = [owner EXCEPT ![Last(trail)] = Unassigned]
      /\ assigned' = [assigned EXCEPT ![p] = Front(@)]
      /\ trail' = Front(trail)
  BY DEF Backtrack
<1>2. /\ AssignTypeOK /\ Owners /\ TrailFits /\ Books /\ DealtInOrder /\ ReadWell
      /\ entry = Len(roster) + 1 /\ roster # <<>> /\ PerPlayer \in 2..3 /\ Distinct
      /\ Slots \in Nat /\ DOMAIN trail = 1..n
  BY <1>1, Searching
<1>3. /\ n \in 1..Slots /\ p \in Players /\ owner[c] = p
      /\ l \in Nat \ {0} /\ assigned[p][l] = c
  BY <1>1, TakenBack
<1>4. /\ Len(trail') = n - 1 /\ DOMAIN trail' = 1..(n - 1) /\ Last(trail) = c /\ trail' \in Seq(Cities)
      /\ \A j \in 1..(n - 1) : j \in 1..n /\ j # n /\ trail'[j] = trail[j]
      /\ \A j \in 1..n : j \in 1..(n - 1) \/ j = n
  <2>1. trail \in Seq(Cities) /\ n \in Nat \ {0}
    BY <1>2, <1>3
  <2>2. /\ Front(trail) \in Seq(Cities) /\ Len(Front(trail)) = n - 1 /\ Last(trail) = trail[n]
        /\ DOMAIN Front(trail) = 1..(n - 1)
        /\ \A i \in 1..(n - 1) : i \in DOMAIN trail /\ Front(trail)[i] = trail[i]
        /\ \A i \in DOMAIN trail : i \in 1..(n - 1) \/ i = n
    BY <2>1, WithoutLast
  <2>3. \A j \in 1..(n - 1) : j # n
    BY <2>1
  <2> QED
    BY <1>1, <1>2, <2>2, <2>3
<1>5. assigned[p] \in Seq(Cities)
  BY <1>2, <1>3
<1>6. /\ c \in Legal /\ c \in Cities /\ c \in Nat
      /\ n \in DOMAIN trail /\ \A q \in Players : ~Asked(c, q)
  <2>1. n \in 1..n
    BY <1>3
  <2> QED
    BY <1>2, <2>1 DEF TrailFits
<1>7. /\ \A q \in Players : assigned'[q] = IF q = p THEN Front(assigned[q]) ELSE assigned[q]
      /\ Front(assigned[p]) \in Seq(Cities) /\ DOMAIN Front(assigned[p]) = 1..(l - 1)
      /\ \A a \in 1..(l - 1) : /\ a \in DOMAIN assigned[p] /\ a # l
                               /\ Front(assigned[p])[a] = assigned[p][a]
      /\ \A a \in DOMAIN assigned[p] : a \in 1..(l - 1) \/ a = l
      /\ l \in DOMAIN assigned[p]
  <2>1. /\ Front(assigned[p]) \in Seq(Cities) /\ DOMAIN Front(assigned[p]) = 1..(l - 1)
        /\ \A a \in 1..(l - 1) : a \in DOMAIN assigned[p] /\ Front(assigned[p])[a] = assigned[p][a]
        /\ \A a \in DOMAIN assigned[p] : a \in 1..(l - 1) \/ a = l
    BY <1>3, <1>5, WithoutLast
  <2>2. \A a \in 1..(l - 1) : a # l
    BY <1>3
  <2>3. l \in DOMAIN assigned[p]
    BY <1>3, <1>5
  <2>4. \A q \in Players : assigned'[q] = IF q = p THEN Front(assigned[q]) ELSE assigned[q]
    BY <1>1, <1>2, <1>3
  <2> QED
    BY <2>1, <2>2, <2>3, <2>4
<1> HIDE DEF n, p, c, l
<1>8. /\ \A d \in Cities : owner'[d] = IF d = c THEN Unassigned ELSE owner[d]
      /\ owner' \in [Cities -> Players \cup {Unassigned}]
  BY <1>1, <1>2, <1>4, <1>6
<1>9. assigned' \in [Players -> Seq(Cities)]
  BY <1>1, <1>2, <1>3, <1>7
<1>10. /\ \A a, q : Asked(a, q)' <=> Asked(a, q)
       /\ \A s : Solves(s)' <=> Solves(s)
       /\ ReadWell' /\ Slots' = Slots /\ AssignmentOrder' = AssignmentOrder
  BY <1>1, <1>2, SameSearch, SameOrder
<1>11. AssignTypeOK'
  <2>1. candidate' \in Nat
    BY <1>1, <1>4, <1>6
  <2> QED
    BY <1>1, <1>2, <1>4, <1>8, <1>9, <2>1
<1>12. Phases'
  BY <1>1, <1>2 DEF Phases
<1>13. \A i, j \in 1..n : trail[i] = trail[j] => i = j
  BY <1>2 DEF TrailFits
<1>14. \A d, q : Dealt(d, q)' <=> Dealt(d, q) /\ d # c
  <2> SUFFICES ASSUME NEW d, NEW q PROVE Dealt(d, q)' <=> Dealt(d, q) /\ d # c
    OBVIOUS
  <2>1. Dealt(d, q)' <=> \E j \in 1..(n - 1) : trail[j] = d /\ AssignmentOrder[j] = q
    BY <1>4, <1>10 DEF Dealt
  <2>2. Dealt(d, q) <=> \E j \in 1..n : trail[j] = d /\ AssignmentOrder[j] = q
    BY <1>2 DEF Dealt
  <2>3. \A j \in 1..(n - 1) : trail[j] # c
    BY <1>3, <1>4, <1>13 DEF c
  <2> QED
    BY <1>4, <2>1, <2>2, <2>3 DEF c
<1>15. Owners'
  <2> SUFFICES ASSUME NEW d \in Cities, NEW q \in Players
               PROVE  owner'[d] = q <=> Asked(d, q)' \/ Dealt(d, q)'
    BY DEF Owners
  <2>1. q # Unassigned
    OBVIOUS
  <2>2. CASE d = c
    <3>1. ~Asked(c, q)
      BY <1>6
    <3> QED
      BY <1>8, <1>10, <1>14, <2>1, <2>2, <3>1
  <2>3. CASE d # c
    <3>1. owner'[d] = owner[d] /\ (Dealt(d, q)' <=> Dealt(d, q))
      BY <1>8, <1>14, <2>3
    <3>2. owner[d] = q <=> Asked(d, q) \/ Dealt(d, q)
      BY <1>2 DEF Owners
    <3> QED
      BY <1>10, <3>1, <3>2
  <2> QED
    BY <2>2, <2>3
<1>16. TrailFits'
  <2>1. Len(trail') <= Slots'
    BY <1>2, <1>3, <1>4, <1>10
  <2>2. \A j \in 1..(n - 1) : trail'[j] \in Legal /\ \A q \in Players : ~Asked(trail'[j], q)
    BY <1>2, <1>4 DEF TrailFits
  <2>3. \A i, j \in 1..(n - 1) : trail'[i] = trail'[j] => i = j
    BY <1>4, <1>13
  <2> QED
    BY <1>4, <1>10, <2>1, <2>2, <2>3 DEF TrailFits
<1>17. Books'
  <2> SUFFICES ASSUME NEW q \in Players
               PROVE  IsInjective(assigned'[q]) /\ ToSet(assigned'[q]) = {d \in Cities : owner'[d] = q}
    BY DEF Books
  <2>1. /\ IsInjective(assigned[q])
        /\ \A d : d \in ToSet(assigned[q]) <=> d \in Cities /\ owner[d] = q
    BY <1>2 DEF Books
  <2>2. CASE q = p
    <3>0. /\ DOMAIN assigned'[q] = 1..(l - 1)
          /\ \A a \in 1..(l - 1) : a \in DOMAIN assigned[q] /\ assigned'[q][a] = assigned[q][a]
      BY <1>7, <2>2
    <3>1. IsInjective(assigned'[q])
      BY <2>1, <3>0 DEF IsInjective
    <3>2. \A d : d \in ToSet(assigned'[q]) <=> d \in ToSet(assigned[q]) /\ d # c
      <4>1. \A d : d \in ToSet(assigned'[q]) <=> \E a \in 1..(l - 1) : assigned[q][a] = d
        BY <3>0 DEF ToSet
      <4>2. \A d : d \in ToSet(assigned[q]) <=> \E a \in DOMAIN assigned[q] : assigned[q][a] = d
        BY DEF ToSet
      <4>3. \A a \in 1..(l - 1) : assigned[q][a] # c
        BY <1>3, <1>7, <2>1, <2>2 DEF IsInjective
      <4> QED
        BY <1>3, <1>7, <2>2, <4>1, <4>2, <4>3
    <3>3. \A d \in Cities : owner'[d] = q <=> owner[d] = q /\ d # c
      BY <1>8, <2>2
    <3>4. \A d : d \in ToSet(assigned'[q]) <=> d \in Cities /\ owner'[d] = q
      BY <2>1, <3>2, <3>3
    <3> QED
      BY <3>1, <3>4
  <2>3. CASE q # p
    <3>1. assigned'[q] = assigned[q]
      BY <1>7, <2>3
    <3>2. \A d \in Cities : owner'[d] = q <=> owner[d] = q
      BY <1>3, <1>8, <2>3
    <3> QED
      BY <2>1, <3>1, <3>2
  <2> QED
    BY <2>2, <2>3
<1>18. DealtInOrder'
  <2> SUFFICES ASSUME NEW q \in Players, NEW a \in DOMAIN assigned'[q], NEW b \in DOMAIN assigned'[q], a < b,
                      NEW i \in DOMAIN trail', NEW j \in DOMAIN trail',
                      trail'[i] = assigned'[q][a], trail'[j] = assigned'[q][b]
               PROVE  i < j
    BY Zenon DEF DealtInOrder
  <2>1. i \in 1..n /\ j \in 1..n /\ trail'[i] = trail[i] /\ trail'[j] = trail[j]
    BY <1>4
  <2>2. /\ a \in DOMAIN assigned[q] /\ b \in DOMAIN assigned[q]
        /\ assigned'[q][a] = assigned[q][a] /\ assigned'[q][b] = assigned[q][b]
    BY <1>7
  <2>3. \A k, m \in DOMAIN trail : trail[k] = assigned[q][a] /\ trail[m] = assigned[q][b] => k < m
    BY <1>2, <2>2, Zenon DEF DealtInOrder
  <2> QED
    BY <1>2, <2>1, <2>2, <2>3
<1>19. NothingPassed'
  <2> SUFFICES ASSUME NEW s \in [1..Slots -> Legal], Solves(s), Passed(s)' PROVE FALSE
    BY <1>10 DEF NothingPassed
  <2>1. ~Passed(s)
    BY <1>1, Searching
  <2>2. ~Shares(s, n)
    BY <1>1, <1>2, <2>1, DeadEnd DEF n
  <2>3. \/ \E i \in 1..(n - 1) : s[i] < trail'[i] /\ \A k \in 1..(i - 1) : s[k] = trail'[k]
        \/ s[(n - 1) + 1] < c + 1 /\ \A k \in 1..(n - 1) : s[k] = trail'[k]
    <3>1. \/ \E i \in 1..Len(trail') : s[i] < trail'[i] /\ \A k \in 1..(i - 1) : s[k] = trail'[k]
          \/ s[Len(trail') + 1] < candidate' /\ \A k \in 1..Len(trail') : s[k] = trail'[k]
      BY <2>1 DEF Passed, Shares
    <3>2. Len(trail') = n - 1 /\ candidate' = c + 1
      BY <1>1, <1>4
    <3> QED
      BY <3>1, <3>2
  <2>4. \A i \in 1..(n - 1) : i \in 1..n /\ \A k \in 1..(i - 1) : k \in 1..(n - 1)
    BY <1>3
  <2>5. \A i \in 1..n : ~(s[i] < trail[i] /\ \A k \in 1..(i - 1) : s[k] = trail[k])
    BY <2>1 DEF Passed, Shares, n
  <2>6. \A i \in 1..(n - 1) : ~(s[i] < trail'[i] /\ \A k \in 1..(i - 1) : s[k] = trail'[k])
    BY <1>4, <2>4, <2>5
  <2>7. s[n] < c + 1 /\ \A k \in 1..(n - 1) : s[k] = trail[k]
    <3>1. (n - 1) + 1 = n
      BY <1>3
    <3> QED
      BY <1>4, <2>3, <2>6, <3>1
  <2>8. s[n] \in Nat /\ n \in 1..n
    <3>1. s[n] \in Legal
      BY <1>3
    <3>2. s[n] \in Nat
      BY <3>1
    <3>3. n \in 1..n
      BY <1>3
    <3> QED
      BY <3>2, <3>3
  <2>9. s[n] = c
    BY <1>6, <2>5, <2>7, <2>8 DEF c
  <2>10. Shares(s, n)
    BY <1>4, <2>7, <2>9 DEF Shares, c
  <2> QED
    BY <2>2, <2>10
<1>20. FailsOnlyForCause'
  BY <1>1 DEF FailsOnlyForCause
<1> QED
  BY <1>10, <1>11, <1>12, <1>15, <1>16, <1>17, <1>18, <1>19, <1>20 DEF SearchInv

\* Every step of the start preserves what the search relies on.
LEMMA SearchStep ==
    ASSUME SearchInv, [AssignNext]_assignVars
    PROVE  SearchInv'
<1>1. CASE ReadEntry
  BY <1>1, EntryRead, RefusedStep
<1>2. CASE StartSearch
  BY <1>2, StartStep
<1>3. CASE AssignCity
  BY <1>3, AssignStep
<1>4. CASE Backtrack
  BY <1>4, GivingUpStep, BacktrackStep
<1>5. CASE Complete
  BY <1>5, CompleteStep
<1>6. CASE UNCHANGED assignVars
  <2>1. UNCHANGED <<edges, roster, entry, owner, assigned, trail, candidate>> /\ phase' = phase
    BY <1>6 DEF assignVars
  <2>2. phase' \in {"reading", "searching", "done", "failed"}
    BY <2>1 DEF SearchInv
  <2>3. AssignTypeOK' /\ ReadWell' /\ Owners' /\ TrailFits' /\ Books' /\ DealtInOrder'
    BY <2>1, <2>2, OnlyPhase
  <2>4. Phases' /\ Slots' = Slots
    BY <2>1, SameOrder DEF SearchInv, Phases
  <2>5. NothingPassed'
    <3>1. \A s : (Solves(s)' <=> Solves(s)) /\ (Passed(s)' <=> Passed(s))
      BY <2>1, <2>2, OnlyPhase, SameSearch
    <3> QED
      BY <2>1, <2>4, <3>1 DEF SearchInv, NothingPassed
  <2>6. FailsOnlyForCause'
    <3>1. \A f : Fair(f, roster)' <=> Fair(f, roster)
      BY <2>1 DEF Fair
    <3> QED
      BY <2>1, <3>1 DEF SearchInv, FailsOnlyForCause
  <2> QED
    BY <2>3, <2>4, <2>5, <2>6 DEF SearchInv
<1> QED
  BY <1>1, <1>2, <1>3, <1>4, <1>5, <1>6 DEF AssignNext

\* As many cities as rounds are dealt to everybody in the list.
LEMMA DealtInFull ==
    ASSUME AssignTypeOK, PerPlayer \in 2..3, Distinct, TrailFits, Len(trail) = Slots,
           NEW i \in Undecided
    PROVE  Cardinality({c \in Cities : Dealt(c, roster[i].player)}) = PerPlayer
<1> DEFINE N == Cardinality(Undecided)
           R == 0..(PerPlayer - 1)
           own == {c \in Cities : Dealt(c, roster[i].player)}
<1>1. N \in Nat /\ Slots \in Nat /\ DOMAIN trail = 1..Slots
  BY PlacesListed, SlotsNatural
<1>2. PICK k \in 1..N : Places[k] = i
  BY PlacesListed DEF Lists
<1> DEFINE g == [r \in R |-> trail[k + r * N]]
<1>3. ASSUME NEW r \in R
      PROVE  k + r * N \in 1..Slots /\ At(k + r * N) = k /\ Round(k + r * N) = r
  BY <1>1, RoundByRound
<1>4. ASSUME NEW j \in 1..Slots
      PROVE  AssignmentOrder[j] = roster[i].player <=> At(j) = k
  <2>1. At(j) \in 1..N
    BY <1>1, RoundByRound
  <2>2. AssignmentOrder[j] = roster[Places[At(j)]].player
    BY OrderRight
  <2>3. ASSUME AssignmentOrder[j] = roster[i].player PROVE At(j) = k
    <3>1. i \in DOMAIN roster
      BY DEF Undecided
    <3>2. i = Places[At(j)]
      BY <2>3, <3>1, DealtOnly
    <3> QED
      BY <1>2, <2>1, <3>2, PlacesListed DEF Lists
  <2> QED
    BY <1>2, <2>2, <2>3
<1>5. \A r \in R : g[r] \in own
  <2> SUFFICES ASSUME NEW r \in R PROVE g[r] \in own
    OBVIOUS
  <2>1. k + r * N \in 1..Slots /\ AssignmentOrder[k + r * N] = roster[i].player
    BY <1>3, <1>4
  <2>2. trail[k + r * N] \in Cities
    BY <1>1, <2>1
  <2>3. Dealt(trail[k + r * N], roster[i].player)
    BY <1>1, <2>1 DEF Dealt
  <2> QED
    BY <2>2, <2>3
<1>6. \A q, r \in R : g[q] = g[r] => q = r
  <2> SUFFICES ASSUME NEW q \in R, NEW r \in R, g[q] = g[r] PROVE q = r
    OBVIOUS
  <2>1. trail[k + q * N] = trail[k + r * N]
    OBVIOUS
  <2>2. k + q * N = k + r * N
    BY <1>1, <1>3, <2>1 DEF TrailFits
  <2> QED
    BY <1>3, <2>2
<1>7. \A c \in own : \E r \in R : g[r] = c
  <2> SUFFICES ASSUME NEW c \in own PROVE \E r \in R : g[r] = c
    OBVIOUS
  <2>1. PICK j \in 1..Slots : trail[j] = c /\ AssignmentOrder[j] = roster[i].player
    BY <1>1 DEF Dealt
  <2>2. At(j) = k
    BY <1>4, <2>1
  <2>3. Round(j) \in R /\ j = k + Round(j) * N
    BY <1>1, <2>2, RoundByRound
  <2> QED
    BY <2>1, <2>3
<1> HIDE DEF g, own
<1>8. g \in Bijection(R, own)
  <2>1. DOMAIN g = R /\ g = [r \in R |-> g[r]]
    BY DEF g
  <2>2. g \in [R -> own]
    BY <1>5, <2>1
  <2> QED
    BY <1>6, <1>7, <2>1, <2>2 DEF Bijection, Injection, Surjection, IsInjective
<1>9. IsFiniteSet(R) /\ Cardinality(R) = PerPlayer
  <2>1. 0 \in Int /\ PerPlayer - 1 \in Int
    OBVIOUS
  <2>2. IsFiniteSet(R) /\ Cardinality(R) = IF 0 > PerPlayer - 1 THEN 0 ELSE (PerPlayer - 1) - 0 + 1
    BY <2>1, FS_Interval
  <2> QED
    BY <2>2
<1>10. Cardinality(own) = PerPlayer
  BY <1>8, <1>9, FS_Bijection DEF ExistsBijection
<1> QED
  BY <1>10 DEF own

\* What a search that ends leaves is fair.
LEMMA DoneIsFair ==
    ASSUME SearchInv, Apart
    PROVE  DealtFairly
<1> SUFFICES ASSUME phase = "done" PROVE DealtFairly
  BY DEF DealtFairly
<1>1. /\ AssignTypeOK /\ Owners /\ TrailFits /\ Books /\ ReadWell
      /\ entry = Len(roster) + 1 /\ PerPlayer \in 2..3 /\ Len(trail) = Slots
  BY DEF SearchInv, Phases
<1>2. Distinct
  BY <1>1, AllRead
<1>3. Slots \in Nat /\ DOMAIN trail = 1..Slots
  BY <1>1, SlotsNatural
<1>4. \A i \in DOMAIN roster : /\ i \in 1..(entry - 1)
                               /\ roster[i].player \in Players /\ roster[i].player # Unassigned
  BY <1>1, Entries
<1>5. \A c, p : Dealt(c, p) => \E i \in Undecided : i \in DOMAIN roster /\ roster[i].player = p
  <2> SUFFICES ASSUME NEW c, NEW p, Dealt(c, p)
               PROVE  \E i \in Undecided : i \in DOMAIN roster /\ roster[i].player = p
    OBVIOUS
  <2>1. PICK j \in 1..Slots : AssignmentOrder[j] = p
    BY <1>3 DEF Dealt
  <2> QED
    BY <1>1, <2>1, OrderRight DEF Undecided
<1>6. \A c, p : Asked(c, p) => \E i \in DOMAIN roster : /\ i \in 1..(entry - 1) /\ roster[i].player = p
                                                        /\ roster[i].cities # Unassigned
                                                        /\ c \in ToSet(roster[i].cities)
  BY <1>1, <1>4, AskedBy
<1>7. ASSUME NEW c \in Cities, owner[c] # Unassigned
      PROVE  c \in Legal /\ \E i \in DOMAIN roster : roster[i].player = owner[c]
  <2>1. PICK p \in Players : owner[c] = p
    BY <1>1, <1>7
  <2>2. CASE Asked(c, p)
    BY <1>1, <1>6, <2>1, <2>2 DEF ReadWell
  <2>3. CASE Dealt(c, p)
    <3>1. c \in Legal
      BY <1>1, <2>3 DEF Dealt, TrailFits
    <3> QED
      BY <1>5, <2>1, <2>3, <3>1
  <2> QED
    BY <1>1, <2>1, <2>2, <2>3 DEF Owners
<1>8. ASSUME NEW i \in DOMAIN roster
      PROVE  /\ Cardinality({c \in Cities : owner[c] = roster[i].player}) = PerPlayer
             /\ roster[i].cities # Unassigned =>
                    /\ {c \in Cities : owner[c] = roster[i].player} = ToSet(roster[i].cities)
                    /\ IsInjective(roster[i].cities)
  <2> DEFINE p == roster[i].player
             own == {c \in Cities : owner[c] = p}
  <2>1. p \in Players
    BY <1>4
  <2>2. \A c \in Cities : owner[c] = p <=> Asked(c, p) \/ Dealt(c, p)
    BY <1>1, <2>1 DEF Owners
  <2>3. CASE roster[i].cities = Unassigned
    <3>1. \A c : ~Asked(c, p)
      BY <1>2, <1>6, <2>3 DEF Distinct
    <3>2. i \in Undecided
      BY <2>3 DEF Undecided
    <3>3. own = {c \in Cities : Dealt(c, roster[i].player)}
      BY <2>2, <3>1
    <3> QED
      BY <1>1, <1>2, <2>3, <3>2, <3>3, DealtInFull
  <2>4. CASE roster[i].cities # Unassigned
    <3>1. \A c : ~Dealt(c, p)
      BY <1>2, <1>5, <2>4 DEF Distinct, Undecided
    <3>2. \A c : Asked(c, p) <=> c \in ToSet(roster[i].cities)
      <4>1. \A c : Asked(c, p) => c \in ToSet(roster[i].cities)
        BY <1>2, <1>6 DEF Distinct
      <4>2. \A c : c \in ToSet(roster[i].cities) => Asked(c, p)
        BY <1>4, <2>4 DEF Asked
      <4> QED
        BY <4>1, <4>2
    <3>3. /\ Len(roster[i].cities) = PerPlayer /\ IsInjective(roster[i].cities)
          /\ roster[i].cities \in Seq(Cities) /\ ToSet(roster[i].cities) \subseteq Cities
      BY <1>1, <1>4, <2>4, Entries DEF ReadWell
    <3>4. own = ToSet(roster[i].cities)
      BY <2>2, <3>1, <3>2, <3>3
    <3>5. Cardinality(ToSet(roster[i].cities)) = Len(roster[i].cities)
      BY <3>3, DifferentElements
    <3> QED
      BY <3>3, <3>4, <3>5
  <2> QED
    BY <2>3, <2>4
<1>9. \A c, d \in Cities : {c, d} \in edges /\ owner[c] # Unassigned /\ owner[d] # Unassigned => owner[c] = owner[d]
  BY DEF Apart
<1>10. Fair(owner, roster)
  BY <1>7, <1>8, <1>9 DEF Fair
<1>11. \A p \in Players : IsInjective(assigned[p]) /\ ToSet(assigned[p]) = {c \in Cities : owner[c] = p}
  BY <1>1 DEF Books
<1> QED
  BY <1>10, <1>11 DEF DealtFairly

\* For every map, every roster and every number of cities each, the start that is dealt out keeps
\* to the roster and the rules, and initialize_match_state fails only for a cause: where there is
\* an assignment that keeps to them, the search finds one.
THEOREM AssignmentIsRight == AssignSpec => []AssignmentRight
<1>1. SearchInv /\ DealingInv => AssignmentRight
  BY DoneIsFair DEF DealingInv, SearchInv, AssignmentRight
<1> QED
  BY NothingAskedAtFirst, SearchStep, NothingDealtAtFirst, DealingKeepsApart, <1>1, PTL DEF AssignSpec
=============================================================================
