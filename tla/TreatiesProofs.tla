---------------------------- MODULE TreatiesProofs ----------------------------
(***************************************************************************)
(* What Treaties guarantees for every set of players, cities and armies.   *)
(***************************************************************************)
EXTENDS Treaties, FiniteFacts, FiniteSetTheorems, SequenceTheorems, TLAPS

\* The treaties and the messages about them, as lists of equal length.
RecordType(rec) ==
    /\ rec.treaties \in Seq(Treaty)
    /\ rec.world \in Seq(Seq(Notice))
    /\ Len(rec.world) = Len(rec.treaties)

\* What every treaty action and every tick preserves.
RecordInv(rec) == RecordType(rec) /\ OnlyLatestLive(rec) /\ ToldInFull(rec)

-----------------------------------------------------------------------------
(* Treaty actions.                                                         *)

\* find_latest_treaty returns the last treaty of the pair and type, if any.
LEMMA LatestIsLast ==
    ASSUME NEW rec, RecordType(rec), NEW x \in TreatyAction
    PROVE  LET i == LatestTreaty(rec.treaties, x)
           IN  /\ i = 0 => Matching(rec.treaties, x) = {}
               /\ i # 0 => /\ i \in Matching(rec.treaties, x)
                           /\ i \in DOMAIN rec.treaties
                           /\ \A j \in Matching(rec.treaties, x) : j <= i
<1> DEFINE found == Matching(rec.treaties, x)
<1>1. Len(rec.treaties) \in Nat /\ DOMAIN rec.treaties = 1..Len(rec.treaties)
    BY DEF RecordType
<1>2. found \in SUBSET (0..Len(rec.treaties)) /\ 0 \notin found
      /\ found \subseteq DOMAIN rec.treaties
    BY <1>1 DEF Matching
<1>3. CASE found = {}
    BY <1>3 DEF LatestTreaty
<1>4. CASE found # {}
    <2> DEFINE m == CHOOSE i \in found : \A j \in found : j <= i
    <2>1. \E i \in found : \A j \in found : j <= i
        <3> HIDE DEF found
        <3> QED BY <1>1, <1>2, <1>4, GreatestBoundedNatural
    <2>2. m \in found /\ \A j \in found : j <= m
        BY <2>1
    <2>3. LatestTreaty(rec.treaties, x) = m
        BY <1>4 DEF LatestTreaty
    <2> HIDE DEF m
    <2> QED BY <1>2, <2>2, <2>3
<1> QED BY <1>3, <1>4

\* A proposal adds a treaty in order of the players, and all earlier ones of
\* the pair and type have ended.
LEMMA ProposalPreserves ==
    ASSUME NEW rec, RecordInv(rec), NEW x \in TreatyAction,
           x.by # x.with, CanPropose(rec, x)
    PROVE  RecordInv(Proposed(rec, x))
<1> DEFINE t == [a |-> Earlier(x.by, x.with), b |-> Later(x.by, x.with), type |-> x.type,
                 status |-> "proposed", proposedBy |-> x.by, withdrawnBy |-> None]
           new == Proposed(rec, x)
           n == Len(rec.treaties)
<1>1. t \in Treaty /\ t.a < t.b /\ t.proposedBy \in {t.a, t.b}
    <2>1. x.by \in Players /\ x.with \in Players /\ x.type \in Types
        BY DEF TreatyAction
    <2>2. x.by \in Nat /\ x.with \in Nat
        BY <2>1, PlayersAssumption
    <2>3. CASE x.by < x.with
        BY <2>1, <2>2, <2>3 DEF Treaty, Earlier, Later, Live
    <2>4. CASE x.with < x.by
        <3>1. ~(x.by < x.with)
            BY <2>2, <2>4
        <3> QED BY <2>1, <2>4, <3>1 DEF Treaty, Earlier, Later, Live
    <2> QED BY <2>2, <2>3, <2>4
<1>2. /\ rec.treaties \in Seq(Treaty) /\ rec.world \in Seq(Seq(Notice))
      /\ Len(rec.world) = n /\ n \in Nat /\ DOMAIN rec.treaties = 1..n
    BY DEF RecordInv, RecordType
<1>3. new.treaties = Append(rec.treaties, t) /\ new.world = Append(rec.world, <<>>)
    BY DEF Proposed
<1> HIDE DEF t, new, n
<1>3a. \A k \in 1..(n + 1) : k # n + 1 => k \in 1..n
    <2>1. n \in Nat
        BY <1>2
    <2> QED BY <2>1
<1>4. /\ Len(new.treaties) = n + 1 /\ new.treaties[n + 1] = t
      /\ \A i \in 1..n : new.treaties[i] = rec.treaties[i]
      /\ Len(new.world) = n + 1 /\ new.world[n + 1] = <<>>
      /\ \A i \in 1..n : new.world[i] = rec.world[i]
      /\ DOMAIN new.treaties = 1..(n + 1)
    BY <1>1, <1>2, <1>3
<1>5. RecordType(new)
    <2>1. <<>> \in Seq(Notice)
        OBVIOUS
    <2> QED BY <1>1, <1>2, <1>3, <1>4, <2>1 DEF RecordType
<1>6. \A i \in 1..n : rec.treaties[i].a = t.a /\ rec.treaties[i].b = t.b
                      /\ rec.treaties[i].type = t.type => rec.treaties[i].status \in Ended
    <2> SUFFICES ASSUME NEW i \in 1..n, rec.treaties[i].a = t.a, rec.treaties[i].b = t.b,
                        rec.treaties[i].type = t.type
                 PROVE  rec.treaties[i].status \in Ended
        OBVIOUS
    <2> DEFINE l == LatestTreaty(rec.treaties, x)
    <2>1. i \in Matching(rec.treaties, x)
        BY <1>2 DEF Matching, Between, t
    <2>2. l # 0 /\ l \in DOMAIN rec.treaties /\ l \in Matching(rec.treaties, x) /\ i <= l
        BY <2>1, LatestIsLast DEF RecordInv
    <2>3. rec.treaties[l].status \in Ended
        BY <2>2 DEF CanPropose
    <2>4. CASE i = l
        BY <2>3, <2>4
    <2>5. CASE i # l
        <3>1. i < l
            BY <1>2, <2>2, <2>5
        <3>2. rec.treaties[l].a = t.a /\ rec.treaties[l].b = t.b /\ rec.treaties[l].type = t.type
            BY <2>2 DEF Matching, Between, t
        <3> QED BY <1>2, <2>2, <3>1, <3>2 DEF RecordInv, OnlyLatestLive
    <2> QED BY <2>4, <2>5
<1>7. OnlyLatestLive(new)
    <2> SUFFICES ASSUME NEW i \in 1..(n + 1), NEW j \in 1..(n + 1), i < j,
                        new.treaties[i].a = new.treaties[j].a,
                        new.treaties[i].b = new.treaties[j].b,
                        new.treaties[i].type = new.treaties[j].type
                 PROVE  new.treaties[i].status \in Ended
        BY <1>4 DEF OnlyLatestLive
    <2>1. i \in 1..n
        BY <1>2
    <2>2. CASE j = n + 1
        BY <1>4, <1>6, <2>1, <2>2
    <2>3. CASE j # n + 1
        <3>1. j \in 1..n
            BY <1>3a, <2>3
        <3> QED BY <1>2, <1>4, <2>1, <3>1 DEF RecordInv, OnlyLatestLive
    <2> QED BY <2>2, <2>3
<1>8. ToldInFull(new)
    <2> SUFFICES ASSUME NEW i \in 1..(n + 1)
                 PROVE  /\ new.world[i] \in ExpectedNotices(new.treaties[i])
                        /\ new.treaties[i].status = "broken_by_a" =>
                              new.treaties[i].withdrawnBy = new.treaties[i].a
                        /\ new.treaties[i].status = "broken_by_b" =>
                              new.treaties[i].withdrawnBy = new.treaties[i].b
                        /\ new.treaties[i].a < new.treaties[i].b
                        /\ new.treaties[i].proposedBy \in {new.treaties[i].a, new.treaties[i].b}
        BY <1>4 DEF ToldInFull
    <2>1. CASE i = n + 1
        <3>1. t.status = "proposed"
            BY DEF t
        <3>2. ExpectedNotices(t) = {<<>>}
            BY <3>1 DEF ExpectedNotices
        <3> QED BY <1>1, <1>4, <2>1, <3>1, <3>2
    <2>2. CASE i # n + 1
        <3>1. i \in 1..n
            BY <1>3a, <2>2
        <3> QED BY <1>2, <1>4, <3>1 DEF RecordInv, ToldInFull
    <2> QED BY <2>1, <2>2
<1> QED BY <1>5, <1>7, <1>8 DEF RecordInv, new

-----------------------------------------------------------------------------
(* One treaty and its messages, one step at a time.                        *)

\* t has been announced as it should be, with messages w.
TreatyTold(t, w) ==
    /\ w \in ExpectedNotices(t)
    /\ t.status = "broken_by_a" => t.withdrawnBy = t.a
    /\ t.status = "broken_by_b" => t.withdrawnBy = t.b
    /\ t.a < t.b /\ t.proposedBy \in {t.a, t.b}

\* The four things that can happen to a treaty: nothing, or it is signed,
\* withdrawn or broken and that is posted.
TreatyStep(t, w, u, v) ==
    \/ u = t /\ v = w
    \/ /\ t.status = "proposed"
       /\ u = [t EXCEPT !.status = "active"]
       /\ v = Append(w, [event |-> "signed", by |-> None])
    \/ \E p \in Players :
          /\ t.status \in Live
          /\ u = [t EXCEPT !.status = "withdrawn", !.withdrawnBy = p]
          /\ v = Append(w, [event |-> "withdrawn", by |-> p])
    \/ \E p \in {t.a, t.b} :
          /\ t.status = "active"
          /\ u = BrokenBy(t, p)
          /\ v = Append(w, [event |-> "broken", by |-> p])

\* Appending to a list of no or one message.
LEMMA AppendShort ==
    ASSUME NEW x, NEW y
    PROVE  Append(<<>>, x) = <<x>> /\ Append(<<x>>, y) = <<x, y>>
<1>1. Append(<<>>, x) = <<x>>
    OBVIOUS
<1>2. Append(<<x>>, y) = <<x, y>>
    <2> DEFINE S == {x, y}
               s == Append(<<x>>, y)
               t == <<x, y>>
    <2>1. <<x>> \in Seq(S) /\ y \in S /\ Len(<<x>>) = 1 /\ <<x>>[1] = x
        OBVIOUS
    <2>2. s \in Seq(S) /\ Len(s) = 2 /\ s[1] = x /\ s[2] = y
        <3>1. Len(s) = Len(<<x>>) + 1 /\ s \in Seq(S)
              /\ (\A i \in 1..Len(<<x>>) : s[i] = <<x>>[i]) /\ s[Len(<<x>>) + 1] = y
            BY <2>1, AppendProperties
        <3> HIDE DEF s
        <3> QED BY <2>1, <3>1
    <2>3. t \in Seq(S) /\ Len(t) = 2 /\ t[1] = x /\ t[2] = y
        OBVIOUS
    <2> HIDE DEF s, t
    <2>4. \A i \in 1..2 : s[i] = t[i]
        BY <2>2, <2>3
    <2>5. s = t
        BY <2>2, <2>3, <2>4, SeqEqual
    <2> QED BY <2>5 DEF s, t
<1> QED BY <1>1, <1>2

\* A step keeps a treaty well-formed, told in full and, once ended, ended.
LEMMA StepKeepsTreaty ==
    ASSUME NEW t \in Treaty, NEW w \in Seq(Notice), TreatyTold(t, w),
           NEW u, NEW v, TreatyStep(t, w, u, v)
    PROVE  /\ u \in Treaty /\ v \in Seq(Notice) /\ TreatyTold(u, v)
           /\ u.a = t.a /\ u.b = t.b /\ u.type = t.type
           /\ t.status \in Ended => u = t /\ v = w
<1>0. t.a \in Nat /\ t.b \in Nat /\ t.a # t.b /\ t.a \in Players /\ t.b \in Players
    <2>1. t.a \in Players /\ t.b \in Players
        BY DEF Treaty
    <2>2. t.a \in Nat /\ t.b \in Nat
        BY <2>1, PlayersAssumption
    <2>3. t.a < t.b
        BY DEF TreatyTold
    <2> QED BY <2>1, <2>2, <2>3
<1>1. CASE u = t /\ v = w
    BY <1>1
<1>2. CASE /\ t.status = "proposed"
           /\ u = [t EXCEPT !.status = "active"]
           /\ v = Append(w, [event |-> "signed", by |-> None])
    <2>1. w = <<>>
        BY <1>2 DEF TreatyTold, ExpectedNotices
    <2>2. u \in Treaty /\ u.status = "active" /\ u.a = t.a /\ u.b = t.b /\ u.type = t.type
          /\ u.proposedBy = t.proposedBy
        BY <1>2 DEF Treaty, Live
    <2>3. v = <<[event |-> "signed", by |-> None]>>
        BY <1>2, <2>1, AppendShort
    <2>4. ExpectedNotices(u) = {<<[event |-> "signed", by |-> None]>>}
        BY <2>2 DEF ExpectedNotices
    <2>5. v \in Seq(Notice)
        BY <2>3 DEF Notice
    <2>6. t.status \notin Ended
        BY <1>2 DEF Ended
    <2> QED BY <2>2, <2>3, <2>4, <2>5, <2>6 DEF TreatyTold
<1>3. ASSUME NEW p \in Players, t.status \in Live,
             u = [t EXCEPT !.status = "withdrawn", !.withdrawnBy = p],
             v = Append(w, [event |-> "withdrawn", by |-> p])
      PROVE  /\ u \in Treaty /\ v \in Seq(Notice) /\ TreatyTold(u, v)
             /\ u.a = t.a /\ u.b = t.b /\ u.type = t.type
             /\ t.status \in Ended => u = t /\ v = w
    <2>1. w = <<>> \/ w = <<[event |-> "signed", by |-> None]>>
        BY <1>3 DEF TreatyTold, ExpectedNotices, Live
    <2>2. u \in Treaty /\ u.status = "withdrawn" /\ u.a = t.a /\ u.b = t.b /\ u.type = t.type
          /\ u.proposedBy = t.proposedBy /\ u.withdrawnBy = p
        BY <1>3 DEF Treaty, Ended
    <2>3. \/ v = <<[event |-> "withdrawn", by |-> p]>>
          \/ v = <<[event |-> "signed", by |-> None], [event |-> "withdrawn", by |-> p]>>
        BY <1>3, <2>1, AppendShort
    <2>4. ExpectedNotices(u) =
             {<<[event |-> "withdrawn", by |-> p]>>,
              <<[event |-> "signed", by |-> None], [event |-> "withdrawn", by |-> p]>>}
        BY <2>2 DEF ExpectedNotices
    <2>5. v \in Seq(Notice)
        <3>1. [event |-> "withdrawn", by |-> p] \in Notice
            BY DEF Notice
        <3> QED BY <1>3, <3>1
    <2>6. t.status \notin Ended
        BY <1>3 DEF Ended, Live
    <2> QED BY <2>2, <2>3, <2>4, <2>5, <2>6 DEF TreatyTold
<1>4. ASSUME NEW p \in {t.a, t.b}, t.status = "active", u = BrokenBy(t, p),
             v = Append(w, [event |-> "broken", by |-> p])
      PROVE  /\ u \in Treaty /\ v \in Seq(Notice) /\ TreatyTold(u, v)
             /\ u.a = t.a /\ u.b = t.b /\ u.type = t.type
             /\ t.status \in Ended => u = t /\ v = w
    <2>1. w = <<[event |-> "signed", by |-> None]>>
        BY <1>4 DEF TreatyTold, ExpectedNotices
    <2>2. /\ u \in Treaty /\ u.a = t.a /\ u.b = t.b /\ u.type = t.type
          /\ u.proposedBy = t.proposedBy /\ u.withdrawnBy = p
          /\ u.status = IF p = t.a THEN "broken_by_a" ELSE "broken_by_b"
        BY <1>0, <1>4 DEF Treaty, Ended, BrokenBy
    <2>3. v = <<[event |-> "signed", by |-> None], [event |-> "broken", by |-> p]>>
        BY <1>4, <2>1, AppendShort
    <2>4. ExpectedNotices(u) =
             {<<[event |-> "signed", by |-> None], [event |-> "broken", by |-> p]>>}
        BY <2>2 DEF ExpectedNotices
    <2>5. v \in Seq(Notice)
        BY <1>0, <2>3 DEF Notice
    <2>6. t.status \notin Ended
        BY <1>4 DEF Ended
    <2> QED BY <1>0, <1>4, <2>2, <2>3, <2>4, <2>5, <2>6 DEF TreatyTold
<1> QED BY <1>1, <1>2, <1>3, <1>4 DEF TreatyStep

\* new is rec with every treaty moved on by at most one step.
RecordStep(rec, new) ==
    /\ new.treaties = [i \in DOMAIN rec.treaties |-> new.treaties[i]]
    /\ new.world = [i \in DOMAIN rec.world |-> new.world[i]]
    /\ \A i \in DOMAIN rec.treaties :
          TreatyStep(rec.treaties[i], rec.world[i], new.treaties[i], new.world[i])

\* Signing, withdrawing and breaking treaties preserve the record's invariant.
LEMMA StepKeepsRecord ==
    ASSUME NEW rec, RecordInv(rec), NEW new, RecordStep(rec, new)
    PROVE  /\ RecordInv(new)
           /\ \A i \in DOMAIN rec.treaties : rec.treaties[i].status \in Ended =>
                 new.treaties[i] = rec.treaties[i] /\ new.world[i] = rec.world[i]
<1> DEFINE n == Len(rec.treaties)
<1>1. /\ rec.treaties \in Seq(Treaty) /\ rec.world \in Seq(Seq(Notice))
      /\ n \in Nat /\ DOMAIN rec.treaties = 1..n /\ DOMAIN rec.world = 1..n
    BY DEF RecordInv, RecordType
<1> HIDE DEF n
<1>2. ASSUME NEW i \in 1..n
      PROVE  /\ new.treaties[i] \in Treaty /\ new.world[i] \in Seq(Notice)
             /\ TreatyTold(new.treaties[i], new.world[i])
             /\ new.treaties[i].a = rec.treaties[i].a
             /\ new.treaties[i].b = rec.treaties[i].b
             /\ new.treaties[i].type = rec.treaties[i].type
             /\ rec.treaties[i].status \in Ended =>
                   new.treaties[i] = rec.treaties[i] /\ new.world[i] = rec.world[i]
    <2>1. rec.treaties[i] \in Treaty /\ rec.world[i] \in Seq(Notice)
        BY <1>1
    <2>2. TreatyTold(rec.treaties[i], rec.world[i])
        BY <1>1 DEF RecordInv, ToldInFull, TreatyTold
    <2>3. TreatyStep(rec.treaties[i], rec.world[i], new.treaties[i], new.world[i])
        BY <1>1 DEF RecordStep
    <2> QED BY <2>1, <2>2, <2>3, StepKeepsTreaty
<1>3. DOMAIN new.treaties = 1..n /\ DOMAIN new.world = 1..n
    BY <1>1 DEF RecordStep
<1>4. RecordType(new)
    <2>1. new.treaties \in [1..n -> Treaty] /\ new.world \in [1..n -> Seq(Notice)]
        BY <1>1, <1>2 DEF RecordStep
    <2> QED BY <1>1, <2>1 DEF RecordType
<1>5. OnlyLatestLive(new)
    <2> SUFFICES ASSUME NEW i \in 1..n, NEW j \in 1..n, i < j,
                        new.treaties[i].a = new.treaties[j].a,
                        new.treaties[i].b = new.treaties[j].b,
                        new.treaties[i].type = new.treaties[j].type
                 PROVE  new.treaties[i].status \in Ended
        BY <1>3 DEF OnlyLatestLive
    <2>1. rec.treaties[i].status \in Ended
        BY <1>1, <1>2 DEF RecordInv, OnlyLatestLive
    <2> QED BY <1>2, <2>1
<1>6. ToldInFull(new)
    BY <1>2, <1>3 DEF ToldInFull, TreatyTold
<1> QED BY <1>1, <1>2, <1>4, <1>5, <1>6 DEF RecordInv

-----------------------------------------------------------------------------
(* The actions on the record.                                              *)

\* A treaty action that is not rejected preserves the record's invariant, and
\* leaves ended treaties alone.
LEMMA ActionKeepsRecord ==
    ASSUME NEW rec, RecordInv(rec), NEW x \in TreatyAction, CanApply(rec, x)
    PROVE  /\ RecordInv(Applied(rec, x))
           /\ DOMAIN rec.treaties \subseteq DOMAIN Applied(rec, x).treaties
           /\ \A i \in DOMAIN rec.treaties : rec.treaties[i].status \in Ended =>
                 /\ Applied(rec, x).treaties[i] = rec.treaties[i]
                 /\ Applied(rec, x).world[i] = rec.world[i]
<1> DEFINE l == LatestTreaty(rec.treaties, x)
<1>1. /\ rec.treaties \in Seq(Treaty) /\ rec.world \in Seq(Seq(Notice))
      /\ Len(rec.world) = Len(rec.treaties) /\ Len(rec.treaties) \in Nat
      /\ DOMAIN rec.treaties = 1..Len(rec.treaties) /\ DOMAIN rec.world = DOMAIN rec.treaties
    BY DEF RecordInv, RecordType
<1>2. CASE x.kind = "propose"
    <2>1. Applied(rec, x) = Proposed(rec, x)
        BY <1>2 DEF Applied
    <2>2. RecordInv(Proposed(rec, x))
        BY <1>2, ProposalPreserves DEF CanApply
    <2>3. \A i \in DOMAIN rec.treaties :
             i \in DOMAIN Proposed(rec, x).treaties
             /\ Proposed(rec, x).treaties[i] = rec.treaties[i]
             /\ Proposed(rec, x).world[i] = rec.world[i]
        BY <1>1 DEF Proposed
    <2> QED BY <2>1, <2>2, <2>3
<1>3. CASE x.kind = "accept"
    <2>1. Applied(rec, x) = Signed(rec, l)
        BY <1>3 DEF Applied
    <2>2. l # 0 /\ rec.treaties[l].status = "proposed"
        BY <1>3 DEF CanApply, CanAccept
    <2>3. l \in DOMAIN rec.treaties
        BY <2>2, LatestIsLast DEF RecordInv
    <2> HIDE DEF l
    <2>4. RecordStep(rec, Signed(rec, l))
        BY <1>1, <2>2, <2>3 DEF RecordStep, TreatyStep, Signed
    <2>5. DOMAIN Signed(rec, l).treaties = DOMAIN rec.treaties
        BY DEF Signed
    <2> QED BY <2>1, <2>4, <2>5, StepKeepsRecord
<1>4. CASE x.kind = "withdraw"
    <2>1. Applied(rec, x) = Withdrawn(rec, l, x.by)
        BY <1>4 DEF Applied
    <2>2. l # 0 /\ rec.treaties[l].status \in Live
        BY <1>4 DEF CanApply, CanWithdraw
    <2>3. l \in DOMAIN rec.treaties /\ x.by \in Players
        BY <2>2, LatestIsLast DEF RecordInv, TreatyAction
    <2> HIDE DEF l
    <2>4. RecordStep(rec, Withdrawn(rec, l, x.by))
        BY <1>1, <2>2, <2>3 DEF RecordStep, TreatyStep, Withdrawn
    <2>5. DOMAIN Withdrawn(rec, l, x.by).treaties = DOMAIN rec.treaties
        BY DEF Withdrawn
    <2> QED BY <2>1, <2>4, <2>5, StepKeepsRecord
<1> QED BY <1>2, <1>3, <1>4 DEF TreatyAction

\* The breaks of a tick are steps of the treaties they touch.
LEMMA BreaksAreSteps ==
    ASSUME NEW rec, RecordInv(rec), NEW moves, NEW rank
    PROVE  RecordStep(rec, Reconciled(rec, moves, rank))
<1> DEFINE new == Reconciled(rec, moves, rank)
           by(i) == Breaker(rec.treaties[i], moves, rank)
<1>1. DOMAIN rec.world = DOMAIN rec.treaties
    BY DEF RecordInv, RecordType
<1>2. /\ new.treaties = [i \in DOMAIN rec.treaties |->
            IF by(i) = None THEN rec.treaties[i] ELSE BrokenBy(rec.treaties[i], by(i))]
      /\ new.world = [i \in DOMAIN rec.world |->
            IF by(i) = None THEN rec.world[i]
            ELSE Append(rec.world[i], [event |-> "broken", by |-> by(i)])]
    BY DEF Reconciled
<1>3. ASSUME NEW i \in DOMAIN rec.treaties, by(i) # None
      PROVE  rec.treaties[i].status = "active" /\ by(i) \in {rec.treaties[i].a, rec.treaties[i].b}
    BY <1>3 DEF Breaker, IsBreaker
<1> HIDE DEF new, by
<1>4. ASSUME NEW i \in DOMAIN rec.treaties
      PROVE  TreatyStep(rec.treaties[i], rec.world[i], new.treaties[i], new.world[i])
    <2>1. CASE by(i) = None
        BY <1>1, <1>2, <2>1 DEF TreatyStep
    <2>2. CASE by(i) # None
        BY <1>1, <1>2, <1>3, <2>2 DEF TreatyStep
    <2> QED BY <2>1, <2>2
<1>5. RecordStep(rec, new)
    BY <1>2, <1>4 DEF RecordStep
<1> QED BY <1>5 DEF new

-----------------------------------------------------------------------------
(* The invariant of the specification.                                     *)

\* The empty record, of a new or a reloaded match.
LEMMA EmptyRecordInv == RecordInv(EmptyRecord)
BY DEF EmptyRecord, RecordInv, RecordType, OnlyLatestLive, ToldInFull

\* Every action preserves the record's invariant.
LEMMA NextRecordInv == RecordInv(record) /\ [Next]_vars => RecordInv(record)'
<1> SUFFICES ASSUME RecordInv(record), [Next]_vars
             PROVE  RecordInv(record')
    BY DEF RecordInv, RecordType, OnlyLatestLive, ToldInFull
<1>1. ASSUME NEW x \in TreatyAction, PostTreaty(x)
      PROVE  RecordInv(record')
    BY <1>1, ActionKeepsRecord DEF PostTreaty
<1>2. ASSUME NEW x \in TreatyAction, NEW y \in TreatyAction, PostCommand(x, y)
      PROVE  RecordInv(record')
    <2>1. RecordInv(Applied(record, x))
        BY <1>2, ActionKeepsRecord DEF PostCommand
    <2> QED BY <1>2, <2>1, ActionKeepsRecord DEF PostCommand
<1>3. ASSUME Tick
      PROVE  RecordInv(record')
    <2>1. PICK moves \in AcceptedMoves, rank \in Rankings : record' = Reconciled(record, moves, rank)
        BY <1>3 DEF Tick
    <2> QED BY <2>1, BreaksAreSteps, StepKeepsRecord
<1>4. ASSUME Reload
      PROVE  RecordInv(record')
    BY <1>4, EmptyRecordInv DEF Reload
<1>5. ASSUME UNCHANGED vars
      PROVE  RecordInv(record')
    BY <1>5 DEF vars
<1> QED BY <1>1, <1>2, <1>3, <1>4, <1>5 DEF Next

\* The record's invariant holds throughout.
LEMMA RecordInvariance == Spec => []RecordInv(record)
<1>1. Init => RecordInv(record)
    BY EmptyRecordInv DEF Init
<1> QED BY <1>1, NextRecordInv, PTL DEF Spec

\* However treaties are proposed, withdrawn, broken and proposed again, at most
\* the latest one of a pair and type is live.
THEOREM LatestAloneIsLive == Spec => []OneLiveTreaty
<1>1. RecordInv(record) => OneLiveTreaty
    BY DEF RecordInv, OneLiveTreaty
<1> QED BY <1>1, RecordInvariance, PTL

\* Signing, withdrawal and break are announced exactly once each, and a break
\* with the right culprit.
THEOREM EveryTreatyIsTold == Spec => []AnnouncedInFull
<1>1. RecordInv(record) => AnnouncedInFull
    BY DEF RecordInv, AnnouncedInFull
<1> QED BY <1>1, RecordInvariance, PTL

\* Nothing but a reload touches a treaty that has ended.
THEOREM EndedTreatiesStay == Spec => EndedIsFinal
<1> DEFINE Kept == \A i \in DOMAIN record.treaties :
                      record.treaties[i].status \in Ended =>
                         /\ record'.treaties[i] = record.treaties[i]
                         /\ record'.world[i] = record.world[i]
<1>1. RecordInv(record) /\ [Next]_vars => [record' = EmptyRecord \/ Kept]_vars
    <2> SUFFICES ASSUME RecordInv(record), Next
                 PROVE  record' = EmptyRecord \/ Kept
        OBVIOUS
    <2>1. ASSUME NEW x \in TreatyAction, PostTreaty(x)
          PROVE  Kept
        BY <2>1, ActionKeepsRecord DEF PostTreaty
    <2>2. ASSUME NEW x \in TreatyAction, NEW y \in TreatyAction, PostCommand(x, y)
          PROVE  Kept
        <3> DEFINE mid == Applied(record, x)
        <3>1. /\ RecordInv(mid)
              /\ DOMAIN record.treaties \subseteq DOMAIN mid.treaties
              /\ \A i \in DOMAIN record.treaties : record.treaties[i].status \in Ended =>
                    mid.treaties[i] = record.treaties[i] /\ mid.world[i] = record.world[i]
            BY <2>2, ActionKeepsRecord DEF PostCommand
        <3>2. CanApply(mid, y) /\ record' = Applied(mid, y)
            BY <2>2 DEF PostCommand
        <3> HIDE DEF mid
        <3>3. \A i \in DOMAIN mid.treaties : mid.treaties[i].status \in Ended =>
                 /\ Applied(mid, y).treaties[i] = mid.treaties[i]
                 /\ Applied(mid, y).world[i] = mid.world[i]
            BY <3>1, <3>2, ActionKeepsRecord
        <3> QED BY <3>1, <3>2, <3>3
    <2>3. ASSUME Tick
          PROVE  Kept
        <3>1. PICK moves \in AcceptedMoves, rank \in Rankings :
                 record' = Reconciled(record, moves, rank)
            BY <2>3 DEF Tick
        <3> QED BY <3>1, BreaksAreSteps, StepKeepsRecord
    <2>4. ASSUME Reload
          PROVE  record' = EmptyRecord
        BY <2>4 DEF Reload
    <2> QED BY <2>1, <2>2, <2>3, <2>4 DEF Next
<1> QED BY <1>1, RecordInvariance, PTL DEF Spec, EndedIsFinal

-----------------------------------------------------------------------------
(* The board.                                                              *)

ArmyStates == {None} \cup Standing \cup Marching

BoardType(own, ar) ==
    own \in [Cities -> Players \cup {None}] /\ ar \in [Armies -> ArmyStates]

\* An army that exists stands in a city or is on its way to one.
LEMMA ArmyForms ==
    ASSUME NEW ar \in [Armies -> ArmyStates], NEW r \in Armies, ar[r] # None
    PROVE  /\ Stationed(ar, r) => ar[r] \in Standing
           /\ ~Stationed(ar, r) => ar[r] \in Marching
<1>1. ar[r] \in Standing \/ ar[r] \in Marching
    BY DEF ArmyStates
<1>2. ar[r] \in Standing => ar[r].to = None
    BY DEF Standing
<1>3. ar[r] \in Marching => ar[r].to # None
    BY MapAssumption DEF Marching
<1> QED BY <1>1, <1>2, <1>3 DEF Stationed

\* The phases of a tick keep the armies well-formed.
LEMMA PhasesKeepArmies ==
    ASSUME NEW ar \in [Armies -> ArmyStates]
    PROVE  /\ Advanced(ar) \in [Armies -> ArmyStates]
           /\ \A lost : Without(ar, lost) \in [Armies -> ArmyStates]
<1>1. Advanced(ar) \in [Armies -> ArmyStates]
    <2> SUFFICES ASSUME NEW r \in Armies
                 PROVE  (IF ar[r] = None \/ Stationed(ar, r) THEN ar[r]
                         ELSE IF ar[r].left = 1 THEN At(ar[r].to)
                         ELSE [at |-> None, to |-> ar[r].to, left |-> ar[r].left - 1]) \in ArmyStates
        BY DEF Advanced
    <2>1. CASE ar[r] = None \/ Stationed(ar, r)
        BY <2>1
    <2>2. CASE ~(ar[r] = None \/ Stationed(ar, r))
        <3>1. ar[r] \in Marching
            BY <2>2, ArmyForms
        <3>2. At(ar[r].to) \in Standing
            BY <3>1 DEF Marching, At, Standing
        <3>3. ar[r].left # 1 => [at |-> None, to |-> ar[r].to, left |-> ar[r].left - 1] \in Marching
            BY <3>1 DEF Marching
        <3> QED BY <2>2, <3>2, <3>3 DEF ArmyStates
    <2> QED BY <2>1, <2>2
<1>2. ASSUME NEW lost
      PROVE  Without(ar, lost) \in [Armies -> ArmyStates]
    BY DEF Without, ArmyStates
<1> QED BY <1>1, <1>2

\* So does recruitment.
LEMMA RecruitsAreArmies ==
    ASSUME army \in [Armies -> ArmyStates], NEW ar \in RecruitedArmies
    PROVE  ar \in [Armies -> ArmyStates]
<1> SUFFICES ASSUME NEW r \in Armies
             PROVE  ar[r] \in ArmyStates
    BY DEF RecruitedArmies
<1>1. ar[r] \in {None} \cup {At(c) : c \in Cities} \cup {army[s] : s \in Armies}
    BY DEF RecruitedArmies
<1>2. \A c \in Cities : At(c) \in Standing
    BY DEF At, Standing
<1> QED BY <1>1, <1>2 DEF ArmyStates

\* Starting accepted orders puts standing armies on the road.
LEMMA StartedAreArmies ==
    ASSUME army \in [Armies -> ArmyStates], NEW moves \in AcceptedMoves,
           NEW ar \in RecruitedArmies
    PROVE  Started(Advanced(ar), moves) \in [Armies -> ArmyStates]
<1>1. Advanced(ar) \in [Armies -> ArmyStates]
    BY RecruitsAreArmies, PhasesKeepArmies
<1>2. ASSUME NEW r \in Armies, moves[r] # None
      PROVE  [at |-> None, to |-> moves[r], left |-> Distance[Advanced(ar)[r].at][moves[r]]]
                \in Marching
    <2>1. Stationed(army, r) /\ Distance[army[r].at][moves[r]] > 0 /\ moves[r] \in Cities
        BY <1>2 DEF AcceptedMoves
    <2>2. army[r] \in Standing
        BY <2>1, ArmyForms DEF Stationed
    <2>3. ar[r] = army[r]
        BY <2>1 DEF RecruitedArmies, Stationed
    <2>4. Advanced(ar)[r] = army[r]
        BY <2>1, <2>3 DEF Advanced, Stationed
    <2>5. army[r].at \in Cities
        BY <2>2 DEF Standing
    <2>6. Distance[army[r].at][moves[r]] \in Nat \ {0}
        BY <2>1, <2>5, MapAssumption
    <2> QED BY <2>1, <2>4, <2>6 DEF Marching
<1> QED BY <1>1, <1>2 DEF Started, ArmyStates

\* A city goes to the player whose armies alone stand in it.
LEMMA OccupiedType ==
    ASSUME NEW own \in [Cities -> Players \cup {None}], NEW ar
    PROVE  Occupied(own, ar) \in [Cities -> Players \cup {None}]
<1>1. \A c \in Cities : StationedOwners(ar, c) \subseteq Players
    BY ArmiesAssumption DEF StationedOwners
<1>2. \A c \in Cities : Cardinality(StationedOwners(ar, c)) = 1 => StationedOwners(ar, c) # {}
    BY FS_EmptySet
<1> QED BY <1>1, <1>2 DEF Occupied

\* Every action keeps the board well-formed.
LEMMA NextBoardType == BoardType(cityOwner, army) /\ [Next]_vars => BoardType(cityOwner, army)'
<1> SUFFICES ASSUME BoardType(cityOwner, army), [Next]_vars
             PROVE  BoardType(cityOwner', army')
    BY DEF BoardType
<1>1. CASE UNCHANGED <<cityOwner, army>>
    BY <1>1
<1>2. CASE Tick
    <2>1. PICK moves \in AcceptedMoves, raised \in RecruitedArmies,
               fallen \in SUBSET Armies, starved \in SUBSET Armies :
             /\ cityOwner' = Occupied(cityOwner, Without(Started(Advanced(raised), moves), fallen))
             /\ army' = Without(Without(Started(Advanced(raised), moves), fallen), starved)
        BY <1>2 DEF Tick, InCombat
    <2>2. Started(Advanced(raised), moves) \in [Armies -> ArmyStates]
        BY StartedAreArmies DEF BoardType
    <2>3. army' \in [Armies -> ArmyStates]
        BY <2>1, <2>2, PhasesKeepArmies
    <2>4. cityOwner' \in [Cities -> Players \cup {None}]
        BY <2>1, OccupiedType DEF BoardType
    <2> QED BY <2>3, <2>4 DEF BoardType
<1> QED BY <1>1, <1>2 DEF Next, PostTreaty, PostCommand, Reload, vars

\* The board is well-formed throughout.
LEMMA BoardInvariance == Spec => []BoardType(cityOwner, army)
<1>1. Init => BoardType(cityOwner, army)
    BY DEF Init, BoardType, ArmyStates
<1> QED BY <1>1, NextBoardType, PTL DEF Spec

\* Type correctness of the specification.
THEOREM TypeCorrect == Spec => []TypeOK
<1>1. RecordInv(record) /\ BoardType(cityOwner, army) => TypeOK
    BY DEF RecordInv, RecordType, BoardType, ArmyStates, TypeOK
<1> QED BY <1>1, RecordInvariance, BoardInvariance, PTL

\* When one of two partners attacks the other, the treaty has a breaker.
LEMMA AttackHasBreaker ==
    ASSUME NEW t, NEW moves, NEW rank \in Rankings,
           NEW p \in Players, NEW q \in Players, p # q,
           Between(t, p, q), t.status = "active", Attacks(moves, p, q)
    PROVE  Breaker(t, moves, rank) # None
<1>1. p \in Nat /\ q \in Nat
    BY PlayersAssumption
<1>2. {t.a, t.b} = {p, q} /\ t.a # t.b
    BY <1>1 DEF Between, Earlier, Later
<1>3. rank[p] \in Nat /\ rank[q] \in Nat /\ rank[p] # rank[q]
    <2>1. Cardinality(Players) \in Nat
        BY PlayersAssumption, FS_CardinalityType
    <2> QED BY <2>1 DEF Rankings
<1>4. rank[p] < rank[q] \/ rank[q] < rank[p]
    BY <1>3
<1>5. IsBreaker(t, p, moves, rank) \/ IsBreaker(t, q, moves, rank)
    BY <1>2, <1>4 DEF IsBreaker
<1>6. \E b \in Players : IsBreaker(t, b, moves, rank)
    BY <1>5
<1>7. Breaker(t, moves, rank) \in Players
    BY <1>6 DEF Breaker
<1> QED BY <1>7, PlayersAssumption

\* A tick that sends an army against a partner leaves no treaty between the two
\* in force, of whatever type and however many players attack at once.
THEOREM AttackersHaveNoTreaty == Spec => AttackEndsTreaties
<1> DEFINE Clean == \A r \in Armies :
                       Stationed(army, r) /\ army'[r] # None /\ army'[r].to # None =>
                           \A q \in Defenders(ArmyOwner[r], army'[r].to) :
                               ~ ActiveBetween(record', ArmyOwner[r], q)
<1>1. BoardType(cityOwner, army) /\ [Next]_vars => [Clean]_vars
    <2> SUFFICES ASSUME BoardType(cityOwner, army), Next
                 PROVE  Clean
        OBVIOUS
    <2>1. CASE UNCHANGED <<cityOwner, army>>
        BY <2>1 DEF Stationed
    <2>2. CASE Tick
        <3> SUFFICES ASSUME NEW r \in Armies, Stationed(army, r), army'[r] # None,
                            army'[r].to # None,
                            NEW q \in Defenders(ArmyOwner[r], army'[r].to),
                            ActiveBetween(record', ArmyOwner[r], q)
                     PROVE  FALSE
            OBVIOUS
        <3> DEFINE p == ArmyOwner[r]
        <3>1. PICK moves \in AcceptedMoves, rank \in Rankings, raised \in RecruitedArmies,
                   fallen \in SUBSET Armies, starved \in SUBSET Armies :
                 /\ record' = Reconciled(record, moves, rank)
                 /\ army' = Without(Without(Started(Advanced(raised), moves), fallen), starved)
            BY <2>2 DEF Tick, InCombat
        <3>2. Advanced(raised)[r] = army[r] /\ army[r].to = None
            BY DEF RecruitedArmies, Stationed, Advanced
        <3>3. army'[r] = Started(Advanced(raised), moves)[r]
            BY <3>1 DEF Without
        <3>4. moves[r] # None /\ army'[r].to = moves[r]
            BY <3>2, <3>3 DEF Started
        <3>5. moves[r] \in Cities
            BY <3>4 DEF AcceptedMoves
        <3>6. p \in Players /\ q \in Players /\ p # q
            BY <3>4, <3>5, ArmiesAssumption DEF Defenders, StationedOwners, BoardType
        <3>7. Attacks(moves, p, q)
            BY <3>4 DEF Attacks
        <3>8. PICK i \in DOMAIN record'.treaties :
                 Between(record'.treaties[i], p, q) /\ record'.treaties[i].status = "active"
            BY DEF ActiveBetween
        <3> DEFINE t == record.treaties[i]
                   b == Breaker(t, moves, rank)
        <3>9. i \in DOMAIN record.treaties
              /\ record'.treaties[i] = IF b = None THEN t ELSE BrokenBy(t, b)
            BY <3>1, <3>8 DEF Reconciled
        <3>10. CASE b = None
            BY <3>6, <3>7, <3>8, <3>9, <3>10, AttackHasBreaker
        <3>11. CASE b # None
            <4>1. t.status = "active"
                BY <3>11 DEF Breaker
            <4>2. BrokenBy(t, b).status # "active"
                BY <4>1 DEF BrokenBy
            <4> QED BY <3>8, <3>9, <3>11, <4>2
        <3> QED BY <3>10, <3>11
    <2> QED BY <2>1, <2>2 DEF Next, PostTreaty, PostCommand, Reload
<1> QED BY <1>1, BoardInvariance, PTL DEF Spec, AttackEndsTreaties

\* A treaty action breaks no treaty.
LEMMA ActionBreaksNone ==
    ASSUME NEW rec, RecordInv(rec), NEW x \in TreatyAction, CanApply(rec, x),
           NEW i \in DOMAIN rec.treaties,
           rec.treaties[i].status \in {"proposed", "active", "withdrawn"}
    PROVE  Applied(rec, x).treaties[i].status \in {"proposed", "active", "withdrawn"}
<1> DEFINE l == LatestTreaty(rec.treaties, x)
<1>1. rec.treaties \in Seq(Treaty) /\ Len(rec.treaties) \in Nat /\ i \in 1..Len(rec.treaties)
    BY DEF RecordInv, RecordType
<1>2. rec.treaties[i] \in Treaty
    BY <1>1
<1>3. CASE x.kind = "propose"
    BY <1>1, <1>3 DEF Applied, Proposed
<1>4. CASE x.kind = "accept"
    <2>1. Applied(rec, x).treaties = [rec.treaties EXCEPT ![l].status = "active"]
        BY <1>4 DEF Applied, Signed
    <2> QED BY <1>1, <1>2, <2>1 DEF Treaty
<1>5. CASE x.kind = "withdraw"
    <2>1. Applied(rec, x).treaties = [rec.treaties EXCEPT ![l].status = "withdrawn", ![l].withdrawnBy = x.by]
        BY <1>5 DEF Applied, Withdrawn
    <2> QED BY <1>1, <1>2, <2>1 DEF Treaty
<1> QED BY <1>3, <1>4, <1>5 DEF TreatyAction

\* The one whom a tick's reconciliation names has sent an army against the other party.
LEMMA BreakerAttacks ==
    ASSUME NEW t, NEW moves, NEW rank, Breaker(t, moves, rank) # None
    PROVE  LET p == Breaker(t, moves, rank)
           IN  \E r \in Armies : /\ p = ArmyOwner[r] /\ moves[r] # None
                                 /\ ({t.a, t.b} \ {p}) \subseteq Defenders(p, moves[r])
<1> DEFINE p == Breaker(t, moves, rank)
<1>1. IsBreaker(t, p, moves, rank)
    BY DEF Breaker
<1> HIDE DEF p
<1>2. PICK q \in {t.a, t.b} : {t.a, t.b} \ {p} \subseteq {q} /\ Attacks(moves, p, q)
    BY <1>1 DEF IsBreaker
<1>3. PICK r \in Armies : ArmyOwner[r] = p /\ moves[r] # None /\ q \in Defenders(p, moves[r])
    BY <1>2 DEF Attacks
<1> QED BY <1>2, <1>3 DEF p

\* A treaty that becomes broken names a partner whose army left, or was lost leaving, for a place
\* the other one held: no action of a player, and no reload, puts the blame on anybody.
THEOREM BlameNeedsAttack == Spec => BlameIsEarned
<1> DEFINE Blamed(i) == LET t == record.treaties[i] IN
              i \in DOMAIN record'.treaties /\ t.status = "active"
              /\ record'.treaties[i].status \in {"broken_by_a", "broken_by_b"}
           Earned(i) == LET t == record.treaties[i] IN
              \E r \in Armies, c \in Cities :
                 LET p == record'.treaties[i].withdrawnBy
                 IN  /\ p = ArmyOwner[r]
                     /\ Stationed(army, r) /\ Distance[army[r].at][c] > 0
                     /\ army'[r] # None => army'[r].to = c
                     /\ ({t.a, t.b} \ {p}) \subseteq Defenders(p, c)
           Just == \A i \in DOMAIN record.treaties : Blamed(i) => Earned(i)
<1>1. RecordInv(record) /\ [Next]_vars => [Just]_vars
    <2> SUFFICES ASSUME RecordInv(record), Next, NEW i \in DOMAIN record.treaties, Blamed(i)
                 PROVE  Earned(i)
        OBVIOUS
    <2> DEFINE t == record.treaties[i]
    <2>1. ASSUME NEW x \in TreatyAction, PostTreaty(x)
          PROVE  FALSE
        <3>1. record'.treaties[i].status \in {"proposed", "active", "withdrawn"}
            BY <2>1, ActionBreaksNone DEF PostTreaty
        <3> QED BY <3>1
    <2>2. ASSUME NEW x \in TreatyAction, NEW y \in TreatyAction, PostCommand(x, y)
          PROVE  FALSE
        <3> DEFINE mid == Applied(record, x)
        <3>1. RecordInv(mid) /\ i \in DOMAIN mid.treaties
              /\ mid.treaties[i].status \in {"proposed", "active", "withdrawn"}
            BY <2>2, ActionKeepsRecord, ActionBreaksNone DEF PostCommand
        <3>2. CanApply(mid, y) /\ record' = Applied(mid, y)
            BY <2>2 DEF PostCommand
        <3> HIDE DEF mid
        <3>3. record'.treaties[i].status \in {"proposed", "active", "withdrawn"}
            BY <3>1, <3>2, ActionBreaksNone
        <3> QED BY <3>3
    <2>3. CASE Tick
        <3>1. PICK moves \in AcceptedMoves, rank \in Rankings, raised \in RecruitedArmies,
                   fallen \in SUBSET Armies, starved \in SUBSET Armies :
                 /\ record' = Reconciled(record, moves, rank)
                 /\ army' = Without(Without(Started(Advanced(raised), moves), fallen), starved)
            BY <2>3 DEF Tick, InCombat
        <3> DEFINE b == Breaker(t, moves, rank)
        <3>2. record'.treaties[i] = IF b = None THEN t ELSE BrokenBy(t, b)
            BY <3>1 DEF Reconciled
        <3>3. b # None
            BY <3>2
        <3>4. record'.treaties[i].withdrawnBy = b
            <4>1. t \in Treaty
                BY DEF RecordInv, RecordType
            <4> QED BY <3>2, <3>3, <4>1 DEF BrokenBy, Treaty
        <3>5. PICK r \in Armies : /\ b = ArmyOwner[r] /\ moves[r] # None
                                  /\ ({t.a, t.b} \ {b}) \subseteq Defenders(b, moves[r])
            BY <3>3, BreakerAttacks
        <3>6. /\ moves[r] \in Cities /\ Stationed(army, r) /\ Distance[army[r].at][moves[r]] > 0
            BY <3>5 DEF AcceptedMoves
        <3>7. army'[r] # None => army'[r].to = moves[r]
            BY <3>1, <3>5 DEF Without, Started
        <3> QED BY <3>4, <3>5, <3>6, <3>7
    <2>4. CASE Reload
        BY <2>4 DEF Reload, EmptyRecord
    <2> QED BY <2>1, <2>2, <2>3, <2>4 DEF Next
<1> QED BY <1>1, RecordInvariance, PTL DEF Spec, BlameIsEarned

\* Whoever attacks loses every treaty with the attacked, and nobody else is blamed for one.
THEOREM BreaksAreEarned == Spec => BreaksAreJust
BY AttackersHaveNoTreaty, BlameNeedsAttack, PTL DEF BreaksAreJust

\* Treaties and what world chat says of them, taken together.
THEOREM RecordIsSound == Spec => []TreatiesSound
<1>1. OneLiveTreaty /\ AnnouncedInFull => TreatiesSound
  BY DEF TreatiesSound
<1> QED
  BY <1>1, LatestAloneIsLive, EveryTreatyIsTold, PTL
=============================================================================
