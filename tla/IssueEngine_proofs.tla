-------------------------- MODULE IssueEngine_proofs --------------------------
(***************************************************************************)
(* The Issue list: complete when a Refresh ends and its log issues in the  *)
(* users' hands, for any signals, windows, limits and clocks.              *)
(***************************************************************************)
EXTENDS IssueEngine, FiniteSetTheorems, FunctionTheorems, SequenceTheorems,
        WellFoundedInduction, TLAPS

-----------------------------------------------------------------------------
Change == [object : Object, when : Nat]
Sighting == [event : Event, lastSeen : Nat]

Card == [workload : Workload, template : Template, topic : {NoTopic}, severity : {"low"},
         firedAt : Nat, affectedPods : Nat, variants : SUBSET Template,
         state : S!State, updatedAt : Nat]

IssueID == ({"cfg"} \X Object \X Nat) \cup ({"evt"} \X Event \X Nat) \cup ({"log"} \X Nat \X {0})

Issue == [id : IssueID, of : Nat, state : S!State, firedAt : Nat, updatedAt : Nat]

SignalTypes ==
  /\ now \in Nat
  /\ changes \in Seq(Change) /\ events \in Seq(Sighting)

\* Cards are numbered in the order they were made, and one that was updated
\* was updated after it fired.
StoreTypes ==
  /\ IsFiniteSet(DOMAIN heap) /\ DOMAIN heap = 1..Cardinality(DOMAIN heap)
  /\ heap \in [DOMAIN heap -> Card]
  /\ \A id \in DOMAIN heap : heap[id].firedAt <= now /\ heap[id].firedAt <= heap[id].updatedAt
  /\ all \in Seq(DOMAIN heap) /\ byID \subseteq DOMAIN heap

\* Of a log issue: its anomaly exists and fired no later than this.
FiredBy(h, id, t) == id[1] = "log" => id[2] \in DOMAIN h /\ h[id[2]].firedAt <= t

IssueTypes ==
  /\ issues \in [DOMAIN issues -> Issue]
  /\ \A id \in DOMAIN issues : FiredBy(heap, id, issues[id].updatedAt)
  /\ \A id \in shown : id[1] = "log" => id[2] \in DOMAIN heap

Phase == {"idle", "config", "events", "bump", "log"}

Progress == [phase : Phase, at : Nat, todo : Seq(Nat), hand : Issue \cup {None}]

\* What is left to do was read from the lists, and from no older events.
TodoKnown ==
  \A i \in DOMAIN refresh.todo :
    LET n == refresh.todo[i] IN
    /\ refresh.phase = "config" => n \in DOMAIN changes
    /\ refresh.phase \in {"events", "bump"} =>
         n \in DOMAIN events /\ events[n].lastSeen >= refresh.at - eventWindow
    /\ refresh.phase = "log" => n \in DOMAIN heap

\* An Issue is in hand between its check and its put: of a signal of the
\* phase, and the mirror of an anomaly only when there was none.
HandSound ==
  refresh.hand # None =>
    /\ refresh.phase \in {"config", "events", "log"}
    /\ refresh.phase = "log" <=> refresh.hand.id[1] = "log"
    /\ refresh.phase # "log" => refresh.hand.updatedAt = refresh.at
    /\ refresh.phase = "log" => refresh.hand.id \notin DOMAIN issues
    /\ FiredBy(heap, refresh.hand.id, refresh.hand.updatedAt)

BumpSound ==
  refresh.phase = "bump" =>
    /\ refresh.hand = None /\ refresh.todo # <<>>
    /\ events[Head(refresh.todo)].event \in IssueEvent
    /\ eventIssueID(Head(refresh.todo)) \in DOMAIN issues

RefreshTypes ==
  /\ refresh \in Progress /\ refresh.at <= now
  /\ TodoKnown /\ HandSound /\ BumpSound

\* While a Refresh runs, a signal it read is on the list for long enough to
\* survive the GC, or is still to do, or its Issue is in hand.
Survives(id) ==
  /\ id \in DOMAIN issues
  /\ id[1] = "log" \/ issues[id].updatedAt >= refresh.at - gcAge

SignalOf(id, r, ch, ev, n) ==
  \/ r.phase = "config" /\ id = <<"cfg", ch[n].object, ch[n].when>>
  \/ /\ r.phase \in {"events", "bump"} /\ ev[n].event \in IssueEvent
     /\ id = <<"evt", ev[n].event, (ev[n].lastSeen \div Minute) % Day>>
  \/ r.phase = "log" /\ id = logIssueID(n)

ToDo(id) == \E i \in DOMAIN refresh.todo : SignalOf(id, refresh, changes, events, refresh.todo[i])

InHand(id) == refresh.hand # None /\ refresh.hand.id = id

NothingLost ==
  refresh.phase # "idle" => \A id \in shown : Survives(id) \/ ToDo(id) \/ InHand(id)

EngineInv ==
  /\ SignalTypes /\ StoreTypes /\ IssueTypes /\ RefreshTypes
  /\ NothingLost /\ RefreshComplete

-----------------------------------------------------------------------------
(* Sequences.                                                              *)
Rank(I, i) == Cardinality({j \in I : j <= i})

\* In a finite set of positions every rank is some position's.
LEMMA EveryRankTaken ==
  ASSUME NEW I, I \subseteq Nat, IsFiniteSet(I), NEW n \in 1..Cardinality(I)
  PROVE  \E i \in I : Rank(I, i) = n
<1> DEFINE Below(i) == {j \in I : j <= i}
           rank == [i \in I |-> Rank(I, i)]
           T == 1..Cardinality(I)
<1>1. Cardinality(I) \in Nat
  BY FS_CardinalityType
<1>2. ASSUME NEW i \in I
      PROVE  IsFiniteSet(Below(i)) /\ Rank(I, i) \in 1..Cardinality(I)
  <2>1. Below(i) \in SUBSET I /\ i \in Below(i)
    OBVIOUS
  <2>2. IsFiniteSet(Below(i)) /\ Cardinality(Below(i)) <= Cardinality(I)
    BY <2>1, FS_Subset
  <2>3. Cardinality(Below(i)) \in Nat /\ Cardinality(Below(i)) # 0
    BY <2>1, <2>2, FS_CardinalityType, FS_EmptySet
  <2> QED
    BY <1>1, <2>2, <2>3 DEF Rank
<1>3. ASSUME NEW i \in I, NEW j \in I, i < j PROVE Rank(I, i) < Rank(I, j)
  <2>1. i \in Nat /\ j \in Nat /\ I \subseteq Nat
    OBVIOUS
  <2>2. \A k \in Nat : k <= i => k <= j
    BY <1>3, <2>1
  <2>3. j <= j /\ ~(j <= i)
    BY <1>3, <2>1
  <2>4. Below(i) \in SUBSET Below(j) /\ j \in Below(j) /\ j \notin Below(i)
    BY <2>1, <2>2, <2>3, Zenon
  <2>5. Cardinality(Below(i)) <= Cardinality(Below(j))
        /\ Cardinality(Below(i)) # Cardinality(Below(j))
    BY <1>2, <2>4, FS_Subset
  <2>6. Cardinality(Below(i)) \in Nat /\ Cardinality(Below(j)) \in Nat
    BY <1>2, FS_CardinalityType
  <2> QED
    BY <2>5, <2>6 DEF Rank
<1>4. rank \in [I -> T]
  BY <1>2
<1>5. ASSUME NEW i \in I, NEW j \in I, rank[i] = rank[j] PROVE i = j
  <2>1. Rank(I, i) \in 1..Cardinality(I) /\ Rank(I, i) = Rank(I, j)
    BY <1>2, <1>5
  <2>2. Rank(I, i) \in Nat /\ i \in Nat /\ j \in Nat
    BY <1>1, <2>1
  <2>3. ~(i < j) /\ ~(j < i)
    BY <1>3, <2>1, <2>2
  <2> QED
    BY <2>2, <2>3
<1>6. rank \in Injection(I, T)
  BY <1>4, <1>5 DEF Injection, IsInjective
<1>7. IsFiniteSet(T) /\ Cardinality(T) = Cardinality(I)
  BY <1>1, FS_Interval
<1>8. rank \in Surjection(I, T)
  BY <1>6, <1>7, FS_Injection
<1> QED
  BY <1>8 DEF Surjection

\* What stands in the result stood at one of the positions.
LEMMA AtPositionsFacts ==
  ASSUME NEW T, NEW s \in Seq(T), NEW I \in SUBSET (DOMAIN s)
  PROVE  /\ AtPositions(s, I) \in Seq(T)
         /\ \A n \in DOMAIN AtPositions(s, I) : \E i \in I : AtPositions(s, I)[n] = s[i]
<1> DEFINE A == AtPositions(s, I)
           at(n) == CHOOSE i \in I : Cardinality({j \in I : j <= i}) = n
<1>1. DOMAIN s = 1..Len(s) /\ Len(s) \in Nat /\ I \subseteq Nat
  OBVIOUS
<1>2. IsFiniteSet(I)
  <2>1. IsFiniteSet(1..Len(s))
    BY <1>1, FS_Interval
  <2> QED
    BY <1>1, <2>1, FS_Subset
<1>3. Cardinality(I) \in Nat
  BY <1>2, FS_CardinalityType
<1>4. ASSUME NEW n \in 1..Cardinality(I) PROVE at(n) \in I
  <2>1. \E i \in I : Cardinality({j \in I : j <= i}) = n
    BY <1>1, <1>2, EveryRankTaken DEF Rank
  <2> QED
    BY <2>1
<1>5. DOMAIN A = 1..Cardinality(I) /\ \A n \in 1..Cardinality(I) : A[n] = s[at(n)]
  BY DEF AtPositions
<1> HIDE DEF A, at
<1>6. \A n \in 1..Cardinality(I) : A[n] \in T
  BY <1>1, <1>4, <1>5
<1>7. A = [n \in 1..Cardinality(I) |-> A[n]]
  BY <1>5 DEF A, AtPositions
<1>8. A \in Seq(T)
  BY <1>3, <1>6, <1>7
<1>9. \A n \in DOMAIN A : \E i \in I : A[n] = s[i]
  BY <1>4, <1>5
<1> QED
  BY <1>8, <1>9 DEF A

LEMMA AtMostFacts ==
  ASSUME EngineAssumption, NEW T, NEW s \in Seq(T)
  PROVE  /\ AtMost(s) \in Seq(T)
         /\ \A i \in DOMAIN AtMost(s) : i \in DOMAIN s /\ AtMost(s)[i] = s[i]
<1> DEFINE m == IF Len(s) < Limit THEN Len(s) ELSE Limit
<1>1. Len(s) \in Nat /\ m \in Nat /\ m <= Len(s) /\ DOMAIN s = 1..Len(s)
  BY EngineAssumption DEF EngineAssumption
<1> HIDE DEF m
<1>2. SubSeq(s, 1, m) \in Seq(T) /\ Len(SubSeq(s, 1, m)) = m /\ DOMAIN SubSeq(s, 1, m) = 1..m
      /\ \A i \in 1..m : SubSeq(s, 1, m)[i] = s[i]
  BY <1>1
<1>3. \A i \in 1..m : i \in 1..Len(s)
  BY <1>1
<1> QED
  BY <1>1, <1>2, <1>3 DEF AtMost, m

LEMMA TailFacts ==
  ASSUME NEW T, NEW s \in Seq(T), s # <<>>
  PROVE  /\ Tail(s) \in Seq(T) /\ 1 \in DOMAIN s /\ Head(s) = s[1]
         /\ \A i \in DOMAIN Tail(s) : i + 1 \in DOMAIN s /\ Tail(s)[i] = s[i + 1]
         /\ \A i \in DOMAIN s : i = 1 \/ (i - 1 \in DOMAIN Tail(s) /\ Tail(s)[i - 1] = s[i])
<1>1. Len(s) \in Nat /\ Len(s) # 0 /\ DOMAIN s = 1..Len(s)
  OBVIOUS
<1>2. Tail(s) \in Seq(T) /\ Len(Tail(s)) = Len(s) - 1 /\ DOMAIN Tail(s) = 1..(Len(s) - 1)
      /\ \A i \in 1..(Len(s) - 1) : Tail(s)[i] = s[i + 1]
  BY <1>1
<1> QED
  BY <1>1, <1>2

LEMMA NewestFirstFacts ==
  ASSUME NEW n \in Nat
  PROVE  NewestFirst(n) \in Seq(1..n) /\ DOMAIN NewestFirst(n) = 1..n
<1>1. \A i \in 1..n : n + 1 - i \in 1..n
  OBVIOUS
<1> QED
  BY <1>1 DEF NewestFirst

LEMMA RecentChangesFacts ==
  ASSUME SignalTypes
  PROVE  RecentChanges \in Seq(DOMAIN changes)
<1>1. Len(changes) \in Nat /\ DOMAIN changes = 1..Len(changes)
  BY DEF SignalTypes
<1> QED
  BY <1>1, NewestFirstFacts, AtMostFacts, EngineAssumption DEF RecentChanges

LEMMA RecentFacts ==
  ASSUME SignalTypes, NEW since \in Int
  PROVE  /\ Recent(since) \in Seq(DOMAIN events)
         /\ \A i \in DOMAIN Recent(since) : events[Recent(since)[i]].lastSeen >= since
<1> DEFINE newest == NewestFirst(Len(events))
           I == {i \in DOMAIN newest : events[newest[i]].lastSeen >= since}
           found == AtPositions(newest, I)
<1>1. Len(events) \in Nat /\ DOMAIN events = 1..Len(events)
  BY DEF SignalTypes
<1>2. newest \in Seq(DOMAIN events)
  BY <1>1, NewestFirstFacts
<1>3. I \in SUBSET (DOMAIN newest) /\ \A i \in I : events[newest[i]].lastSeen >= since
  OBVIOUS
<1>4. Recent(since) = AtMost(found)
  BY DEF Recent
<1> HIDE DEF newest, I
<1>5. /\ found \in Seq(DOMAIN events)
      /\ \A n \in DOMAIN found : \E i \in I : found[n] = newest[i]
  BY <1>2, <1>3, AtPositionsFacts
<1> HIDE DEF found
<1>6. /\ AtMost(found) \in Seq(DOMAIN events)
      /\ \A n \in DOMAIN AtMost(found) : n \in DOMAIN found /\ AtMost(found)[n] = found[n]
  BY <1>5, AtMostFacts, EngineAssumption
<1> QED
  BY <1>3, <1>4, <1>5, <1>6

LEMMA AllFacts ==
  ASSUME StoreTypes
  PROVE  S!All \in Seq(DOMAIN heap)
<1>1. all \in Seq(DOMAIN heap)
  BY DEF StoreTypes
<1>2. Len(all) \in Nat /\ DOMAIN all = 1..Len(all) /\ \A i \in 1..Len(all) : all[i] \in DOMAIN heap
  BY <1>1
<1>3. \A i \in 1..Len(all) : Len(all) + 1 - i \in 1..Len(all)
  BY <1>2
<1>4. S!All = [i \in 1..Len(all) |-> all[Len(all) + 1 - i]]
  BY <1>2 DEF S!All
<1>5. \A i \in 1..Len(all) : all[Len(all) + 1 - i] \in DOMAIN heap
  BY <1>2, <1>3
<1> QED
  BY <1>2, <1>4, <1>5

-----------------------------------------------------------------------------
(* The anomaly store.                                                      *)
CardsKept == \A id \in DOMAIN heap : id \in DOMAIN heap' /\ heap'[id].firedAt = heap[id].firedAt

LEMMA NatMin ==
  ASSUME NEW I, I \subseteq Nat, I # {}
  PROVE  \E m \in I : \A n \in I : m <= n
<1> DEFINE R == OpToRel(<, Nat)
<1>1. IsWellFoundedOn(R, Nat)
  BY NatLessThanWellFounded
<1>2. \A m, n \in Nat : m < n => <<m, n>> \in R
  BY Zenon DEF OpToRel
<1> HIDE DEF R
<1>3. PICK m \in I : \A n \in I : <<n, m>> \notin R
  BY <1>1, WFMin
<1>4. ASSUME NEW n \in I PROVE m <= n
  <2>1. m \in Nat /\ n \in Nat /\ ~(n < m)
    BY <1>2, <1>3
  <2> QED
    BY <2>1
<1> QED
  BY <1>4

LEMMA LatestIsOne ==
  ASSUME NEW n \in Nat, NEW I, I \subseteq 1..n, I # {}
  PROVE  S!Latest(I) \in I
<1> DEFINE T == {n - x : x \in I}
<1>1. T \subseteq Nat /\ T # {}
  <2>1. \A x \in I : n - x \in Nat
    OBVIOUS
  <2> QED
    BY <2>1
<1>2. PICK d \in T : \A e \in T : d <= e
  BY <1>1, NatMin
<1>3. PICK m \in I : d = n - m
  OBVIOUS
<1>4. ASSUME NEW x \in I PROVE x <= m
  <2>1. n - x \in T /\ x \in Int /\ m \in Int
    OBVIOUS
  <2>2. n - m <= n - x
    BY <1>2, <1>3, <2>1
  <2> QED
    BY <2>1, <2>2
<1>5. \E i \in I : \A j \in I : j <= i
  BY <1>4
<1> QED
  BY <1>5 DEF S!Latest

\* The card that a repeated anomaly is counted on is a stored one.
LEMMA StoredIsCard ==
  ASSUME StoreTypes, NEW a, S!Matches(a) # {}
  PROVE  S!StoredID(a) \in DOMAIN heap
<1>1. all \in Seq(DOMAIN heap)
  BY DEF StoreTypes
<1>2. Len(all) \in Nat /\ DOMAIN all = 1..Len(all) /\ \A i \in 1..Len(all) : all[i] \in DOMAIN heap
  BY <1>1
<1>3. S!Matches(a) \subseteq 1..Len(all)
  BY <1>2 DEF S!Matches, S!DedupMatches, S!GroupMatches
<1>4. S!Latest(S!Matches(a)) \in 1..Len(all)
  BY <1>2, <1>3, LatestIsOne
<1> QED
  BY <1>2, <1>4 DEF S!StoredID, S!Fresh

\* Any change of a card that leaves its time of firing alone.
LEMMA CardEdited ==
  ASSUME SignalTypes, StoreTypes, NEW id \in DOMAIN heap, NEW c \in Card,
         c.firedAt = heap[id].firedAt, c.updatedAt = now,
         heap' = [heap EXCEPT ![id] = c], UNCHANGED <<now, all, byID>>
  PROVE  StoreTypes' /\ CardsKept
<1>1. now \in Nat /\ heap \in [DOMAIN heap -> Card] /\ heap[id].firedAt <= now
      /\ \A x \in DOMAIN heap : heap[x].firedAt <= now /\ heap[x].firedAt <= heap[x].updatedAt
  BY DEF SignalTypes, StoreTypes
<1>2. DOMAIN heap' = DOMAIN heap /\ heap'[id] = c /\ \A x \in DOMAIN heap \ {id} : heap'[x] = heap[x]
  OBVIOUS
<1>3. heap' \in [DOMAIN heap' -> Card]
  BY <1>1
<1>4. \A x \in DOMAIN heap' : heap'[x].firedAt <= now' /\ heap'[x].firedAt <= heap'[x].updatedAt
  BY <1>1, <1>2
<1>5. IsFiniteSet(DOMAIN heap) /\ DOMAIN heap = 1..Cardinality(DOMAIN heap)
      /\ all \in Seq(DOMAIN heap) /\ byID \subseteq DOMAIN heap
  BY DEF StoreTypes
<1>6. CardsKept
  BY <1>2 DEF CardsKept
<1>7. IsFiniteSet(DOMAIN heap') /\ DOMAIN heap' = 1..Cardinality(DOMAIN heap')
      /\ all' \in Seq(DOMAIN heap') /\ byID' \subseteq DOMAIN heap'
  BY <1>2, <1>5
<1> QED
  BY <1>3, <1>4, <1>6, <1>7 DEF StoreTypes

LEMMA AnomalySet ==
  ASSUME SignalTypes, StoreTypes, now' = now, NEW id, NEW state \in UserState, S!SetState(id, state)
  PROVE  StoreTypes' /\ CardsKept
<1> DEFINE c == [heap[id] EXCEPT !.state = state, !.updatedAt = now]
<1>1. id \in DOMAIN heap /\ heap \in [DOMAIN heap -> Card] /\ now \in Nat
  BY DEF StoreTypes, SignalTypes, S!SetState
<1>2. state \in S!State
  BY EngineAssumption DEF EngineAssumption, S!State
<1>3. heap[id] \in Card
  BY <1>1
<1>4. c \in Card /\ c.firedAt = heap[id].firedAt /\ c.updatedAt = now
  BY <1>1, <1>2, <1>3 DEF Card
<1>5. heap' = [heap EXCEPT ![id] = c] /\ UNCHANGED <<all, byID>>
  BY <1>1 DEF S!SetState
<1> HIDE DEF c
<1> QED
  BY <1>1, <1>4, <1>5, CardEdited

LEMMA Recorded ==
  ASSUME SignalTypes, StoreTypes, NEW w \in Workload, NEW t \in Template, RecordAnomaly(w, t)
  PROVE  StoreTypes' /\ CardsKept
<1> DEFINE k == Cardinality(DOMAIN heap)
           a == [id |-> k + 1, workload |-> w, template |-> t, topic |-> NoTopic,
                 severity |-> "low", firedAt |-> now, affectedPods |-> 1]
<1>1. S!Record(a) /\ now' = now /\ now \in Nat
  BY DEF RecordAnomaly, SignalTypes
<1>2. /\ a.id = k + 1 /\ a.workload = w /\ a.template = t /\ a.topic = NoTopic
      /\ a.severity = "low" /\ a.firedAt = now /\ a.affectedPods = 1
  OBVIOUS
<1>3. /\ IsFiniteSet(DOMAIN heap) /\ DOMAIN heap = 1..k /\ k \in Nat
      /\ heap \in [DOMAIN heap -> Card]
      /\ all \in Seq(DOMAIN heap) /\ byID \subseteq DOMAIN heap
      /\ \A id \in DOMAIN heap : heap[id].firedAt <= now /\ heap[id].firedAt <= heap[id].updatedAt
  BY FS_CardinalityType DEF StoreTypes
<1> HIDE DEF a, k
<1>4. CASE S!Dedup(a)
  <2> DEFINE id == S!StoredID(a)
             c == [heap[id] EXCEPT !.updatedAt = now]
  <2>1. S!Matches(a) # {}
    BY <1>4 DEF S!Dedup, S!Matches
  <2>2. id \in DOMAIN heap
    BY <2>1, StoredIsCard
  <2>3. heap' = [heap EXCEPT ![id] = c] /\ UNCHANGED <<all, byID>>
    BY <1>2, <1>4, <2>2 DEF S!Dedup
  <2> HIDE DEF id
  <2>4. heap[id] \in Card
    BY <1>3, <2>2
  <2>5. c \in Card /\ c.firedAt = heap[id].firedAt /\ c.updatedAt = now
    BY <1>1, <2>4 DEF Card
  <2> HIDE DEF c
  <2> QED
    BY <1>1, <2>2, <2>3, <2>5, CardEdited
<1>5. CASE S!Group(a)
  <2> DEFINE id == S!StoredID(a)
             v == heap[id].variants \cup ({a.template} \ {heap[id].template})
             p == IF a.affectedPods > heap[id].affectedPods THEN a.affectedPods
                  ELSE heap[id].affectedPods
             c == [heap[id] EXCEPT !.variants = v, !.updatedAt = now, !.affectedPods = p]
  <2>1. S!Matches(a) # {}
    BY <1>5 DEF S!Group, S!Matches
  <2>2. id \in DOMAIN heap
    BY <2>1, StoredIsCard
  <2>4. heap[id] \in Card
    BY <1>3, <2>2
  <2>3. heap' = [heap EXCEPT ![id] = c] /\ UNCHANGED <<all, byID>>
    BY <1>2, <1>5, <2>2, <2>4 DEF S!Group, Card
  <2>6. v \in SUBSET Template /\ p \in Nat
    BY <1>2, <2>4 DEF Card
  <2> HIDE DEF id, v, p
  <2>5. c \in Card /\ c.firedAt = heap[id].firedAt /\ c.updatedAt = now
    BY <1>1, <2>4, <2>6 DEF Card
  <2> HIDE DEF c
  <2> QED
    BY <1>1, <2>2, <2>3, <2>5, CardEdited
<1>6. CASE S!Insert(a)
  <2> DEFINE card == [workload |-> w, template |-> t, topic |-> NoTopic, severity |-> "low",
                      firedAt |-> now, affectedPods |-> 1, variants |-> {},
                      state |-> "active", updatedAt |-> now]
  <2>1. card \in Card /\ card.firedAt = now /\ card.updatedAt = now
    BY <1>1 DEF Card, S!State
  <2>2. /\ heap' = [id \in DOMAIN heap \cup {k + 1} |-> IF id = k + 1 THEN card ELSE heap[id]]
        /\ all' = Append(IF Len(all) >= maxItems THEN Tail(all) ELSE all, k + 1)
        /\ byID' = (IF Len(all) >= maxItems THEN byID \ {Head(all)} ELSE byID) \cup {k + 1}
    BY <1>2, <1>6 DEF S!Insert
  <2> HIDE DEF card
  <2>3. /\ DOMAIN heap' = 1..(k + 1) /\ heap'[k + 1] = card
        /\ \A id \in DOMAIN heap : id \in DOMAIN heap' /\ heap'[id] = heap[id]
    <3>1. k + 1 \notin DOMAIN heap /\ DOMAIN heap \cup {k + 1} = 1..(k + 1)
      BY <1>3
    <3> QED
      BY <2>2, <3>1
  <2>4. IsFiniteSet(DOMAIN heap') /\ DOMAIN heap' = 1..Cardinality(DOMAIN heap')
    <3>1. k + 1 \in Nat /\ 1 \in Int
      BY <1>3
    <3>2. IsFiniteSet(1..(k + 1)) /\ Cardinality(1..(k + 1)) = k + 1
      BY <3>1, FS_Interval
    <3> QED
      BY <2>3, <3>2
  <2>5. heap' \in [DOMAIN heap' -> Card]
    BY <1>3, <2>1, <2>2
  <2>6. \A id \in DOMAIN heap' : heap'[id].firedAt <= now' /\ heap'[id].firedAt <= heap'[id].updatedAt
    BY <1>1, <1>3, <2>1, <2>2
  <2>7. all' \in Seq(DOMAIN heap')
    <3>1. all \in Seq(DOMAIN heap') /\ k + 1 \in DOMAIN heap'
      BY <1>3, <2>3
    <3>4. maxItems \in Nat \ {0} /\ Len(<<>>) = 0
      BY EngineAssumption DEF EngineAssumption
    <3>5. CASE Len(all) >= maxItems
      <4>1. all # <<>>
        BY <3>4, <3>5
      <4>2. Tail(all) \in Seq(DOMAIN heap')
        BY <3>1, <4>1
      <4> QED
        BY <2>2, <3>1, <3>5, <4>2
    <3>6. CASE ~(Len(all) >= maxItems)
      BY <2>2, <3>1, <3>6
    <3> QED
      BY <3>5, <3>6
  <2>8. byID' \subseteq DOMAIN heap' /\ CardsKept
    BY <1>3, <2>2, <2>3 DEF CardsKept
  <2> QED
    BY <2>4, <2>5, <2>6, <2>7, <2>8 DEF StoreTypes
<1> QED
  BY <1>1, <1>4, <1>5, <1>6 DEF S!Record

-----------------------------------------------------------------------------
(* What the users, the watchers and the ingest handler do while a Refresh  *)
(* is somewhere.                                                           *)
SignalsKept ==
  /\ \A n \in DOMAIN changes : n \in DOMAIN changes' /\ changes'[n] = changes[n]
  /\ \A n \in DOMAIN events : n \in DOMAIN events' /\ events'[n] = events[n]

IssuesKept ==
  /\ DOMAIN issues' = DOMAIN issues /\ issues' \in [DOMAIN issues' -> Issue]
  /\ \A id \in DOMAIN issues : issues'[id].updatedAt \in {issues[id].updatedAt, now}

Outside ==
  /\ UNCHANGED <<refresh, shown>>
  /\ SignalTypes' /\ now' >= now /\ SignalsKept
  /\ StoreTypes' /\ CardsKept
  /\ IssuesKept

LEMMA AppendKeeps ==
  ASSUME NEW T, NEW s \in Seq(T), NEW e \in T
  PROVE  /\ Append(s, e) \in Seq(T)
         /\ \A n \in DOMAIN s : n \in DOMAIN Append(s, e) /\ Append(s, e)[n] = s[n]
OBVIOUS

LEMMA OutsideSteps ==
  ASSUME EngineInv, UserActs \/ SignalArrives \/ Tick \/ UNCHANGED vars
  PROVE  Outside
<1>1. SignalTypes /\ StoreTypes /\ issues \in [DOMAIN issues -> Issue]
  BY DEF EngineInv, IssueTypes
<1>2. now \in Nat /\ changes \in Seq(Change) /\ events \in Seq(Sighting)
  BY <1>1 DEF SignalTypes
<1>3. UNCHANGED issues => IssuesKept
  BY <1>1 DEF IssuesKept
<1>4. UNCHANGED signalVars => SignalsKept
  BY DEF SignalsKept, signalVars
<1>5. UNCHANGED storeVars /\ now' \in Nat /\ now' >= now => StoreTypes' /\ CardsKept
  <2>1. SUFFICES ASSUME UNCHANGED storeVars, now' \in Nat, now' >= now PROVE StoreTypes' /\ CardsKept
    OBVIOUS
  <2>2. heap' = heap /\ all' = all /\ byID' = byID
    BY <2>1 DEF storeVars
  <2>3. \A id \in DOMAIN heap : heap[id].firedAt \in Nat /\ heap[id].firedAt <= now
    BY <1>1 DEF StoreTypes, Card
  <2>4. \A id \in DOMAIN heap : heap[id].firedAt <= now'
    BY <1>2, <2>1, <2>3
  <2> QED
    BY <1>1, <2>2, <2>4 DEF StoreTypes, CardsKept
<1>6. CASE UserActs
  <2>1. PICK state \in UserState :
          \/ \E id \in DOMAIN issues : SetState(id, state)
          \/ \E id \in byID : SetAnomalyState(id, state)
    BY <1>6 DEF UserActs
  <2>2. CASE \E id \in DOMAIN issues : SetState(id, state)
    <3>1. PICK id \in DOMAIN issues : SetState(id, state)
      BY <2>2
    <3>2. UNCHANGED <<now, signalVars, storeVars, refresh, shown>>
          /\ issues' = [issues EXCEPT ![id].state = state, ![id].updatedAt = now]
      BY <3>1 DEF SetState
    <3>3. state \in S!State
      BY EngineAssumption DEF EngineAssumption, S!State
    <3>4. issues[id] \in Issue
      BY <1>1
    <3> DEFINE i == [issues[id] EXCEPT !.state = state, !.updatedAt = now]
    <3>5. i \in Issue /\ i.updatedAt = now
      BY <1>2, <3>3, <3>4 DEF Issue
    <3>6. issues' = [issues EXCEPT ![id] = i]
      BY <3>2
    <3> HIDE DEF i
    <3>7. IssuesKept
      BY <1>1, <3>5, <3>6 DEF IssuesKept
    <3>8. SignalTypes' /\ now' = now
      BY <1>1, <3>2 DEF SignalTypes, signalVars
    <3> QED
      BY <1>2, <1>4, <1>5, <3>2, <3>7, <3>8 DEF Outside
  <2>3. CASE \E id \in byID : SetAnomalyState(id, state)
    <3>1. PICK id \in byID : SetAnomalyState(id, state)
      BY <2>3
    <3>2. S!SetState(id, state) /\ UNCHANGED <<now, signalVars, issues, refresh, shown>>
      BY <3>1 DEF SetAnomalyState
    <3>3. StoreTypes' /\ CardsKept
      BY <1>1, <3>2, AnomalySet
    <3>4. SignalTypes' /\ now' = now
      BY <1>1, <3>2 DEF SignalTypes, signalVars
    <3> QED
      BY <1>2, <1>3, <1>4, <3>2, <3>3, <3>4 DEF Outside
  <2> QED
    BY <2>1, <2>2, <2>3
<1>7. CASE SignalArrives
  <2>1. CASE \E object \in Object : ConfigChange(object)
    <3>1. PICK object \in Object : ConfigChange(object)
      BY <2>1
    <3> DEFINE c == [object |-> object, when |-> now]
    <3>2. c \in Change
      BY <1>2 DEF Change
    <3>3. changes' = Append(changes, c) /\ UNCHANGED <<now, events, storeVars, issues, refresh, shown>>
      BY <3>1 DEF ConfigChange
    <3> HIDE DEF c
    <3>4. SignalTypes' /\ SignalsKept
      BY <1>2, <3>2, <3>3, AppendKeeps DEF SignalTypes, SignalsKept
    <3> QED
      BY <1>2, <1>3, <1>5, <3>3, <3>4 DEF Outside
  <2>2. CASE \E event \in Event, when \in 0..now : onEvent(event, when)
    <3>1. PICK event \in Event, when \in 0..now : onEvent(event, when)
      BY <2>2
    <3> DEFINE e == [event |-> event, lastSeen |-> when]
    <3>2. e \in Sighting
      BY <1>2 DEF Sighting
    <3>3. events' = Append(events, e) /\ UNCHANGED <<now, changes, storeVars, issues, refresh, shown>>
      BY <3>1 DEF onEvent
    <3> HIDE DEF e
    <3>4. SignalTypes' /\ SignalsKept
      BY <1>2, <3>2, <3>3, AppendKeeps DEF SignalTypes, SignalsKept
    <3> QED
      BY <1>2, <1>3, <1>5, <3>3, <3>4 DEF Outside
  <2>3. CASE \E w \in Workload, t \in Template : RecordAnomaly(w, t)
    <3>1. PICK w \in Workload, t \in Template : RecordAnomaly(w, t)
      BY <2>3
    <3>2. UNCHANGED <<now, signalVars, issues, refresh, shown>>
      BY <3>1 DEF RecordAnomaly
    <3>3. StoreTypes' /\ CardsKept
      BY <1>1, <3>1, Recorded
    <3>4. SignalTypes' /\ now' = now
      BY <1>1, <3>2 DEF SignalTypes, signalVars
    <3> QED
      BY <1>2, <1>3, <1>4, <3>2, <3>3, <3>4 DEF Outside
  <2> QED
    BY <1>7, <2>1, <2>2, <2>3 DEF SignalArrives
<1>8. CASE Tick \/ UNCHANGED vars
  <2>1. UNCHANGED <<signalVars, storeVars, issues, refresh, shown>> /\ now' \in {now, now + 1}
    BY <1>8 DEF Tick, vars
  <2>2. now' \in Nat /\ now' >= now
    BY <1>2, <2>1
  <2>3. SignalTypes'
    BY <1>2, <2>1, <2>2 DEF SignalTypes, signalVars
  <2> QED
    BY <1>3, <1>4, <1>5, <2>1, <2>2, <2>3 DEF Outside
<1> QED
  BY <1>6, <1>7, <1>8

\* None of it disturbs what a Refresh counts on.
LEMMA OutsideKeeps ==
  ASSUME EngineInv, Outside
  PROVE  EngineInv'
<1>1. /\ refresh' = refresh /\ shown' = shown /\ DOMAIN issues' = DOMAIN issues
      /\ now \in Nat /\ now' \in Nat /\ now' >= now
      /\ SignalsKept /\ CardsKept
  BY DEF EngineInv, Outside, SignalTypes, IssuesKept
<1>2. /\ issues \in [DOMAIN issues -> Issue]
      /\ \A id \in DOMAIN issues : FiredBy(heap, id, issues[id].updatedAt)
      /\ \A id \in shown : id[1] = "log" => id[2] \in DOMAIN heap
      /\ \A id \in DOMAIN issues : issues'[id].updatedAt \in {issues[id].updatedAt, now}
      /\ \A id \in DOMAIN heap : heap[id].firedAt <= now
  BY DEF EngineInv, IssueTypes, Outside, IssuesKept, StoreTypes
<1>3. /\ refresh \in Progress /\ refresh.at <= now /\ refresh.at \in Nat
      /\ TodoKnown /\ HandSound /\ BumpSound
  BY DEF EngineInv, RefreshTypes, Progress
<1>4. \A id, t : FiredBy(heap, id, t) => FiredBy(heap', id, t)
  BY <1>1 DEF FiredBy, CardsKept
<1>5. IssueTypes'
  <2>1. ASSUME NEW id \in DOMAIN issues PROVE FiredBy(heap', id, issues'[id].updatedAt)
    <3>1. CASE issues'[id].updatedAt = issues[id].updatedAt
      BY <1>2, <1>4, <3>1
    <3>2. CASE issues'[id].updatedAt = now
      <4>1. FiredBy(heap, id, now)
        BY <1>2 DEF FiredBy
      <4> QED
        BY <1>4, <3>2, <4>1
    <3> QED
      BY <1>2, <3>1, <3>2
  <2>2. \A id \in shown' : id[1] = "log" => id[2] \in DOMAIN heap'
    BY <1>1, <1>2 DEF CardsKept
  <2> QED
    BY <1>1, <2>1, <2>2 DEF IssueTypes, Outside, IssuesKept
<1>6. RefreshTypes'
  <2>1. refresh' \in Progress /\ refresh'.at <= now'
    BY <1>1, <1>3
  <2>2. TodoKnown'
    BY <1>1, <1>3 DEF TodoKnown, SignalsKept, CardsKept
  <2>3. HandSound'
    BY <1>1, <1>3, <1>4 DEF HandSound
  <2>4. BumpSound'
    <3>1. SUFFICES ASSUME refresh.phase = "bump" PROVE BumpSound'
      BY <1>1 DEF BumpSound
    <3>2. Head(refresh.todo) \in DOMAIN events
      <4>1. refresh.todo \in Seq(Nat) /\ refresh.todo # <<>>
        BY <1>3, <3>1 DEF BumpSound, Progress
      <4>2. 1 \in DOMAIN refresh.todo /\ Head(refresh.todo) = refresh.todo[1]
        BY <4>1, TailFacts
      <4> QED
        BY <1>3, <3>1, <4>2 DEF TodoKnown
    <3>3. events'[Head(refresh.todo)] = events[Head(refresh.todo)]
      BY <1>1, <3>2 DEF SignalsKept
    <3> QED
      BY <1>1, <1>3, <3>3 DEF BumpSound, eventIssueID
  <2> QED
    BY <2>1, <2>2, <2>3, <2>4 DEF RefreshTypes
<1>7. NothingLost'
  <2>1. SUFFICES ASSUME refresh.phase # "idle", NEW id \in shown
                 PROVE  (Survives(id) \/ ToDo(id) \/ InHand(id))'
    BY <1>1 DEF NothingLost
  <2>2. Survives(id) \/ ToDo(id) \/ InHand(id)
    BY <2>1 DEF EngineInv, NothingLost
  <2>3. Survives(id) => Survives(id)'
    <3>1. now >= refresh.at - gcAge
      BY <1>1, <1>3, EngineAssumption DEF EngineAssumption
    <3> QED
      BY <1>1, <1>2, <3>1 DEF Survives
  <2>4. ToDo(id) => ToDo(id)'
    <3>1. SUFFICES ASSUME NEW i \in DOMAIN refresh.todo,
                          SignalOf(id, refresh, changes, events, refresh.todo[i])
                   PROVE  SignalOf(id, refresh, changes', events', refresh.todo[i])
      BY <1>1 DEF ToDo
    <3> QED
      BY <1>1, <1>3, <3>1 DEF SignalOf, TodoKnown, SignalsKept
  <2>5. InHand(id) => InHand(id)'
    BY <1>1 DEF InHand
  <2> QED
    BY <2>2, <2>3, <2>4, <2>5
<1>8. RefreshComplete'
  <2>1. RefreshComplete
    BY DEF EngineInv
  <2>2. \A id \in shown : id[1] = "log" => heap'[id[2]].firedAt = heap[id[2]].firedAt
    BY <1>1, <1>2 DEF CardsKept
  <2> QED
    BY <1>1, <2>1, <2>2 DEF RefreshComplete, Full
<1> QED
  BY <1>5, <1>6, <1>7, <1>8 DEF EngineInv, Outside

-----------------------------------------------------------------------------
(* The steps of a Refresh.                                                 *)
LEMMA OthersKept ==
  ASSUME EngineInv, UNCHANGED <<now, signalVars, storeVars>>
  PROVE  SignalTypes' /\ StoreTypes'
BY DEF EngineInv, SignalTypes, StoreTypes, signalVars, storeVars

LEMMA IssuesSame ==
  ASSUME EngineInv, UNCHANGED <<now, signalVars, storeVars, issues, shown>>
  PROVE  IssueTypes'
BY DEF EngineInv, IssueTypes, storeVars

LEMMA NoIssueIsNone == \A i \in Issue : i # None
<1> SUFFICES ASSUME NEW i \in Issue PROVE i # None
  OBVIOUS
<1>1. i.id \in IssueID
  BY DEF Issue
<1>2. PICK a, b, c : i.id = <<a, b, c>>
  BY <1>1 DEF IssueID
<1>3. Len(i.id) = 3 /\ Len(<<>>) = 0
  BY <1>2
<1>4. i.id # <<>>
  BY <1>3
<1> QED
  BY <1>4 DEF None

LEMMA Where ==
  ASSUME EngineInv
  PROVE  /\ refresh \in Progress /\ refresh.at \in Nat /\ refresh.at <= now
         /\ refresh.todo \in Seq(Nat) /\ refresh.phase \in Phase
         /\ refresh.hand \in Issue \cup {None}
         /\ now \in Nat /\ changes \in Seq(Change) /\ events \in Seq(Sighting)
         /\ issues \in [DOMAIN issues -> Issue]
         /\ \A id \in DOMAIN issues : issues[id].updatedAt \in Nat
BY DEF EngineInv, RefreshTypes, Progress, SignalTypes, IssueTypes, Issue

LEMMA TodoShrinks ==
  ASSUME EngineInv, refresh.todo # <<>>, refresh'.todo = Tail(refresh.todo),
         refresh'.at = refresh.at, UNCHANGED <<signalVars, storeVars>>,
         refresh'.phase = refresh.phase \/ (refresh.phase = "bump" /\ refresh'.phase = "events")
  PROVE  /\ refresh'.todo \in Seq(Nat) /\ TodoKnown'
         /\ \A id : ToDo(id) =>
              ToDo(id)' \/ SignalOf(id, refresh, changes, events, Head(refresh.todo))
<1>1. refresh.todo \in Seq(Nat) /\ TodoKnown
  BY DEF EngineInv, RefreshTypes, Progress
<1>2. /\ Tail(refresh.todo) \in Seq(Nat) /\ Head(refresh.todo) = refresh.todo[1]
      /\ \A i \in DOMAIN Tail(refresh.todo) :
           i + 1 \in DOMAIN refresh.todo /\ Tail(refresh.todo)[i] = refresh.todo[i + 1]
      /\ \A i \in DOMAIN refresh.todo :
           i = 1 \/ (i - 1 \in DOMAIN Tail(refresh.todo) /\ Tail(refresh.todo)[i - 1] = refresh.todo[i])
  BY <1>1, TailFacts
<1>3. changes' = changes /\ events' = events /\ heap' = heap
  BY DEF signalVars, storeVars
<1>4. ASSUME NEW id, NEW n, SignalOf(id, refresh, changes, events, n)
      PROVE  SignalOf(id, refresh', changes', events', n)
  BY <1>3, <1>4 DEF SignalOf
<1>5. ASSUME NEW id, ToDo(id)
      PROVE  ToDo(id)' \/ SignalOf(id, refresh, changes, events, Head(refresh.todo))
  <2>1. PICK i \in DOMAIN refresh.todo : SignalOf(id, refresh, changes, events, refresh.todo[i])
    BY <1>5 DEF ToDo
  <2>2. CASE i = 1
    BY <1>2, <2>1, <2>2
  <2>3. CASE i - 1 \in DOMAIN Tail(refresh.todo) /\ Tail(refresh.todo)[i - 1] = refresh.todo[i]
    <3>1. SignalOf(id, refresh', changes', events', refresh'.todo[i - 1])
      BY <1>4, <2>1, <2>3
    <3>2. i - 1 \in DOMAIN refresh'.todo
      BY <2>3
    <3> QED
      BY <3>1, <3>2 DEF ToDo
  <2> QED
    BY <1>2, <2>2, <2>3
<1>6. TodoKnown'
  <2>1. SUFFICES ASSUME NEW i \in DOMAIN Tail(refresh.todo)
                 PROVE  LET n == Tail(refresh.todo)[i] IN
                        /\ refresh'.phase = "config" => n \in DOMAIN changes
                        /\ refresh'.phase \in {"events", "bump"} =>
                             n \in DOMAIN events /\ events[n].lastSeen >= refresh.at - eventWindow
                        /\ refresh'.phase = "log" => n \in DOMAIN heap
    BY <1>3 DEF TodoKnown
  <2>2. i + 1 \in DOMAIN refresh.todo /\ Tail(refresh.todo)[i] = refresh.todo[i + 1]
    BY <1>2
  <2> QED
    BY <1>1, <2>2 DEF TodoKnown
<1> QED
  BY <1>2, <1>5, <1>6

\* A signal is passed over whose Issue survives, or that makes none.
LEMMA DoneStep ==
  ASSUME EngineInv, refresh.phase \in {"config", "events", "log"}, refresh.hand = None,
         refresh.todo # <<>>, Done, UNCHANGED <<now, signalVars, storeVars, issues, shown>>,
         \A id : SignalOf(id, refresh, changes, events, Head(refresh.todo)) => Survives(id)
  PROVE  EngineInv'
<1>1. /\ refresh \in Progress /\ refresh.at <= now
      /\ refresh' = [refresh EXCEPT !.todo = Tail(refresh.todo)]
  BY Where DEF Done
<1>2. /\ refresh'.todo = Tail(refresh.todo) /\ refresh'.at = refresh.at
      /\ refresh'.phase = refresh.phase /\ refresh'.hand = None
  BY <1>1 DEF Progress
<1>3. /\ refresh'.todo \in Seq(Nat) /\ TodoKnown'
      /\ \A id : ToDo(id) => ToDo(id)' \/ SignalOf(id, refresh, changes, events, Head(refresh.todo))
  BY <1>2, TodoShrinks
<1>4. refresh' \in Progress
  BY <1>1, <1>3 DEF Progress
<1>5. RefreshTypes'
  BY <1>1, <1>2, <1>3, <1>4 DEF RefreshTypes, HandSound, BumpSound
<1>6. NothingLost'
  <2>1. ASSUME NEW id \in shown PROVE Survives(id)' \/ ToDo(id)'
    <3>1. Survives(id) \/ ToDo(id)
      BY DEF EngineInv, NothingLost, InHand
    <3>2. Survives(id) => Survives(id)'
      BY <1>2 DEF Survives
    <3> QED
      BY <1>3, <3>1, <3>2
  <2> QED
    BY <2>1 DEF NothingLost
<1>7. RefreshComplete'
  BY <1>2 DEF RefreshComplete
<1> QED
  BY <1>5, <1>6, <1>7, OthersKept, IssuesSame DEF EngineInv

\* The Issue of a signal is built.
LEMMA HoldStep ==
  ASSUME EngineInv, refresh.phase \in {"config", "events", "log"}, refresh.hand = None,
         refresh.todo # <<>>, NEW issue \in Issue, Hold(issue),
         UNCHANGED <<now, signalVars, storeVars, issues, shown>>,
         \A id : SignalOf(id, refresh, changes, events, Head(refresh.todo)) => id = issue.id,
         refresh.phase = "log" <=> issue.id[1] = "log",
         refresh.phase # "log" => issue.updatedAt = refresh.at,
         refresh.phase = "log" => issue.id \notin DOMAIN issues,
         FiredBy(heap, issue.id, issue.updatedAt)
  PROVE  EngineInv'
<1>1. /\ refresh \in Progress /\ refresh.at <= now
      /\ refresh' = [refresh EXCEPT !.todo = Tail(refresh.todo), !.hand = issue]
      /\ heap' = heap /\ issues' = issues
  BY Where DEF Hold, storeVars
<1>2. /\ refresh'.todo = Tail(refresh.todo) /\ refresh'.at = refresh.at
      /\ refresh'.phase = refresh.phase /\ refresh'.hand = issue
  BY <1>1 DEF Progress
<1>3. /\ refresh'.todo \in Seq(Nat) /\ TodoKnown'
      /\ \A id : ToDo(id) => ToDo(id)' \/ SignalOf(id, refresh, changes, events, Head(refresh.todo))
  BY <1>2, TodoShrinks
<1>4. refresh' \in Progress
  BY <1>1, <1>3 DEF Progress
<1>5. RefreshTypes'
  <2>1. HandSound'
    BY <1>1, <1>2 DEF HandSound
  <2> QED
    BY <1>1, <1>2, <1>3, <1>4, <2>1 DEF RefreshTypes, BumpSound
<1>6. NothingLost'
  <2>1. ASSUME NEW id \in shown PROVE Survives(id)' \/ ToDo(id)' \/ InHand(id)'
    <3>1. Survives(id) \/ ToDo(id)
      BY DEF EngineInv, NothingLost, InHand
    <3>2. Survives(id) => Survives(id)'
      BY <1>1, <1>2 DEF Survives
    <3>3. id = issue.id => InHand(id)'
      BY <1>2, NoIssueIsNone DEF InHand
    <3> QED
      BY <1>3, <3>1, <3>2, <3>3
  <2> QED
    BY <2>1 DEF NothingLost
<1>7. RefreshComplete'
  BY <1>2 DEF RefreshComplete
<1> QED
  BY <1>5, <1>6, <1>7, OthersKept, IssuesSame DEF EngineInv

\* The known Issue of a signal is recent enough to survive.
LEMMA DedupedSurvives ==
  ASSUME EngineInv, NEW id, Deduped(id)
  PROVE  Survives(id)
<1>1. refresh.at \in Nat /\ issues[id].updatedAt \in Nat
  BY Where DEF Deduped
<1> QED
  BY <1>1, EngineAssumption DEF Deduped, Survives, EngineAssumption

\* The signal at the head of the list.
LEMMA SignalKnown ==
  ASSUME EngineInv, refresh.todo # <<>>
  PROVE  /\ Signal \in Nat
         /\ refresh.phase = "config" =>
              /\ Signal \in DOMAIN changes /\ changes[Signal] \in Change
              /\ configIssueID(Signal) \in {"cfg"} \X Object \X Nat
         /\ refresh.phase \in {"events", "bump"} =>
              /\ Signal \in DOMAIN events /\ events[Signal] \in Sighting
              /\ events[Signal].lastSeen >= refresh.at - eventWindow
              /\ eventIssueID(Signal) \in {"evt"} \X Event \X Nat
         /\ refresh.phase = "log" =>
              /\ Signal \in DOMAIN heap /\ heap[Signal] \in Card
              /\ logIssueID(Signal) \in {"log"} \X Nat \X {0}
              /\ heap[Signal].firedAt <= heap[Signal].updatedAt
<1>1. /\ refresh.todo \in Seq(Nat) /\ TodoKnown
      /\ changes \in Seq(Change) /\ events \in Seq(Sighting)
  BY Where DEF EngineInv, RefreshTypes
<1>2. 1 \in DOMAIN refresh.todo /\ Signal = refresh.todo[1] /\ Signal \in Nat
  BY <1>1, TailFacts DEF Signal
<1>3. CASE refresh.phase = "config"
  <2>1. Signal \in DOMAIN changes
    BY <1>1, <1>2, <1>3 DEF TodoKnown
  <2>2. changes[Signal] \in Change
    BY <1>1, <2>1
  <2> QED
    BY <1>2, <1>3, <2>1, <2>2 DEF configIssueID, Change
<1>4. CASE refresh.phase \in {"events", "bump"}
  <2>1. Signal \in DOMAIN events /\ events[Signal].lastSeen >= refresh.at - eventWindow
    BY <1>1, <1>2, <1>4 DEF TodoKnown
  <2>2. events[Signal] \in Sighting
    BY <1>1, <2>1
  <2>3. events[Signal].lastSeen \in Nat /\ events[Signal].event \in Event
    BY <2>2 DEF Sighting
  <2>4. (events[Signal].lastSeen \div Minute) % Day \in Nat
    <3>1. Minute \in Nat \ {0} /\ Day \in Nat \ {0}
      BY EngineAssumption DEF EngineAssumption
    <3>2. events[Signal].lastSeen \div Minute \in Int
      BY <2>3, <3>1
    <3> QED
      BY <3>1, <3>2
  <2> QED
    BY <1>2, <1>4, <2>1, <2>2, <2>3, <2>4 DEF eventIssueID
<1>5. CASE refresh.phase = "log"
  <2>1. Signal \in DOMAIN heap
    BY <1>1, <1>2, <1>5 DEF TodoKnown
  <2>2. heap \in [DOMAIN heap -> Card] /\ heap[Signal].firedAt <= heap[Signal].updatedAt
    BY <2>1 DEF EngineInv, StoreTypes
  <2> QED
    BY <1>2, <1>5, <2>1, <2>2 DEF logIssueID
<1> QED
  BY <1>2, <1>3, <1>4, <1>5

LEMMA StartKeeps ==
  ASSUME EngineInv, Start
  PROVE  EngineInv'
<1>1. /\ refresh' = [phase |-> "config", at |-> now, todo |-> RecentChanges, hand |-> None]
      /\ shown' = {configIssueID(n) : n \in Range(RecentChanges)}
      /\ UNCHANGED <<now, signalVars, storeVars, issues>>
  BY DEF Start
<1>2. /\ refresh'.phase = "config" /\ refresh'.at = now /\ refresh'.todo = RecentChanges
      /\ refresh'.hand = None
  BY <1>1
<1>3. RecentChanges \in Seq(DOMAIN changes) /\ changes' = changes /\ changes \in Seq(Change)
      /\ heap' = heap /\ now' = now /\ now \in Nat
  BY <1>1, RecentChangesFacts, Where DEF EngineInv, signalVars, storeVars
<1>4. /\ \A i \in DOMAIN RecentChanges : RecentChanges[i] \in DOMAIN changes
      /\ RecentChanges \in Seq(Nat)
  <2>1. DOMAIN changes \subseteq Nat
    BY <1>3
  <2> QED
    BY <1>3, <2>1
<1>5. refresh' \in Progress
  BY <1>1, <1>3, <1>4 DEF Progress, Phase
<1>6. RefreshTypes'
  BY <1>2, <1>3, <1>4, <1>5 DEF RefreshTypes, TodoKnown, HandSound, BumpSound
<1>7. IssueTypes'
  <2>1. \A id \in shown' : id[1] = "cfg"
    BY <1>1 DEF configIssueID
  <2>2. \A id \in shown' : id[1] = "log" => id[2] \in DOMAIN heap'
    BY <2>1
  <2>3. issues' = issues
    BY <1>1
  <2> QED
    BY <1>3, <2>2, <2>3 DEF EngineInv, IssueTypes
<1>8. NothingLost'
  <2>1. ASSUME NEW id \in shown' PROVE ToDo(id)'
    <3>1. PICK i \in DOMAIN RecentChanges : id = configIssueID(RecentChanges[i])
      BY <1>1 DEF Range
    <3>2. SignalOf(id, refresh', changes', events', refresh'.todo[i])
      BY <1>2, <1>3, <3>1 DEF SignalOf, configIssueID
    <3> QED
      BY <1>2, <3>2 DEF ToDo
  <2> QED
    BY <2>1 DEF NothingLost
<1>9. RefreshComplete'
  BY <1>2 DEF RefreshComplete
<1> QED
  BY <1>1, <1>6, <1>7, <1>8, <1>9, OthersKept DEF EngineInv

LEMMA CheckConfigKeeps ==
  ASSUME EngineInv, CheckConfig
  PROVE  EngineInv'
<1>1. /\ refresh.phase = "config" /\ refresh.hand = None /\ refresh.todo # <<>>
      /\ UNCHANGED <<now, signalVars, storeVars, issues, shown>>
  BY DEF CheckConfig, InPhase
<1>2. \A id : SignalOf(id, refresh, changes, events, Head(refresh.todo)) => id = configIssueID(Signal)
  BY <1>1 DEF SignalOf, configIssueID, Signal
<1>3. CASE Deduped(configIssueID(Signal))
  <2>1. Done
    BY <1>3 DEF CheckConfig
  <2> QED
    BY <1>1, <1>2, <1>3, <2>1, DedupedSurvives, DoneStep
<1>4. CASE ~Deduped(configIssueID(Signal))
  <2> DEFINE issue == buildConfigIssue(Signal)
  <2>1. Hold(issue)
    BY <1>4 DEF CheckConfig
  <2>2. /\ Signal \in Nat /\ changes[Signal] \in Change
        /\ configIssueID(Signal) \in {"cfg"} \X Object \X Nat /\ refresh.at \in Nat
    BY <1>1, SignalKnown, Where
  <2>3. configIssueID(Signal)[1] = "cfg" /\ configIssueID(Signal) \in IssueID
    BY <2>2 DEF IssueID
  <2>4. issue.id = configIssueID(Signal) /\ issue.updatedAt = refresh.at
    BY DEF buildConfigIssue
  <2>5. issue \in Issue
    BY <2>2, <2>3 DEF buildConfigIssue, Issue, Change, S!State
  <2> HIDE DEF issue
  <2>6. issue.id[1] = "cfg" /\ FiredBy(heap, issue.id, issue.updatedAt)
    BY <2>3, <2>4 DEF FiredBy
  <2> QED
    BY <1>1, <1>2, <2>1, <2>4, <2>5, <2>6, HoldStep
<1> QED
  BY <1>3, <1>4

LEMMA CheckEventKeeps ==
  ASSUME EngineInv, CheckEvent
  PROVE  EngineInv'
<1>1. /\ refresh.phase = "events" /\ refresh.hand = None /\ refresh.todo # <<>>
      /\ UNCHANGED <<now, signalVars, storeVars, issues, shown>>
  BY DEF CheckEvent, InPhase
<1>2. \A id : SignalOf(id, refresh, changes, events, Head(refresh.todo)) =>
                events[Signal].event \in IssueEvent /\ id = eventIssueID(Signal)
  BY <1>1 DEF SignalOf, eventIssueID, Signal
<1>3. CASE events[Signal].event \notin IssueEvent
  <2>1. Done
    BY <1>3 DEF CheckEvent
  <2> QED
    BY <1>1, <1>2, <1>3, <2>1, DoneStep
<1>4. CASE events[Signal].event \in IssueEvent /\ Deduped(eventIssueID(Signal))
  <2>1. refresh' = [refresh EXCEPT !.phase = "bump"]
    BY <1>4 DEF CheckEvent
  <2>2. refresh \in Progress /\ refresh.at <= now /\ TodoKnown
    BY Where DEF EngineInv, RefreshTypes
  <2>3. /\ refresh'.phase = "bump" /\ refresh'.at = refresh.at /\ refresh'.todo = refresh.todo
        /\ refresh'.hand = None /\ refresh' \in Progress
    BY <1>1, <2>1, <2>2 DEF Progress, Phase
  <2>4. events' = events /\ changes' = changes /\ heap' = heap /\ issues' = issues /\ shown' = shown
        /\ now' = now
    BY <1>1 DEF signalVars, storeVars
  <2>5. TodoKnown' /\ HandSound'
    BY <1>1, <2>2, <2>3, <2>4 DEF TodoKnown, HandSound
  <2>6. BumpSound'
    BY <1>1, <1>4, <2>3, <2>4 DEF BumpSound, Deduped, eventIssueID, Signal
  <2>7. NothingLost'
    <3>1. ASSUME NEW id \in shown PROVE Survives(id)' \/ ToDo(id)'
      <4>1. Survives(id) \/ ToDo(id)
        BY <1>1 DEF EngineInv, NothingLost, InHand
      <4>2. Survives(id) => Survives(id)'
        BY <2>3, <2>4 DEF Survives
      <4>3. \A n : SignalOf(id, refresh, changes, events, n) => SignalOf(id, refresh', changes', events', n)
        BY <1>1, <2>3, <2>4 DEF SignalOf
      <4>4. ToDo(id) => ToDo(id)'
        BY <2>3, <4>3 DEF ToDo
      <4> QED
        BY <4>1, <4>2, <4>4
    <3> QED
      BY <2>4, <3>1 DEF NothingLost
  <2>8. RefreshComplete'
    BY <2>3 DEF RefreshComplete
  <2> QED
    BY <1>1, <2>2, <2>3, <2>4, <2>5, <2>6, <2>7, <2>8, OthersKept, IssuesSame DEF EngineInv, RefreshTypes
<1>5. CASE events[Signal].event \in IssueEvent /\ ~Deduped(eventIssueID(Signal))
  <2> DEFINE issue == buildEventIssue(Signal)
  <2>1. Hold(issue)
    BY <1>5 DEF CheckEvent
  <2>2. /\ Signal \in Nat /\ events[Signal] \in Sighting
        /\ eventIssueID(Signal) \in {"evt"} \X Event \X Nat /\ refresh.at \in Nat
    BY <1>1, SignalKnown, Where
  <2>3. eventIssueID(Signal)[1] = "evt" /\ eventIssueID(Signal) \in IssueID
    BY <2>2 DEF IssueID
  <2>4. issue.id = eventIssueID(Signal) /\ issue.updatedAt = refresh.at
    BY DEF buildEventIssue
  <2>5. issue \in Issue
    BY <2>2, <2>3 DEF buildEventIssue, Issue, Sighting, S!State
  <2> HIDE DEF issue
  <2>6. issue.id[1] = "evt" /\ FiredBy(heap, issue.id, issue.updatedAt)
    BY <2>3, <2>4 DEF FiredBy
  <2> QED
    BY <1>1, <1>2, <2>1, <2>4, <2>5, <2>6, HoldStep
<1> QED
  BY <1>3, <1>4, <1>5

LEMMA CheckAnomalyKeeps ==
  ASSUME EngineInv, CheckAnomaly
  PROVE  EngineInv'
<1>1. /\ refresh.phase = "log" /\ refresh.hand = None /\ refresh.todo # <<>>
      /\ UNCHANGED <<now, signalVars, storeVars, issues, shown>>
  BY DEF CheckAnomaly, InPhase
<1>2. \A id : SignalOf(id, refresh, changes, events, Head(refresh.todo)) => id = logIssueID(Signal)
  BY <1>1 DEF SignalOf, Signal
<1>3. /\ Signal \in Nat /\ Signal \in DOMAIN heap /\ heap[Signal] \in Card
      /\ logIssueID(Signal) \in {"log"} \X Nat \X {0}
      /\ heap[Signal].firedAt <= heap[Signal].updatedAt
  BY <1>1, SignalKnown
<1>4. logIssueID(Signal)[1] = "log" /\ logIssueID(Signal)[2] = Signal /\ logIssueID(Signal) \in IssueID
  BY <1>3 DEF logIssueID, IssueID
<1>5. CASE logIssueID(Signal) \in DOMAIN issues
  <2>1. Done
    BY <1>5 DEF CheckAnomaly
  <2>2. Survives(logIssueID(Signal))
    BY <1>4, <1>5 DEF Survives
  <2> QED
    BY <1>1, <1>2, <2>1, <2>2, DoneStep
<1>6. CASE logIssueID(Signal) \notin DOMAIN issues
  <2> DEFINE issue == logAnomalyToIssue(Signal)
  <2>1. Hold(issue)
    BY <1>6 DEF CheckAnomaly
  <2>2. issue.id = logIssueID(Signal) /\ issue.updatedAt = heap[Signal].updatedAt
    BY DEF logAnomalyToIssue
  <2>3. issue \in Issue
    BY <1>3, <1>4 DEF logAnomalyToIssue, Issue, Card
  <2> HIDE DEF issue
  <2>4. FiredBy(heap, issue.id, issue.updatedAt) /\ issue.id[1] = "log"
    BY <1>3, <1>4, <2>2 DEF FiredBy
  <2> QED
    BY <1>1, <1>2, <1>6, <2>1, <2>2, <2>3, <2>4, HoldStep
<1> QED
  BY <1>5, <1>6

\* When a list is done, everything read so far is safe.
LEMMA ListDone ==
  ASSUME EngineInv, refresh.phase # "idle", refresh.hand = None, refresh.todo = <<>>
  PROVE  \A id \in shown : Survives(id)
<1>1. \A id : ~ToDo(id) /\ ~InHand(id)
  BY DEF ToDo, InHand
<1> QED
  BY <1>1 DEF EngineInv, NothingLost

LEMMA ReadEventsKeeps ==
  ASSUME EngineInv, ReadEvents
  PROVE  EngineInv'
<1> DEFINE recent == Recent(refresh.at - eventWindow)
           new == {eventIssueID(n) : n \in {m \in Range(recent) : events[m].event \in IssueEvent}}
<1>1. /\ refresh.phase = "config" /\ refresh.hand = None /\ refresh.todo = <<>>
      /\ refresh' = [refresh EXCEPT !.phase = "events", !.todo = recent]
      /\ shown' = shown \cup new
      /\ UNCHANGED <<now, signalVars, storeVars, issues>>
  BY DEF ReadEvents, InPhase, Enter
<1>2. /\ refresh \in Progress /\ refresh.at \in Nat /\ refresh.at <= now
      /\ events \in Seq(Sighting) /\ SignalTypes
  BY Where DEF EngineInv
<1>3. refresh.at - eventWindow \in Int
  BY <1>2, EngineAssumption DEF EngineAssumption
<1>4. /\ recent \in Seq(DOMAIN events)
      /\ \A i \in DOMAIN recent : events[recent[i]].lastSeen >= refresh.at - eventWindow
  BY <1>2, <1>3, RecentFacts
<1>5. \A id \in new : \E i \in DOMAIN recent :
        events[recent[i]].event \in IssueEvent /\ id = eventIssueID(recent[i])
  BY DEF Range
<1>6. \A id \in new : id[1] = "evt"
  BY DEF eventIssueID
<1> HIDE DEF recent, new
<1>7. recent \in Seq(Nat) /\ \A i \in DOMAIN recent : recent[i] \in DOMAIN events
  <2>1. DOMAIN events \subseteq Nat
    BY <1>2
  <2> QED
    BY <1>4, <2>1
<1>8. /\ refresh'.phase = "events" /\ refresh'.at = refresh.at /\ refresh'.todo = recent
      /\ refresh'.hand = None /\ refresh' \in Progress
  BY <1>1, <1>2, <1>7 DEF Progress, Phase
<1>9. /\ changes' = changes /\ events' = events /\ heap' = heap /\ issues' = issues /\ now' = now
  BY <1>1 DEF signalVars, storeVars
<1>10. RefreshTypes'
  BY <1>2, <1>4, <1>7, <1>8, <1>9 DEF RefreshTypes, TodoKnown, HandSound, BumpSound
<1>11. IssueTypes'
  <2>1. \A id \in shown' : id[1] = "log" => id[2] \in DOMAIN heap'
    BY <1>1, <1>6, <1>9 DEF EngineInv, IssueTypes
  <2> QED
    BY <1>9, <2>1 DEF EngineInv, IssueTypes
<1>12. NothingLost'
  <2>1. ASSUME NEW id \in shown PROVE Survives(id)'
    BY <1>1, <1>8, <1>9, ListDone DEF Survives
  <2>2. ASSUME NEW id \in new PROVE ToDo(id)'
    <3>1. PICK i \in DOMAIN recent : events[recent[i]].event \in IssueEvent /\ id = eventIssueID(recent[i])
      BY <1>5
    <3>2. SignalOf(id, refresh', changes', events', refresh'.todo[i])
      BY <1>8, <1>9, <3>1 DEF SignalOf, eventIssueID
    <3> QED
      BY <1>8, <3>2 DEF ToDo
  <2> QED
    BY <1>1, <2>1, <2>2 DEF NothingLost
<1>13. RefreshComplete'
  BY <1>8 DEF RefreshComplete
<1> QED
  BY <1>1, <1>10, <1>11, <1>12, <1>13, OthersKept DEF EngineInv

LEMMA ReadAnomaliesKeeps ==
  ASSUME EngineInv, ReadAnomalies
  PROVE  EngineInv'
<1> DEFINE new == {logIssueID(id) : id \in Range(S!All)}
<1>1. /\ refresh.phase = "events" /\ refresh.hand = None /\ refresh.todo = <<>>
      /\ refresh' = [refresh EXCEPT !.phase = "log", !.todo = S!All]
      /\ shown' = shown \cup new
      /\ UNCHANGED <<now, signalVars, storeVars, issues>>
  BY DEF ReadAnomalies, InPhase, Enter
<1>2. refresh \in Progress /\ refresh.at \in Nat /\ refresh.at <= now
  BY Where
<1>3. S!All \in Seq(DOMAIN heap) /\ DOMAIN heap \subseteq Nat
  <2>1. StoreTypes /\ DOMAIN heap = 1..Cardinality(DOMAIN heap)
    BY DEF EngineInv, StoreTypes
  <2>2. \A m : 1..m \subseteq Nat
    OBVIOUS
  <2> QED
    BY <2>1, <2>2, AllFacts
<1>4. S!All \in Seq(Nat) /\ \A i \in DOMAIN S!All : S!All[i] \in DOMAIN heap
  BY <1>3
<1>5. \A id \in new : \E i \in DOMAIN S!All : id = logIssueID(S!All[i])
  BY DEF Range
<1> HIDE DEF new
<1>6. \A id \in new : id[2] \in DOMAIN heap
  BY <1>4, <1>5 DEF logIssueID
<1>7. /\ refresh'.phase = "log" /\ refresh'.at = refresh.at /\ refresh'.todo = S!All
      /\ refresh'.hand = None /\ refresh' \in Progress
  BY <1>1, <1>2, <1>4 DEF Progress, Phase
<1>8. /\ changes' = changes /\ events' = events /\ heap' = heap /\ issues' = issues /\ now' = now
  BY <1>1 DEF signalVars, storeVars
<1>9. RefreshTypes'
  BY <1>2, <1>4, <1>7, <1>8 DEF RefreshTypes, TodoKnown, HandSound, BumpSound
<1>10. IssueTypes'
  <2>1. \A id \in shown' : id[1] = "log" => id[2] \in DOMAIN heap'
    BY <1>1, <1>6, <1>8 DEF EngineInv, IssueTypes
  <2> QED
    BY <1>8, <2>1 DEF EngineInv, IssueTypes
<1>11. NothingLost'
  <2>1. ASSUME NEW id \in shown PROVE Survives(id)'
    BY <1>1, <1>7, <1>8, ListDone DEF Survives
  <2>2. ASSUME NEW id \in new PROVE ToDo(id)'
    <3>1. PICK i \in DOMAIN S!All : id = logIssueID(S!All[i])
      BY <1>5
    <3>2. SignalOf(id, refresh', changes', events', refresh'.todo[i])
      BY <1>7, <1>8, <3>1 DEF SignalOf
    <3> QED
      BY <1>7, <3>2 DEF ToDo
  <2> QED
    BY <1>1, <2>1, <2>2 DEF NothingLost
<1>12. RefreshComplete'
  BY <1>7 DEF RefreshComplete
<1> QED
  BY <1>1, <1>9, <1>10, <1>11, <1>12, OthersKept DEF EngineInv

LEMMA BumpEventKeeps ==
  ASSUME EngineInv, BumpEvent
  PROVE  EngineInv'
<1>0. PICK k, seen : k = eventIssueID(Signal) /\ seen = events[Signal].lastSeen
  OBVIOUS
<1> DEFINE bumped == [issues[k] EXCEPT !.updatedAt = seen]
<1>1. /\ refresh.phase = "bump" /\ refresh.hand = None /\ refresh.todo # <<>>
      /\ k \in DOMAIN issues
      /\ issues' = [issues EXCEPT ![k] = bumped]
      /\ refresh' = [refresh EXCEPT !.phase = "events", !.todo = Tail(refresh.todo)]
      /\ UNCHANGED <<now, signalVars, storeVars, shown>>
  <2>1. BumpSound /\ refresh.phase = "bump" /\ refresh.hand = None
    BY DEF EngineInv, RefreshTypes, BumpEvent, InPhase
  <2>2. issues' = [issues EXCEPT ![k].updatedAt = seen]
    BY <1>0 DEF BumpEvent
  <2> QED
    BY <1>0, <2>1, <2>2 DEF BumpSound, BumpEvent, Enter, Signal
<1>2. /\ refresh \in Progress /\ refresh.at <= now /\ issues \in [DOMAIN issues -> Issue]
      /\ \A id \in DOMAIN issues : FiredBy(heap, id, issues[id].updatedAt)
      /\ \A id \in shown : id[1] = "log" => id[2] \in DOMAIN heap
      /\ refresh.at \in Nat
  BY Where DEF EngineInv, IssueTypes
<1>3. /\ events[Signal] \in Sighting /\ seen >= refresh.at - eventWindow
      /\ k \in {"evt"} \X Event \X Nat
  BY <1>0, <1>1, SignalKnown
<1>4. seen \in Nat /\ seen >= refresh.at - gcAge /\ k[1] = "evt"
  <2>1. seen \in Nat
    BY <1>0, <1>3 DEF Sighting
  <2>2. eventWindow \in Nat /\ gcAge \in Nat /\ eventWindow <= gcAge
    BY EngineAssumption DEF EngineAssumption
  <2>3. k[1] = "evt"
    BY <1>3
  <2> QED
    BY <1>2, <1>3, <2>1, <2>2, <2>3
<1>5. \A id : SignalOf(id, refresh, changes, events, Head(refresh.todo)) => id = k
  BY <1>0, <1>1 DEF SignalOf, eventIssueID, Signal
<1>6. bumped \in Issue /\ bumped.updatedAt = seen
  BY <1>1, <1>2, <1>4 DEF Issue
<1> HIDE DEF bumped
<1>7. /\ refresh'.phase = "events" /\ refresh'.at = refresh.at /\ refresh'.todo = Tail(refresh.todo)
      /\ refresh'.hand = None
  BY <1>1, <1>2 DEF Progress
<1>8. /\ changes' = changes /\ events' = events /\ heap' = heap /\ shown' = shown /\ now' = now
  BY <1>1 DEF signalVars, storeVars
<1>9. /\ refresh'.todo \in Seq(Nat) /\ TodoKnown'
      /\ \A id : ToDo(id) => ToDo(id)' \/ SignalOf(id, refresh, changes, events, Head(refresh.todo))
  BY <1>1, <1>7, TodoShrinks
<1>10. refresh' \in Progress
  BY <1>1, <1>2, <1>9 DEF Progress, Phase
<1>11. RefreshTypes'
  BY <1>2, <1>7, <1>8, <1>9, <1>10 DEF RefreshTypes, HandSound, BumpSound
<1>12. DOMAIN issues' = DOMAIN issues /\ issues'[k] = bumped
       /\ \A id \in DOMAIN issues \ {k} : issues'[id] = issues[id]
  BY <1>1, <1>2
<1>13. IssueTypes'
  <2>1. issues' \in [DOMAIN issues' -> Issue]
    BY <1>1, <1>2, <1>6
  <2>2. ASSUME NEW id \in DOMAIN issues' PROVE FiredBy(heap', id, issues'[id].updatedAt)
    BY <1>2, <1>4, <1>8, <1>12 DEF FiredBy
  <2> QED
    BY <1>2, <1>8, <2>1, <2>2 DEF IssueTypes
<1>14. NothingLost'
  <2>1. ASSUME NEW id \in shown PROVE Survives(id)' \/ ToDo(id)'
    <3>1. Survives(id) \/ ToDo(id)
      BY <1>1 DEF EngineInv, NothingLost, InHand
    <3>2. Survives(k)'
      BY <1>1, <1>4, <1>6, <1>7, <1>12 DEF Survives
    <3>3. id # k /\ Survives(id) => Survives(id)'
      BY <1>7, <1>12 DEF Survives
    <3> QED
      BY <1>5, <1>9, <3>1, <3>2, <3>3
  <2> QED
    BY <1>8, <2>1 DEF NothingLost
<1>15. RefreshComplete'
  BY <1>7 DEF RefreshComplete
<1> QED
  BY <1>1, <1>11, <1>13, <1>14, <1>15, OthersKept DEF EngineInv

LEMMA PutKeeps ==
  ASSUME EngineInv, put
  PROVE  EngineInv'
<1>0. PICK issue : issue = refresh.hand
  OBVIOUS
<1>1. /\ issue # None
      /\ issues' = Put(issues, issue.id, issue)
      /\ refresh' = [refresh EXCEPT !.hand = None]
      /\ UNCHANGED <<now, signalVars, storeVars, shown>>
  BY <1>0 DEF put
<1>2. /\ refresh \in Progress /\ refresh.at <= now /\ refresh.at \in Nat
      /\ issue \in Issue /\ issues \in [DOMAIN issues -> Issue]
      /\ TodoKnown
  BY <1>0, <1>1, Where DEF EngineInv, RefreshTypes
<1>3. /\ refresh.phase \in {"config", "events", "log"}
      /\ refresh.phase = "log" <=> issue.id[1] = "log"
      /\ refresh.phase # "log" => issue.updatedAt = refresh.at
      /\ FiredBy(heap, issue.id, issue.updatedAt)
  BY <1>0, <1>1 DEF EngineInv, RefreshTypes, HandSound
<1>4. /\ refresh'.phase = refresh.phase /\ refresh'.at = refresh.at /\ refresh'.todo = refresh.todo
      /\ refresh'.hand = None /\ refresh' \in Progress
  BY <1>1, <1>2 DEF Progress
<1>5. /\ changes' = changes /\ events' = events /\ heap' = heap /\ shown' = shown /\ now' = now
  BY <1>1 DEF signalVars, storeVars
<1>6. /\ DOMAIN issues' = DOMAIN issues \cup {issue.id} /\ issues'[issue.id] = issue
      /\ \A id \in DOMAIN issues \ {issue.id} : issues'[id] = issues[id]
      /\ issues' \in [DOMAIN issues' -> Issue]
  BY <1>1, <1>2 DEF Put
<1>7. RefreshTypes'
  BY <1>2, <1>3, <1>4, <1>5 DEF RefreshTypes, TodoKnown, HandSound, BumpSound
<1>8. IssueTypes'
  BY <1>3, <1>5, <1>6 DEF EngineInv, IssueTypes
<1>9. NothingLost'
  <2>1. ASSUME NEW id \in shown PROVE Survives(id)' \/ ToDo(id)'
    <3>1. Survives(id) \/ ToDo(id) \/ id = issue.id
      BY <1>0, <1>3 DEF EngineInv, NothingLost, InHand
    <3>2. Survives(issue.id)'
      <4>1. gcAge \in Nat
        BY EngineAssumption DEF EngineAssumption
      <4>2. refresh.at >= refresh.at - gcAge
        BY <1>2, <4>1
      <4> QED
        BY <1>3, <1>4, <1>6, <4>2 DEF Survives
    <3>3. id # issue.id /\ Survives(id) => Survives(id)'
      BY <1>4, <1>6 DEF Survives
    <3>4. \A n : SignalOf(id, refresh, changes, events, n) => SignalOf(id, refresh', changes', events', n)
      BY <1>4, <1>5 DEF SignalOf
    <3>5. ToDo(id) => ToDo(id)'
      BY <1>4, <3>4 DEF ToDo
    <3> QED
      BY <3>1, <3>2, <3>3, <3>5
  <2> QED
    BY <1>5, <2>1 DEF NothingLost
<1>10. RefreshComplete'
  BY <1>3, <1>4 DEF RefreshComplete
<1> QED
  BY <1>1, <1>7, <1>8, <1>9, <1>10, OthersKept DEF EngineInv

LEMMA GCKeeps ==
  ASSUME EngineInv, GC
  PROVE  EngineInv'
<1>1. PICK kept \in Kept : issues' = [id \in kept |-> issues[id]]
  BY DEF GC
<1>2. /\ refresh.phase = "log" /\ refresh.hand = None /\ refresh.todo = <<>>
      /\ refresh' = Idle(refresh.at)
      /\ UNCHANGED <<now, signalVars, storeVars, shown>>
  BY DEF GC, InPhase
<1>3. /\ refresh.at <= now /\ refresh.at \in Nat
      /\ issues \in [DOMAIN issues -> Issue]
      /\ \A id \in DOMAIN issues : FiredBy(heap, id, issues[id].updatedAt) /\ issues[id].updatedAt \in Nat
      /\ \A id \in shown : id[1] = "log" => id[2] \in DOMAIN heap
      /\ \A id \in DOMAIN heap : heap[id].firedAt \in Nat
  BY Where DEF EngineInv, IssueTypes, StoreTypes, Card
<1>4. kept \subseteq Young /\ (kept = Young \/ Cardinality(kept) = maxIssues)
  BY <1>1 DEF Kept
<1>5. /\ DOMAIN issues' = kept /\ kept \subseteq DOMAIN issues
      /\ \A id \in kept : issues'[id] = issues[id]
      /\ issues' \in [DOMAIN issues' -> Issue]
  BY <1>1, <1>3, <1>4 DEF Young
<1>6. /\ changes' = changes /\ events' = events /\ heap' = heap /\ shown' = shown /\ now' = now
  BY <1>2 DEF signalVars, storeVars
<1>7. /\ refresh'.phase = "idle" /\ refresh'.at = refresh.at /\ refresh'.todo = <<>>
      /\ refresh'.hand = None /\ refresh' \in Progress
  BY <1>2, <1>3 DEF Idle, Progress, Phase
<1>8. RefreshTypes'
  BY <1>3, <1>6, <1>7 DEF RefreshTypes, TodoKnown, HandSound, BumpSound
<1>9. IssueTypes'
  BY <1>3, <1>5, <1>6 DEF IssueTypes
<1>10. NothingLost'
  BY <1>7 DEF NothingLost
<1>11. RefreshComplete'
  <2>1. SUFFICES ASSUME NEW id \in shown, id \notin kept
                 PROVE  \/ Cardinality(kept) = maxIssues
                        \/ id[1] = "log" /\ heap[id[2]].firedAt < refresh.at - gcAge
    BY <1>5, <1>6, <1>7 DEF RefreshComplete, Full
  <2>2. SUFFICES ASSUME kept = Young
                 PROVE  id[1] = "log" /\ heap[id[2]].firedAt < refresh.at - gcAge
    BY <1>4
  <2>3. Survives(id)
    BY <1>2, ListDone
  <2>4. id \in DOMAIN issues /\ ~(issues[id].updatedAt >= refresh.at - gcAge)
    BY <2>1, <2>2, <2>3 DEF Survives, Young
  <2>5. id[1] = "log"
    BY <2>3, <2>4 DEF Survives
  <2>6. /\ heap[id[2]].firedAt <= issues[id].updatedAt /\ heap[id[2]].firedAt \in Nat
        /\ issues[id].updatedAt \in Nat /\ refresh.at - gcAge \in Int
    BY <1>3, <2>4, <2>5, EngineAssumption DEF FiredBy, EngineAssumption
  <2> QED
    BY <2>4, <2>5, <2>6
<1> QED
  BY <1>2, <1>8, <1>9, <1>10, <1>11, OthersKept DEF EngineInv

-----------------------------------------------------------------------------
LEMMA EngineInitially == Init => EngineInv
<1> SUFFICES ASSUME Init PROVE EngineInv
  OBVIOUS
<1>1. /\ now = 0 /\ changes = <<>> /\ events = <<>> /\ DOMAIN heap = {} /\ all = <<>> /\ byID = {}
      /\ DOMAIN issues = {} /\ shown = {}
      /\ refresh = [phase |-> "idle", at |-> 0, todo |-> <<>>, hand |-> None]
      /\ heap = [x \in {} |-> 0] /\ issues = [x \in {} |-> 0]
  BY DEF Init, Idle
<1>2. SignalTypes /\ NothingLost /\ RefreshComplete /\ IssueTypes
  BY <1>1 DEF SignalTypes, NothingLost, RefreshComplete, IssueTypes
<1>3. StoreTypes
  <2>1. IsFiniteSet(DOMAIN heap) /\ DOMAIN heap = 1..Cardinality(DOMAIN heap)
    BY <1>1, FS_EmptySet
  <2> QED
    BY <1>1, <2>1 DEF StoreTypes
<1>4. RefreshTypes
  BY <1>1 DEF RefreshTypes, Progress, Phase, TodoKnown, HandSound, BumpSound
<1> QED
  BY <1>2, <1>3, <1>4 DEF EngineInv

LEMMA EngineAlways == Spec => []EngineInv
<1>1. EngineInv /\ [Next]_vars => EngineInv'
  <2> SUFFICES ASSUME EngineInv, [Next]_vars PROVE EngineInv'
    OBVIOUS
  <2>1. CASE Refresh
    BY <2>1, StartKeeps, CheckConfigKeeps, ReadEventsKeeps, CheckEventKeeps, BumpEventKeeps,
       ReadAnomaliesKeeps, CheckAnomalyKeeps, PutKeeps, GCKeeps DEF Refresh
  <2>2. CASE UserActs \/ SignalArrives \/ Tick \/ UNCHANGED vars
    BY <2>2, OutsideSteps, OutsideKeeps
  <2> QED
    BY <2>1, <2>2 DEF Next
<1> QED
  BY <1>1, EngineInitially, PTL DEF Spec

(* "so the dashboard's single Issues list is complete": however the signals *)
(* arrive, windows and limits are set and users act in between, the list a  *)
(* Refresh leaves has an Issue of every signal it read, but when it is at    *)
(* its limit or the anomaly fired before the cutoff.                         *)
THEOREM RefreshIsComplete == Spec => []RefreshComplete
<1>1. EngineInv => RefreshComplete
  BY DEF EngineInv
<1> QED
  BY <1>1, EngineAlways, PTL

(* A mirror is built only when there is none, and no other Issue has the ID *)
(* of a log issue: a listed log issue's state is what its users made it.    *)
THEOREM LogStatesAreTheUsers == Spec => LogStateIsTheUsers
<1> DEFINE UsersOnly ==
      \A id \in DOMAIN issues \cap DOMAIN issues' :
        (id[1] = "log" /\ issues'[id].state # issues[id].state) =>
          \E state \in UserState : SetState(id, state)
<1>1. EngineInv /\ [Next]_vars => [UsersOnly]_vars
  <2> SUFFICES ASSUME EngineInv, Next,
                      NEW id \in DOMAIN issues \cap DOMAIN issues', id[1] = "log",
                      issues'[id].state # issues[id].state
               PROVE  \E state \in UserState : SetState(id, state)
    OBVIOUS
  <2>1. issues \in [DOMAIN issues -> Issue]
    BY Where
  <2>2. issues' # issues
    OBVIOUS
  <2>3. CASE Refresh
    <3>1. CASE BumpEvent
      <4> DEFINE k == eventIssueID(Signal)  seen == events[Signal].lastSeen
      <4>1. issues' = [issues EXCEPT ![k].updatedAt = seen] /\ issues[id] \in Issue
        BY <2>1, <3>1 DEF BumpEvent
      <4> HIDE DEF k, seen
      <4>2. issues'[id].state = issues[id].state
        BY <2>1, <4>1 DEF Issue
      <4> QED
        BY <4>2
    <3>2. CASE put
      <4>1. refresh.hand # None /\ issues' = Put(issues, refresh.hand.id, refresh.hand)
        BY <3>2 DEF put
      <4>2. refresh.hand.id = id => id \notin DOMAIN issues
        BY <4>1 DEF EngineInv, RefreshTypes, HandSound
      <4>3. issues'[id] = issues[id]
        BY <4>1, <4>2 DEF Put
      <4> QED
        BY <4>3
    <3>3. CASE GC
      <4>1. PICK kept \in Kept : issues' = [i \in kept |-> issues[i]]
        BY <3>3 DEF GC
      <4> QED
        BY <4>1
    <3>4. CASE Start \/ CheckConfig \/ ReadEvents \/ CheckEvent \/ ReadAnomalies \/ CheckAnomaly
      BY <2>2, <3>4 DEF Start, CheckConfig, ReadEvents, CheckEvent, ReadAnomalies, CheckAnomaly
    <3> QED
      BY <2>3, <3>1, <3>2, <3>3, <3>4 DEF Refresh
  <2>4. CASE UserActs
    <3>1. PICK state \in UserState :
            \/ \E i \in DOMAIN issues : SetState(i, state)
            \/ \E i \in byID : SetAnomalyState(i, state)
      BY <2>4 DEF UserActs
    <3>2. PICK i \in DOMAIN issues : SetState(i, state)
      BY <2>2, <3>1 DEF SetAnomalyState
    <3>3. issues' = [issues EXCEPT ![i].state = state, ![i].updatedAt = now]
      BY <3>2 DEF SetState
    <3>4. i = id
      BY <2>1, <3>3
    <3> QED
      BY <3>2, <3>4
  <2>5. CASE SignalArrives \/ Tick
    BY <2>2, <2>5 DEF SignalArrives, ConfigChange, onEvent, RecordAnomaly, Tick
  <2> QED
    BY <2>3, <2>4, <2>5 DEF Next
<1> QED
  BY <1>1, EngineAlways, PTL DEF Spec, LogStateIsTheUsers

=====
