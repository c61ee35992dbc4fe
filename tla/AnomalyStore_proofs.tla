------------------------- MODULE AnomalyStore_proofs -------------------------
(***************************************************************************)
(* The safety of the store, and of the incident the summary picks from it, *)
(* for any workloads, templates, topics, windows, sizes, lags and clocks.  *)
(***************************************************************************)
EXTENDS Overview, FiniteSetTheorems, SequenceTheorems, WellFoundedInduction, TLAPS

-----------------------------------------------------------------------------
(* Every non-empty set of naturals has a least element.                    *)
LEMMA NatMin ==
  ASSUME NEW S, S \subseteq Nat, S # {}
  PROVE  \E m \in S : \A n \in S : m <= n
<1> DEFINE R == OpToRel(<, Nat)
<1>1. IsWellFoundedOn(R, Nat)
  BY NatLessThanWellFounded
<1>2. \A m, n \in Nat : m < n => <<m, n>> \in R
  BY Zenon DEF OpToRel
<1> HIDE DEF R
<1>3. PICK m \in S : \A n \in S : <<n, m>> \notin R
  BY <1>1, WFMin
<1>4. ASSUME NEW n \in S PROVE m <= n
  <2>1. m \in Nat /\ n \in Nat /\ ~(n < m)
    BY <1>2, <1>3
  <2> QED
    BY <2>1
<1> QED
  BY <1>4

(* Every non-empty set of integers with an upper bound has a greatest.     *)
LEMMA IntMax ==
  ASSUME NEW S, S \subseteq Int, S # {}, NEW b \in Int, \A x \in S : x <= b
  PROVE  \E m \in S : \A x \in S : x <= m
<1> DEFINE T == {b - x : x \in S}
<1>1. T \subseteq Nat /\ T # {}
  <2>1. \A x \in S : b - x \in Nat
    OBVIOUS
  <2> QED
    BY <2>1
<1>2. PICK d \in T : \A e \in T : d <= e
  BY <1>1, NatMin
<1>3. PICK m \in S : d = b - m
  OBVIOUS
<1>4. ASSUME NEW x \in S PROVE x <= m
  <2>1. b - x \in T /\ x \in Int /\ m \in Int
    OBVIOUS
  <2>2. b - m <= b - x
    BY <1>2, <1>3, <2>1
  <2> QED
    BY <2>1, <2>2
<1> QED
  BY <1>4

LEMMA LatestIsLast ==
  ASSUME NEW n \in Nat, NEW S, S \subseteq 1..n, S # {}
  PROVE  Latest(S) \in S /\ \A j \in S : j <= Latest(S)
<1>1. \E m \in S : \A j \in S : j <= m
  <2>1. S \subseteq Int /\ n \in Int /\ \A x \in S : x <= n
    OBVIOUS
  <2> QED
    BY <2>1, IntMax
<1> QED
  BY <1>1 DEF Latest

-----------------------------------------------------------------------------
Severities == {"low", "medium", "high", "critical"}

Card == [workload : Workload, template : Template, topic : Topic,
         severity : Severities, firedAt : Nat, affectedPods : Nat,
         variants : SUBSET Template, state : State, updatedAt : Nat]

(* A card is identified by the number of the call that made it.            *)
StoreTypeOK ==
  /\ now \in Nat /\ records \in Nat
  /\ DOMAIN heap \subseteq 1..records
  /\ heap \in [DOMAIN heap -> Card]
  /\ \A id \in DOMAIN heap : heap[id].firedAt <= now
  /\ all \in Seq(DOMAIN heap)
  /\ alerts \in Seq([id : Nat, at : Nat])
  /\ \A k \in DOMAIN alerts : alerts[k].id \in DOMAIN heap
  /\ \A k \in DOMAIN lastSeen : lastSeen[k] \in Nat

IndexesSound ==
  /\ IsFiniteSet(byID)
  /\ \A i, j \in DOMAIN all : i # j => all[i] # all[j]
  /\ IndexesAgree

AlertsDistinct == \A i, j \in DOMAIN alerts : i # j => alerts[i].id # alerts[j].id

(* What dedup goes by: a card that is still there was seen when it fired   *)
(* or later.  A variant recorded late sets lastSeen back, but only once    *)
(* the window of every card of its template is over.                       *)
SeenSinceFired ==
  \A i \in DOMAIN all :
    LET key == <<At(i).workload, At(i).template>>
    IN /\ key \in DOMAIN lastSeen
       /\ lastSeen[key] >= At(i).firedAt \/ now - At(i).firedAt >= dedupWindow

StoreInv ==
  /\ StoreTypeOK
  /\ IndexesSound
  /\ AlertsDistinct
  /\ SeenSinceFired
  /\ NoRepeatedAlert
  /\ OneCardPerTopicInOrder

-----------------------------------------------------------------------------
LEMMA StoreInit == SpecInit => StoreInv
<1> SUFFICES ASSUME SpecInit PROVE StoreInv
  OBVIOUS
<1> USE DEF SpecInit, Init
<1>1. all = <<>> /\ alerts = <<>> /\ DOMAIN heap = {} /\ DOMAIN lastSeen = {}
  OBVIOUS
<1>2. StoreTypeOK
  BY <1>1 DEF StoreTypeOK
<1>3. IndexesSound
  BY <1>1, FS_EmptySet, StoreAssumption DEF IndexesSound, IndexesAgree
<1>4. AlertsDistinct /\ SeenSinceFired /\ NoRepeatedAlert /\ OneCardPerTopicInOrder
  BY <1>1 DEF AlertsDistinct, SeenSinceFired, NoRepeatedAlert, OneCardPerTopicInOrder
<1> QED
  BY <1>2, <1>3, <1>4 DEF StoreInv

-----------------------------------------------------------------------------
(* What identifies a card, and never changes.                              *)
Same(new, old) ==
  /\ new.workload = old.workload /\ new.template = old.template
  /\ new.topic = old.topic /\ new.firedAt = old.firedAt

KeepsCards ==
  /\ DOMAIN heap' = DOMAIN heap /\ heap' \in [DOMAIN heap' -> Card]
  /\ \A id \in DOMAIN heap : Same(heap'[id], heap[id])

SeenTyped == \A k \in DOMAIN lastSeen : lastSeen[k] \in Nat

LEMMA EditKeepsCards ==
  ASSUME StoreTypeOK, NEW id \in DOMAIN heap, NEW c \in Card, Same(c, heap[id]),
         heap' = [heap EXCEPT ![id] = c]
  PROVE  KeepsCards
BY DEF StoreTypeOK, KeepsCards, Same

(* A step that creates no card: only SeenSinceFired is left to show.       *)
LEMMA QuietStep ==
  ASSUME StoreInv, KeepsCards, UNCHANGED <<all, byID, alerts>>, SeenTyped', SeenSinceFired',
         now' \in Nat, now' >= now, records' \in Nat, records' >= records
  PROVE  StoreInv'
<1> USE DEF StoreInv
<1>1. /\ all \in Seq(DOMAIN heap) /\ DOMAIN heap' = DOMAIN heap
      /\ \A id \in DOMAIN heap : Same(heap'[id], heap[id])
      /\ \A i \in DOMAIN all : all[i] \in DOMAIN heap
      /\ \A k \in DOMAIN alerts : alerts[k].id \in DOMAIN heap
  BY DEF StoreTypeOK, KeepsCards
<1>2. StoreTypeOK'
  <2>1. \A id \in DOMAIN heap' : heap'[id].firedAt <= now'
    <3>1. \A id \in DOMAIN heap : heap[id].firedAt \in Nat /\ heap[id].firedAt <= now /\ now \in Nat
      BY DEF StoreTypeOK, Card
    <3> QED
      BY <1>1, <3>1 DEF Same
  <2>2. DOMAIN heap' \subseteq 1..records'
    BY <1>1 DEF StoreTypeOK
  <2> QED
    BY <1>1, <2>1, <2>2 DEF StoreTypeOK, KeepsCards, SeenTyped
<1>3. IndexesSound' /\ AlertsDistinct'
  BY DEF IndexesSound, IndexesAgree, AlertsDistinct
<1>4. NoRepeatedAlert'
  BY <1>1 DEF NoRepeatedAlert, Evicted, Same
<1>5. \A i \in DOMAIN all : Same(At(i)', At(i))
  BY <1>1 DEF At
<1>6. OneCardPerTopicInOrder'
  <2> SUFFICES ASSUME NEW i \in DOMAIN all, NEW j \in DOMAIN all, SplitTopic(i, j)'
               PROVE  \E k \in i..j : At(k)'.firedAt < At(i)'.firedAt
    BY DEF OneCardPerTopicInOrder
  <2>1. Same(At(i)', At(i)) /\ Same(At(j)', At(j)) /\ i \in 1..Len(all) /\ j \in 1..Len(all)
    BY <1>1, <1>5
  <2>2. SplitTopic(i, j)
    BY <2>1 DEF SplitTopic, Same
  <2>3. PICK k \in i..j : At(k).firedAt < At(i).firedAt
    BY <2>2 DEF OneCardPerTopicInOrder
  <2>4. Same(At(k)', At(k))
    BY <1>1, <1>5, <2>1
  <2> QED
    BY <2>1, <2>3, <2>4 DEF Same
<1> QED
  BY <1>2, <1>3, <1>4, <1>6

(* The same without a word about lastSeen.                                 *)
LEMMA QuieterStep ==
  ASSUME StoreInv, KeepsCards, UNCHANGED <<all, byID, alerts, lastSeen>>,
         now' \in Nat, now' >= now, records' \in Nat, records' >= records
  PROVE  StoreInv'
<1>1. /\ \A i \in DOMAIN all : all[i] \in DOMAIN heap /\ heap[all[i]].firedAt \in Nat
      /\ SeenTyped /\ now \in Nat
  BY DEF StoreInv, StoreTypeOK, Card, SeenTyped
<1>2. SeenTyped'
  BY <1>1 DEF SeenTyped
<1>3. SeenSinceFired'
  <2> SUFFICES ASSUME NEW i \in DOMAIN all
               PROVE  LET key == <<At(i)'.workload, At(i)'.template>>
                      IN /\ key \in DOMAIN lastSeen
                         /\ lastSeen[key] >= At(i)'.firedAt \/ now' - At(i)'.firedAt >= dedupWindow
    BY DEF SeenSinceFired
  <2> DEFINE key == <<At(i).workload, At(i).template>>
  <2>1. Same(At(i)', At(i)) /\ At(i).firedAt \in Nat
    BY <1>1 DEF KeepsCards, At
  <2>2. key \in DOMAIN lastSeen /\ (lastSeen[key] >= At(i).firedAt \/ now - At(i).firedAt >= dedupWindow)
    BY DEF StoreInv, SeenSinceFired
  <2>3. lastSeen[key] >= At(i).firedAt \/ now' - At(i).firedAt >= dedupWindow
    BY <1>1, <2>1, <2>2, StoreAssumption
  <2> QED
    BY <2>1, <2>2, <2>3 DEF Same
<1> QED
  BY <1>2, <1>3, QuietStep

LEMMA TickKeepsInv == StoreInv /\ Tick => StoreInv'
<1> SUFFICES ASSUME StoreInv, Tick PROVE StoreInv'
  OBVIOUS
<1>1. KeepsCards
  BY DEF StoreInv, StoreTypeOK, Tick, storeVars, KeepsCards, Same
<1> QED
  BY <1>1, QuieterStep DEF Tick, storeVars, StoreInv, StoreTypeOK

LEMMA SetKeepsInv == StoreInv /\ SetSome => StoreInv'
<1> SUFFICES ASSUME StoreInv, SetSome PROVE StoreInv'
  OBVIOUS
<1>1. PICK id \in byID, state \in State \ {"active"} : SetState(id, state)
  BY DEF SetSome
<1>2. id \in DOMAIN heap /\ heap[id] \in Card /\ now \in Nat
  BY DEF StoreInv, StoreTypeOK, IndexesSound, IndexesAgree
<1> DEFINE c == [heap[id] EXCEPT !.state = state, !.updatedAt = now]
<1>3. c \in Card /\ Same(c, heap[id])
  BY <1>2 DEF Card, Same
<1>4. heap' = [heap EXCEPT ![id] = c]
  BY <1>1 DEF SetState
<1> HIDE DEF c
<1>5. KeepsCards
  BY <1>2, <1>3, <1>4, EditKeepsCards DEF StoreInv
<1> QED
  BY <1>1, <1>5, QuieterStep DEF SetSome, SetState, StoreInv, StoreTypeOK

LEMMA BumpKeepsInv == StoreInv /\ BumpSome => StoreInv'
<1> SUFFICES ASSUME StoreInv, BumpSome PROVE StoreInv'
  OBVIOUS
<1>1. PICK w \in Workload, t \in Template, count \in 2..MaxPods : BumpPods(w, t, count)
  BY DEF BumpSome
<1> DEFINE found == {i \in DOMAIN all : At(i).workload = w /\ At(i).template = t}
           id == all[Latest(found)]
           c == [heap[id] EXCEPT !.affectedPods = count, !.updatedAt = now]
<1>2. all \in Seq(DOMAIN heap) /\ heap \in [DOMAIN heap -> Card] /\ now \in Nat
  BY DEF StoreInv, StoreTypeOK
<1>3. KeepsCards
  <2>1. CASE found # {} /\ count > heap[id].affectedPods
    <3>1. Latest(found) \in found
      <4>1. found \subseteq 1..Len(all) /\ Len(all) \in Nat
        BY <1>2
      <4> QED
        BY <2>1, <4>1, LatestIsLast
    <3>2. id \in DOMAIN heap /\ heap[id] \in Card
      BY <1>2, <3>1
    <3>3. c \in Card /\ Same(c, heap[id])
      <4>1. count \in Nat
        OBVIOUS
      <4> HIDE DEF id
      <4> QED
        BY <1>2, <3>2, <4>1 DEF Card, Same
    <3>4. heap' = [heap EXCEPT ![id] = c]
      BY <1>1, <2>1 DEF BumpPods
    <3> HIDE DEF c, id
    <3> QED
      BY <3>2, <3>3, <3>4, EditKeepsCards DEF StoreInv
  <2>2. CASE ~(found # {} /\ count > heap[id].affectedPods)
    <3>1. heap' = heap
      BY <1>1, <2>2 DEF BumpPods
    <3> QED
      BY <1>2, <3>1 DEF KeepsCards, Same
  <2> QED
    BY <2>1, <2>2
<1>4. UNCHANGED <<all, byID, alerts, lastSeen>>
  BY <1>1 DEF BumpPods
<1>5. UNCHANGED <<now, records>> /\ now \in Nat /\ records \in Nat
  BY DEF BumpSome, StoreInv, StoreTypeOK
<1> QED
  BY <1>3, <1>4, <1>5, QuieterStep

-----------------------------------------------------------------------------
(* What RecordSome hands to Record.                                        *)
Anomalies == [id : Nat, workload : Workload, template : Template, topic : Topic,
              severity : Severities, firedAt : 0..now, affectedPods : Nat]

LEMMA MatchIsStored ==
  ASSUME StoreInv, NEW a, Matches(a) # {}
  PROVE  /\ Latest(Matches(a)) \in Matches(a) /\ StoredID(a) = all[Latest(Matches(a))]
         /\ StoredID(a) \in DOMAIN heap /\ heap[StoredID(a)] \in Card
<1>1. all \in Seq(DOMAIN heap) /\ heap \in [DOMAIN heap -> Card]
  BY DEF StoreInv, StoreTypeOK
<1>2. Matches(a) \subseteq 1..Len(all) /\ Len(all) \in Nat
  BY <1>1 DEF Matches, DedupMatches, GroupMatches
<1>3. Latest(Matches(a)) \in Matches(a)
  BY <1>2, LatestIsLast
<1>4. StoredID(a) = all[Latest(Matches(a))]
  BY DEF StoredID, Fresh
<1> QED
  BY <1>1, <1>2, <1>3, <1>4

(* When no repeat was found, every card of the template is past its window.*)
LEMMA PastWindow ==
  ASSUME StoreInv, NEW a \in Anomalies, DedupMatches(a) = {}, NEW i \in DOMAIN all,
         At(i).workload = a.workload, At(i).template = a.template
  PROVE  now - At(i).firedAt >= dedupWindow
<1> DEFINE key == <<a.workload, a.template>>
<1>1. key \in DOMAIN lastSeen /\ (lastSeen[key] >= At(i).firedAt \/ now - At(i).firedAt >= dedupWindow)
  BY DEF StoreInv, SeenSinceFired
<1>2. ~(now - lastSeen[key] < dedupWindow)
  BY <1>1 DEF DedupMatches
<1>3. lastSeen[key] \in Nat /\ At(i).firedAt \in Nat /\ now \in Nat /\ dedupWindow \in Nat
  BY <1>1, StoreAssumption DEF StoreInv, StoreTypeOK, Card, At
<1> HIDE DEF key
<1> QED
  BY <1>1, <1>2, <1>3

(* So its place in lastSeen may be set back.                               *)
LEMMA MarkSeenKeeps ==
  ASSUME StoreInv, NEW a \in Anomalies, DedupMatches(a) = {}, MarkSeen(a)
  PROVE  /\ SeenTyped'
         /\ \A i \in DOMAIN all :
              LET key == <<At(i).workload, At(i).template>>
              IN /\ key \in DOMAIN lastSeen'
                 /\ lastSeen'[key] >= At(i).firedAt \/ now - At(i).firedAt >= dedupWindow
<1> DEFINE seen == <<a.workload, a.template>>
<1>1. /\ DOMAIN lastSeen' = DOMAIN lastSeen \cup {seen}
      /\ lastSeen'[seen] = a.firedAt
      /\ \A k \in DOMAIN lastSeen \ {seen} : lastSeen'[k] = lastSeen[k]
  BY DEF MarkSeen
<1>2. /\ \A k \in DOMAIN lastSeen : lastSeen[k] \in Nat
      /\ \A i \in DOMAIN all : all[i] \in DOMAIN heap /\ At(i).firedAt \in Nat
      /\ a.firedAt \in Nat /\ now \in Nat
  BY DEF StoreInv, StoreTypeOK, Card, At, Anomalies
<1>3. SeenTyped'
  BY <1>1, <1>2 DEF SeenTyped
<1>4. ASSUME NEW i \in DOMAIN all
      PROVE  LET key == <<At(i).workload, At(i).template>>
             IN /\ key \in DOMAIN lastSeen'
                /\ lastSeen'[key] >= At(i).firedAt \/ now - At(i).firedAt >= dedupWindow
  <2> DEFINE key == <<At(i).workload, At(i).template>>
  <2>1. key \in DOMAIN lastSeen /\ (lastSeen[key] >= At(i).firedAt \/ now - At(i).firedAt >= dedupWindow)
    BY DEF StoreInv, SeenSinceFired
  <2>2. CASE key # seen
    BY <1>1, <2>1, <2>2
  <2>3. CASE key = seen
    <3>1. At(i).workload = a.workload /\ At(i).template = a.template
      BY <2>3
    <3>2. now - At(i).firedAt >= dedupWindow
      BY <3>1, PastWindow
    <3> QED
      BY <1>1, <2>3, <3>2
  <2> QED
    BY <2>2, <2>3
<1> QED
  BY <1>3, <1>4

LEMMA DedupKeepsInv ==
  ASSUME StoreInv, NEW a \in Anomalies, Dedup(a), now' = now, records' = records + 1
  PROVE  StoreInv'
<1> DEFINE id == StoredID(a)
           c == [heap[id] EXCEPT !.updatedAt = a.firedAt]
<1>1. Matches(a) # {}
  BY DEF Dedup, Matches
<1>2. id \in DOMAIN heap /\ heap[id] \in Card /\ a.firedAt \in Nat
  BY <1>1, MatchIsStored DEF Anomalies, StoreInv, StoreTypeOK
<1>3. heap' = [heap EXCEPT ![id] = c]
  BY DEF Dedup
<1> HIDE DEF id
<1>4. c \in Card /\ Same(c, heap[id])
  BY <1>2 DEF Card, Same
<1> HIDE DEF c
<1>5. KeepsCards
  BY <1>2, <1>3, <1>4, EditKeepsCards DEF StoreInv
<1>6. now \in Nat /\ records \in Nat
  BY DEF StoreInv, StoreTypeOK
<1> QED
  BY <1>5, <1>6, QuieterStep DEF Dedup

LEMMA GroupKeepsInv ==
  ASSUME StoreInv, NEW a \in Anomalies, Group(a), now' = now, records' = records + 1
  PROVE  StoreInv'
<1> DEFINE id == StoredID(a)
           c == [heap[id] EXCEPT
                   !.variants = @ \cup ({a.template} \ {heap[id].template}),
                   !.updatedAt = a.firedAt,
                   !.affectedPods = IF a.affectedPods > @ THEN a.affectedPods ELSE @]
<1>1. Matches(a) # {} /\ DedupMatches(a) = {} /\ MarkSeen(a) /\ UNCHANGED <<all, byID, alerts>>
  BY DEF Group, Matches
<1>2. id \in DOMAIN heap /\ heap[id] \in Card
  BY <1>1, MatchIsStored
<1>3. heap' = [heap EXCEPT ![id] = c]
  BY DEF Group
<1> HIDE DEF id
<1>4. c \in Card /\ Same(c, heap[id])
  <2>1. a.template \in Template /\ a.firedAt \in Nat /\ a.affectedPods \in Nat
    BY DEF Anomalies, StoreInv, StoreTypeOK
  <2> QED
    BY <1>2, <2>1 DEF Card, Same
<1> HIDE DEF c
<1>5. KeepsCards
  BY <1>2, <1>3, <1>4, EditKeepsCards DEF StoreInv
<1>6. now \in Nat /\ records \in Nat /\ \A i \in DOMAIN all : all[i] \in DOMAIN heap
  BY DEF StoreInv, StoreTypeOK
<1>7. \A i \in DOMAIN all : Same(At(i)', At(i))
  BY <1>1, <1>5, <1>6 DEF KeepsCards, At
<1>8. SeenTyped' /\ SeenSinceFired'
  BY <1>1, <1>7, MarkSeenKeeps DEF SeenSinceFired, Same
<1> QED
  BY <1>1, <1>5, <1>6, <1>8, QuietStep

-----------------------------------------------------------------------------
(* A new card goes to the end, and at the limit the oldest leaves: what    *)
(* stays moves d places down.                                              *)
InsertShape(a, d) ==
  /\ d \in {0, 1} /\ d <= Len(all)
  /\ d = 0 => Len(all) < maxItems
  /\ d = 1 => Len(all) = maxItems
  /\ all' \in Seq(DOMAIN heap')
  /\ Len(all') = Len(all) - d + 1
  /\ \A i \in 1..(Len(all) - d) : all'[i] = all[i + d]
  /\ all'[Len(all')] = a.id
  /\ byID' = (IF d = 1 THEN byID \ {all[1]} ELSE byID) \cup {a.id}

LEMMA InsertHeap ==
  ASSUME StoreInv, NEW a \in Anomalies, a.id = records + 1, Insert(a)
  PROVE  /\ a.id \notin DOMAIN heap /\ DOMAIN heap' = DOMAIN heap \cup {a.id}
         /\ heap' \in [DOMAIN heap' -> Card]
         /\ \A id \in DOMAIN heap : heap'[id] = heap[id]
         /\ Same(heap'[a.id], a)
<1> DEFINE card == [workload |-> a.workload, template |-> a.template, topic |-> a.topic,
                    severity |-> a.severity, firedAt |-> a.firedAt,
                    affectedPods |-> a.affectedPods, variants |-> {},
                    state |-> "active", updatedAt |-> a.firedAt]
<1>1. heap' = [id \in DOMAIN heap \cup {a.id} |-> IF id = a.id THEN card ELSE heap[id]]
  BY DEF Insert
<1>2. DOMAIN heap \subseteq 1..records /\ records \in Nat /\ now \in Nat /\ heap \in [DOMAIN heap -> Card]
  BY DEF StoreInv, StoreTypeOK
<1>3. a.id \notin DOMAIN heap
  <2>1. a.id \notin 1..records
    BY <1>2
  <2> QED
    BY <1>2, <2>1
<1>4. card \in Card /\ Same(card, a)
  BY <1>2 DEF Card, Same, Anomalies, State
<1> HIDE DEF card
<1> QED
  BY <1>1, <1>2, <1>3, <1>4

LEMMA InsertMoves ==
  ASSUME StoreInv, NEW a \in Anomalies, a.id = records + 1, Insert(a)
  PROVE  \E d \in {0, 1} : InsertShape(a, d)
<1>1. /\ all \in Seq(DOMAIN heap) /\ Len(all) \in Nat /\ Len(all) <= maxItems /\ maxItems \in Nat \ {0}
  BY StoreAssumption DEF StoreInv, StoreTypeOK, IndexesSound, IndexesAgree
<1>2. DOMAIN heap' = DOMAIN heap \cup {a.id}
  BY InsertHeap
<1>3. CASE Len(all) >= maxItems
  <2>1. all # <<>> /\ Len(all) = maxItems /\ Head(all) = all[1]
    BY <1>1, <1>3
  <2> DEFINE rest == Tail(all)
  <2>2. rest \in Seq(DOMAIN heap) /\ Len(rest) = Len(all) - 1 /\ \A i \in 1..Len(rest) : rest[i] = all[i + 1]
    BY <1>1, <2>1, HeadTailProperties
  <2>3. all' = Append(rest, a.id) /\ byID' = (byID \ {all[1]}) \cup {a.id}
    BY <1>3, <2>1 DEF Insert
  <2>4. rest \in Seq(DOMAIN heap')
    BY <1>2, <2>2, SeqMonotonic
  <2> HIDE DEF rest
  <2>5. /\ all' \in Seq(DOMAIN heap') /\ Len(all') = Len(rest) + 1
        /\ \A i \in 1..Len(rest) : all'[i] = rest[i]
        /\ all'[Len(rest) + 1] = a.id
    BY <1>2, <2>3, <2>4, AppendProperties
  <2>6. /\ Len(all') = Len(all) - 1 + 1 /\ all'[Len(all')] = a.id
        /\ \A i \in 1..(Len(all) - 1) : all'[i] = all[i + 1]
    BY <1>1, <2>2, <2>5
  <2>7. InsertShape(a, 1)
    BY <1>1, <2>1, <2>3, <2>5, <2>6 DEF InsertShape
  <2> QED
    BY <2>7
<1>4. CASE ~(Len(all) >= maxItems)
  <2>1. all' = Append(all, a.id) /\ byID' = byID \cup {a.id}
    BY <1>4 DEF Insert
  <2>2. all \in Seq(DOMAIN heap')
    BY <1>1, <1>2, SeqMonotonic
  <2>3. /\ all' \in Seq(DOMAIN heap') /\ Len(all') = Len(all) + 1
        /\ \A i \in 1..Len(all) : all'[i] = all[i]
        /\ all'[Len(all) + 1] = a.id
    BY <1>2, <2>1, <2>2, AppendProperties
  <2>4. /\ Len(all') = Len(all) - 0 + 1 /\ all'[Len(all')] = a.id
        /\ \A i \in 1..(Len(all) - 0) : all'[i] = all[i + 0]
    BY <1>1, <2>3
  <2>5. InsertShape(a, 0)
    BY <1>1, <1>4, <2>1, <2>3, <2>4 DEF InsertShape
  <2> QED
    BY <2>5
<1> QED
  BY <1>3, <1>4

(* Sequences without repetition, of which t is s moved d places down with  *)
(* a new x at the end.                                                     *)
LEMMA SlidSequence ==
  ASSUME NEW n \in Nat, NEW d \in {0, 1}, d <= n, NEW s, NEW t, NEW x,
         \A i, j \in 1..n : i # j => s[i] # s[j],
         \A i \in 1..n : s[i] # x,
         \A i \in 1..(n - d) : t[i] = s[i + d],
         t[n - d + 1] = x
  PROVE  /\ \A i, j \in 1..(n - d + 1) : i # j => t[i] # t[j]
         /\ {t[i] : i \in 1..(n - d + 1)} =
              (IF d = 1 THEN {s[i] : i \in 1..n} \ {s[1]} ELSE {s[i] : i \in 1..n}) \cup {x}
<1>1. \A i \in 1..(n - d + 1) : i = n - d + 1 \/ i \in 1..(n - d)
  OBVIOUS
<1>2. \A i \in 1..(n - d) : i + d \in 1..n /\ i \in 1..(n - d + 1) /\ i # n - d + 1
  OBVIOUS
<1>3. \A i, j \in 1..(n - d) : i # j => i + d # j + d
  OBVIOUS
<1>4. \A i, j \in 1..(n - d + 1) : i # j => t[i] # t[j]
  <2>1. \A i, j \in 1..(n - d) : i # j => t[i] # t[j]
    BY <1>2, <1>3
  <2>2. \A i \in 1..(n - d) : t[i] # x
    BY <1>2
  <2> QED
    BY <1>1, <2>1, <2>2
<1>5. {t[i] : i \in 1..(n - d + 1)} = {s[i + d] : i \in 1..(n - d)} \cup {x}
  <2>1. n - d + 1 \in 1..(n - d + 1)
    OBVIOUS
  <2>2. \A i \in 1..(n - d + 1) : t[i] \in {s[k + d] : k \in 1..(n - d)} \cup {x}
    BY <1>1
  <2>3. \A k \in 1..(n - d) : s[k + d] \in {t[i] : i \in 1..(n - d + 1)}
    <3>1. ASSUME NEW k \in 1..(n - d) PROVE s[k + d] = t[k] /\ k \in 1..(n - d + 1)
      BY <1>2
    <3> QED
      BY <3>1
  <2> QED
    BY <2>1, <2>2, <2>3
<1>6. {s[i + d] : i \in 1..(n - d)} =
        IF d = 1 THEN {s[i] : i \in 1..n} \ {s[1]} ELSE {s[i] : i \in 1..n}
  <2>1. CASE d = 0
    <3>1. \A i \in 1..n : i + 0 = i /\ 1..(n - 0) = 1..n
      OBVIOUS
    <3>2. \A i \in 1..n : s[i] \in {s[k + 0] : k \in 1..(n - 0)} /\ s[i + 0] \in {s[k] : k \in 1..n}
      BY <3>1
    <3>3. {s[k + 0] : k \in 1..(n - 0)} = {s[k] : k \in 1..n}
      BY <3>1, <3>2
    <3> QED
      BY <2>1, <3>3
  <2>2. CASE d = 1
    <3>1. ASSUME NEW i \in 1..(n - 1) PROVE s[i + 1] \in {s[k] : k \in 1..n} \ {s[1]}
      <4>1. i + 1 \in 1..n /\ i + 1 # 1 /\ 1 \in 1..n
        OBVIOUS
      <4> QED
        BY <4>1
    <3>2. ASSUME NEW j \in 1..n, s[j] # s[1] PROVE s[j] \in {s[k + 1] : k \in 1..(n - 1)}
      <4>1. j # 1
        BY <3>2
      <4>2. j - 1 \in 1..(n - 1) /\ (j - 1) + 1 = j
        BY <4>1
      <4> QED
        BY <4>2
    <3>3. {s[k + 1] : k \in 1..(n - 1)} = {s[k] : k \in 1..n} \ {s[1]}
      BY <3>1, <3>2
    <3> QED
      BY <2>2, <3>3
  <2> QED
    BY <2>1, <2>2
<1> QED
  BY <1>4, <1>5, <1>6

LEMMA InsertIndexes ==
  ASSUME StoreInv, NEW a \in Anomalies, a.id = records + 1, Insert(a)
  PROVE  IndexesSound'
<1>1. PICK d \in {0, 1} : InsertShape(a, d)
  BY InsertMoves
<1>2. PICK n \in Nat : n = Len(all) /\ DOMAIN all = 1..n /\ n = Cardinality(byID) /\ n <= maxItems
  <2>1. Len(all) \in Nat /\ DOMAIN all = 1..Len(all)
    BY DEF StoreInv, StoreTypeOK
  <2>2. Len(all) = Cardinality(byID) /\ Len(all) <= maxItems
    BY DEF StoreInv, IndexesSound, IndexesAgree
  <2> QED
    BY <2>1, <2>2
<1>3. /\ IsFiniteSet(byID) /\ byID = {all[i] : i \in 1..n}
      /\ \A i, j \in 1..n : i # j => all[i] # all[j]
  BY <1>2 DEF StoreInv, IndexesSound, IndexesAgree
<1>4. /\ d <= n /\ DOMAIN all' = 1..(n - d + 1) /\ Len(all') = n - d + 1
      /\ \A i \in 1..(n - d) : all'[i] = all[i + d]
      /\ all'[n - d + 1] = a.id
      /\ byID' = (IF d = 1 THEN byID \ {all[1]} ELSE byID) \cup {a.id}
      /\ n - d + 1 <= maxItems
  BY <1>1, <1>2, StoreAssumption DEF InsertShape
<1>5. a.id \notin DOMAIN heap /\ \A i \in 1..n : all[i] \in DOMAIN heap
  BY <1>2, InsertHeap DEF StoreInv, StoreTypeOK
<1>6. \A i \in 1..n : all[i] # a.id
  BY <1>5
<1>7. /\ \A i, j \in 1..(n - d + 1) : i # j => all'[i] # all'[j]
      /\ {all'[i] : i \in 1..(n - d + 1)} = byID'
  <2> DEFINE s == all
             t == all'
             x == a.id
  <2>1. /\ \A i, j \in 1..n : i # j => s[i] # s[j]
        /\ \A i \in 1..n : s[i] # x
        /\ \A i \in 1..(n - d) : t[i] = s[i + d]
        /\ t[n - d + 1] = x /\ d <= n
    BY <1>3, <1>4, <1>6
  <2> HIDE DEF s, t, x
  <2>2. /\ \A i, j \in 1..(n - d + 1) : i # j => t[i] # t[j]
        /\ {t[i] : i \in 1..(n - d + 1)} =
              (IF d = 1 THEN {s[i] : i \in 1..n} \ {s[1]} ELSE {s[i] : i \in 1..n}) \cup {x}
    <3>1. n \in Nat /\ d \in {0, 1}
      OBVIOUS
    <3> QED
      BY ONLY <2>1, <3>1, SlidSequence, SMTT(60), ZenonT(60)
  <2>3. byID = {s[i] : i \in 1..n} /\ byID' = (IF d = 1 THEN byID \ {s[1]} ELSE byID) \cup {x}
    BY <1>3, <1>4 DEF s, x
  <2> QED
    BY <2>2, <2>3 DEF t
<1>8. IsFiniteSet(byID') /\ Cardinality(byID') = n - d + 1
  <2> DEFINE kept == IF d = 1 THEN byID \ {all[1]} ELSE byID
  <2>1. a.id \notin byID
    BY <1>3, <1>6
  <2>2. IsFiniteSet(kept) /\ Cardinality(kept) = n - d /\ a.id \notin kept
    <3>0. IsFiniteSet(byID) /\ Cardinality(byID) = n
      BY <1>2, <1>3
    <3>1. CASE d = 0
      BY <2>1, <3>0, <3>1
    <3>2. CASE d = 1
      <4>1. all[1] \in byID
        <5>1. 1 \in 1..n
          BY <1>4, <3>2
        <5> QED
          BY <1>3, <5>1
      <4> QED
        BY <2>1, <3>0, <3>2, <4>1, FS_RemoveElement
    <3> QED
      BY <3>1, <3>2
  <2> HIDE DEF kept
  <2>3. byID' = kept \cup {a.id}
    BY <1>4 DEF kept
  <2> QED
    BY <2>2, <2>3, FS_AddElement
<1> QED
  BY <1>4, <1>7, <1>8 DEF IndexesSound, IndexesAgree

(* The alert of a new card goes to the end of the alerts.                  *)
LEMMA InsertAlerts ==
  ASSUME StoreInv, NEW a \in Anomalies, a.id = records + 1, Insert(a)
  PROVE  \E m \in Nat :
           /\ DOMAIN alerts = 1..m /\ DOMAIN alerts' = 1..(m + 1)
           /\ alerts' \in Seq([id : Nat, at : Nat])
           /\ \A k \in 1..m : alerts'[k] = alerts[k] /\ alerts'[k].id \in DOMAIN heap /\ alerts'[k].id # a.id
           /\ alerts'[m + 1].id = a.id /\ alerts'[m + 1].at = now
<1> DEFINE new == [id |-> a.id, at |-> now]
           T == [id : Nat, at : Nat]
<1>1. alerts \in Seq(T) /\ new \in T
  BY DEF StoreInv, StoreTypeOK, Anomalies
<1>2. alerts' = Append(alerts, new)
  BY DEF Insert
<1>3. new.id = a.id /\ new.at = now
  OBVIOUS
<1>4. Len(alerts) \in Nat /\ DOMAIN alerts = 1..Len(alerts)
  BY <1>1
<1> HIDE DEF new, T
<1>5. /\ alerts' \in Seq(T) /\ Len(alerts') = Len(alerts) + 1
      /\ \A k \in 1..Len(alerts) : alerts'[k] = alerts[k]
      /\ alerts'[Len(alerts) + 1] = new
  BY <1>1, <1>2, AppendProperties
<1>6. \A k \in 1..Len(alerts) : alerts[k].id \in DOMAIN heap /\ alerts[k].id # a.id
  BY <1>4, InsertHeap DEF StoreInv, StoreTypeOK
<1>7. DOMAIN alerts' = 1..(Len(alerts) + 1)
  BY <1>5
<1> QED
  BY <1>3, <1>4, <1>5, <1>6, <1>7 DEF T

LEMMA InsertNoRepeat ==
  ASSUME StoreInv, NEW a \in Anomalies, a.id = records + 1, Insert(a), now' = now
  PROVE  NoRepeatedAlert'
<1>1. PICK m \in Nat :
        /\ DOMAIN alerts = 1..m /\ DOMAIN alerts' = 1..(m + 1)
        /\ \A k \in 1..m : alerts'[k] = alerts[k] /\ alerts'[k].id \in DOMAIN heap /\ alerts'[k].id # a.id
        /\ alerts'[m + 1].id = a.id /\ alerts'[m + 1].at = now
  BY InsertAlerts
<1>2. /\ \A id \in DOMAIN heap : heap'[id] = heap[id]
      /\ a.id \notin DOMAIN heap /\ Same(heap'[a.id], a)
  BY InsertHeap
<1>3. byID' \subseteq byID \cup {a.id}
  BY InsertMoves DEF InsertShape
<1> SUFFICES ASSUME NEW i \in 1..(m + 1), NEW j \in 1..(m + 1), i < j,
                    heap'[alerts'[i].id].workload = heap'[alerts'[j].id].workload,
                    heap'[alerts'[i].id].template = heap'[alerts'[j].id].template,
                    alerts'[j].at - heap'[alerts'[i].id].firedAt < dedupWindow
             PROVE  alerts'[i].id \notin byID'
  BY <1>1 DEF NoRepeatedAlert, Evicted
<1>4. i \in 1..m /\ alerts'[i].id \in DOMAIN heap /\ alerts'[i].id # a.id
  BY <1>1
<1>5. CASE j \in 1..m
  <2>1. alerts[i].id \notin byID
    BY <1>1, <1>2, <1>4, <1>5 DEF StoreInv, NoRepeatedAlert, Evicted
  <2> QED
    BY <1>1, <1>3, <1>4, <2>1
<1>6. CASE j = m + 1
  <2> SUFFICES ASSUME alerts'[i].id \in byID PROVE FALSE
    BY <1>3, <1>4
  <2>1. PICK k \in DOMAIN all : all[k] = alerts'[i].id
    BY DEF StoreInv, IndexesSound, IndexesAgree
  <2>2. /\ At(k).workload = a.workload /\ At(k).template = a.template
        /\ now - At(k).firedAt < dedupWindow
    BY <1>1, <1>2, <1>4, <1>6, <2>1 DEF At, Same
  <2>3. DedupMatches(a) = {}
    BY DEF Insert, Fresh, Matches
  <2>4. now - At(k).firedAt >= dedupWindow
    BY <2>2, <2>3, PastWindow
  <2>5. At(k).firedAt \in Nat /\ now \in Nat /\ dedupWindow \in Nat
    BY StoreAssumption DEF StoreInv, StoreTypeOK, Card, At
  <2> QED
    BY <2>2, <2>4, <2>5
<1> QED
  BY <1>5, <1>6

LEMMA InsertOneCard ==
  ASSUME StoreInv, NEW a \in Anomalies, a.id = records + 1, Insert(a), now' = now
  PROVE  OneCardPerTopicInOrder'
<1>1. PICK m \in Nat :
        /\ DOMAIN alerts = 1..m /\ DOMAIN alerts' = 1..(m + 1)
        /\ \A k \in 1..m : alerts'[k] = alerts[k] /\ alerts'[k].id \in DOMAIN heap /\ alerts'[k].id # a.id
        /\ alerts'[m + 1].id = a.id /\ alerts'[m + 1].at = now
  BY InsertAlerts
<1>2. PICK d \in {0, 1} : InsertShape(a, d)
  BY InsertMoves
<1>3. PICK n \in Nat : n = Len(all) /\ DOMAIN all = 1..n
  BY DEF StoreInv, StoreTypeOK
<1>4. /\ d <= n /\ DOMAIN all' = 1..(n - d + 1)
      /\ \A i \in 1..(n - d) : all'[i] = all[i + d] /\ i + d \in 1..n
      /\ all'[n - d + 1] = a.id
  BY <1>2, <1>3 DEF InsertShape
<1>5. /\ \A id \in DOMAIN heap : heap'[id] = heap[id]
      /\ a.id \notin DOMAIN heap /\ Same(heap'[a.id], a)
      /\ \A i \in 1..n : all[i] \in DOMAIN heap
  <2>1. \A i \in 1..n : all[i] \in DOMAIN heap
    BY <1>3 DEF StoreInv, StoreTypeOK
  <2> QED
    BY <2>1, InsertHeap
<1>6. \A i \in 1..(n - d) : At(i)' = At(i + d) /\ all'[i] # a.id
  BY <1>4, <1>5 DEF At
<1>7. \A i \in 1..n : At(i).firedAt \in Nat /\ now \in Nat /\ groupWindow \in Nat
  BY <1>3, <1>5, StoreAssumption DEF StoreInv, StoreTypeOK, Card, At
<1> SUFFICES ASSUME NEW i \in 1..(n - d + 1), NEW j \in 1..(n - d + 1), SplitTopic(i, j)'
             PROVE  \E k \in i..j : At(k)'.firedAt < At(i)'.firedAt
  BY <1>4 DEF OneCardPerTopicInOrder
<1>8. PICK k \in 1..(m + 1) : alerts'[k].id = all'[j] /\ alerts'[k].at - At(i)'.firedAt <= groupWindow
  BY <1>1 DEF SplitTopic
<1>9. i \in 1..(n - d) /\ i < j /\ i + d \in 1..n /\ At(i)' = At(i + d)
  BY <1>4, <1>6 DEF SplitTopic
<1>10. CASE j \in 1..(n - d)
  <2>1. At(j)' = At(j + d) /\ all'[j] = all[j + d] /\ all'[j] # a.id /\ j + d \in 1..n
    BY <1>4, <1>6, <1>10
  <2>2. k \in 1..m /\ alerts[k].id = all[j + d] /\ alerts[k].at - At(i + d).firedAt <= groupWindow
    BY <1>1, <1>8, <1>9, <2>1
  <2>3. SplitTopic(i + d, j + d)
    BY <1>1, <1>9, <2>1, <2>2 DEF SplitTopic
  <2>4. PICK l \in (i + d)..(j + d) : At(l).firedAt < At(i + d).firedAt
    BY <1>3, <1>9, <2>1, <2>3 DEF StoreInv, OneCardPerTopicInOrder
  <2>5. l - d \in 1..(n - d) /\ l - d \in i..j /\ (l - d) + d = l
    BY <1>9, <1>10
  <2>6. At(l - d)' = At(l)
    BY <1>6, <2>5
  <2> QED
    BY <1>9, <2>4, <2>5, <2>6
<1>11. CASE j = n - d + 1
  <2>1. all'[j] = a.id /\ k = m + 1 /\ now - At(i + d).firedAt <= groupWindow
    BY <1>1, <1>4, <1>8, <1>9, <1>11
  <2>2. At(i + d).workload = a.workload /\ At(i + d).topic = a.topic /\ a.topic # NoTopic
    BY <1>5, <1>9, <2>1 DEF SplitTopic, At, Same
  <2>3. GroupMatches(a) = {}
    BY DEF Insert, Fresh, Matches
  <2>4. ~Walked(i + d)
    BY <1>3, <1>9, <2>2, <2>3 DEF GroupMatches
  <2>5. PICK l \in (i + d)..n : ~(now - At(l).firedAt <= groupWindow)
    BY <1>3, <2>4 DEF Walked
  <2>6. At(l).firedAt < At(i + d).firedAt
    <3>1. l \in 1..n
      BY <1>9
    <3> QED
      BY <1>7, <1>9, <2>1, <2>5, <3>1
  <2>7. l - d \in 1..(n - d) /\ l - d \in i..j /\ (l - d) + d = l
    BY <1>9, <1>11
  <2>8. At(l - d)' = At(l)
    BY <1>6, <2>7
  <2> QED
    BY <1>9, <2>6, <2>7, <2>8
<1> QED
  BY <1>4, <1>10, <1>11

LEMMA InsertKeepsInv ==
  ASSUME StoreInv, NEW a \in Anomalies, a.id = records + 1, Insert(a), now' = now, records' = records + 1
  PROVE  StoreInv'
<1>1. PICK m \in Nat :
        /\ DOMAIN alerts = 1..m /\ DOMAIN alerts' = 1..(m + 1)
        /\ alerts' \in Seq([id : Nat, at : Nat])
        /\ \A k \in 1..m : alerts'[k] = alerts[k] /\ alerts'[k].id \in DOMAIN heap /\ alerts'[k].id # a.id
        /\ alerts'[m + 1].id = a.id /\ alerts'[m + 1].at = now
  BY InsertAlerts
<1>2. PICK d \in {0, 1} : InsertShape(a, d)
  BY InsertMoves
<1>3. /\ \A id \in DOMAIN heap : heap'[id] = heap[id]
      /\ DOMAIN heap' = DOMAIN heap \cup {a.id} /\ heap' \in [DOMAIN heap' -> Card]
      /\ a.id \notin DOMAIN heap /\ Same(heap'[a.id], a)
  BY InsertHeap
<1>4. DedupMatches(a) = {} /\ MarkSeen(a)
  BY DEF Insert, Fresh, Matches
<1>5. now \in Nat /\ records \in Nat /\ a.id = records + 1 /\ a.firedAt \in Nat /\ a.firedAt <= now
  BY DEF StoreInv, StoreTypeOK, Anomalies
<1>6. StoreTypeOK'
  <2>1. DOMAIN heap' \subseteq 1..records'
    <3>1. DOMAIN heap \subseteq 1..records /\ a.id \in 1..(records + 1) /\ 1..records \subseteq 1..(records + 1)
      BY <1>5 DEF StoreInv, StoreTypeOK
    <3> QED
      BY <1>3, <3>1
  <2>2. \A id \in DOMAIN heap' : heap'[id].firedAt <= now'
    BY <1>3, <1>5 DEF StoreInv, StoreTypeOK, Same
  <2>3. \A k \in DOMAIN alerts' : alerts'[k].id \in DOMAIN heap'
    <3>1. \A k \in DOMAIN alerts' : k = m + 1 \/ k \in 1..m
      BY <1>1
    <3> QED
      BY <1>1, <1>3, <3>1
  <2>4. all' \in Seq(DOMAIN heap')
    BY <1>2 DEF InsertShape
  <2>5. SeenTyped'
    BY <1>4, MarkSeenKeeps
  <2> QED
    BY <1>1, <1>3, <1>5, <2>1, <2>2, <2>3, <2>4, <2>5 DEF StoreTypeOK, SeenTyped
<1>7. AlertsDistinct'
  <2>1. \A k \in DOMAIN alerts' : k = m + 1 \/ (k \in 1..m /\ k # m + 1)
    BY <1>1
  <2> QED
    BY <1>1, <2>1 DEF StoreInv, AlertsDistinct
<1>8. SeenSinceFired'
  <2> SUFFICES ASSUME NEW i \in DOMAIN all'
               PROVE  LET key == <<At(i)'.workload, At(i)'.template>>
                      IN /\ key \in DOMAIN lastSeen'
                         /\ lastSeen'[key] >= At(i)'.firedAt \/ now' - At(i)'.firedAt >= dedupWindow
    BY DEF SeenSinceFired
  <2>1. PICK n \in Nat : n = Len(all) /\ DOMAIN all = 1..n
    <3>1. Len(all) \in Nat /\ DOMAIN all = 1..Len(all)
      BY DEF StoreInv, StoreTypeOK
    <3> QED
      BY <3>1
  <2>2. CASE i = n - d + 1
    <3>1. Same(At(i)', a)
      BY <1>2, <1>3, <2>1, <2>2 DEF InsertShape, At
    <3>2. <<a.workload, a.template>> \in DOMAIN lastSeen' /\ lastSeen'[<<a.workload, a.template>>] = a.firedAt
      BY <1>4 DEF MarkSeen
    <3> QED
      BY <1>5, <3>1, <3>2 DEF Same
  <2>3. CASE i # n - d + 1
    <3>1. i \in 1..(n - d) /\ i + d \in DOMAIN all
      BY <1>2, <2>1, <2>3 DEF InsertShape
    <3>2. all'[i] = all[i + d] /\ all[i + d] \in DOMAIN heap
      BY <1>2, <2>1, <3>1 DEF InsertShape, StoreInv, StoreTypeOK
    <3>3. At(i)' = At(i + d)
      BY <1>3, <3>2 DEF At
    <3> QED
      BY <1>4, <3>1, <3>3, MarkSeenKeeps
  <2> QED
    BY <2>2, <2>3
<1> QED
  BY <1>6, <1>7, <1>8, InsertIndexes, InsertNoRepeat, InsertOneCard DEF StoreInv

LEMMA RecordFacts ==
  ASSUME StoreInv, RecordSome
  PROVE  /\ \E a \in Anomalies : a.id = records + 1 /\ Record(a)
         /\ now' = now /\ records' = records + 1
<1>1. PICK w \in Workload, e \in Error, lag \in 0..MaxLag :
        /\ lag <= now
        /\ Record([id |-> records + 1, workload |-> w, template |-> e[1], topic |-> e[2],
                   severity |-> Severity[e[1]], firedAt |-> now - lag, affectedPods |-> 1])
  BY DEF RecordSome
<1> DEFINE a == [id |-> records + 1, workload |-> w, template |-> e[1], topic |-> e[2],
                 severity |-> Severity[e[1]], firedAt |-> now - lag, affectedPods |-> 1]
<1>2. now \in Nat /\ records \in Nat /\ MaxLag \in Nat
  BY BoundsAssumption DEF StoreInv, StoreTypeOK
<1>3. e[1] \in Template /\ e[2] \in Topic /\ Severity[e[1]] \in Severities
  BY BoundsAssumption DEF Severities
<1>4. now - lag \in 0..now /\ records + 1 \in Nat
  BY <1>1, <1>2
<1>5. a \in Anomalies
  BY <1>3, <1>4 DEF Anomalies
<1> QED
  BY <1>1, <1>5 DEF RecordSome

LEMMA StoreStep == StoreInv /\ [Next]_vars => StoreInv'
<1> SUFFICES ASSUME StoreInv, [Next]_vars PROVE StoreInv'
  OBVIOUS
<1>1. CASE RecordSome
  <2>1. PICK a \in Anomalies : a.id = records + 1 /\ Record(a)
    BY <1>1, RecordFacts
  <2>2. now' = now /\ records' = records + 1
    BY <1>1, RecordFacts
  <2> QED
    BY <2>1, <2>2, DedupKeepsInv, GroupKeepsInv, InsertKeepsInv DEF Record
<1>2. CASE BumpSome
  BY <1>2, BumpKeepsInv
<1>3. CASE SetSome
  BY <1>3, SetKeepsInv
<1>4. CASE Tick
  BY <1>4, TickKeepsInv
<1>5. CASE UNCHANGED vars
  <2>1. KeepsCards
    BY <1>5 DEF StoreInv, StoreTypeOK, vars, storeVars, KeepsCards, Same
  <2> QED
    BY <1>5, <2>1, QuieterStep DEF vars, storeVars, StoreInv, StoreTypeOK
<1> QED
  BY <1>1, <1>2, <1>3, <1>4, <1>5 DEF Next

(* The inductive invariant of the store: types, the two indexes, distinct  *)
(* alerts, what dedup goes by, and the two properties that follow from it. *)
THEOREM StoreInvariant == Spec => []StoreInv
BY StoreInit, StoreStep, PTL DEF Spec

(* However cards are recorded, evicted and edited, the list and the map    *)
(* hold the same cards, each once, and no more than maxItems.              *)
THEOREM StoreIndexesAgree == Spec => []IndexesAgree
<1>1. StoreInv => IndexesAgree
  BY DEF StoreInv, IndexesSound
<1> QED
  BY StoreInvariant, <1>1, PTL

(* No template alerts twice within the window while its card is there.     *)
THEOREM StoreNoRepeatedAlert == Spec => []NoRepeatedAlert
<1>1. StoreInv => NoRepeatedAlert
  BY DEF StoreInv
<1> QED
  BY StoreInvariant, <1>1, PTL

(* Where cards stand in the order they fired in, a topic has one card in   *)
(* every groupWindow.                                                      *)
THEOREM StoreOneCardPerTopic == Spec => []OneCardPerTopicInOrder
<1>1. StoreInv => OneCardPerTopicInOrder
  BY DEF StoreInv
<1> QED
  BY StoreInvariant, <1>1, PTL

-----------------------------------------------------------------------------
LEMMA RecordGains ==
  ASSUME StoreInv, NEW a \in Anomalies, a.id = records + 1, Record(a), NEW id \in DOMAIN heap
  PROVE  /\ heap[id].affectedPods <= heap'[id].affectedPods
         /\ heap[id].variants \subseteq heap'[id].variants
         /\ heap'[id].state = heap[id].state
<1> DEFINE s == StoredID(a)
<1>1. heap \in [DOMAIN heap -> Card] /\ heap[id] \in Card /\ a.affectedPods \in Nat
  BY DEF StoreInv, StoreTypeOK, Anomalies
<1>2. CASE Dedup(a)
  <2>1. s \in DOMAIN heap
    BY <1>2, MatchIsStored DEF Dedup, Matches
  <2>2. heap' = [heap EXCEPT ![s].updatedAt = a.firedAt]
    BY <1>2 DEF Dedup
  <2> HIDE DEF s
  <2> QED
    BY <1>1, <2>1, <2>2 DEF Card
<1>3. CASE Group(a)
  <2>1. s \in DOMAIN heap
    BY <1>3, MatchIsStored DEF Group, Matches
  <2>2. heap' = [heap EXCEPT ![s] =
          [heap[s] EXCEPT !.variants = @ \cup ({a.template} \ {heap[s].template}),
                          !.updatedAt = a.firedAt,
                          !.affectedPods = IF a.affectedPods > @ THEN a.affectedPods ELSE @]]
    BY <1>3 DEF Group
  <2> HIDE DEF s
  <2> QED
    BY <1>1, <2>1, <2>2 DEF Card
<1>4. CASE Insert(a)
  <2>1. heap'[id] = heap[id]
    BY <1>4, InsertHeap
  <2> QED
    BY <1>1, <2>1 DEF Card
<1> QED
  BY <1>2, <1>3, <1>4 DEF Record

LEMMA BumpGains ==
  ASSUME StoreInv, BumpSome, NEW id \in DOMAIN heap
  PROVE  /\ heap[id].affectedPods <= heap'[id].affectedPods
         /\ heap[id].variants \subseteq heap'[id].variants
         /\ heap'[id].state = heap[id].state
<1>1. PICK w \in Workload, t \in Template, count \in 2..MaxPods : BumpPods(w, t, count)
  BY DEF BumpSome
<1> DEFINE bumped == all[Latest({i \in DOMAIN all : At(i).workload = w /\ At(i).template = t})]
<1>2. heap \in [DOMAIN heap -> Card] /\ heap[id] \in Card /\ count \in Nat
  BY DEF StoreInv, StoreTypeOK
<1>3. \/ heap' = heap
      \/ /\ count > heap[bumped].affectedPods
         /\ heap' = [heap EXCEPT ![bumped].affectedPods = count, ![bumped].updatedAt = now]
  BY <1>1 DEF BumpPods
<1> HIDE DEF bumped
<1> QED
  BY <1>2, <1>3 DEF Card

(* A step takes nothing from a card but what the user takes: pods and      *)
(* variants only grow, and only SetState changes a state.                  *)
THEOREM StoreCardsOnlyGain == Spec => CardsOnlyGain
<1>1. ASSUME StoreInv, [Next]_vars, vars' # vars, NEW id \in DOMAIN heap
      PROVE  Gains(heap[id], heap'[id])
  <2>1. heap \in [DOMAIN heap -> Card] /\ heap[id] \in Card /\ records \in Nat
    BY <1>1 DEF StoreInv, StoreTypeOK
  <2>2. CASE RecordSome
    BY <1>1, <2>2, RecordFacts, RecordGains DEF Gains
  <2>3. CASE BumpSome
    BY <1>1, <2>3, BumpGains DEF Gains
  <2>4. CASE SetSome
    <3>1. PICK c \in byID, state \in State : SetState(c, state)
      BY <2>4 DEF SetSome
    <3>2. heap' = [heap EXCEPT ![c].state = state, ![c].updatedAt = now] /\ records' = records
      BY <2>4, <3>1 DEF SetSome, SetState
    <3> QED
      BY <2>1, <3>2 DEF Gains, Card
  <2>5. CASE Tick
    BY <2>1, <2>5 DEF Tick, storeVars, Gains, Card
  <2> QED
    BY <1>1, <2>2, <2>3, <2>4, <2>5 DEF Next
<1>2. StoreInv /\ [Next]_vars => [\A id \in DOMAIN heap : Gains(heap[id], heap'[id])]_vars
  BY <1>1
<1> QED
  BY StoreInvariant, <1>2, PTL DEF Spec, CardsOnlyGain

-----------------------------------------------------------------------------
(* The primary incident of the summary.                                    *)

LEMMA MaxIsGreatest ==
  ASSUME NEW S, S \subseteq Int, S # {}, NEW b \in Int, \A x \in S : x <= b
  PROVE  Max(S) \in S /\ \A x \in S : x <= Max(S)
<1>1. \E m \in S : \A x \in S : m >= x
  <2>1. PICK m \in S : \A x \in S : x <= m
    BY IntMax
  <2> QED
    BY <2>1
<1>2. Max(S) \in S /\ \A x \in S : Max(S) >= x
  BY <1>1 DEF Max
<1> QED
  BY <1>2

LEMMA MaxWithZero ==
  ASSUME NEW x \in Int
  PROVE  Max({0, x}) = IF x > 0 THEN x ELSE 0
<1>1. \A y \in {0, x} : y <= IF x > 0 THEN x ELSE 0
  OBVIOUS
<1>2. Max({0, x}) \in {0, x} /\ \A y \in {0, x} : y <= Max({0, x})
  <2>1. {0, x} \subseteq Int /\ {0, x} # {} /\ (IF x > 0 THEN x ELSE 0) \in Int
    OBVIOUS
  <2> QED
    BY <1>1, <2>1, MaxIsGreatest
<1> QED
  BY <1>2

(* The cards a handler gets are of the store, and none is of the future.   *)
AreCards(cards) ==
  \E n \in Nat : /\ DOMAIN cards = 1..n
                 /\ \A i \in 1..n : cards[i] \in Card /\ cards[i].firedAt <= now

LEMMA CardsAreCards == StoreInv => AreCards(Cards) /\ now \in Nat
<1> SUFFICES ASSUME StoreInv PROVE AreCards(Cards) /\ now \in Nat
  OBVIOUS
<1>1. /\ Len(all) \in Nat /\ DOMAIN all = 1..Len(all) /\ now \in Nat
      /\ \A i \in DOMAIN all : all[i] \in DOMAIN heap /\ At(i) \in Card /\ At(i).firedAt <= now
  BY DEF StoreInv, StoreTypeOK, At
<1>2. \A i \in 1..Len(all) : Len(all) + 1 - i \in 1..Len(all)
  BY <1>1
<1>3. DOMAIN Cards = 1..Len(all) /\ \A i \in 1..Len(all) : Cards[i] = At(Len(all) + 1 - i)
  BY <1>1 DEF Cards
<1> QED
  BY <1>1, <1>2, <1>3 DEF AreCards

LEMMA RankIsSmall == ASSUME NEW s \in Severities PROVE severityRank(s) \in 1..4
BY DEF severityRank, Severities

(* A severity is worth more than all that is added to it.                  *)
LEMMA RankBounds ==
  ASSUME NEW card \in Card, NEW t \in Nat, card.firedAt <= t, NEW b \in Bonus
  PROVE  /\ PrimaryRank(card, t, b) \in Int
         /\ severityRank(card.severity) * 100 <= PrimaryRank(card, t, b)
         /\ PrimaryRank(card, t, b) <= severityRank(card.severity) * 100 + 80
<1>1. severityRank(card.severity) \in 1..4 /\ card.firedAt \in Nat
  BY RankIsSmall DEF Card
<1>2. b \in 0..70
  BY DEF Bonus
<1>3. Max({0, 10 - (t - card.firedAt)}) \in 0..10
  <2>1. 10 - (t - card.firedAt) \in Int /\ 10 - (t - card.firedAt) <= 10
    BY <1>1
  <2> QED
    BY <2>1, MaxWithZero
<1> QED
  BY <1>1, <1>2, <1>3 DEF PrimaryRank

(* The highest rank exists, and among those that have it there is a first. *)
LEMMA PrimaryExists ==
  ASSUME NEW A \in SUBSET Nat, A # {}, NEW r, NEW b \in Int, \A i \in A : r[i] \in Int /\ r[i] <= b
  PROVE  \E i \in A : \A j \in A \ {i} : r[i] > r[j] \/ (r[i] = r[j] /\ i < j)
<1> DEFINE R == {r[i] : i \in A}
<1>1. R \subseteq Int /\ R # {} /\ \A x \in R : x <= b
  OBVIOUS
<1>2. PICK m \in R : \A x \in R : x <= m
  BY <1>1, IntMax
<1> DEFINE B == {i \in A : r[i] = m}
<1>3. B \subseteq Nat /\ B # {}
  OBVIOUS
<1>4. PICK i \in B : \A j \in B : i <= j
  BY <1>3, NatMin
<1>5. ASSUME NEW j \in A \ {i} PROVE r[i] > r[j] \/ (r[i] = r[j] /\ i < j)
  <2>1. r[j] \in R /\ r[i] = m /\ r[j] \in Int /\ m \in Int /\ i \in Nat /\ j \in Nat
    BY <1>1
  <2>2. r[j] <= m
    BY <1>2, <2>1
  <2>3. r[j] = m => i <= j
    BY <1>4
  <2> QED
    BY <2>1, <2>2, <2>3
<1> QED
  BY <1>5

LEMMA WorstIsPrimary ==
  ASSUME now \in Nat, NEW cards, AreCards(cards), NEW i \in DOMAIN cards, NEW j \in DOMAIN cards,
         severityRank(cards[i].severity) < severityRank(cards[j].severity),
         {i, j} \subseteq ActiveOnes(cards, now), NEW bonus \in [ActiveOnes(cards, now) -> Bonus]
  PROVE  PrimaryIncident(cards, now, bonus) # i
<1> DEFINE A == ActiveOnes(cards, now)
           r == [k \in A |-> PrimaryRank(cards[k], now, bonus[k])]
           First(k) == \A l \in A \ {k} : r[k] > r[l] \/ (r[k] = r[l] /\ k < l)
<1>1. A \subseteq Nat /\ A \subseteq DOMAIN cards /\ i \in A /\ j \in A
      /\ \A k \in A : cards[k] \in Card /\ cards[k].firedAt <= now
  BY DEF AreCards, ActiveOnes, Counted
<1>2. \A k \in A : /\ r[k] \in Int /\ r[k] <= 480
                   /\ severityRank(cards[k].severity) \in 1..4
                   /\ severityRank(cards[k].severity) * 100 <= r[k]
                   /\ r[k] <= severityRank(cards[k].severity) * 100 + 80
  <2> SUFFICES ASSUME NEW k \in A
               PROVE  /\ r[k] \in Int /\ r[k] <= 480
                      /\ severityRank(cards[k].severity) \in 1..4
                      /\ severityRank(cards[k].severity) * 100 <= r[k]
                      /\ r[k] <= severityRank(cards[k].severity) * 100 + 80
    OBVIOUS
  <2>1. severityRank(cards[k].severity) \in 1..4
    BY <1>1, RankIsSmall DEF Card
  <2>2. bonus[k] \in Bonus /\ cards[k] \in Card /\ cards[k].firedAt <= now
    BY <1>1
  <2>3. /\ PrimaryRank(cards[k], now, bonus[k]) \in Int
        /\ severityRank(cards[k].severity) * 100 <= PrimaryRank(cards[k], now, bonus[k])
        /\ PrimaryRank(cards[k], now, bonus[k]) <= severityRank(cards[k].severity) * 100 + 80
    BY <2>2, RankBounds
  <2>4. r[k] = PrimaryRank(cards[k], now, bonus[k])
    OBVIOUS
  <2> HIDE DEF r, A
  <2> QED
    BY <2>1, <2>3, <2>4
<1>3. PrimaryIncident(cards, now, bonus) = CHOOSE k \in A : First(k)
  BY DEF PrimaryIncident
<1> HIDE DEF r, A
<1>4. \E k \in A : First(k)
  <2>1. A # {} /\ A \in SUBSET Nat /\ 480 \in Int
    BY <1>1
  <2>2. \A k \in A : r[k] \in Int /\ r[k] <= 480
    BY <1>2
  <2> QED
    BY <2>1, <2>2, PrimaryExists, SMTT(60)
<1> DEFINE p == CHOOSE k \in A : First(k)
<1>5. p \in A /\ First(p)
  BY <1>4
<1>6. ~First(i)
  <2> DEFINE si == severityRank(cards[i].severity)
             sj == severityRank(cards[j].severity)
  <2>1. /\ si \in 1..4 /\ sj \in 1..4 /\ si < sj /\ r[i] \in Int /\ r[j] \in Int
        /\ r[i] <= si * 100 + 80 /\ sj * 100 <= r[j]
    BY <1>1, <1>2
  <2> HIDE DEF si, sj
  <2>2. r[i] < r[j]
    BY <2>1
  <2>3. i # j
    BY <2>1, <2>2
  <2>4. j \in A \ {i}
    BY <1>1, <2>3
  <2> QED
    BY <2>1, <2>2, <2>4
<1> QED
  BY <1>3, <1>5, <1>6

(* The overview opens with an incident of the worst severity there is, for *)
(* any cards and whatever rca.Fill made of them.                           *)
THEOREM OverviewPrimaryIsWorst == Spec => []PrimaryIsWorst
<1>1. StoreInv => PrimaryIsWorst
  BY CardsAreCards, WorstIsPrimary DEF PrimaryIsWorst
<1> QED
  BY StoreInvariant, <1>1, PTL

=============================================================================
