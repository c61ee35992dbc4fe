-------------------------- MODULE Watchers_proofs --------------------------
(***************************************************************************)
(* The four watchers, for any pods, objects, events, managers and lengths  *)
(* of their rings, any number of writes and any lag of the informers.      *)
(***************************************************************************)
EXTENDS Watchers, FiniteSetTheorems, FunctionTheorems, SequenceTheorems,
        WellFoundedInduction, TLAPS

-----------------------------------------------------------------------------
(* The elements at some positions of a sequence.                           *)
Rank(I, i) == Cardinality({j \in I : j <= i})

LEMMA RankFacts ==
  ASSUME NEW I, I \subseteq Nat, IsFiniteSet(I)
  PROVE  /\ Cardinality(I) \in Nat
         /\ \A i \in I : Rank(I, i) \in 1..Cardinality(I)
         /\ \A i, j \in I : i < j => Rank(I, i) < Rank(I, j)
         /\ \A n \in 1..Cardinality(I) : \E i \in I : Rank(I, i) = n
<1> DEFINE Below(i) == {j \in I : j <= i}
<1>1. Cardinality(I) \in Nat
  BY FS_CardinalityType
<1>2. ASSUME NEW i \in I
      PROVE  IsFiniteSet(Below(i)) /\ Rank(I, i) \in 1..Cardinality(I)
  <2>1. Below(i) \in SUBSET I /\ i \in Below(i)
    OBVIOUS
  <2>2. IsFiniteSet(Below(i)) /\ Cardinality(Below(i)) <= Cardinality(I)
    BY <2>1, FS_Subset
  <2>3. Cardinality(Below(i)) \in Nat /\ Cardinality(Below(i)) # 0
    BY <2>1, <2>2, FS_CardinalityType, FS_EmptySet
  <2> QED
    BY <1>1, <2>2, <2>3 DEF Rank
<1>3. ASSUME NEW i \in I, NEW j \in I, i < j PROVE Rank(I, i) < Rank(I, j)
  <2>0. i \in Nat /\ j \in Nat /\ I \subseteq Nat
    OBVIOUS
  <2>4. \A k \in Nat : k <= i => k <= j
    BY <1>3, <2>0
  <2>5. j <= j /\ ~(j <= i)
    BY <1>3, <2>0
  <2>1. Below(i) \in SUBSET Below(j) /\ j \in Below(j) /\ j \notin Below(i)
    BY <2>0, <2>4, <2>5, Zenon
  <2>2. Cardinality(Below(i)) <= Cardinality(Below(j))
        /\ Cardinality(Below(i)) # Cardinality(Below(j))
    BY <1>2, <2>1, FS_Subset
  <2>3. Cardinality(Below(i)) \in Nat /\ Cardinality(Below(j)) \in Nat
    BY <1>2, FS_CardinalityType
  <2> QED
    BY <2>2, <2>3 DEF Rank
<1>4. ASSUME NEW n \in 1..Cardinality(I) PROVE \E i \in I : Rank(I, i) = n
  <2> DEFINE rank == [i \in I |-> Rank(I, i)]
             T == 1..Cardinality(I)
  <2>1. rank \in [I -> T]
    BY <1>2
  <2>2. ASSUME NEW i \in I, NEW j \in I, rank[i] = rank[j] PROVE i = j
    <3>0. Rank(I, i) \in 1..Cardinality(I) /\ Cardinality(I) \in Nat
      BY <1>1, <1>2
    <3>1. Rank(I, i) \in Nat /\ i \in Nat /\ j \in Nat
      BY <3>0
    <3>2. Rank(I, i) = Rank(I, j)
      BY <2>2
    <3>3. ~(i < j) /\ ~(j < i)
      BY <1>3, <3>1, <3>2
    <3> QED
      BY <3>1, <3>3
  <2>3. rank \in Injection(I, T)
    BY <2>1, <2>2 DEF Injection, IsInjective
  <2>4. IsFiniteSet(T) /\ Cardinality(T) = Cardinality(I)
    BY <1>1, FS_Interval
  <2>5. rank \in Surjection(I, T)
    BY <2>3, <2>4, FS_Injection
  <2> QED
    BY <2>5 DEF Surjection
<1> QED
  BY <1>1, <1>2, <1>3, <1>4

\* What stands at a position of the result stood at one of the positions, and
\* what stood at one of them stands in the result.
LEMMA AtPositionsFacts ==
  ASSUME NEW T, NEW s \in Seq(T), NEW I \in SUBSET (DOMAIN s)
  PROVE  /\ AtPositions(s, I) \in Seq(T)
         /\ Len(AtPositions(s, I)) = Cardinality(I)
         /\ Cardinality(I) <= Len(s)
         /\ \A n \in DOMAIN AtPositions(s, I) :
              \E i \in I : AtPositions(s, I)[n] = s[i] /\ Rank(I, i) = n
         /\ \A i \in I : /\ Rank(I, i) \in DOMAIN AtPositions(s, I)
                         /\ AtPositions(s, I)[Rank(I, i)] = s[i]
<1> DEFINE A == AtPositions(s, I)
           at(n) == CHOOSE i \in I : Cardinality({j \in I : j <= i}) = n
<1>1. DOMAIN s = 1..Len(s) /\ Len(s) \in Nat /\ I \subseteq Nat
  OBVIOUS
<1>2. IsFiniteSet(I) /\ Cardinality(I) <= Len(s)
  <2>1. IsFiniteSet(1..Len(s)) /\ Cardinality(1..Len(s)) = Len(s)
    BY <1>1, FS_Interval
  <2> QED
    BY <1>1, <2>1, FS_Subset
<1>3. Cardinality(I) \in Nat
  BY <1>2, FS_CardinalityType
<1>4. ASSUME NEW n \in 1..Cardinality(I) PROVE at(n) \in I /\ Rank(I, at(n)) = n
  <2>1. \E i \in I : Cardinality({j \in I : j <= i}) = n
    BY <1>1, <1>2, RankFacts DEF Rank
  <2> QED
    BY <2>1 DEF Rank
<1>5. DOMAIN A = 1..Cardinality(I) /\ \A n \in 1..Cardinality(I) : A[n] = s[at(n)]
  BY DEF AtPositions
<1> HIDE DEF A, at
<1>6. A \in Seq(T) /\ Len(A) = Cardinality(I)
  <2>1. \A n \in 1..Cardinality(I) : A[n] \in T
    BY <1>1, <1>4, <1>5
  <2>2. A = [n \in 1..Cardinality(I) |-> A[n]]
    BY <1>5 DEF A, AtPositions
  <2> QED
    BY <1>3, <2>1, <2>2
<1>7. \A n \in DOMAIN A : \E i \in I : A[n] = s[i] /\ Rank(I, i) = n
  BY <1>4, <1>5
<1>8. ASSUME NEW i \in I PROVE Rank(I, i) \in DOMAIN A /\ A[Rank(I, i)] = s[i]
  <2> DEFINE n == Rank(I, i)
  <2>1. n \in 1..Cardinality(I)
    BY <1>1, <1>2, RankFacts
  <2>2. at(n) \in I /\ Rank(I, at(n)) = n /\ n \in Nat
    BY <1>4, <2>1
  <2>3. \A x, y \in I : x < y => Rank(I, x) < Rank(I, y)
    BY <1>1, <1>2, RankFacts
  <2>4. ~(at(n) < i) /\ ~(i < at(n))
    BY <2>2, <2>3
  <2>5. at(n) = i
    BY <1>1, <2>2, <2>4
  <2> QED
    BY <1>5, <2>1, <2>5
<1> QED
  BY <1>2, <1>6, <1>7, <1>8 DEF A

\* A push keeps what it does not shift out.
LEMMA PushFacts ==
  ASSUME NEW T, NEW s \in Seq(T), NEW e \in T, NEW max \in Nat \ {0}, Len(s) <= max
  PROVE  /\ Push(s, e, max) \in Seq(T)
         /\ Len(Push(s, e, max)) \in 1..max
         /\ Push(s, e, max)[Len(Push(s, e, max))] = e
         /\ Len(s) < max => /\ Push(s, e, max) = Append(s, e)
                            /\ Len(Push(s, e, max)) = Len(s) + 1
                            /\ \A i \in 1..Len(s) : Push(s, e, max)[i] = s[i]
         /\ Len(s) = max => /\ Len(Push(s, e, max)) = Len(s)
                            /\ \A i \in 1..(Len(s) - 1) : Push(s, e, max)[i] = s[i + 1]
<1>1. Len(s) \in Nat
  OBVIOUS
<1>2. CASE Len(s) < max
  <2>1. Push(s, e, max) = Append(s, e)
    BY <1>1, <1>2 DEF Push
  <2> QED
    BY <1>1, <1>2, <2>1
<1>3. CASE Len(s) = max
  <2>1. Push(s, e, max) = Append(Tail(s), e)
    BY <1>1, <1>3 DEF Push
  <2>2. /\ s # <<>> /\ Tail(s) \in Seq(T) /\ Len(Tail(s)) = Len(s) - 1
        /\ \A i \in 1..(Len(s) - 1) : Tail(s)[i] = s[i + 1]
    BY <1>1, <1>3
  <2> QED
    BY <1>1, <1>3, <2>1, <2>2
<1> QED
  BY <1>1, <1>2, <1>3

\* What stood in the ring moves down by one, or not at all.
LEMMA Pushed ==
  ASSUME NEW T, NEW s \in Seq(T), NEW e \in T, NEW max \in Nat \ {0}, Len(s) <= max
  PROVE  \E d \in {0, 1} : /\ Len(Push(s, e, max)) = Len(s) + 1 - d
                           /\ \A i \in 1..(Len(Push(s, e, max)) - 1) : Push(s, e, max)[i] = s[i + d]
                           /\ d = 1 <=> Len(s) = max
<1> DEFINE g == Push(s, e, max)  n == Len(s)
<1>1. n \in Nat
  OBVIOUS
<1>2. CASE n < max
  <2>1. Len(g) = n + 1 /\ \A i \in 1..n : g[i] = s[i]
    BY <1>2, PushFacts
  <2> QED
    BY <1>1, <1>2, <2>1
<1>3. CASE n = max
  <2>1. Len(g) = n /\ \A i \in 1..(n - 1) : g[i] = s[i + 1]
    BY <1>3, PushFacts
  <2> QED
    BY <1>1, <1>3, <2>1
<1> QED
  BY <1>1, <1>2, <1>3

-----------------------------------------------------------------------------
(* The cache.                                                              *)
CacheTypes ==
  /\ rsApi \subseteq ReplicaSet /\ rsQ \subseteq ReplicaSet
  /\ DOMAIN rsOwners \subseteq ReplicaSet
  /\ \A r \in DOMAIN rsOwners : rsOwners[r] = ParentOf[r]
  /\ \A w \in DOMAIN rollouts : rollouts[w] \in ReplicaSet
  /\ rsAdding \in ReplicaSet \cup {None}
  /\ DOMAIN adding = {"informer", "run"}
  /\ \A g \in {"informer", "run"} : adding[g] # None => adding[g].owner \in Owner
  /\ \A p \in DOMAIN podMountIndex : podMountIndex[p].owner \in Owner
  /\ walk # None => \A x \in walk : x.pod \in Pod

CacheInv == CacheTypes /\ RolloutIsNewest

Watched == <<rsApi, rsQ, rsOwners, rollouts, rsAdding, adding, podMountIndex, walk>>

LEMMA CacheInitially ==
  ASSUME Init PROVE CacheInv
<1>1. Watched = <<{}, {}, Empty, Empty, None, [g \in {"informer", "run"} |-> None], Empty, None>>
  BY DEF Init, CacheInit, Watched
<1> QED
  BY <1>1 DEF Watched, CacheInv, CacheTypes, RolloutIsNewest, Empty

LEMMA CacheStepKinds ==
  ASSUME [Next]_vars
  PROVE  \/ UNCHANGED Watched
         \/ \E r \in ReplicaSet : CreateReplicaSet(r) \/ RSNotification(r)
         \/ Resync
         \/ \E p \in Pod : PodNotification(p)
         \/ CacheStep
<1>1. CASE UNCHANGED vars
  BY <1>1 DEF vars, env, api, queues, watchers, cacheVars, Watched
<1>2. CASE \E p \in Pod : WritePod(p) \/ DeletePod(p)
  BY <1>2 DEF WritePod, DeletePod, watchers, cacheVars, Watched
<1>3. CASE \E c \in Config : DeleteConfig(c)
  BY <1>3 DEF DeleteConfig, queues, cacheVars, Watched
<1>4. CASE \E c \in Config : AuditResync(c)
  BY <1>4 DEF AuditResync, env, api, queues, cacheVars, Watched
<1>5. CASE \E c \in Config, d \in Data, m \in Manager : WriteConfig(c, d, m)
  BY <1>5 DEF WriteConfig, cacheVars, Watched
<1>6. CASE \E e \in Event : WriteEvent(e)
  BY <1>6 DEF WriteEvent, watchers, cacheVars, Watched
<1>7. CASE Tick
  BY <1>7 DEF Tick, api, queues, watchers, cacheVars, Watched
<1>8. CASE \E c \in Config : ConfigNotification(c)
  BY <1>8 DEF ConfigNotification, api, cacheVars, Watched
<1>9. CASE \E k \in {"ConfigMap", "Secret"} : ConfigStep(k)
  BY <1>9 DEF ConfigStep, env, api, queues, cacheVars, Watched
<1>10. CASE EventNotification
  BY <1>10 DEF EventNotification, api, cacheVars, Watched
<1> QED
  BY <1>1, <1>2, <1>3, <1>4, <1>5, <1>6, <1>7, <1>8, <1>9, <1>10 DEF Next, Handle

LEMMA ResolvedOwners ==
  ASSUME CacheTypes, NEW p \in Pod
  PROVE  resolveOwner(p) \in Owner
BY DEF CacheTypes, resolveOwner, Owner

LEMMA BegunPodAdd ==
  ASSUME CacheTypes, NEW g \in {"informer", "run"}, NEW p \in Pod, NEW n, BeginPodAdd(g, p, n)
  PROVE  /\ DOMAIN adding' = {"informer", "run"}
         /\ \A h \in {"informer", "run"} : adding'[h] # None => adding'[h].owner \in Owner
<1>1. resolveOwner(p) \in Owner
  BY ResolvedOwners
<1> QED
  BY <1>1 DEF CacheTypes, BeginPodAdd

LEMMA CacheTypesKept ==
  ASSUME CacheTypes, [Next]_vars PROVE CacheTypes'
<1> USE DEF CacheTypes
<1>1. CASE UNCHANGED Watched
  BY <1>1 DEF Watched
<1>2. ASSUME NEW r \in ReplicaSet, CreateReplicaSet(r) PROVE CacheTypes'
  BY <1>2 DEF CreateReplicaSet, watchers, cacheVars
<1>3. ASSUME NEW r \in ReplicaSet, RSNotification(r) PROVE CacheTypes'
  <2>1. /\ rsOwners' = Put(rsOwners, r, ParentOf[r])
        /\ rsAdding' = IF CreatedAt[r] = 0 THEN None ELSE r
        /\ rsQ' \subseteq rsQ
        /\ UNCHANGED <<rsApi, rollouts, adding, podMountIndex, walk>>
    BY <1>3 DEF RSNotification, BeginRSAdd, api
  <2>2. DOMAIN rsOwners' \subseteq ReplicaSet /\ \A x \in DOMAIN rsOwners' : rsOwners'[x] = ParentOf[x]
    BY <2>1 DEF Put
  <2> QED
    BY <2>1, <2>2
<1>4. CASE Resync
  BY <1>4 DEF Resync, api, watchers, cacheVars
<1>5. ASSUME NEW p \in Pod, PodNotification(p) PROVE CacheTypes'
  <2> DEFINE n == Head(podQ[p])
  <2>1. UNCHANGED <<rsApi, rsQ>>
    BY <1>5 DEF PodNotification, api
  <2>2. CASE onPodDelete(p, n = Tombstone)
    BY <2>1, <2>2 DEF onPodDelete
  <2>3. CASE /\ BeginPodAdd("informer", p, n)
             /\ UNCHANGED <<pods, podMountIndex, rsOwners, rollouts, rsAdding, walk>>
    <3>1. /\ DOMAIN adding' = {"informer", "run"}
          /\ \A h \in {"informer", "run"} : adding'[h] # None => adding'[h].owner \in Owner
      BY <2>3, BegunPodAdd
    <3> QED
      BY <2>1, <2>3, <3>1
  <2> QED
    BY <1>5, <2>2, <2>3 DEF PodNotification
<1>6. ASSUME NEW g \in {"informer", "run"}, EndPodAdd(g), UNCHANGED env PROVE CacheTypes'
  <2>1. UNCHANGED <<rsApi, rsQ, rsOwners, rollouts, rsAdding, walk>>
    BY <1>6 DEF EndPodAdd, env, api, queues
  <2>2. DOMAIN adding' = {"informer", "run"}
        /\ \A h \in {"informer", "run"} : adding'[h] # None => adding'[h].owner \in Owner
    BY <1>6 DEF EndPodAdd
  <2>3. adding[g] # None /\ podMountIndex' = Put(podMountIndex, adding[g].pod, [owner |-> adding[g].owner,
                                     mounts |-> MountsOf[adding[g].pod]])
    BY <1>6 DEF EndPodAdd
  <2>4. \A q \in DOMAIN podMountIndex' : podMountIndex'[q].owner \in Owner
    BY <2>3 DEF Put
  <2> QED
    BY <2>1, <2>2, <2>4
<1>7. CASE EndRSAdd /\ UNCHANGED env
  <2>1. UNCHANGED <<rsApi, rsQ, rsOwners, adding, podMountIndex, walk>> /\ rsAdding' = None
    BY <1>7 DEF EndRSAdd, env, api, queues
  <2>2. \A w \in DOMAIN rollouts' : rollouts'[w] \in ReplicaSet
    BY <1>7 DEF EndRSAdd, Put
  <2> QED
    BY <2>1, <2>2
<1>8. CASE BeginWalk(PodsListed) /\ UNCHANGED env
  <2>1. \A x \in PodsListed : x.pod \in Pod
    BY DEF PodsListed
  <2> QED
    BY <1>8, <2>1 DEF BeginWalk, env, api, queues
<1>9. CASE WalkPod /\ UNCHANGED env
  <2>1. PICK x \in walk : walk' = walk \ {x} /\ BeginPodAdd("run", x.pod, x.rev)
    BY <1>9 DEF WalkPod
  <2>2. walk # None /\ x.pod \in Pod
    BY <1>9, <2>1 DEF WalkPod
  <2>3. /\ DOMAIN adding' = {"informer", "run"}
        /\ \A h \in {"informer", "run"} : adding'[h] # None => adding'[h].owner \in Owner
    BY <2>1, <2>2, BegunPodAdd
  <2>4. UNCHANGED <<rsApi, rsQ, rsOwners, rollouts, rsAdding, podMountIndex>>
    BY <1>9 DEF WalkPod, env, api, queues
  <2> QED
    BY <2>1, <2>2, <2>3, <2>4
<1> QED
  BY <1>1, <1>2, <1>3, <1>4, <1>5, <1>6, <1>7, <1>8, <1>9, CacheStepKinds DEF CacheStep

LEMMA RolloutIsNewestKept ==
  ASSUME CacheInv, [Next]_vars PROVE RolloutIsNewest'
<1> USE DEF RolloutIsNewest
<1>1. CASE UNCHANGED <<rsOwners, rsAdding, rollouts>>
  BY <1>1 DEF CacheInv
<1>2. ASSUME NEW r \in ReplicaSet, RSNotification(r) PROVE RolloutIsNewest'
  <2>1. /\ rsOwners' = Put(rsOwners, r, ParentOf[r])
        /\ rsAdding' = IF CreatedAt[r] = 0 THEN None ELSE r
        /\ rsAdding = None /\ rollouts' = rollouts
    BY <1>2 DEF RSNotification, BeginRSAdd
  <2>2. SUFFICES ASSUME NEW x \in DOMAIN rsOwners' \ {rsAdding'}, CreatedAt[x] # 0
                 PROVE  /\ RolloutOf(x) \in DOMAIN rollouts
                        /\ CreatedAt[rollouts[RolloutOf(x)]] >= CreatedAt[x]
    BY <2>1
  <2>3. x # r
    BY <2>1, <2>2
  <2>4. x \in DOMAIN rsOwners \ {rsAdding}
    BY <2>1, <2>2, <2>3, CacheAssumption DEF Put, CacheInv, CacheTypes
  <2> QED
    BY <2>2, <2>4 DEF CacheInv
<1>3. CASE EndRSAdd
  <2> DEFINE r == rsAdding  w == RolloutOf(r)
  <2>1. r \in ReplicaSet /\ rsAdding' = None /\ rsOwners' = rsOwners
        /\ rollouts' = IF Newer(r) THEN Put(rollouts, w, r) ELSE rollouts
    BY <1>3 DEF EndRSAdd, CacheInv, CacheTypes
  <2>2. SUFFICES ASSUME NEW x \in DOMAIN rsOwners, CreatedAt[x] # 0
                 PROVE  /\ RolloutOf(x) \in DOMAIN rollouts'
                        /\ CreatedAt[rollouts'[RolloutOf(x)]] >= CreatedAt[x]
    BY <2>1
  <2>3. /\ x \in ReplicaSet /\ CreatedAt[x] \in Nat /\ CreatedAt[r] \in Nat
        /\ \A v \in DOMAIN rollouts : CreatedAt[rollouts[v]] \in Nat
    BY <2>1, CacheAssumption DEF CacheInv, CacheTypes
  <2>4. x # r => /\ RolloutOf(x) \in DOMAIN rollouts
                 /\ CreatedAt[rollouts[RolloutOf(x)]] >= CreatedAt[x]
    BY <2>2 DEF CacheInv
  <2>5. CASE Newer(r)
    <3>1. DOMAIN rollouts' = DOMAIN rollouts \cup {w} /\ rollouts'[w] = r
          /\ \A v \in DOMAIN rollouts : v # w => rollouts'[v] = rollouts[v]
      BY <2>1, <2>5 DEF Put
    <3>2. w \in DOMAIN rollouts => CreatedAt[r] > CreatedAt[rollouts[w]]
      BY <2>5 DEF Newer
    <3>3. CASE RolloutOf(x) = w
      BY <2>3, <2>4, <3>1, <3>2, <3>3
    <3>4. CASE RolloutOf(x) # w
      BY <2>4, <3>1, <3>4
    <3> QED
      BY <3>3, <3>4
  <2>6. CASE ~Newer(r)
    <3>1. w \in DOMAIN rollouts /\ ~(CreatedAt[r] > CreatedAt[rollouts[w]])
      BY <2>6 DEF Newer
    <3> QED
      BY <2>1, <2>3, <2>4, <2>6, <3>1
  <2> QED
    BY <2>5, <2>6
<1>4. CASE UNCHANGED Watched
  BY <1>1, <1>4 DEF Watched
<1>5. CASE \E r \in ReplicaSet : CreateReplicaSet(r)
  BY <1>1, <1>5 DEF CreateReplicaSet, watchers, cacheVars
<1>6. CASE Resync
  BY <1>1, <1>6 DEF Resync, watchers, cacheVars
<1>7. CASE \E p \in Pod : PodNotification(p)
  BY <1>1, <1>7 DEF PodNotification, onPodDelete
<1>8. CASE EndPodAdd("informer") \/ EndPodAdd("run") \/ BeginWalk(PodsListed) \/ WalkPod
  BY <1>1, <1>8 DEF EndPodAdd, BeginWalk, WalkPod
<1> QED
  BY <1>2, <1>3, <1>4, <1>5, <1>6, <1>7, <1>8, CacheStepKinds DEF CacheStep

LEMMA CacheAlways == Spec => []CacheInv
<1>1. Init => CacheInv
  BY CacheInitially
<1>2. CacheInv /\ [Next]_vars => CacheInv'
  BY CacheTypesKept, RolloutIsNewestKept DEF CacheInv
<1> QED
  BY <1>1, <1>2, PTL DEF Spec

(* In whatever order ReplicaSets are reported, and reported again, and      *)
(* whatever other goroutines do between the two sections of onRSAdd, the    *)
(* rollout kept for a workload is the latest created of those processed.    *)
THEOREM RolloutsNewest == Spec => []RolloutIsNewest
<1>1. CacheInv => RolloutIsNewest
  BY DEF CacheInv
<1> QED
  BY <1>1, CacheAlways, PTL
-----------------------------------------------------------------------------
(* What the API server holds.                                              *)
LEMMA InsertAtFacts ==
  ASSUME NEW T, NEW s \in Seq(T), NEW e \in T, NEW i \in 1..(Len(s) + 1)
  PROVE  /\ InsertAt(s, i, e) \in Seq(T)
         /\ Len(InsertAt(s, i, e)) = Len(s) + 1
         /\ InsertAt(s, i, e)[i] = e
         /\ \A j \in 1..(Len(s) + 1) : j # i => \E k \in 1..Len(s) : InsertAt(s, i, e)[j] = s[k]
<1> DEFINE a == SubSeq(s, 1, i - 1)  b == SubSeq(s, i, Len(s))
<1>1. Len(s) \in Nat /\ i \in Nat /\ i >= 1 /\ i <= Len(s) + 1
  OBVIOUS
<1>2. /\ a \in Seq(T) /\ Len(a) = i - 1
      /\ \A j \in 1..(i - 1) : a[j] = s[j]
  BY <1>1
<1>3. /\ b \in Seq(T) /\ Len(b) = Len(s) - i + 1
      /\ \A j \in 1..(Len(s) - i + 1) : b[j] = s[j + i - 1]
  BY <1>1
<1> HIDE DEF a, b
<1>4. InsertAt(s, i, e) = (a \o <<e>>) \o b
  BY DEF InsertAt, a, b
<1> DEFINE c == a \o <<e>>
<1>5. /\ c \in Seq(T) /\ Len(c) = i /\ c[i] = e
      /\ \A j \in 1..(i - 1) : c[j] = s[j]
  BY <1>1, <1>2
<1> HIDE DEF c
<1>6. /\ c \o b \in Seq(T) /\ Len(c \o b) = Len(s) + 1
      /\ \A j \in 1..i : (c \o b)[j] = c[j]
      /\ \A j \in (i + 1)..(Len(s) + 1) : (c \o b)[j] = b[j - i]
  BY <1>1, <1>3, <1>5
<1>7. ASSUME NEW j \in 1..(Len(s) + 1), j # i
      PROVE  \E k \in 1..Len(s) : (c \o b)[j] = s[k]
  <2>1. CASE j < i
    <3>1. j \in 1..(i - 1) /\ j \in 1..i /\ j \in 1..Len(s)
      BY <1>1, <2>1
    <3> QED
      BY <1>5, <1>6, <3>1
  <2>2. CASE j > i
    <3>1. /\ j \in (i + 1)..(Len(s) + 1) /\ (j - i) \in 1..(Len(s) - i + 1)
          /\ (j - i) + i - 1 = j - 1 /\ j - 1 \in 1..Len(s)
      BY <1>1, <2>2
    <3>2. b[j - i] = s[j - 1]
      BY <1>3, <3>1
    <3> QED
      BY <1>6, <3>1, <3>2
  <2>3. j < i \/ j > i
    BY <1>1, <1>7
  <2> QED
    BY <2>1, <2>2, <2>3
<1>8. InsertAt(s, i, e) = c \o b
  BY <1>4 DEF c
<1>9. (c \o b)[i] = e
  BY <1>1, <1>5, <1>6
<1> QED
  BY <1>6, <1>7, <1>8, <1>9

Mine(m) == [name |-> m, time |-> now, fields |-> {"data"}]

\* A write leaves entries that were there, and the writer's.
LEMMA ManagedFacts ==
  ASSUME now \in Nat, NEW m \in Manager, NEW old \in Seq(ManagedFields), NEW ms \in Managed(old, m)
  PROVE  /\ ms \in Seq(ManagedFields)
         /\ \E i \in DOMAIN ms : ms[i] = Mine(m)
         /\ \A i \in DOMAIN ms : ms[i] = Mine(m) \/ \E j \in DOMAIN old : ms[i] = old[j]
<1> DEFINE I == {i \in DOMAIN old : old[i].name # m}
           others == AtPositions(old, I)
<1>0. I \in SUBSET (DOMAIN old)
  OBVIOUS
<1>1. /\ others \in Seq(ManagedFields)
      /\ \A n \in DOMAIN others : \E i \in DOMAIN old : others[n] = old[i]
  <2> HIDE DEF I
  <2> QED
    BY <1>0, AtPositionsFacts
<1>2. Mine(m) \in ManagedFields
  BY DEF Mine, ManagedFields
<1>3. PICK i \in 1..(Len(others) + 1) : ms = InsertAt(others, i, Mine(m))
  BY DEF Managed, Mine
<1> HIDE DEF others
<1>4. /\ ms \in Seq(ManagedFields) /\ Len(ms) = Len(others) + 1 /\ ms[i] = Mine(m)
      /\ \A j \in 1..(Len(others) + 1) : j # i => \E k \in 1..Len(others) : ms[j] = others[k]
  <2>1. others \in Seq(ManagedFields) /\ i \in 1..(Len(others) + 1)
    BY <1>1, <1>3
  <2>2. /\ InsertAt(others, i, Mine(m)) \in Seq(ManagedFields)
        /\ Len(InsertAt(others, i, Mine(m))) = Len(others) + 1
        /\ InsertAt(others, i, Mine(m))[i] = Mine(m)
        /\ \A j \in 1..(Len(others) + 1) :
             j # i => \E k \in 1..Len(others) : InsertAt(others, i, Mine(m))[j] = others[k]
    BY ONLY <1>2, <2>1, InsertAtFacts
  <2> QED
    BY <1>3, <2>2
<1>5. DOMAIN ms = 1..(Len(others) + 1) /\ DOMAIN others = 1..Len(others)
  <2>1. ms \in Seq(ManagedFields) => DOMAIN ms = 1..Len(ms)
    OBVIOUS
  <2>2. others \in Seq(ManagedFields) => DOMAIN others = 1..Len(others)
    OBVIOUS
  <2>3. DOMAIN others = 1..Len(others)
    BY <1>1, <2>2
  <2>4. DOMAIN ms = 1..Len(ms) /\ Len(ms) = Len(others) + 1
    BY <1>4, <2>1
  <2> QED
    BY <2>3, <2>4
<1>6. \E x \in DOMAIN ms : ms[x] = Mine(m)
  <2>1. i \in DOMAIN ms
    BY <1>5
  <2> QED
    BY <1>4, <2>1
<1>7. ASSUME NEW j \in DOMAIN ms, ms[j] # Mine(m) PROVE \E x \in DOMAIN old : ms[j] = old[x]
  <2>1. j \in 1..(Len(others) + 1) /\ j # i
    BY <1>4, <1>5, <1>7
  <2>2. PICK k \in DOMAIN others : ms[j] = others[k]
    BY <1>4, <1>5, <2>1
  <2> QED
    BY <1>1, <2>2
<1> QED
  BY <1>4, <1>6, <1>7

ServerTypes ==
  /\ now \in Nat
  /\ cfgApi \in [Config -> ConfigObject \cup {NoConfig}]

Old(c) == IF cfgApi[c] = NoConfig THEN <<>> ELSE cfgApi[c].managers

\* What a write makes of an object.
LEMMA Written ==
  ASSUME ServerTypes, Len(wrote) \in Nat,
         NEW c \in Config, NEW d \in Data, NEW m \in Manager, WriteConfig(c, d, m)
  PROVE  \E ms \in Managed(Old(c), m), created \in Nat :
           /\ cfgApi' = [cfgApi EXCEPT ![c] = [data |-> d, version |-> Len(wrote'), managers |-> ms,
                                               created |-> created]]
           /\ created = IF cfgApi[c] = NoConfig THEN now ELSE cfgApi[c].created
           /\ ms \in Seq(ManagedFields) /\ Old(c) \in Seq(ManagedFields)
           /\ [data |-> d, version |-> Len(wrote'), managers |-> ms, created |-> created] \in ConfigObject
           /\ Len(wrote') = Len(wrote) + 1
           /\ IF cfgApi[c] = NoConfig
              THEN recordCreate(c, cfgApi'[c]) ELSE recordUpdate(c, cfgApi[c], cfgApi'[c], now)
<1> DEFINE created == IF cfgApi[c] = NoConfig THEN now ELSE cfgApi[c].created
<1>1. Old(c) \in Seq(ManagedFields) /\ created \in Nat
  BY DEF Old, ServerTypes, ConfigObject
<1>2. Len(wrote') = Len(wrote) + 1
  BY DEF WriteConfig
<1>3. PICK ms \in Managed(Old(c), m) :
        LET new == [data |-> d, version |-> Len(wrote'), managers |-> ms, created |-> created] IN
        /\ cfgApi' = [cfgApi EXCEPT ![c] = new]
        /\ IF cfgApi[c] = NoConfig
           THEN recordCreate(c, new) ELSE recordUpdate(c, cfgApi[c], new, now)
  BY DEF WriteConfig, Old
<1>4. ms \in Seq(ManagedFields)
  BY <1>1, ManagedFacts DEF ServerTypes
<1>5. [data |-> d, version |-> Len(wrote'), managers |-> ms, created |-> created] \in ConfigObject
  BY <1>1, <1>2, <1>4 DEF ConfigObject
<1>6. cfgApi'[c] = [data |-> d, version |-> Len(wrote'), managers |-> ms, created |-> created]
  BY <1>3 DEF ServerTypes
<1> QED
  BY <1>1, <1>2, <1>3, <1>4, <1>5, <1>6
-----------------------------------------------------------------------------
(* The audit watcher.                                                      *)
WriteRecord == [object : Config, manager : Manager, time : Nat]
AuditEntry ==
  [object : Config, version : Nat, actor : Manager, action : {"create", "update", "delete"},
   when : Nat, risk : {"high", "medium", "info"}]

\* Somebody wrote c under that name at that time, at the version or before.
Backed(wr, c, version, name, time) ==
  \E v \in 1..version : wr[v].object = c /\ wr[v].manager = name /\ wr[v].time = time

ObjectBacked(wr, c, o) ==
  /\ o.version \in 1..Len(wr)
  /\ \E i \in DOMAIN o.managers : o.managers[i].time = wr[o.version].time
  /\ \A i \in DOMAIN o.managers : /\ o.managers[i].time <= wr[o.version].time
                                  /\ Backed(wr, c, o.version, o.managers[i].name, o.managers[i].time)

EntryBacked(wr, e) ==
  e.version \in 1..Len(wr) /\ Backed(wr, e.object, e.version, e.actor, wr[e.version].time)

UpdatesGrow ==
  \A i, j \in DOMAIN events :
    i < j /\ events[i].object = events[j].object /\ events[j].action = "update" =>
      events[i].version < events[j].version

AuditInv ==
  /\ ServerTypes
  /\ wrote \in Seq(WriteRecord)
  /\ \A v \in 1..Len(wrote) : wrote[v].time <= now
  /\ \A c \in Config : cfgApi[c] # NoConfig => ObjectBacked(wrote, c, cfgApi[c])
  /\ events \in Seq(AuditEntry) /\ Len(events) <= maxEvents
  /\ \A i \in DOMAIN events : EntryBacked(wrote, events[i])
  /\ UpdatesGrow

LEMMA AuditStepKinds ==
  ASSUME [Next]_vars
  PROVE  \/ UNCHANGED <<now, cfgApi, wrote, events>>
         \/ Tick
         \/ \E c \in Config : DeleteConfig(c)
         \/ \E c \in Config, d \in Data, m \in Manager : WriteConfig(c, d, m)
<1>1. CASE UNCHANGED vars
  BY <1>1 DEF vars, env, api, watchers
<1>2. CASE \E p \in Pod : WritePod(p) \/ DeletePod(p)
  BY <1>2 DEF WritePod, DeletePod, watchers
<1>3. CASE \E r \in ReplicaSet : CreateReplicaSet(r)
  BY <1>3 DEF CreateReplicaSet, watchers
<1>4. CASE \E c \in Config : AuditResync(c)
  BY <1>4 DEF AuditResync, env, api, recordUpdate, Changed
<1>5. CASE \E e \in Event : WriteEvent(e)
  BY <1>5 DEF WriteEvent, watchers
<1>6. CASE Resync
  BY <1>6 DEF Resync, api, watchers
<1>7. CASE \E p \in Pod : PodNotification(p)
  BY <1>7 DEF PodNotification, api
<1>8. CASE \E r \in ReplicaSet : RSNotification(r)
  BY <1>8 DEF RSNotification, api
<1>9. CASE CacheStep
  BY <1>9 DEF CacheStep, env, api
<1>10. CASE \E c \in Config : ConfigNotification(c)
  BY <1>10 DEF ConfigNotification, api
<1>11. CASE \E k \in {"ConfigMap", "Secret"} : ConfigStep(k)
  BY <1>11 DEF ConfigStep, env, api
<1>12. CASE EventNotification
  BY <1>12 DEF EventNotification, api
<1> QED
  BY <1>1, <1>2, <1>3, <1>4, <1>5, <1>6, <1>7, <1>8, <1>9, <1>10, <1>11, <1>12 DEF Next, Handle

LEMMA NatLeast ==
  ASSUME NEW N, N \subseteq Nat, N # {}
  PROVE  \E m \in N : \A n \in N : m <= n
<1> DEFINE R == OpToRel(<, Nat)
<1>1. IsWellFoundedOn(R, Nat)
  BY NatLessThanWellFounded
<1>2. \A m, n \in Nat : m < n => <<m, n>> \in R
  BY Zenon DEF OpToRel
<1> HIDE DEF R
<1>3. PICK m \in N : \A n \in N : <<n, m>> \notin R
  BY <1>1, WFMin
<1>4. ASSUME NEW n \in N PROVE m <= n
  <2>1. m \in Nat /\ n \in Nat /\ ~(n < m)
    BY <1>2, <1>3
  <2> QED
    BY <2>1
<1> QED
  BY <1>4

\* Whoever wrote last in the sense of newest has the latest time of all.
LEMMA NewestFacts ==
  ASSUME NEW ms \in Seq(ManagedFields), NEW t \in Nat,
         \E i \in DOMAIN ms : ms[i].time = t, \A i \in DOMAIN ms : ms[i].time <= t
  PROVE  \E i \in DOMAIN ms : newest(ms) = ms[i] /\ ms[i].time = t
<1> DEFINE Latest(i) == \A f \in ToSet(ms) : ms[i].time >= f.time
           I == {i \in 1..Len(ms) : Latest(i)}
<1>1. DOMAIN ms = 1..Len(ms) /\ Len(ms) \in Nat
  OBVIOUS
<1>2. PICK k \in DOMAIN ms : ms[k].time = t
  OBVIOUS
<1>0. ASSUME NEW i \in DOMAIN ms PROVE ms[i].time \in Nat /\ ms[i].time <= t
  <2>1. ms[i] \in ManagedFields
    OBVIOUS
  <2> QED
    BY <2>1 DEF ManagedFields
<1>3. \A f \in ToSet(ms) : f.time \in Nat /\ f.time <= t
  BY <1>0 DEF ToSet
<1>4. k \in I
  <2>1. Latest(k)
    BY <1>2, <1>3
  <2>2. k \in 1..Len(ms)
    BY <1>1
  <2> HIDE DEF Latest
  <2> QED
    BY <2>1, <2>2
<1>5. PICK i \in I : \A n \in I : i <= n
  <2>1. I \subseteq Nat /\ I # {}
    BY <1>4
  <2> HIDE DEF I
  <2> QED
    BY <2>1, NatLeast
<1>6. Min(I) \in I
  BY <1>5 DEF Min
<1>7. SelectInSeq(ms, LAMBDA e : \A f \in ToSet(ms) : e.time >= f.time) = Min(I)
  BY <1>4 DEF SelectInSeq
<1>8. newest(ms) = ms[Min(I)]
  BY <1>7 DEF newest
<1>9. ms[k] \in ToSet(ms)
  BY DEF ToSet
<1>10. Min(I) \in DOMAIN ms /\ ms[Min(I)].time >= ms[k].time
  BY <1>1, <1>6, <1>9
<1>11. ms[Min(I)].time = t
  <2> DEFINE u == ms[Min(I)].time
  <2>1. u \in Nat /\ u <= t /\ u >= t
    BY <1>0, <1>2, <1>10
  <2> HIDE DEF u
  <2>2. u = t
    BY <2>1
  <2> QED
    BY <2>2 DEF u
<1> QED
  BY <1>8, <1>10, <1>11

\* An audit entry made from a backed object is backed.
LEMMA EntriesBacked ==
  ASSUME NEW wr \in Seq(WriteRecord), NEW c \in Config, NEW o \in ConfigObject,
         ObjectBacked(wr, c, o), NEW action \in {"create", "update", "delete"}, NEW when \in Nat,
         NEW risk \in {"high", "medium", "info"}
  PROVE  /\ Entry(c, o, action, when, risk) \in AuditEntry
         /\ EntryBacked(wr, Entry(c, o, action, when, risk))
<1> DEFINE ms == o.managers  t == wr[o.version].time
<1>1. ms \in Seq(ManagedFields) /\ o.version \in Nat
  BY DEF ConfigObject
<1>2. t \in Nat
  <2>1. wr[o.version] \in WriteRecord
    BY DEF ObjectBacked
  <2> QED
    BY <2>1 DEF WriteRecord
<1>3. (\E i \in DOMAIN ms : ms[i].time = t) /\ (\A i \in DOMAIN ms : ms[i].time <= t)
  BY DEF ObjectBacked
<1>4. \E i \in DOMAIN ms : newest(ms) = ms[i] /\ ms[i].time = t
  <2> HIDE DEF ms, t
  <2> QED
    BY ONLY <1>1, <1>2, <1>3, NewestFacts
<1>5. PICK i \in DOMAIN ms : newest(ms) = ms[i] /\ ms[i].time = t
  BY <1>4
<1>6. ms # <<>> /\ actor(o) = ms[i].name
  BY <1>1, <1>5 DEF actor
<1>7. Backed(wr, c, o.version, actor(o), t)
  BY <1>5, <1>6 DEF ObjectBacked
<1>8. actor(o) \in Manager
  <2>1. ms[i] \in ManagedFields
    BY <1>1
  <2> QED
    BY <1>6, <2>1 DEF ManagedFields
<1>9. Entry(c, o, action, when, risk) \in AuditEntry
  BY <1>1, <1>8 DEF Entry, AuditEntry
<1>10. EntryBacked(wr, Entry(c, o, action, when, risk))
  BY <1>7 DEF EntryBacked, Entry, ObjectBacked
<1> QED
  BY <1>9, <1>10

\* An entry on the end keeps the order, when it is no update or a new version.
LEMMA AuditPushed ==
  ASSUME AuditInv, NEW e \in AuditEntry, append(e), NEW wr,
         EntryBacked(wr, e), \A i \in DOMAIN events : EntryBacked(wr, events[i]),
         e.action # "update" \/ \A i \in DOMAIN events : events[i].version < e.version
  PROVE  /\ events' \in Seq(AuditEntry) /\ Len(events') <= maxEvents
         /\ \A i \in DOMAIN events' : EntryBacked(wr, events'[i])
         /\ UpdatesGrow'
<1>1. /\ events \in Seq(AuditEntry) /\ Len(events) <= maxEvents /\ Len(events) \in Nat
      /\ maxEvents \in Nat \ {0} /\ events' = Push(events, e, maxEvents)
  BY AuditAssumption DEF AuditInv, append
<1>2. /\ events' \in Seq(AuditEntry) /\ Len(events') \in 1..maxEvents /\ events'[Len(events')] = e
  BY <1>1, PushFacts
<1>3. PICK d \in {0, 1} : /\ Len(events') = Len(events) + 1 - d
                          /\ \A i \in 1..(Len(events') - 1) : events'[i] = events[i + d]
  <2> DEFINE g == Push(events, e, maxEvents)
  <2>1. /\ events \in Seq(AuditEntry) /\ Len(events) <= maxEvents /\ e \in AuditEntry
        /\ maxEvents \in Nat \ {0}
    BY <1>1
  <2>2. \E d \in {0, 1} : /\ Len(g) = Len(events) + 1 - d
                          /\ \A i \in 1..(Len(g) - 1) : g[i] = events[i + d]
                          /\ d = 1 <=> Len(events) = maxEvents
    BY ONLY <2>1, Pushed
  <2>3. events' = g
    BY <1>1
  <2> HIDE DEF g
  <2> QED
    BY <2>2, <2>3
<1>4. ASSUME NEW i \in DOMAIN events', i # Len(events')
      PROVE  i \in Nat /\ i + d \in DOMAIN events /\ events'[i] = events[i + d]
  <2>1. /\ DOMAIN events' = 1..Len(events') /\ DOMAIN events = 1..Len(events)
        /\ Len(events') \in Nat /\ Len(events) \in Nat
    BY <1>1, <1>2
  <2>2. i \in 1..(Len(events') - 1) /\ i + d \in 1..Len(events)
    BY <1>3, <1>4, <2>1
  <2> QED
    BY <1>3, <2>1, <2>2
<1>5. \A i \in DOMAIN events' : EntryBacked(wr, events'[i])
  BY <1>2, <1>4 DEF AuditInv
<1>6. ASSUME NEW i \in DOMAIN events', NEW j \in DOMAIN events', i < j,
             events'[i].object = events'[j].object, events'[j].action = "update"
      PROVE  events'[i].version < events'[j].version
  <2>1. i # Len(events') /\ i \in Nat /\ j \in Nat
    BY <1>2, <1>6
  <2>2. i + d \in DOMAIN events /\ events'[i] = events[i + d]
    BY <1>4, <2>1
  <2>3. CASE j = Len(events')
    BY <1>2, <1>6, <2>2, <2>3
  <2>4. CASE j # Len(events')
    <3>1. j + d \in DOMAIN events /\ events'[j] = events[j + d]
      BY <1>4, <2>4
    <3>2. i + d < j + d
      BY <1>6, <2>1
    <3> QED
      BY <1>6, <2>2, <3>1, <3>2 DEF AuditInv, UpdatesGrow
  <2> QED
    BY <2>3, <2>4
<1> QED
  BY <1>2, <1>5, <1>6 DEF UpdatesGrow

LEMMA AuditInitially ==
  ASSUME Init PROVE AuditInv
<1>1. now = 1 /\ cfgApi = [c \in Config |-> NoConfig] /\ wrote = <<>> /\ events = <<>>
  BY DEF Init, AuditInit
<1>2. maxEvents \in Nat
  BY AuditAssumption
<1> QED
  BY <1>1, <1>2 DEF AuditInv, ServerTypes, UpdatesGrow

\* What was backed stays so when something more is written.
LEMMA BackedAfterWrite ==
  ASSUME AuditInv, NEW w \in WriteRecord, wrote' = Append(wrote, w)
  PROVE  /\ wrote' \in Seq(WriteRecord) /\ Len(wrote') = Len(wrote) + 1 /\ wrote'[Len(wrote')] = w
         /\ \A v \in 1..Len(wrote) : wrote'[v] = wrote[v]
         /\ \A c, o : ObjectBacked(wrote, c, o) => ObjectBacked(wrote', c, o)
         /\ \A e : EntryBacked(wrote, e) => EntryBacked(wrote', e)
<1>1. wrote \in Seq(WriteRecord) /\ Len(wrote) \in Nat
  BY DEF AuditInv
<1>2. /\ wrote' \in Seq(WriteRecord) /\ Len(wrote') = Len(wrote) + 1 /\ wrote'[Len(wrote')] = w
      /\ \A v \in 1..Len(wrote) : wrote'[v] = wrote[v]
  BY <1>1
<1>3. ASSUME NEW c, NEW x \in 1..Len(wrote), NEW name, NEW time, Backed(wrote, c, x, name, time)
      PROVE  Backed(wrote', c, x, name, time)
  <2>1. PICK v \in 1..x : wrote[v].object = c /\ wrote[v].manager = name /\ wrote[v].time = time
    BY <1>3 DEF Backed
  <2>2. v \in 1..Len(wrote)
    BY <1>1
  <2> QED
    BY <1>2, <2>1, <2>2 DEF Backed
<1>4. 1..Len(wrote) \subseteq 1..Len(wrote')
  BY <1>1, <1>2
<1>5. ASSUME NEW c, NEW o, ObjectBacked(wrote, c, o) PROVE ObjectBacked(wrote', c, o)
  <2>1. o.version \in 1..Len(wrote) /\ wrote'[o.version] = wrote[o.version]
    BY <1>2, <1>5 DEF ObjectBacked
  <2>2. \A i \in DOMAIN o.managers : Backed(wrote', c, o.version, o.managers[i].name, o.managers[i].time)
    BY <1>3, <1>5, <2>1 DEF ObjectBacked
  <2> QED
    BY <1>4, <1>5, <2>1, <2>2 DEF ObjectBacked
<1>6. ASSUME NEW e, EntryBacked(wrote, e) PROVE EntryBacked(wrote', e)
  <2>1. e.version \in 1..Len(wrote) /\ wrote'[e.version] = wrote[e.version]
    BY <1>2, <1>6 DEF EntryBacked
  <2>2. Backed(wrote', e.object, e.version, e.actor, wrote[e.version].time)
    BY <1>3, <1>6, <2>1 DEF EntryBacked
  <2> QED
    BY <1>4, <2>1, <2>2 DEF EntryBacked
<1> QED
  BY <1>2, <1>5, <1>6

LEMMA AuditKept ==
  ASSUME AuditInv, [Next]_vars PROVE AuditInv'
<1>1. CASE UNCHANGED <<now, cfgApi, wrote, events>>
  BY <1>1 DEF AuditInv, ServerTypes, ObjectBacked, EntryBacked, Backed, UpdatesGrow
<1>2. CASE Tick
  <2>1. now' = now + 1 /\ UNCHANGED <<cfgApi, wrote, events>>
    BY <1>2 DEF Tick, api, watchers
  <2>2. now \in Nat /\ \A v \in 1..Len(wrote) : wrote[v].time \in Nat /\ wrote[v].time <= now
    <3>1. \A v \in 1..Len(wrote) : wrote[v] \in WriteRecord
      BY DEF AuditInv
    <3> QED
      BY <3>1 DEF AuditInv, ServerTypes, WriteRecord
  <2>3. now' \in Nat /\ \A v \in 1..Len(wrote) : wrote[v].time <= now'
    BY <2>1, <2>2
  <2> QED
    BY <2>1, <2>3 DEF AuditInv, ServerTypes, ObjectBacked, EntryBacked, Backed, UpdatesGrow
<1>3. ASSUME NEW c \in Config, DeleteConfig(c) PROVE AuditInv'
  <2> DEFINE o == cfgApi[c]
  <2>1. /\ cfgApi[c] # NoConfig /\ cfgApi' = [cfgApi EXCEPT ![c] = NoConfig]
        /\ UNCHANGED <<now, wrote>> /\ recordDelete(c, o, now)
    BY <1>3 DEF DeleteConfig
  <2>2. o \in ConfigObject /\ ObjectBacked(wrote, c, o) /\ now \in Nat
    BY <2>1 DEF AuditInv, ServerTypes
  <2>3. /\ events' \in Seq(AuditEntry) /\ Len(events') <= maxEvents
        /\ \A i \in DOMAIN events' : EntryBacked(wrote, events'[i])
        /\ UpdatesGrow'
    <3>1. CASE append(Entry(c, o, "delete", now, "high"))
      <4> DEFINE e == Entry(c, o, "delete", now, "high")
      <4>1. e \in AuditEntry /\ EntryBacked(wrote, e)
        BY <2>2, EntriesBacked DEF AuditInv
      <4>2. e.action # "update"
        BY DEF Entry
      <4>3. append(e)
        BY <3>1
      <4>4. \A i \in DOMAIN events : EntryBacked(wrote, events[i])
        BY DEF AuditInv
      <4> HIDE DEF e
      <4> QED
        BY <4>1, <4>2, <4>3, <4>4, AuditPushed
    <3>2. CASE UNCHANGED events
      BY <3>2 DEF AuditInv, UpdatesGrow
    <3> QED
      BY <2>1, <3>1, <3>2 DEF recordDelete
  <2>4. \A e : EntryBacked(wrote, e) => EntryBacked(wrote', e)
    BY <2>1 DEF EntryBacked, Backed
  <2>5. cfgApi' \in [Config -> ConfigObject \cup {NoConfig}]
        /\ \A x \in Config : cfgApi'[x] # NoConfig => cfgApi[x] # NoConfig /\ cfgApi'[x] = cfgApi[x]
    BY <2>1 DEF AuditInv, ServerTypes
  <2>6. \A x \in Config : cfgApi'[x] # NoConfig => ObjectBacked(wrote', x, cfgApi'[x])
    BY <2>1, <2>5 DEF AuditInv, ObjectBacked, Backed
  <2>7. \A i \in DOMAIN events' : EntryBacked(wrote', events'[i])
    BY <2>1, <2>3 DEF EntryBacked, Backed
  <2> QED
    BY <2>1, <2>3, <2>5, <2>6, <2>7 DEF AuditInv, ServerTypes
<1>4. ASSUME NEW c \in Config, NEW d \in Data, NEW m \in Manager, WriteConfig(c, d, m)
      PROVE  AuditInv'
  <2> DEFINE w == [object |-> c, manager |-> m, time |-> now]
             o == cfgApi'[c]
  <2>1. /\ wrote' = Append(wrote, w) /\ w \in WriteRecord /\ now' = now
        /\ now \in Nat /\ wrote \in Seq(WriteRecord) /\ Len(wrote) \in Nat
    BY <1>4 DEF WriteConfig, AuditInv, ServerTypes, WriteRecord
  <2>2. /\ wrote' \in Seq(WriteRecord) /\ Len(wrote') = Len(wrote) + 1 /\ wrote'[Len(wrote')] = w
        /\ \A v \in 1..Len(wrote) : wrote'[v] = wrote[v]
        /\ \A x, y : ObjectBacked(wrote, x, y) => ObjectBacked(wrote', x, y)
        /\ \A e : EntryBacked(wrote, e) => EntryBacked(wrote', e)
    BY <2>1, BackedAfterWrite
  <2>3. PICK ms \in Managed(Old(c), m), created \in Nat :
          /\ cfgApi' = [cfgApi EXCEPT ![c] = [data |-> d, version |-> Len(wrote'), managers |-> ms,
                                              created |-> created]]
          /\ created = IF cfgApi[c] = NoConfig THEN now ELSE cfgApi[c].created
          /\ ms \in Seq(ManagedFields) /\ Old(c) \in Seq(ManagedFields)
          /\ [data |-> d, version |-> Len(wrote'), managers |-> ms, created |-> created] \in ConfigObject
          /\ Len(wrote') = Len(wrote) + 1
          /\ IF cfgApi[c] = NoConfig
             THEN recordCreate(c, cfgApi'[c]) ELSE recordUpdate(c, cfgApi[c], cfgApi'[c], now)
    BY <1>4, <2>1, Written DEF AuditInv
  <2>4. /\ o = [data |-> d, version |-> Len(wrote'), managers |-> ms, created |-> created]
        /\ o \in ConfigObject /\ o.version = Len(wrote') /\ o.managers = ms /\ o.created \in Nat
        /\ \A x \in Config : x # c => cfgApi'[x] = cfgApi[x]
        /\ cfgApi' \in [Config -> ConfigObject \cup {NoConfig}]
    BY <2>3 DEF AuditInv, ServerTypes
  <2>5. /\ \E i \in DOMAIN ms : ms[i] = Mine(m)
        /\ \A i \in DOMAIN ms : ms[i] = Mine(m) \/ \E j \in DOMAIN Old(c) : ms[i] = Old(c)[j]
    BY <2>1, <2>3, ManagedFacts
  <2>6. ObjectBacked(wrote', c, o)
    <3>1. Len(wrote') \in 1..Len(wrote') /\ wrote'[Len(wrote')].time = now
      BY <2>1, <2>2
    <3>2. \E i \in DOMAIN ms : ms[i].time = now
      BY <2>5 DEF Mine
    <3>3. ASSUME NEW i \in DOMAIN ms
          PROVE  ms[i].time <= now /\ Backed(wrote', c, Len(wrote'), ms[i].name, ms[i].time)
      <4>1. CASE ms[i] = Mine(m)
        BY <2>1, <2>2, <3>1, <4>1 DEF Mine, Backed
      <4>2. CASE \E j \in DOMAIN Old(c) : ms[i] = Old(c)[j]
        <5>1. PICK j \in DOMAIN Old(c) : ms[i] = Old(c)[j]
          BY <4>2
        <5>2. cfgApi[c] # NoConfig /\ Old(c) = cfgApi[c].managers
          BY <5>1 DEF Old
        <5>3. ObjectBacked(wrote, c, cfgApi[c])
          BY <5>2 DEF AuditInv
        <5>4. PICK v \in 1..cfgApi[c].version :
                wrote[v].object = c /\ wrote[v].manager = ms[i].name /\ wrote[v].time = ms[i].time
          BY <5>1, <5>2, <5>3 DEF ObjectBacked, Backed
        <5>5. v \in 1..Len(wrote) /\ v \in 1..Len(wrote')
          BY <2>1, <2>2, <5>3 DEF ObjectBacked
        <5>6. wrote[v].time <= now
          BY <5>5 DEF AuditInv
        <5> QED
          BY <2>2, <5>4, <5>5, <5>6 DEF Backed
      <4> QED
        BY <2>5, <4>1, <4>2
    <3> QED
      BY <2>4, <3>1, <3>2, <3>3 DEF ObjectBacked
  <2>7. \A v \in 1..Len(wrote') : wrote'[v].time <= now'
    <3>1. ASSUME NEW v \in 1..Len(wrote') PROVE wrote'[v].time <= now
      <4>1. v = Len(wrote') \/ v \in 1..Len(wrote)
        BY <2>1, <2>2
      <4> QED
        BY <2>1, <2>2, <4>1 DEF AuditInv
    <3> QED
      BY <2>1, <3>1
  <2>8. \A x \in Config : cfgApi'[x] # NoConfig => ObjectBacked(wrote', x, cfgApi'[x])
    BY <2>2, <2>4, <2>6 DEF AuditInv
  <2>9. /\ events' \in Seq(AuditEntry) /\ Len(events') <= maxEvents
        /\ \A i \in DOMAIN events' : EntryBacked(wrote', events'[i])
        /\ UpdatesGrow'
    <3>1. \A i \in DOMAIN events : EntryBacked(wrote', events[i])
      BY <2>2 DEF AuditInv
    <3>2. CASE UNCHANGED events
      BY <3>1, <3>2 DEF AuditInv, UpdatesGrow
    <3>3. CASE cfgApi[c] = NoConfig /\ append(Entry(c, o, "create", o.created, "medium"))
      <4> DEFINE e == Entry(c, o, "create", o.created, "medium")
      <4>1. e \in AuditEntry /\ EntryBacked(wrote', e)
        BY <2>2, <2>4, <2>6, EntriesBacked
      <4>2. e.action # "update"
        BY DEF Entry
      <4>3. append(e)
        BY <3>3
      <4> HIDE DEF e
      <4> QED
        BY <3>1, <4>1, <4>2, <4>3, AuditPushed
    <3>4. ASSUME cfgApi[c] # NoConfig, NEW risk \in {"high", "medium", "info"},
                 append(Entry(c, o, "update", now, risk))
          PROVE  /\ events' \in Seq(AuditEntry) /\ Len(events') <= maxEvents
                 /\ \A i \in DOMAIN events' : EntryBacked(wrote', events'[i])
                 /\ UpdatesGrow'
      <4> DEFINE e == Entry(c, o, "update", now, risk)
      <4>1. e \in AuditEntry /\ EntryBacked(wrote', e)
        BY <2>1, <2>2, <2>4, <2>6, EntriesBacked
      <4>2. \A i \in DOMAIN events : events[i].version < e.version
        <5>1. e.version = Len(wrote) + 1
          BY <2>2, <2>4 DEF Entry
        <5>2. \A i \in DOMAIN events : events[i].version \in 1..Len(wrote)
          BY DEF AuditInv, EntryBacked
        <5> HIDE DEF e
        <5> QED
          BY <2>1, <5>1, <5>2
      <4>3. append(e)
        BY <3>4
      <4> HIDE DEF e
      <4> QED
        BY <3>1, <4>1, <4>2, <4>3, AuditPushed
    <3>5. CASE cfgApi[c] = NoConfig
      BY <2>3, <3>2, <3>3, <3>5 DEF recordCreate
    <3>6. CASE cfgApi[c] # NoConfig
      <4>1. riskFor(AuditKind[c], changedFields(o)) \in {"high", "medium", "info"}
        BY DEF riskFor
      <4> QED
        BY <2>3, <3>2, <3>4, <3>6, <4>1 DEF recordUpdate
    <3> QED
      BY <3>5, <3>6
  <2> QED
    BY <2>1, <2>2, <2>4, <2>7, <2>8, <2>9 DEF AuditInv, ServerTypes
<1> QED
  BY <1>1, <1>2, <1>3, <1>4, AuditStepKinds

LEMMA ReverseFacts ==
  ASSUME NEW T, NEW s \in Seq(T)
  PROVE  /\ Reverse(s) \in Seq(T) /\ Len(Reverse(s)) = Len(s) /\ Len(s) \in Nat
         /\ \A i \in 1..Len(s) : /\ Len(s) - i + 1 \in 1..Len(s)
                                 /\ Reverse(s)[i] = s[Len(s) - i + 1]
<1>1. Len(s) \in Nat /\ DOMAIN s = 1..Len(s)
  OBVIOUS
<1>2. \A i \in 1..Len(s) : Len(s) - i + 1 \in 1..Len(s) /\ s[Len(s) - i + 1] \in T
  BY <1>1
<1> QED
  BY <1>1, <1>2 DEF Reverse

\* What Query shows is in the ring.
LEMMA QueryShows ==
  ASSUME events \in Seq(AuditEntry), NEW limit \in Nat, NEW onlyHumans \in BOOLEAN,
         NEW e \in ToSet(Query(limit, onlyHumans))
  PROVE  \E i \in DOMAIN events : e = events[i]
<1> DEFINE newestFirst == Reverse(events)
           I == {i \in DOMAIN newestFirst : ~onlyHumans \/ newestFirst[i].actor \in User}
           found == AtPositions(newestFirst, I)
           n == IF Len(found) < limit THEN Len(found) ELSE limit
<1>1. newestFirst \in Seq(AuditEntry) /\ \A i \in DOMAIN newestFirst : \E j \in DOMAIN events : newestFirst[i] = events[j]
  <2>1. newestFirst \in Seq(AuditEntry) /\ Len(newestFirst) = Len(events)
    BY ReverseFacts
  <2>2. DOMAIN newestFirst = 1..Len(events) /\ DOMAIN events = 1..Len(events)
    BY <2>1
  <2> QED
    BY <2>1, <2>2, ReverseFacts
<1>2. Query(limit, onlyHumans) = SubSeq(found, 1, n)
  BY DEF Query
<1>3. I \in SUBSET (DOMAIN newestFirst)
  OBVIOUS
<1> HIDE DEF newestFirst, I
<1>4. found \in Seq(AuditEntry) /\ \A k \in DOMAIN found : \E i \in I : found[k] = newestFirst[i]
  BY <1>1, <1>3, AtPositionsFacts
<1> HIDE DEF found
<1>5. n \in Nat /\ n <= Len(found) /\ DOMAIN found = 1..Len(found)
  BY <1>4
<1> HIDE DEF n
<1>6. DOMAIN SubSeq(found, 1, n) = 1..n /\ \A k \in 1..n : SubSeq(found, 1, n)[k] = found[k] /\ k \in DOMAIN found
  BY <1>4, <1>5
<1>7. PICK k \in DOMAIN SubSeq(found, 1, n) : e = SubSeq(found, 1, n)[k]
  BY <1>2 DEF ToSet
<1>8. k \in DOMAIN found /\ e = found[k]
  BY <1>6, <1>7
<1> QED
  BY <1>1, <1>3, <1>4, <1>8

LEMMA AuditAlways == Spec => []AuditInv
BY AuditInitially, AuditKept, PTL DEF Spec

(* Whatever is written by whom and when, and however often it is repeated:  *)
(* an entry that Query shows names a manager that wrote the object in the   *)
(* second of its version, and no version is recorded as an update twice.    *)
THEOREM AuditTells == Spec => []AuditTellsWrites
<1>1. ASSUME AuditInv PROVE AuditTellsWrites
  <2>1. ASSUME NEW e \in ToSet(Query(maxEvents, FALSE))
        PROVE  \E v \in 1..e.version : /\ wrote[v].object = e.object /\ wrote[v].manager = e.actor
                                       /\ wrote[v].time = wrote[e.version].time
    <3>1. \E i \in DOMAIN events : e = events[i]
      BY <1>1, QueryShows, AuditAssumption DEF AuditInv
    <3> QED
      BY <1>1, <3>1 DEF AuditInv, EntryBacked, Backed
  <2> QED
    BY <1>1, <2>1 DEF AuditTellsWrites, AuditInv, UpdatesGrow
<1> QED
  BY <1>1, AuditAlways, PTL
-----------------------------------------------------------------------------
(* The config watcher.  K is a history with the change being recorded.     *)
Of(K, c) == {i \in DOMAIN K : K[i] # NoConfig /\ K[i].config = c}

Chain(K, c, d) ==
  /\ \A i \in Of(K, c) : K[i].from # K[i].to
  /\ \A i, j \in Of(K, c) :
       (i < j /\ ~\E k \in Of(K, c) : i < k /\ k < j) => K[i].to = K[j].from
  /\ \A i \in Of(K, c) : (\A j \in Of(K, c) : j <= i) => K[i].to = d
  /\ d = NoConfig => Of(K, c) = {}

ConfigTypes ==
  /\ history \in Seq(Change) /\ Len(history) <= maxHist
  /\ DOMAIN applying = {"ConfigMap", "Secret"}
  /\ \A k \in {"ConfigMap", "Secret"} :
       applying[k] # NoConfig => applying[k] \in Change /\ KindOf[applying[k].config] = k
  /\ last \in [Config -> Data \cup {NoConfig}]
  /\ cfgQ \in [Config -> Seq(Data)]

Reported ==
  \A c \in Config \ Skipped :
    cfgApi[c] # NoConfig =>
      IF cfgQ[c] = <<>> THEN last[c] = cfgApi[c].data ELSE cfgQ[c][Len(cfgQ[c])] = cfgApi[c].data

Chained == \A c \in Config : Chain(Kept(c), c, last[c])

ConfigInv == ConfigTypes /\ Reported /\ Chained

\* A chain stays one when some of its first elements go, and when elements of
\* other objects come between its own.
LEMMA ChainMoved ==
  ASSUME NEW K \in Seq(Change \cup {NoConfig}), NEW L \in Seq(Change \cup {NoConfig}), NEW c, NEW d,
         Chain(K, c, d), NEW h,
         \A i \in Of(L, c) : /\ h[i] \in Of(K, c)
                             /\ L[i].from = K[h[i]].from /\ L[i].to = K[h[i]].to,
         \A i, j \in Of(L, c) : i < j => h[i] < h[j],
         \A i \in Of(L, c), j \in Of(K, c) : h[i] < j => \E m \in Of(L, c) : h[m] = j
  PROVE  Chain(L, c, d)
<1>1. Of(K, c) \subseteq Nat /\ Of(L, c) \subseteq Nat
  BY DEF Of
<1>2. ASSUME NEW i \in Of(L, c), NEW j \in Of(L, c), h[i] < h[j] PROVE i < j
  <2>1. h[i] \in Nat /\ h[j] \in Nat /\ i \in Nat /\ j \in Nat
    BY <1>1
  <2>2. ~(j < i) /\ i # j
    BY <1>2, <2>1
  <2> QED
    BY <2>1, <2>2
<1>3. ASSUME NEW i \in Of(L, c) PROVE L[i].from # L[i].to
  BY DEF Chain
<1>4. ASSUME NEW i \in Of(L, c), NEW j \in Of(L, c), i < j,
             ~\E k \in Of(L, c) : i < k /\ k < j
      PROVE  L[i].to = L[j].from
  <2>1. h[i] < h[j]
    BY <1>4
  <2>2. ASSUME NEW k \in Of(K, c), h[i] < k, k < h[j] PROVE FALSE
    <3>1. PICK m \in Of(L, c) : h[m] = k
      BY <2>2
    <3>2. i < m /\ m < j
      BY <1>2, <2>2, <3>1
    <3> QED
      BY <1>4, <3>2
  <2>3. K[h[i]].to = K[h[j]].from
    BY <2>1, <2>2 DEF Chain
  <2> QED
    BY <2>3
<1>5. ASSUME NEW i \in Of(L, c), \A j \in Of(L, c) : j <= i PROVE L[i].to = d
  <2>1. ASSUME NEW k \in Of(K, c), ~(k <= h[i]) PROVE FALSE
    <3>1. h[i] < k
      BY <1>1, <2>1
    <3>2. PICK m \in Of(L, c) : h[m] = k
      BY <3>1
    <3>3. i < m /\ m <= i /\ i \in Nat /\ m \in Nat
      BY <1>1, <1>2, <1>5, <3>1, <3>2
    <3> QED
      BY <3>3
  <2>2. K[h[i]].to = d
    BY <2>1 DEF Chain
  <2> QED
    BY <2>2
<1>6. d = NoConfig => Of(L, c) = {}
  BY DEF Chain
<1> QED
  BY <1>3, <1>4, <1>5, <1>6 DEF Chain

\* The same elements at the same places.
LEMMA ChainSame ==
  ASSUME NEW K \in Seq(Change \cup {NoConfig}), NEW L \in Seq(Change \cup {NoConfig}), NEW c, NEW d,
         Chain(K, c, d), Of(L, c) = Of(K, c),
         \A i \in Of(L, c) : L[i].from = K[i].from /\ L[i].to = K[i].to
  PROVE  Chain(L, c, d)
BY DEF Chain

LEMMA KeptFacts ==
  ASSUME ConfigTypes, NEW c \in Config
  PROVE  /\ KindOf[c] \in {"ConfigMap", "Secret"}
         /\ Kept(c) \in Seq(Change \cup {NoConfig}) /\ Len(Kept(c)) = Len(history) + 1
         /\ \A i \in 1..Len(history) : Kept(c)[i] = history[i] /\ Kept(c)[i] # NoConfig
         /\ Kept(c)[Len(history) + 1] = applying[KindOf[c]]
         /\ DOMAIN Kept(c) = 1..(Len(history) + 1)
<1>1. KindOf[c] \in {"ConfigMap", "Secret"}
  BY ConfigAssumption
<1>2. applying[KindOf[c]] \in Change \cup {NoConfig}
  BY <1>1 DEF ConfigTypes
<1>3. history \in Seq(Change \cup {NoConfig}) /\ Len(history) \in Nat
      /\ \A i \in 1..Len(history) : history[i] \in Change
  BY DEF ConfigTypes
<1>4. \A i \in 1..Len(history) : history[i] # NoConfig
  BY <1>3, WatchersAssumption
<1> HIDE DEF Change
<1>5. /\ Kept(c) \in Seq(Change \cup {NoConfig}) /\ Len(Kept(c)) = Len(history) + 1
      /\ \A i \in 1..Len(history) : Kept(c)[i] = history[i]
      /\ Kept(c)[Len(history) + 1] = applying[KindOf[c]]
  BY <1>2, <1>3 DEF Kept
<1> QED
  BY <1>1, <1>4, <1>5

LEMMA ConfigInitially ==
  ASSUME Init PROVE ConfigInv
<1>1. /\ history = <<>> /\ applying = [k \in {"ConfigMap", "Secret"} |-> NoConfig]
      /\ last = [c \in Config |-> NoConfig]
      /\ cfgQ = [c \in Config |-> <<>>] /\ cfgApi = [c \in Config |-> NoConfig]
  BY DEF Init, ConfigInit
<1>2. ConfigTypes
  BY <1>1, ConfigAssumption DEF ConfigTypes
<1>3. Reported
  BY <1>1 DEF Reported
<1>4. ASSUME NEW c \in Config PROVE Chain(Kept(c), c, last[c])
  <2>1. Len(history) = 0 /\ applying[KindOf[c]] = NoConfig
    BY <1>1, <1>2, KeptFacts
  <2>2. DOMAIN Kept(c) = 1..1 /\ Kept(c)[1] = NoConfig
    BY <1>2, <2>1, KeptFacts
  <2>3. Of(Kept(c), c) = {}
    BY <2>2 DEF Of
  <2> QED
    BY <2>3 DEF Chain
<1> QED
  BY <1>2, <1>3, <1>4 DEF ConfigInv, Chained

LEMMA ConfigStepKinds ==
  ASSUME [Next]_vars
  PROVE  \/ UNCHANGED <<last, history, applying, cfgQ, cfgApi>>
         \/ Resync
         \/ \E c \in Config : DeleteConfig(c) \/ ConfigNotification(c)
         \/ \E c \in Config, d \in Data, m \in Manager : WriteConfig(c, d, m)
         \/ \E k \in {"ConfigMap", "Secret"} : ConfigStep(k)
<1>1. CASE UNCHANGED vars
  BY <1>1 DEF vars, env, api, queues, watchers, configVars
<1>2. CASE \E p \in Pod : WritePod(p) \/ DeletePod(p)
  BY <1>2 DEF WritePod, DeletePod, watchers, configVars
<1>3. CASE \E r \in ReplicaSet : CreateReplicaSet(r)
  BY <1>3 DEF CreateReplicaSet, watchers, configVars
<1>4. CASE \E c \in Config : AuditResync(c)
  BY <1>4 DEF AuditResync, env, api, queues, configVars
<1>5. CASE \E e \in Event : WriteEvent(e)
  BY <1>5 DEF WriteEvent, watchers, configVars
<1>6. CASE Tick
  BY <1>6 DEF Tick, api, queues, watchers, configVars
<1>7. CASE \E p \in Pod : PodNotification(p)
  BY <1>7 DEF PodNotification, api, configVars
<1>8. CASE \E r \in ReplicaSet : RSNotification(r)
  BY <1>8 DEF RSNotification, api, configVars
<1>9. CASE CacheStep
  BY <1>9 DEF CacheStep, env, api, queues, configVars
<1>10. CASE EventNotification
  BY <1>10 DEF EventNotification, api, configVars
<1> QED
  BY <1>1, <1>2, <1>3, <1>4, <1>5, <1>6, <1>7, <1>8, <1>9, <1>10 DEF Next, Handle
\* The owners of the pods that use an object.
LEMMA MountersFacts ==
  ASSUME CacheTypes, NEW c PROVE findMounters(c) \in SUBSET Owner
BY DEF CacheTypes, findMounters

LEMMA ConfigTypesKept ==
  ASSUME ConfigTypes, CacheTypes, ServerTypes, [Next]_vars PROVE ConfigTypes'
<1> USE DEF ConfigTypes
<1>1. CASE UNCHANGED <<last, history, applying, cfgQ, cfgApi>>
  BY <1>1
<1>2. CASE Resync
  <2>1. UNCHANGED <<last, history, applying>>
    BY <1>2 DEF Resync, watchers, configVars
  <2>2. cfgQ' = [c \in Config |-> IF cfgApi[c] = NoConfig THEN <<>> ELSE <<cfgApi[c].data>>]
    BY <1>2 DEF Resync
  <2>3. \A c \in Config : cfgApi[c] # NoConfig => cfgApi[c].data \in Data
    BY DEF ServerTypes, ConfigObject
  <2> HIDE DEF Data
  <2>4. cfgQ' \in [Config -> Seq(Data)]
    BY <2>2, <2>3
  <2> QED
    BY <2>1, <2>4
<1>3. ASSUME NEW c \in Config, DeleteConfig(c) PROVE ConfigTypes'
  BY <1>3 DEF DeleteConfig, queues, configVars
<1>4. ASSUME NEW c \in Config, NEW d \in Data, NEW m \in Manager, WriteConfig(c, d, m)
      PROVE  ConfigTypes'
  <2>1. UNCHANGED <<last, history, applying>> /\ cfgQ' = [cfgQ EXCEPT ![c] = Append(cfgQ[c], d)]
    BY <1>4 DEF WriteConfig, configVars, Notify
  <2>2. cfgQ' \in [Config -> Seq(Data)]
    BY <2>1
  <2> QED
    BY <2>1, <2>2
<1>5. ASSUME NEW c \in Config, ConfigNotification(c) PROVE ConfigTypes'
  <2> DEFINE d == Head(cfgQ[c])  k == KindOf[c]
  <2>1. cfgQ[c] # <<>> /\ cfgQ' = [cfgQ EXCEPT ![c] = Tail(@)] /\ history' = history
    BY <1>5 DEF ConfigNotification, applySnapshot
  <2>2. d \in Data /\ Tail(cfgQ[c]) \in Seq(Data)
    BY <2>1
  <2>3. cfgQ' \in [Config -> Seq(Data)]
    BY <2>1, <2>2
  <2>4. k \in {"ConfigMap", "Secret"}
    BY ConfigAssumption
  <2>5. CASE UNCHANGED <<last, applying>>
    BY <2>1, <2>3, <2>5
  <2>6. CASE last' = [last EXCEPT ![c] = d] /\ applying' = applying
    BY <2>1, <2>2, <2>3, <2>6
  <2>7. CASE /\ last' = [last EXCEPT ![c] = d] /\ IsChange(c, d)
             /\ applying' = [applying EXCEPT ![k] = [config |-> c, from |-> last[c], to |-> d,
                                                     by |-> NoConfig]]
    <3>1. last[c] \in Data
      BY <2>7 DEF IsChange
    <3>2. [config |-> c, from |-> last[c], to |-> d, by |-> NoConfig] \in Change
      BY <2>2, <3>1 DEF Change
    <3> HIDE DEF d
    <3>3. \A x \in {"ConfigMap", "Secret"} :
            applying'[x] # NoConfig => applying'[x] \in Change /\ KindOf[applying'[x].config] = x
      BY <2>4, <2>7, <3>2
    <3> QED
      BY <2>1, <2>2, <2>3, <2>7, <3>3
  <2>8. \/ UNCHANGED <<last, applying>>
        \/ last' = [last EXCEPT ![c] = d] /\ applying' = applying
        \/ /\ last' = [last EXCEPT ![c] = d] /\ IsChange(c, d)
           /\ applying' = [applying EXCEPT ![k] = [config |-> c, from |-> last[c], to |-> d,
                                                   by |-> NoConfig]]
    BY <1>5 DEF ConfigNotification, applySnapshot, NextSnapshot
  <2> QED
    BY <2>5, <2>6, <2>7, <2>8
<1>6. ASSUME NEW k \in {"ConfigMap", "Secret"}, AppendChange(k), UNCHANGED env PROVE ConfigTypes'
  <2>1. /\ applying[k] \in Change /\ history' = Push(history, applying[k], maxHist)
        /\ applying' = [applying EXCEPT ![k] = NoConfig]
        /\ UNCHANGED <<last, cfgQ>> /\ maxHist \in Nat \ {0} /\ Len(history) \in Nat
    BY <1>6, ConfigAssumption DEF AppendChange, env, queues
  <2>2. history' \in Seq(Change) /\ Len(history') <= maxHist
    BY <2>1, PushFacts
  <2> QED
    BY <2>1, <2>2
<1>7. ASSUME NEW k \in {"ConfigMap", "Secret"}, applying[k] # NoConfig,
             Attribute(k, findMounters(applying[k].config)), UNCHANGED env
      PROVE  ConfigTypes'
  <2> DEFINE by == findMounters(applying[k].config)
  <2>1. /\ applying' = [applying EXCEPT ![k].by = by]
        /\ UNCHANGED <<last, history, cfgQ>>
    BY <1>7 DEF Attribute, env, queues
  <2>2. by \in SUBSET Owner
    BY MountersFacts
  <2> HIDE DEF by
  <2>3. applying'[k] = [applying[k] EXCEPT !.by = by] /\ applying[k] \in Change
        /\ KindOf[applying[k].config] = k
    BY <1>7, <2>1
  <2>4. applying'[k] \in Change /\ applying'[k].config = applying[k].config
    BY <2>2, <2>3 DEF Change
  <2> QED
    BY <2>1, <2>3, <2>4
<1> QED
  BY <1>1, <1>2, <1>3, <1>4, <1>5, <1>6, <1>7, ConfigStepKinds DEF ConfigStep

\* What is left of a queue ends as it did; the last to leave ended it.
LEMMA TailLast ==
  ASSUME NEW T, NEW q \in Seq(T), q # <<>>
  PROVE  IF Tail(q) = <<>> THEN Head(q) = q[Len(q)] ELSE Tail(q)[Len(Tail(q))] = q[Len(q)]
<1>1. Len(q) \in Nat /\ Len(q) # 0 /\ Head(q) = q[1]
  BY EmptySeq
<1>2. /\ Tail(q) \in Seq(T) /\ Len(Tail(q)) = Len(q) - 1
      /\ \A i \in 1..Len(Tail(q)) : Tail(q)[i] = q[i + 1]
  BY HeadTailProperties
<1>5. Len(Tail(q)) = 0 => Len(q) = 1
  <2> DEFINE n == Len(q)  t == Len(Tail(q))
  <2>1. n \in Nat /\ t = n - 1
    BY <1>1, <1>2
  <2> HIDE DEF n, t
  <2>2. t = 0 => n = 1
    BY <2>1
  <2> QED
    BY <2>2 DEF n, t
<1>3. CASE Tail(q) = <<>>
  <2>1. Len(Tail(q)) = 0
    BY <1>3, EmptySeq
  <2>2. Len(q) = 1
    BY <1>5, <2>1
  <2> QED
    BY <1>1, <1>3, <2>2
<1>4. CASE Tail(q) # <<>>
  <2> DEFINE n == Len(Tail(q))
  <2>1. n \in Nat /\ n # 0
    BY <1>2, <1>4, EmptySeq
  <2>2. n \in 1..n /\ n + 1 = Len(q)
    BY <1>1, <1>2, <2>1
  <2>3. Tail(q)[n] = q[n + 1]
    BY <1>2, <2>2
  <2> QED
    BY <1>4, <2>2, <2>3
<1> QED
  BY <1>3, <1>4

LEMMA ReportedKept ==
  ASSUME Reported, ConfigTypes, AuditInv, [Next]_vars PROVE Reported'
<1>1. CASE UNCHANGED <<last, cfgQ, cfgApi>>
  BY <1>1 DEF Reported
<1>2. CASE Resync
  <2>1. UNCHANGED <<last, cfgApi>> /\ \A c \in Config : cfgQ[c] = <<>>
    BY <1>2 DEF Resync, watchers, configVars, api
  <2>2. cfgQ' = [c \in Config |-> IF cfgApi[c] = NoConfig THEN <<>> ELSE <<cfgApi[c].data>>]
    BY <1>2 DEF Resync
  <2>3. SUFFICES ASSUME NEW c \in Config \ Skipped, cfgApi[c] # NoConfig
                 PROVE  cfgQ'[c] # <<>> /\ cfgQ'[c][Len(cfgQ'[c])] = cfgApi[c].data
    BY <2>1 DEF Reported
  <2>4. cfgQ'[c] = <<cfgApi[c].data>>
    BY <2>2, <2>3
  <2> QED
    BY <2>4
<1>3. ASSUME NEW x \in Config, DeleteConfig(x) PROVE Reported'
  <2>1. UNCHANGED <<last, cfgQ>> /\ cfgApi' = [cfgApi EXCEPT ![x] = NoConfig]
    BY <1>3 DEF DeleteConfig, queues, configVars
  <2> QED
    BY <2>1 DEF Reported, AuditInv, ServerTypes
<1>4. ASSUME NEW x \in Config, NEW d \in Data, NEW m \in Manager, WriteConfig(x, d, m)
      PROVE  Reported'
  <2>1. last' = last /\ cfgQ' = [cfgQ EXCEPT ![x] = Append(cfgQ[x], d)]
    BY <1>4 DEF WriteConfig, configVars, Notify
  <2>2. cfgApi'[x].data = d /\ \A c \in Config : c # x => cfgApi'[c] = cfgApi[c]
    <3>1. ServerTypes
      BY DEF AuditInv
    <3>2. PICK ms \in Managed(Old(x), m) :
            cfgApi' = [cfgApi EXCEPT ![x] =
              [data |-> d, version |-> Len(wrote'), managers |-> ms,
               created |-> IF cfgApi[x] = NoConfig THEN now ELSE cfgApi[x].created]]
      BY <1>4 DEF WriteConfig, Old
    <3> QED
      BY <3>1, <3>2 DEF ServerTypes
  <2>3. cfgQ'[x] # <<>> /\ cfgQ'[x][Len(cfgQ'[x])] = d
    <3>1. cfgQ'[x] = Append(cfgQ[x], d) /\ cfgQ[x] \in Seq(Data)
      BY <2>1 DEF ConfigTypes
    <3> QED
      BY <3>1
  <2>4. \A c \in Config : c # x => cfgQ'[c] = cfgQ[c]
    BY <2>1 DEF ConfigTypes
  <2> QED
    BY <2>1, <2>2, <2>3, <2>4 DEF Reported
<1>5. ASSUME NEW x \in Config, ConfigNotification(x) PROVE Reported'
  <2>1. /\ cfgQ[x] # <<>> /\ cfgQ' = [cfgQ EXCEPT ![x] = Tail(@)] /\ cfgApi' = cfgApi
        /\ IF x \in Skipped THEN last' = last ELSE last' = [last EXCEPT ![x] = Head(cfgQ[x])]
    BY <1>5 DEF ConfigNotification, api, applySnapshot, NextSnapshot
  <2>2. \A c \in Config \ Skipped : c # x => cfgQ'[c] = cfgQ[c] /\ last'[c] = last[c]
    BY <2>1 DEF ConfigTypes
  <2>3. ASSUME x \notin Skipped, cfgApi[x] # NoConfig
        PROVE  IF cfgQ'[x] = <<>> THEN last'[x] = cfgApi[x].data
               ELSE cfgQ'[x][Len(cfgQ'[x])] = cfgApi[x].data
    <3>1. /\ cfgQ[x] \in Seq(Data) /\ cfgQ'[x] = Tail(cfgQ[x]) /\ last'[x] = Head(cfgQ[x])
          /\ cfgQ[x][Len(cfgQ[x])] = cfgApi[x].data
      BY <2>1, <2>3 DEF ConfigTypes, Reported
    <3> QED
      BY <2>1, <3>1, TailLast
  <2> QED
    BY <2>1, <2>2, <2>3 DEF Reported
<1>6. CASE \E k \in {"ConfigMap", "Secret"} : ConfigStep(k)
  <2>1. UNCHANGED <<last, cfgQ, cfgApi>>
    BY <1>6 DEF ConfigStep, AppendChange, Attribute, env, api, queues
  <2> QED
    BY <1>1, <2>1
<1> QED
  BY <1>1, <1>2, <1>3, <1>4, <1>5, <1>6, ConfigStepKinds
\* A history with one change more.
LEMMA Appended ==
  ASSUME NEW hist \in Seq(Change), NEW a \in Change \cup {NoConfig}
  PROVE  /\ Append(hist, a) \in Seq(Change \cup {NoConfig}) /\ Len(hist) \in Nat
         /\ \A i \in 1..Len(hist) : Append(hist, a)[i] = hist[i] /\ hist[i] \in Change /\ hist[i] # NoConfig
         /\ Append(hist, a)[Len(hist) + 1] = a
         /\ DOMAIN Append(hist, a) = 1..(Len(hist) + 1)
<1>1. NoConfig \notin Change
  BY WatchersAssumption
<1> HIDE DEF Change
<1> QED
  BY <1>1

LEMMA HistoryPushed ==
  ASSUME NEW hist \in Seq(Change), Len(hist) <= maxHist, NEW a \in Change
  PROVE  \E s \in {0, 1} :
           /\ Len(Push(hist, a, maxHist)) = Len(hist) + 1 - s
           /\ \A i \in 1..(Len(Push(hist, a, maxHist)) - 1) : Push(hist, a, maxHist)[i] = hist[i + s]
<1>1. PICK T, max : T = Change /\ max = maxHist
  OBVIOUS
<1>2. hist \in Seq(T) /\ a \in T /\ max \in Nat \ {0} /\ Len(hist) <= max
  BY <1>1, ConfigAssumption
<1>3. \E s \in {0, 1} :
        /\ Len(Push(hist, a, max)) = Len(hist) + 1 - s
        /\ \A i \in 1..(Len(Push(hist, a, max)) - 1) : Push(hist, a, max)[i] = hist[i + s]
        /\ s = 1 <=> Len(hist) = max
  BY ONLY <1>2, Pushed
<1> QED
  BY <1>1, <1>3

\* The change that was being recorded enters the history.
LEMMA OwnEnters ==
  ASSUME NEW hist \in Seq(Change), Len(hist) <= maxHist, NEW a \in Change, NEW c, NEW d,
         Chain(Append(hist, a), c, d)
  PROVE  Chain(Append(Push(hist, a, maxHist), NoConfig), c, d)
<1> DEFINE K == Append(hist, a)  g == Push(hist, a, maxHist)  L == Append(g, NoConfig)
           n == Len(hist)
<1>1. maxHist \in Nat \ {0} /\ n \in Nat
  BY ConfigAssumption
<1>2. /\ K \in Seq(Change \cup {NoConfig}) /\ DOMAIN K = 1..(n + 1)
      /\ K[n + 1] = a /\ \A i \in 1..n : K[i] = hist[i]
  BY Appended
<1>3. g \in Seq(Change) /\ Len(g) \in 1..maxHist /\ g[Len(g)] = a
  BY <1>1, PushFacts
<1>4. /\ L \in Seq(Change \cup {NoConfig}) /\ DOMAIN L = 1..(Len(g) + 1)
      /\ L[Len(g) + 1] = NoConfig /\ \A i \in 1..Len(g) : L[i] = g[i] /\ g[i] # NoConfig
  BY <1>3, Appended
<1>5. PICK s \in {0, 1} : Len(g) = n + 1 - s /\ \A i \in 1..(Len(g) - 1) : g[i] = hist[i + s]
  BY HistoryPushed
<1> HIDE DEF K, g, L, n
<1>6. \A i \in 1..Len(g) : L[i] = K[i + s] /\ i + s \in 1..(n + 1)
  <2>1. ASSUME NEW i \in 1..Len(g) PROVE L[i] = K[i + s] /\ i + s \in 1..(n + 1)
    <3>1. CASE i = Len(g)
      <4>1. i + s = n + 1
        BY <1>1, <1>3, <1>5, <3>1
      <4> QED
        BY <1>1, <1>2, <1>3, <1>4, <3>1, <4>1
    <3>2. CASE i # Len(g)
      <4>1. i \in 1..(Len(g) - 1) /\ i + s \in 1..n
        BY <1>1, <1>3, <1>5, <3>2
      <4> QED
        BY <1>1, <1>2, <1>4, <1>5, <4>1
    <3> QED
      BY <3>1, <3>2
  <2> QED
    BY <2>1
<1>7. /\ \A i \in Of(L, c) : i \in 1..Len(g) /\ K[i + s].config = c
      /\ \A i \in 1..Len(g) : K[i + s].config = c => i \in Of(L, c)
  <2>1. ASSUME NEW i \in Of(L, c) PROVE i \in 1..Len(g) /\ K[i + s].config = c
    <3>1. i \in 1..(Len(g) + 1) /\ L[i] # NoConfig /\ L[i].config = c
      BY <1>4 DEF Of
    <3>2. i # Len(g) + 1
      BY <1>4, <3>1
    <3>3. i \in 1..Len(g)
      BY <1>3, <3>1, <3>2
    <3> QED
      BY <1>6, <3>1, <3>3
  <2>2. ASSUME NEW i \in 1..Len(g), K[i + s].config = c PROVE i \in Of(L, c)
    <3>1. L[i] # NoConfig /\ L[i].config = c
      BY <1>4, <1>6, <2>2
    <3>2. i \in DOMAIN L
      BY <1>3, <1>4
    <3> QED
      BY <3>1, <3>2 DEF Of
  <2> QED
    BY <2>1, <2>2
<1>8. ASSUME NEW i \in 1..Len(g) PROVE K[i + s] # NoConfig
  BY <1>4, <1>6
<1> DEFINE h == [i \in Of(L, c) |-> i + s]
<1>9. \A i \in Of(L, c) : h[i] \in Of(K, c) /\ L[i].from = K[h[i]].from /\ L[i].to = K[h[i]].to
  BY <1>2, <1>6, <1>7, <1>8 DEF Of
<1>10. \A i, j \in Of(L, c) : i < j => h[i] < h[j]
  <2>1. Of(L, c) \subseteq Nat
    BY <1>7
  <2> QED
    BY <2>1
<1>11. ASSUME NEW i \in Of(L, c), NEW j \in Of(K, c), h[i] < j PROVE \E m \in Of(L, c) : h[m] = j
  <2>1. j \in 1..(n + 1) /\ i \in 1..Len(g) /\ i + s < j
    BY <1>2, <1>7, <1>11 DEF Of
  <2>2. j - s \in 1..Len(g) /\ (j - s) + s = j
    BY <1>1, <1>3, <1>5, <2>1
  <2>3. j - s \in Of(L, c)
    BY <1>7, <2>2 DEF Of
  <2> QED
    BY <2>2, <2>3
<1> HIDE DEF h
<1>12. Chain(K, c, d)
  BY DEF K
<1>14. K \in Seq(Change \cup {NoConfig}) /\ L \in Seq(Change \cup {NoConfig})
  BY <1>2, <1>4
<1>15. \A i \in Of(L, c), j \in Of(K, c) : h[i] < j => \E m \in Of(L, c) : h[m] = j
  BY <1>11
<1>13. Chain(L, c, d)
  BY ONLY <1>9, <1>10, <1>12, <1>14, <1>15, ChainMoved
<1> QED
  BY <1>13 DEF L, g

\* A change of the other kind enters it before the one being recorded.
LEMMA OtherEnters ==
  ASSUME NEW hist \in Seq(Change), Len(hist) <= maxHist, NEW a \in Change,
         NEW b \in Change \cup {NoConfig}, NEW c, NEW d, a.config # c,
         Chain(Append(hist, b), c, d)
  PROVE  Chain(Append(Push(hist, a, maxHist), b), c, d)
<1> DEFINE K == Append(hist, b)  g == Push(hist, a, maxHist)  L == Append(g, b)
           n == Len(hist)
<1>1. maxHist \in Nat \ {0} /\ n \in Nat
  BY ConfigAssumption
<1>2. /\ K \in Seq(Change \cup {NoConfig}) /\ DOMAIN K = 1..(n + 1)
      /\ K[n + 1] = b /\ \A i \in 1..n : K[i] = hist[i] /\ K[i] # NoConfig
  BY Appended
<1>3. g \in Seq(Change) /\ Len(g) \in 1..maxHist /\ g[Len(g)] = a
  BY <1>1, PushFacts
<1>4. /\ L \in Seq(Change \cup {NoConfig}) /\ DOMAIN L = 1..(Len(g) + 1)
      /\ L[Len(g) + 1] = b /\ \A i \in 1..Len(g) : L[i] = g[i] /\ g[i] # NoConfig
  BY <1>3, Appended
<1>5. PICK s \in {0, 1} : Len(g) = n + 1 - s /\ \A i \in 1..(Len(g) - 1) : g[i] = hist[i + s]
  BY HistoryPushed
<1> HIDE DEF K, g, L, n
<1> DEFINE top == Len(g) + 1
           at(i) == IF i = top THEN n + 1 ELSE i + s
<1>6. ASSUME NEW i \in Of(L, c)
      PROVE  i \in 1..top /\ i # Len(g) /\ at(i) \in 1..(n + 1) /\ L[i] = K[at(i)]
             /\ (i # top => at(i) \in 1..n)
  <2>1. i \in 1..top /\ L[i] # NoConfig /\ L[i].config = c
    BY <1>4 DEF Of
  <2>2. i # Len(g)
    <3>1. L[Len(g)].config # c
      BY <1>3, <1>4
    <3> QED
      BY <2>1, <3>1
  <2>3. CASE i = top
    BY <1>1, <1>2, <1>4, <2>1, <2>2, <2>3
  <2>4. CASE i # top
    <3>1. i \in 1..(Len(g) - 1) /\ i \in 1..Len(g) /\ i + s \in 1..n /\ i + s \in 1..(n + 1)
      BY <1>1, <1>3, <1>5, <2>1, <2>2, <2>4
    <3>2. L[i] = K[i + s]
      BY <1>2, <1>4, <1>5, <3>1
    <3> QED
      BY <2>1, <2>2, <2>4, <3>1, <3>2
  <2> QED
    BY <2>3, <2>4
<1> DEFINE h == [i \in Of(L, c) |-> at(i)]
<1>7. ASSUME NEW i \in Of(L, c)
      PROVE  h[i] \in Of(K, c) /\ L[i].from = K[h[i]].from /\ L[i].to = K[h[i]].to
  <2>1. h[i] = at(i) /\ L[i] # NoConfig /\ L[i].config = c
    BY DEF Of
  <2> HIDE DEF at
  <2> QED
    BY <1>2, <1>6, <2>1 DEF Of
<1>8. ASSUME NEW i \in Of(L, c), NEW j \in Of(L, c), i < j PROVE h[i] < h[j]
  <2>1. i \in 1..top /\ j \in 1..top /\ i # top
    BY <1>3, <1>6, <1>8
  <2>2. CASE j = top
    BY <1>1, <1>6, <2>1, <2>2
  <2>3. CASE j # top
    BY <1>8, <2>1, <2>3
  <2> QED
    BY <2>2, <2>3
<1>9. ASSUME NEW i \in Of(L, c), NEW j \in Of(K, c), h[i] < j PROVE \E m \in Of(L, c) : h[m] = j
  <2>1. j \in 1..(n + 1) /\ K[j] # NoConfig /\ K[j].config = c
    BY <1>2 DEF Of
  <2>2. i \in 1..top /\ at(i) < j
    BY <1>6, <1>9
  <2>3. CASE j = n + 1
    <3>1. top \in Of(L, c)
      BY <1>2, <1>3, <1>4, <2>1, <2>3 DEF Of
    <3> QED
      BY <2>3, <3>1
  <2>4. CASE j # n + 1
    <3>1. i + s < j /\ j \in 1..n
      BY <1>1, <2>1, <2>2, <2>4
    <3>2. /\ j - s \in 1..(Len(g) - 1) /\ (j - s) + s = j /\ j - s # top
          /\ j - s \in 1..Len(g) /\ j - s \in 1..top
      BY <1>1, <1>3, <1>5, <2>2, <3>1
    <3>3. L[j - s] = K[j]
      BY <1>2, <1>4, <1>5, <3>1, <3>2
    <3>4. j - s \in Of(L, c)
      BY <1>4, <2>1, <3>2, <3>3 DEF Of
    <3> QED
      BY <3>2, <3>4
  <2> QED
    BY <2>3, <2>4
<1> HIDE DEF h
<1>10. Chain(K, c, d)
  BY DEF K
<1>12. K \in Seq(Change \cup {NoConfig}) /\ L \in Seq(Change \cup {NoConfig})
  BY <1>2, <1>4
<1>13. \A i \in Of(L, c) : h[i] \in Of(K, c) /\ L[i].from = K[h[i]].from /\ L[i].to = K[h[i]].to
  BY <1>7
<1>14. \A i, j \in Of(L, c) : i < j => h[i] < h[j]
  BY <1>8
<1>15. \A i \in Of(L, c), j \in Of(K, c) : h[i] < j => \E m \in Of(L, c) : h[m] = j
  BY <1>9
<1>11. Chain(L, c, d)
  BY ONLY <1>10, <1>12, <1>13, <1>14, <1>15, ChainMoved
<1> QED
  BY <1>11 DEF L, g

\* A new change of the object itself begins where its snapshot stood.
LEMMA OwnBegins ==
  ASSUME NEW hist \in Seq(Change), NEW a \in Change, NEW c, NEW d \in Data,
         a.config = c, a.from = d, a.from # a.to,
         Chain(Append(hist, NoConfig), c, d)
  PROVE  Chain(Append(hist, a), c, a.to)
<1> DEFINE K == Append(hist, NoConfig)  L == Append(hist, a)  n == Len(hist)
<1>1. /\ n \in Nat /\ DOMAIN K = 1..(n + 1) /\ DOMAIN L = 1..(n + 1)
      /\ K[n + 1] = NoConfig /\ L[n + 1] = a
      /\ \A i \in 1..n : K[i] = L[i]
  BY Appended
<1>2. a # NoConfig
  BY WatchersAssumption
<1>3. Chain(K, c, d)
  OBVIOUS
<1> HIDE DEF K, L, n
<1>4. Of(K, c) \subseteq 1..n
  <2>1. ASSUME NEW i \in Of(K, c) PROVE i \in 1..n
    <3>1. i \in 1..(n + 1) /\ i # n + 1
      BY <1>1 DEF Of
    <3> QED
      BY <1>1, <3>1
  <2> QED
    BY <2>1
<1>5. Of(L, c) = Of(K, c) \cup {n + 1}
  BY <1>1, <1>2, <1>4 DEF Of
<1>6. \A i \in Of(K, c) : i \in Nat /\ i < n + 1 /\ L[i] = K[i]
  BY <1>1, <1>4
<1>7. \A i \in Of(L, c) : L[i].from # L[i].to
  BY <1>1, <1>3, <1>5, <1>6 DEF Chain
<1>8. ASSUME NEW i \in Of(L, c), NEW j \in Of(L, c), i < j,
             ~\E k \in Of(L, c) : i < k /\ k < j
      PROVE  L[i].to = L[j].from
  <2>1. i \in Of(K, c)
    <3>1. i # n + 1
      BY <1>1, <1>5, <1>6, <1>8
    <3> QED
      BY <1>5, <3>1
  <2>2. CASE j \in Of(K, c)
    <3>1. ~\E k \in Of(K, c) : i < k /\ k < j
      BY <1>5, <1>8
    <3> QED
      BY <1>3, <1>6, <1>8, <2>1, <2>2, <3>1 DEF Chain
  <2>3. CASE j = n + 1
    <3>1. ASSUME NEW k \in Of(K, c), ~(k <= i) PROVE FALSE
      <4>2. i \in Nat /\ k \in Nat /\ k < n + 1
        BY <1>6, <2>1
      <4>1. i < k /\ k < j
        BY <2>3, <3>1, <4>2
      <4> QED
        BY <1>5, <1>8, <4>1
    <3>2. K[i].to = d
      BY <1>3, <2>1, <3>1 DEF Chain
    <3> QED
      BY <1>1, <1>6, <2>1, <2>3, <3>2
  <2> QED
    BY <1>5, <2>2, <2>3
<1>9. ASSUME NEW i \in Of(L, c), \A j \in Of(L, c) : j <= i PROVE L[i].to = a.to
  <2>1. n + 1 \in Of(L, c) /\ n + 1 <= i
    BY <1>5, <1>9
  <2>2. i = n + 1
    BY <1>1, <1>5, <1>6, <2>1
  <2> QED
    BY <1>1, <2>2
<1>10. a.to # NoConfig
  <2>1. a.to \in Data
    BY DEF Change
  <2> QED
    BY <2>1, WatchersAssumption
<1>11. Chain(L, c, a.to)
  BY <1>7, <1>8, <1>9, <1>10 DEF Chain
<1> QED
  BY <1>11 DEF L
LEMMA ChainedKept ==
  ASSUME ConfigInv, CacheTypes, [Next]_vars PROVE Chained'
<1>1. CASE UNCHANGED <<last, history, applying>>
  BY <1>1 DEF ConfigInv, Chained, Kept
<1>2. ASSUME NEW x \in Config, ConfigNotification(x) PROVE Chained'
  <2> DEFINE d == Head(cfgQ[x])  k == KindOf[x]
  <2>1. history' = history /\ applying[k] = NoConfig /\ d \in Data
    BY <1>2 DEF ConfigNotification, applySnapshot, ConfigInv, ConfigTypes
  <2>2. CASE UNCHANGED <<last, applying>>
    BY <1>1, <2>1, <2>2
  <2>3. CASE last' = [last EXCEPT ![x] = d] /\ applying' = applying /\ ~IsChange(x, d)
    <3>1. ASSUME NEW c \in Config PROVE Chain(Kept(c), c, last'[c])
      <4>1. Chain(Kept(c), c, last[c])
        BY DEF ConfigInv, Chained
      <4>2. CASE c # x \/ last[x] = d
        <5>1. last'[c] = last[c]
          BY <2>3, <4>2 DEF ConfigInv, ConfigTypes
        <5> QED
          BY <4>1, <5>1
      <4>3. CASE c = x /\ last[x] = NoConfig
        <5>1. Of(Kept(c), c) = {}
          BY <4>1, <4>3 DEF Chain
        <5>2. last'[c] = d /\ d # NoConfig
          BY <2>1, <2>3, <4>3, WatchersAssumption DEF ConfigInv, ConfigTypes
        <5> QED
          BY <5>1, <5>2 DEF Chain
      <4> QED
        BY <2>3, <4>2, <4>3 DEF IsChange
    <3>2. \A c \in Config : Kept(c)' = Kept(c)
      BY <2>1, <2>3 DEF Kept
    <3> QED
      BY <3>1, <3>2 DEF Chained
  <2>4. CASE /\ last' = [last EXCEPT ![x] = d] /\ IsChange(x, d)
             /\ applying' = [applying EXCEPT ![k] = [config |-> x, from |-> last[x], to |-> d,
                                                     by |-> NoConfig]]
    <3> DEFINE a == [config |-> x, from |-> last[x], to |-> d, by |-> NoConfig]
    <3>1. last[x] \in Data /\ last[x] # d /\ k \in {"ConfigMap", "Secret"} /\ history \in Seq(Change)
      BY <2>4, ConfigAssumption DEF IsChange, ConfigInv, ConfigTypes
    <3>2. a \in Change
      BY <2>1, <3>1 DEF Change
    <3>3. a.config = x /\ a.from = last[x] /\ a.to = d
      OBVIOUS
    <3>4. applying'[k] = a /\ \A y \in {"ConfigMap", "Secret"} : y # k => applying'[y] = applying[y]
      BY <2>4, <3>1 DEF ConfigInv, ConfigTypes
    <3> HIDE DEF a, d
    <3>5. ASSUME NEW c \in Config PROVE Chain(Append(history, applying'[KindOf[c]]), c, last'[c])
      <4>0. KindOf[c] \in {"ConfigMap", "Secret"}
        BY ConfigAssumption
      <4>1. Chain(Append(history, applying[KindOf[c]]), c, last[c])
        BY DEF ConfigInv, Chained, Kept
      <4>2. CASE c = x
        <5>1. Chain(Append(history, a), x, d)
          BY <2>1, <3>1, <3>2, <3>3, <4>1, <4>2, OwnBegins
        <5>2. last'[x] = d
          BY <2>4 DEF ConfigInv, ConfigTypes
        <5> QED
          BY <3>4, <4>2, <5>1, <5>2
      <4>3. CASE c # x
        <5>1. last'[c] = last[c]
          BY <2>4, <4>3 DEF ConfigInv, ConfigTypes
        <5>2. CASE KindOf[c] # k
          BY <3>4, <4>0, <4>1, <5>1, <5>2
        <5>3. CASE KindOf[c] = k
          <6> DEFINE K == Append(history, NoConfig)  L == Append(history, a)  n == Len(history)
          <6>1. /\ K \in Seq(Change \cup {NoConfig}) /\ L \in Seq(Change \cup {NoConfig})
                /\ n \in Nat /\ DOMAIN K = 1..(n + 1) /\ DOMAIN L = 1..(n + 1)
                /\ K[n + 1] = NoConfig /\ L[n + 1] = a /\ \A i \in 1..n : K[i] = L[i]
            BY <3>1, <3>2, Appended
          <6>2. Chain(K, c, last[c])
            BY <2>1, <4>1, <5>3
          <6> HIDE DEF K, L, n
          <6>3. /\ \A i \in Of(K, c) : i \in 1..n
                /\ \A i \in Of(L, c) : i \in 1..n
            <7>1. ASSUME NEW i \in Of(K, c) PROVE i \in 1..n
              <8>1. i \in 1..(n + 1) /\ i # n + 1
                BY <6>1 DEF Of
              <8> QED
                BY <6>1, <8>1
            <7>2. ASSUME NEW i \in Of(L, c) PROVE i \in 1..n
              <8>1. i \in 1..(n + 1) /\ i # n + 1
                BY <3>3, <4>3, <6>1 DEF Of
              <8> QED
                BY <6>1, <8>1
            <7> QED
              BY <7>1, <7>2
          <6>4. Of(K, c) = Of(L, c)
            BY <6>1, <6>3 DEF Of
          <6>5. \A i \in Of(L, c) : L[i].from = K[i].from /\ L[i].to = K[i].to
            BY <6>1, <6>3
          <6>6. Chain(L, c, last[c])
            BY ONLY <6>1, <6>2, <6>4, <6>5, ChainSame
          <6> QED
            BY <3>4, <5>1, <5>3, <6>6 DEF L
        <5> QED
          BY <5>2, <5>3
      <4> QED
        BY <4>2, <4>3
    <3> QED
      BY <2>1, <3>5 DEF Chained, Kept
  <2>5. \/ UNCHANGED <<last, applying>>
        \/ last' = [last EXCEPT ![x] = d] /\ applying' = applying /\ ~IsChange(x, d)
        \/ /\ last' = [last EXCEPT ![x] = d] /\ IsChange(x, d)
           /\ applying' = [applying EXCEPT ![k] = [config |-> x, from |-> last[x], to |-> d,
                                                   by |-> NoConfig]]
    BY <1>2 DEF ConfigNotification, applySnapshot, NextSnapshot
  <2> QED
    BY <2>2, <2>3, <2>4, <2>5
<1>3. ASSUME NEW k \in {"ConfigMap", "Secret"}, AppendChange(k) PROVE Chained'
  <2> DEFINE a == applying[k]
  <2>1. /\ a \in Change /\ KindOf[a.config] = k /\ last' = last
        /\ history' = Push(history, a, maxHist) /\ applying' = [applying EXCEPT ![k] = NoConfig]
        /\ history \in Seq(Change) /\ Len(history) <= maxHist
    BY <1>3 DEF AppendChange, ConfigInv, ConfigTypes
  <2>2. applying'[k] = NoConfig /\ \A y \in {"ConfigMap", "Secret"} : y # k => applying'[y] = applying[y]
    BY <2>1 DEF ConfigInv, ConfigTypes
  <2> HIDE DEF a
  <2>3. ASSUME NEW c \in Config PROVE Chain(Append(history', applying'[KindOf[c]]), c, last[c])
    <3>0. KindOf[c] \in {"ConfigMap", "Secret"}
      BY ConfigAssumption
    <3>1. Chain(Append(history, applying[KindOf[c]]), c, last[c])
      BY DEF ConfigInv, Chained, Kept
    <3>2. CASE KindOf[c] = k
      BY <2>1, <2>2, <3>1, <3>2, OwnEnters DEF a
    <3>3. CASE KindOf[c] # k
      <4>1. a.config # c /\ applying[KindOf[c]] \in Change \cup {NoConfig}
        BY <2>1, <3>0, <3>3 DEF ConfigInv, ConfigTypes
      <4>2. Chain(Append(Push(history, a, maxHist), applying[KindOf[c]]), c, last[c])
        BY ONLY <2>1, <3>1, <4>1, OtherEnters
      <4> QED
        BY <2>1, <2>2, <3>0, <3>3, <4>2
    <3> QED
      BY <3>2, <3>3
  <2> QED
    BY <2>1, <2>3 DEF Chained, Kept
<1>4. ASSUME NEW k \in {"ConfigMap", "Secret"}, applying[k] # NoConfig,
             Attribute(k, findMounters(applying[k].config))
      PROVE  Chained'
  <2> DEFINE by == findMounters(applying[k].config)
  <2>1. applying' = [applying EXCEPT ![k].by = by] /\ UNCHANGED <<last, history>>
        /\ history \in Seq(Change)
    BY <1>4 DEF Attribute, ConfigInv, ConfigTypes
  <2> HIDE DEF by
  <2>2. /\ applying'[k] = [applying[k] EXCEPT !.by = by]
        /\ \A y \in {"ConfigMap", "Secret"} : y # k => applying'[y] = applying[y]
        /\ applying[k] \in Change /\ history \in Seq(Change)
    BY <1>4, <2>1 DEF ConfigInv, ConfigTypes
  <2>4. applying'[k] \in Change
    <3>1. by \in SUBSET Owner
      BY MountersFacts DEF by
    <3> HIDE DEF by
    <3> QED
      BY <2>2, <3>1 DEF Change
  <2>3. ASSUME NEW c \in Config PROVE Chain(Append(history, applying'[KindOf[c]]), c, last[c])
    <3>0. KindOf[c] \in {"ConfigMap", "Secret"}
      BY ConfigAssumption
    <3>1. Chain(Append(history, applying[KindOf[c]]), c, last[c])
      BY DEF ConfigInv, Chained, Kept
    <3>2. CASE KindOf[c] = k
      <4> DEFINE a == applying[k]  b == applying'[k]
                 K == Append(history, a)  L == Append(history, b)  n == Len(history)
      <4>1. b.config = a.config /\ b.from = a.from /\ b.to = a.to /\ a # NoConfig
        BY <1>4, <2>2 DEF Change
      <4>2. a \in Change /\ b \in Change
        BY <2>2, <2>4
      <4> HIDE DEF a, b
      <4>3. b # NoConfig
        BY <4>2, WatchersAssumption
      <4>4. /\ K \in Seq(Change \cup {NoConfig}) /\ L \in Seq(Change \cup {NoConfig})
            /\ n \in Nat /\ DOMAIN K = 1..(n + 1) /\ DOMAIN L = 1..(n + 1)
            /\ K[n + 1] = a /\ L[n + 1] = b /\ \A i \in 1..n : K[i] = L[i]
        BY <2>2, <4>2, Appended
      <4>5. Chain(K, c, last[c])
        BY <3>1, <3>2 DEF a
      <4> HIDE DEF K, L, n
      <4>6. \A i \in 1..(n + 1) : /\ L[i] = K[i] \/ (K[i] = a /\ L[i] = b)
        <5>1. ASSUME NEW i \in 1..(n + 1) PROVE L[i] = K[i] \/ (K[i] = a /\ L[i] = b)
          <6>1. i = n + 1 \/ i \in 1..n
            BY <4>4
          <6> QED
            BY <4>4, <6>1
        <5> QED
          BY <5>1
      <4>7. Of(K, c) = Of(L, c)
        BY <4>1, <4>3, <4>4, <4>6 DEF Of
      <4>8. \A i \in Of(L, c) : L[i].from = K[i].from /\ L[i].to = K[i].to
        BY <4>1, <4>4, <4>6 DEF Of
      <4>9. Chain(L, c, last[c])
        BY ONLY <4>4, <4>5, <4>7, <4>8, ChainSame
      <4> QED
        BY <3>2, <4>9 DEF L, b
    <3>3. CASE KindOf[c] # k
      BY <2>2, <3>0, <3>1, <3>3
    <3> QED
      BY <3>2, <3>3
  <2> QED
    BY <2>1, <2>3 DEF Chained, Kept
<1>5. CASE Resync
  BY <1>1, <1>5 DEF Resync, watchers, configVars
<1>6. ASSUME NEW c \in Config, DeleteConfig(c) PROVE Chained'
  BY <1>1, <1>6 DEF DeleteConfig, configVars
<1>7. ASSUME NEW c \in Config, NEW d \in Data, NEW m \in Manager, WriteConfig(c, d, m)
      PROVE  Chained'
  BY <1>1, <1>7 DEF WriteConfig, configVars
<1> QED
  BY <1>1, <1>2, <1>3, <1>4, <1>5, <1>6, <1>7, ConfigStepKinds DEF ConfigStep

LEMMA AllInv == Spec => [](CacheInv /\ AuditInv /\ ConfigInv)
<1>1. Init => ConfigInv
  BY ConfigInitially
<1>2. CacheInv /\ AuditInv /\ ConfigInv /\ [Next]_vars => ConfigInv'
  BY ConfigTypesKept, ReportedKept, ChainedKept DEF ConfigInv, CacheInv, AuditInv
<1> QED
  BY <1>1, <1>2, CacheAlways, AuditAlways, PTL DEF Spec

(* However notifications, resyncs and the sections of the two informers'   *)
(* callbacks interleave, and however short the history: the changes kept   *)
(* of an object are a chain of changes up to its snapshot, and the snapshot *)
(* is what the API server holds once everything was reported.              *)
THEOREM HistoryIsAChain == Spec => []HistoryChains
<1>1. ASSUME ConfigInv PROVE HistoryChains
  <2>1. SUFFICES ASSUME NEW c \in Config
        PROVE /\ \A i \in ChangesOf(c) :
                   /\ diffKeys(Kept(c)[i].from, Kept(c)[i].to) # {}
                   /\ \A j \in ChangesOf(c) :
                        (i < j /\ ~\E k \in ChangesOf(c) : i < k /\ k < j) => Kept(c)[i].to = Kept(c)[j].from
                   /\ (\A j \in ChangesOf(c) : j <= i) => Kept(c)[i].to = last[c]
              /\ c \notin Skipped /\ cfgQ[c] = <<>> /\ cfgApi[c] # NoConfig => last[c] = cfgApi[c].data
    BY DEF HistoryChains
  <2>2. Chain(Kept(c), c, last[c]) /\ ChangesOf(c) = Of(Kept(c), c)
    BY <1>1 DEF ConfigInv, Chained, ChangesOf, Of
  <2>3. ASSUME NEW i \in ChangesOf(c) PROVE diffKeys(Kept(c)[i].from, Kept(c)[i].to) # {}
    <3> DEFINE old == Kept(c)[i].from  new == Kept(c)[i].to
    <3>1. Kept(c) \in Seq(Change \cup {NoConfig})
      BY <1>1, KeptFacts DEF ConfigInv
    <3>2. Kept(c)[i] \in Change
      BY <2>2, <3>1 DEF Of
    <3>3. old \in Data /\ new \in Data /\ old # new
      BY <2>2, <3>2 DEF Change, Chain
    <3> HIDE DEF old, new
    <3>4. PICK k \in Key : old[k] # new[k]
      BY <3>3 DEF Data
    <3>5. changeType(old[k], new[k]) # "none"
      BY <3>4 DEF changeType
    <3>6. [key |-> k, type |-> changeType(old[k], new[k])] \in diffKeys(old, new)
      BY <3>5 DEF diffKeys
    <3> QED
      BY <3>6 DEF old, new
  <2>4. c \notin Skipped /\ cfgQ[c] = <<>> /\ cfgApi[c] # NoConfig => last[c] = cfgApi[c].data
    BY <1>1 DEF ConfigInv, Reported
  <2> QED
    BY <2>2, <2>3, <2>4 DEF Chain
<1> QED
  BY <1>1, AllInv, PTL
-----------------------------------------------------------------------------
(* The event watcher.                                                      *)
Note == [event : Event, stamp : Nat \ {0}]
RingItem == [event : Warning, lastSeen : Nat]
Exists == {e \in Event : evApi[e] # 0}
Warnings == {e \in Warning : evApi[e] # 0}

EventTypes ==
  /\ now \in Nat \ {0}
  /\ evApi \in [Event -> Nat] /\ \A e \in Event : evApi[e] <= now
  /\ IsFiniteSet(Exists)
  /\ recent \in Seq(RingItem) /\ Len(recent) <= maxItems
  /\ \A i \in DOMAIN recent : recent[i].event \in Exists
  /\ evQ \in Seq(Note)
  /\ \A i \in DOMAIN evQ : evQ[i].event \in Exists

StrictlyNewest(e) == e \in Warnings /\ \A f \in Warning \ {e} : evApi[e] > evApi[f]

\* It is in the ring, and no Warning after it there or on its way is told of
\* twice; or it is on its way, and none after it is.
InRing(e) ==
  \E i \in DOMAIN recent :
    /\ recent[i] = [event |-> e, lastSeen |-> evApi[e]]
    /\ \A j, k \in i..Len(recent) : j # k => recent[j].event # recent[k].event
    /\ \A j \in i..Len(recent), k \in DOMAIN evQ : recent[j].event # evQ[k].event
    /\ \A j, k \in DOMAIN evQ : (j # k /\ evQ[j].event \in Warning) => evQ[j].event # evQ[k].event

OnItsWay(e) ==
  \E i \in DOMAIN evQ :
    /\ evQ[i] = [event |-> e, stamp |-> evApi[e]]
    /\ \A j, k \in i..Len(evQ) : (j # k /\ evQ[j].event \in Warning) => evQ[j].event # evQ[k].event

Found ==
  Cardinality(Warnings) <= maxItems =>
    \A e \in Warning : StrictlyNewest(e) => InRing(e) \/ OnItsWay(e)

EventInv == EventTypes /\ Found

LEMMA EventInitially ==
  ASSUME Init PROVE EventInv
<1>1. recent = <<>> /\ evQ = <<>> /\ now = 1 /\ evApi = [e \in Event |-> 0]
  BY DEF Init, EventInit
<1>2. Exists = {} /\ IsFiniteSet(Exists)
  BY <1>1, FS_EmptySet DEF Exists
<1>3. \A e \in Warning : ~StrictlyNewest(e)
  BY <1>1, EventAssumption DEF StrictlyNewest, Warnings
<1> QED
  BY <1>1, <1>2, <1>3, EventAssumption DEF EventInv, EventTypes, Found

LEMMA EventStepKinds ==
  ASSUME [Next]_vars
  PROVE  \/ UNCHANGED <<now, evApi, evQ, recent>>
         \/ Tick \/ Resync \/ EventNotification
         \/ \E e \in Event : WriteEvent(e)
<1>1. CASE UNCHANGED vars
  BY <1>1 DEF vars, env, api, queues, watchers
<1>2. CASE \E p \in Pod : WritePod(p) \/ DeletePod(p)
  BY <1>2 DEF WritePod, DeletePod, watchers
<1>3. CASE \E r \in ReplicaSet : CreateReplicaSet(r)
  BY <1>3 DEF CreateReplicaSet, watchers
<1>4. CASE \E c \in Config : AuditResync(c)
  BY <1>4 DEF AuditResync, env, api, queues
<1>5. CASE \E c \in Config : DeleteConfig(c)
  BY <1>5 DEF DeleteConfig, queues
<1>6. CASE \E c \in Config, d \in Data, m \in Manager : WriteConfig(c, d, m)
  BY <1>6 DEF WriteConfig
<1>7. CASE \E p \in Pod : PodNotification(p)
  BY <1>7 DEF PodNotification, api
<1>8. CASE \E r \in ReplicaSet : RSNotification(r)
  BY <1>8 DEF RSNotification, api
<1>9. CASE CacheStep
  BY <1>9 DEF CacheStep, env, api, queues
<1>10. CASE \E c \in Config : ConfigNotification(c)
  BY <1>10 DEF ConfigNotification, api
<1>11. CASE \E k \in {"ConfigMap", "Secret"} : ConfigStep(k)
  BY <1>11 DEF ConfigStep, env, api, queues
<1> QED
  BY <1>1, <1>2, <1>3, <1>4, <1>5, <1>6, <1>7, <1>8, <1>9, <1>10, <1>11 DEF Next, Handle

\* Of three time stamps the one that is set.
LEMMA LastSeenFacts ==
  ASSUME NEW i \in 1..3, NEW t \in Nat \ {0}, NEW clock
  PROVE  LastSeen([j \in 1..3 |-> IF j = i THEN t ELSE 0], clock) = t
<1> DEFINE stamps == [j \in 1..3 |-> IF j = i THEN t ELSE 0]
           I == {j \in 1..Len(stamps) : stamps[j] # 0}
<1>1. Len(stamps) = 3
  OBVIOUS
<1>2. I = {i}
  BY <1>1
<1>3. Min(I) = i
  BY <1>2 DEF Min
<1>4. SelectInSeq(stamps, LAMBDA x : x # 0) = Min(I)
  BY <1>2 DEF SelectInSeq
<1>5. SelectInSeq(stamps, LAMBDA x : x # 0) = i /\ stamps[i] = t /\ i # 0
  BY <1>3, <1>4
<1> QED
  BY <1>5 DEF LastSeen

\* What a resync reports: every event there is, once.
LEMMA ResyncOrder ==
  ASSUME EventTypes, NEW order,
         order \in SetToSeqs({[event |-> e, stamp |-> evApi[e]] : e \in {e \in Event : evApi[e] # 0}})
  PROVE  /\ order \in Seq(Note)
         /\ \A i \in DOMAIN order : order[i].event \in Exists
         /\ \A i, j \in DOMAIN order : i # j => order[i].event # order[j].event
         /\ \A e \in Exists : \E i \in DOMAIN order : order[i] = [event |-> e, stamp |-> evApi[e]]
<1> DEFINE note(e) == [event |-> e, stamp |-> evApi[e]]
           Notes == {note(e) : e \in Exists}
           D == 1..Cardinality(Notes)
<1>1. IsFiniteSet(Notes) /\ Cardinality(Notes) \in Nat
  <2> DEFINE f == [e \in Exists |-> note(e)]
  <2>1. f \in [Exists -> Notes]
    OBVIOUS
  <2>2. \A a, b \in Exists : f[a] = f[b] => a = b
    OBVIOUS
  <2>3. \A n \in Notes : \E e \in Exists : f[e] = n
    OBVIOUS
  <2>4. f \in Bijection(Exists, Notes)
    BY <2>1, <2>2, <2>3 DEF Bijection, Injection, IsInjective, Surjection
  <2>5. ExistsBijection(Exists, Notes)
    BY <2>4 DEF ExistsBijection
  <2>6. IsFiniteSet(Notes)
    BY <2>5, FS_Bijection DEF EventTypes
  <2> QED
    BY <2>6, FS_CardinalityType
<1>2. order \in [D -> Notes] /\ \A i, j \in D : i # j => order[i] # order[j]
  BY DEF SetToSeqs, Exists, IsInjective
<1>3. \A n \in Notes : n \in Note /\ n.event \in Exists /\ n = note(n.event)
  BY DEF EventTypes, Exists, Note
<1> HIDE DEF Notes
<1>4. order \in Seq(Note) /\ DOMAIN order = D
  <2>1. order \in [D -> Note]
    BY <1>2, <1>3
  <2> QED
    BY <1>1, <2>1
<1>5. \A i, j \in D : i # j => order[i].event # order[j].event
  BY <1>2, <1>3
<1>6. order \in Surjection(D, Notes)
  <2>1. IsFiniteSet(D) /\ Cardinality(D) = Cardinality(Notes)
    BY <1>1, FS_Interval
  <2>2. order \in Injection(D, Notes)
    BY <1>2 DEF Injection, IsInjective
  <2> QED
    BY <1>1, <2>1, <2>2, FS_Injection
<1>7. ASSUME NEW e \in Exists PROVE \E i \in D : order[i] = note(e)
  <2>1. note(e) \in Notes
    BY DEF Notes
  <2> QED
    BY <1>6, <2>1 DEF Surjection
<1> QED
  BY <1>2, <1>3, <1>4, <1>5, <1>7
\* What a notification does: it leaves the queue, and a Warning enters the ring.
LEMMA Notified ==
  ASSUME EventTypes, EventNotification
  PROVE  /\ UNCHANGED <<now, evApi>>
         /\ Head(evQ) = evQ[1] /\ 1 \in DOMAIN evQ
         /\ Head(evQ).event \in Exists /\ Head(evQ).stamp \in Nat \ {0}
         /\ evQ' \in Seq(Note) /\ Len(evQ') = Len(evQ) - 1
         /\ \A i \in DOMAIN evQ' : evQ'[i] = evQ[i + 1] /\ i + 1 \in DOMAIN evQ
         /\ recent' = IF Head(evQ).event \notin Warning THEN recent
                      ELSE Push(recent, [event |-> Head(evQ).event, lastSeen |-> Head(evQ).stamp], maxItems)
<1> DEFINE n == Head(evQ)
<1> USE DEF EventTypes
<1>1. evQ # <<>> /\ evQ' = Tail(evQ) /\ UNCHANGED <<now, evApi>>
  BY DEF EventNotification, api
<1>2. n \in Note /\ n = evQ[1] /\ 1 \in DOMAIN evQ
  BY <1>1, EmptySeq
<1>3. n.event \in Exists /\ n.stamp \in Nat \ {0}
  BY <1>2 DEF Note
<1>4. /\ evQ' \in Seq(Note) /\ Len(evQ') = Len(evQ) - 1
      /\ \A i \in DOMAIN evQ' : evQ'[i] = evQ[i + 1] /\ i + 1 \in DOMAIN evQ
  BY <1>1, HeadTailProperties
<1>5. recent' = IF n.event \notin Warning THEN recent
                ELSE Push(recent, [event |-> n.event, lastSeen |-> n.stamp], maxItems)
  <2>1. PICK i \in 1..3 : onEvent(n.event, [j \in 1..3 |-> IF j = i THEN n.stamp ELSE 0], now)
    BY DEF EventNotification
  <2> HIDE DEF n
  <2>2. LastSeen([j \in 1..3 |-> IF j = i THEN n.stamp ELSE 0], now) = n.stamp
    BY <1>3, LastSeenFacts
  <2> QED
    BY <2>1, <2>2 DEF onEvent
<1> QED
  BY <1>1, <1>2, <1>3, <1>4, <1>5

LEMMA EventTypesKept ==
  ASSUME EventTypes, [Next]_vars PROVE EventTypes'
<1> USE DEF EventTypes
<1>1. CASE UNCHANGED <<now, evApi, evQ, recent>>
  BY <1>1 DEF Exists
<1>2. CASE Tick
  <2>1. now' = now + 1 /\ UNCHANGED <<evApi, evQ, recent>>
    BY <1>2 DEF Tick, api, queues, watchers
  <2> QED
    BY <2>1 DEF Exists
<1>3. CASE Resync
  <2>1. UNCHANGED <<now, evApi, recent>>
    BY <1>3 DEF Resync, api, watchers
  <2>2. evQ' \in SetToSeqs({[event |-> e, stamp |-> evApi[e]] : e \in {e \in Event : evApi[e] # 0}})
    BY <1>3 DEF Resync
  <2>3. /\ evQ' \in Seq(Note)
        /\ \A i \in DOMAIN evQ' : evQ'[i].event \in Exists
    BY <2>2, ResyncOrder
  <2> QED
    BY <2>1, <2>3 DEF Exists
<1>4. ASSUME NEW x \in Event, WriteEvent(x) PROVE EventTypes'
  <2>1. /\ evApi' = [evApi EXCEPT ![x] = now] /\ evQ' = Append(evQ, [event |-> x, stamp |-> now])
        /\ UNCHANGED <<now, recent>>
    BY <1>4 DEF WriteEvent, watchers
  <2>2. evApi' \in [Event -> Nat] /\ \A e \in Event : evApi'[e] <= now
    BY <2>1
  <2>3. Exists' = Exists \cup {x}
    BY <2>1 DEF Exists
  <2>4. IsFiniteSet(Exists')
    BY <2>3, FS_AddElement
  <2>7. [event |-> x, stamp |-> now] \in Note
    BY DEF Note
  <2>5. evQ' \in Seq(Note) /\ DOMAIN evQ' = 1..(Len(evQ) + 1) /\ Len(evQ) \in Nat
    BY <2>1, <2>7
  <2>6. \A i \in DOMAIN evQ' : evQ'[i].event \in Exists'
    <3>1. ASSUME NEW i \in DOMAIN evQ' PROVE evQ'[i].event \in Exists'
      <4>1. i = Len(evQ) + 1 \/ i \in DOMAIN evQ
        BY <2>5
      <4>2. CASE i = Len(evQ) + 1
        BY <2>1, <2>3, <4>2
      <4>3. CASE i \in DOMAIN evQ
        <5>1. evQ'[i] = evQ[i]
          BY <2>1, <4>3
        <5> QED
          BY <2>3, <4>3, <5>1
      <4> QED
        BY <4>1, <4>2, <4>3
    <3> QED
      BY <3>1
  <2> QED
    BY <2>1, <2>2, <2>3, <2>4, <2>5, <2>6
<1>5. CASE EventNotification
  <2> DEFINE n == Head(evQ)
  <2>1. UNCHANGED <<now, evApi>>
    BY <1>5, Notified
  <2>3. n.event \in Exists /\ n.stamp \in Nat \ {0}
    BY <1>5, Notified
  <2>4. /\ evQ' \in Seq(Note)
        /\ \A i \in DOMAIN evQ' : evQ'[i] = evQ[i + 1] /\ i + 1 \in DOMAIN evQ
    BY <1>5, Notified
  <2>5. recent' = IF n.event \notin Warning THEN recent
                  ELSE Push(recent, [event |-> n.event, lastSeen |-> n.stamp], maxItems)
    BY <1>5, Notified
  <2>6. /\ recent' \in Seq(RingItem) /\ Len(recent') <= maxItems
        /\ \A i \in DOMAIN recent' : recent'[i].event \in Exists
    <3>1. CASE n.event \notin Warning
      BY <2>5, <3>1
    <3>2. CASE n.event \in Warning
      <4> DEFINE x == [event |-> n.event, lastSeen |-> n.stamp]
      <4>1. x \in RingItem /\ x.event \in Exists
        BY <2>3, <3>2 DEF RingItem
      <4>2. recent' = Push(recent, x, maxItems)
        BY <2>5, <3>2
      <4> HIDE DEF x
      <4>3. maxItems \in Nat \ {0} /\ Len(recent) \in Nat
        BY EventAssumption
      <4>4. recent' \in Seq(RingItem) /\ Len(recent') \in 1..maxItems
            /\ recent'[Len(recent')] = x
        BY <4>1, <4>2, <4>3, PushFacts
      <4>5. ASSUME NEW i \in DOMAIN recent', i # Len(recent')
            PROVE  \E j \in DOMAIN recent : recent'[i] = recent[j]
        <5>1. PICK d \in {0, 1} : /\ Len(recent') = Len(recent) + 1 - d
                                  /\ \A j \in 1..(Len(recent') - 1) : recent'[j] = recent[j + d]
          BY <4>1, <4>2, <4>3, Pushed
        <5>2. DOMAIN recent' = 1..Len(recent') /\ DOMAIN recent = 1..Len(recent)
          BY <4>4
        <5>3. i \in 1..(Len(recent') - 1) /\ i + d \in 1..Len(recent)
          BY <4>3, <4>4, <4>5, <5>1, <5>2
        <5> QED
          BY <5>1, <5>2, <5>3
      <4> QED
        BY <4>1, <4>3, <4>4, <4>5
    <3> QED
      BY <3>1, <3>2
  <2> QED
    BY <2>1, <2>4, <2>6 DEF Exists
<1> QED
  BY <1>1, <1>2, <1>3, <1>4, <1>5, EventStepKinds
\* A ring that is full of different Warnings leaves no other.
LEMMA RingHoldsAll ==
  ASSUME EventTypes, Len(recent) = maxItems, Cardinality(Warnings) <= maxItems,
         \A j, k \in 1..Len(recent) : j # k => recent[j].event # recent[k].event,
         NEW w \in Warnings, \A j \in 1..Len(recent) : recent[j].event # w
  PROVE  FALSE
<1> DEFINE n == Len(recent)  D == 1..(n + 1)
           f == [j \in D |-> IF j = n + 1 THEN w ELSE recent[j].event]
<1>1. n \in Nat /\ DOMAIN recent = 1..n
  BY DEF EventTypes
<1>2. \A j \in 1..n : recent[j].event \in Warnings
  <2>1. ASSUME NEW j \in 1..n PROVE recent[j].event \in Warnings
    <3>1. recent[j] \in RingItem /\ recent[j].event \in Exists
      BY <1>1 DEF EventTypes
    <3> QED
      BY <3>1 DEF RingItem, Exists, Warnings
  <2> QED
    BY <2>1
<1>3. ASSUME NEW j \in D, j # n + 1 PROVE j \in 1..n
  BY <1>1, <1>3
<1>4. f \in [D -> Warnings]
  BY <1>2, <1>3
<1>5. ASSUME NEW j \in D, NEW k \in D, j # k PROVE f[j] # f[k]
  <2>1. CASE j = n + 1
    BY <1>3, <1>5, <2>1
  <2>2. CASE k = n + 1
    BY <1>3, <1>5, <2>2
  <2>3. CASE j # n + 1 /\ k # n + 1
    BY <1>3, <1>5, <2>3
  <2> QED
    BY <2>1, <2>2, <2>3
<1>6. f \in Injection(D, Warnings)
  BY <1>4, <1>5 DEF Injection, IsInjective
<1>7. IsFiniteSet(Warnings)
  <2>1. Warnings \in SUBSET Exists
    BY EventAssumption DEF Warnings, Exists
  <2> QED
    BY <2>1, FS_Subset DEF EventTypes
<1>8. Cardinality(D) = n + 1
  <2>1. PICK k \in Nat : k = n + 1 /\ 1 <= k
    BY <1>1
  <2>2. k \in Int /\ 1 \in Int
    BY <2>1
  <2>3. Cardinality(1..k) = IF 1 > k THEN 0 ELSE k - 1 + 1
    BY ONLY <2>2, FS_Interval
  <2>4. Cardinality(1..k) = k
    BY ONLY <2>1, <2>3
  <2> QED
    BY <2>1, <2>4
<1>9. Cardinality(D) <= Cardinality(Warnings) /\ Cardinality(Warnings) \in Nat
  BY <1>6, <1>7, FS_Injection, FS_CardinalityType
<1> HIDE DEF n, D, f
<1>10. n + 1 <= n
  BY <1>1, <1>8, <1>9 DEF n
<1> QED
  BY <1>1, <1>10

LEMMA FoundWhenWritten ==
  ASSUME EventInv, NEW x \in Event, WriteEvent(x) PROVE Found'
<1>1. /\ evApi' = [evApi EXCEPT ![x] = now] /\ evQ' = Append(evQ, [event |-> x, stamp |-> now])
      /\ UNCHANGED <<now, recent>>
  BY DEF WriteEvent, watchers
<1>2. /\ evApi \in [Event -> Nat] /\ now \in Nat \ {0} /\ \A e \in Event : evApi[e] <= now
      /\ evQ \in Seq(Note) /\ Warning \subseteq Event
  BY EventAssumption DEF EventInv, EventTypes
<1> DEFINE n == Len(evQ)
<1>3. /\ n \in Nat /\ DOMAIN evQ = 1..n /\ DOMAIN evQ' = 1..(n + 1) /\ Len(evQ') = n + 1
      /\ evQ'[n + 1] = [event |-> x, stamp |-> now]
      /\ \A i \in 1..n : evQ'[i] = evQ[i]
  <2>1. [event |-> x, stamp |-> now] \in Note
    BY <1>2 DEF Note
  <2> QED
    BY <1>1, <1>2, <2>1
<1> HIDE DEF n
<1>4. SUFFICES ASSUME Cardinality(Warnings') <= maxItems, NEW e \in Warning, StrictlyNewest(e)'
               PROVE  (InRing(e) \/ OnItsWay(e))'
  BY DEF Found
<1>5. CASE e = x
  <2>1. evQ'[n + 1] = [event |-> e, stamp |-> evApi'[e]]
    BY <1>1, <1>2, <1>3, <1>5
  <2>2. n + 1 \in DOMAIN evQ' /\ \A j, k \in (n + 1)..Len(evQ') : j = k
    BY <1>3
  <2> QED
    BY <2>1, <2>2 DEF OnItsWay
<1>6. CASE e # x
  <2>1. evApi'[e] = evApi[e] /\ evApi'[x] = now
    BY <1>1, <1>2, <1>6
  <2>2. x \notin Warning
    <3>1. x \in Warning => evApi[e] > now
      BY <1>4, <1>6, <2>1 DEF StrictlyNewest
    <3>2. evApi[e] <= now /\ evApi[e] \in Nat
      BY <1>2
    <3> QED
      BY <1>2, <3>1, <3>2
  <2>3. \A f \in Warning : evApi'[f] = evApi[f]
    BY <1>1, <1>2, <2>2
  <2>4. Warnings' = Warnings
    BY <2>3 DEF Warnings
  <2>5. StrictlyNewest(e)
    BY <1>4, <2>3, <2>4 DEF StrictlyNewest
  <2>6. InRing(e) \/ OnItsWay(e)
    BY <1>4, <2>4, <2>5 DEF EventInv, Found
  <2>7. \A k \in 1..(n + 1) : k \in 1..n \/ k = n + 1
    BY <1>3
  <2>8. ASSUME NEW j \in 1..(n + 1), NEW k \in 1..(n + 1), j # k, evQ'[j].event \in Warning,
               \A l, m \in {j, k} : (l # m /\ l \in 1..n /\ m \in 1..n /\ evQ[l].event \in Warning) =>
                                      evQ[l].event # evQ[m].event
        PROVE  evQ'[j].event # evQ'[k].event
    <3>1. j \in 1..n
      BY <1>3, <2>2, <2>7, <2>8
    <3>2. CASE k \in 1..n
      BY <1>3, <2>8, <3>1, <3>2
    <3>3. CASE k = n + 1
      BY <1>3, <2>2, <2>8, <3>3
    <3> QED
      BY <2>7, <3>2, <3>3
  <2>9. CASE InRing(e)
    <3>1. PICK i \in DOMAIN recent :
            /\ recent[i] = [event |-> e, lastSeen |-> evApi[e]]
            /\ \A j, k \in i..Len(recent) : j # k => recent[j].event # recent[k].event
            /\ \A j \in i..Len(recent), k \in DOMAIN evQ : recent[j].event # evQ[k].event
            /\ \A j, k \in DOMAIN evQ : (j # k /\ evQ[j].event \in Warning) => evQ[j].event # evQ[k].event
      BY <2>9 DEF InRing
    <3>2. ASSUME NEW j \in i..Len(recent), NEW k \in DOMAIN evQ' PROVE recent[j].event # evQ'[k].event
      <4>1. recent[j].event \in Warning
        <5>1. recent \in Seq(RingItem) /\ i \in 1..Len(recent)
          BY DEF EventInv, EventTypes
        <5>2. recent[j] \in RingItem
          BY <5>1
        <5> QED
          BY <5>2 DEF RingItem
      <4>2. CASE k \in 1..n
        BY <1>3, <3>1, <4>2
      <4>3. CASE k = n + 1
        BY <1>3, <2>2, <4>1, <4>3
      <4> QED
        BY <1>3, <2>7, <4>2, <4>3
    <3>3. ASSUME NEW j \in DOMAIN evQ', NEW k \in DOMAIN evQ', j # k, evQ'[j].event \in Warning
          PROVE  evQ'[j].event # evQ'[k].event
      BY <1>3, <2>8, <3>1, <3>3
    <3>4. recent'[i] = [event |-> e, lastSeen |-> evApi'[e]] /\ i \in DOMAIN recent'
      BY <1>1, <2>1, <3>1
    <3>5. InRing(e)'
      BY <1>1, <3>1, <3>2, <3>3, <3>4 DEF InRing
    <3> QED
      BY <3>5
  <2>10. CASE OnItsWay(e)
    <3>1. PICK i \in DOMAIN evQ :
            /\ evQ[i] = [event |-> e, stamp |-> evApi[e]]
            /\ \A j, k \in i..n : (j # k /\ evQ[j].event \in Warning) => evQ[j].event # evQ[k].event
      BY <2>10 DEF OnItsWay, n
    <3>2. i \in DOMAIN evQ' /\ evQ'[i] = [event |-> e, stamp |-> evApi'[e]]
      BY <1>3, <2>1, <3>1
    <3>3. ASSUME NEW j \in i..(n + 1), NEW k \in i..(n + 1), j # k, evQ'[j].event \in Warning
          PROVE  evQ'[j].event # evQ'[k].event
      <4>1. /\ j \in 1..(n + 1) /\ k \in 1..(n + 1)
            /\ \A l \in {j, k} : l \in 1..n => l \in i..n
        BY <1>3
      <4>2. \A l, m \in {j, k} : (l # m /\ l \in 1..n /\ m \in 1..n /\ evQ[l].event \in Warning) =>
                                      evQ[l].event # evQ[m].event
        BY <3>1, <4>1
      <4> QED
        BY <2>8, <3>3, <4>1, <4>2
    <3>4. OnItsWay(e)'
      BY <1>3, <3>2, <3>3 DEF OnItsWay
    <3> QED
      BY <3>4
  <2> QED
    BY <2>6, <2>9, <2>10
<1> QED
  BY <1>5, <1>6
LEMMA FoundWhenNotified ==
  ASSUME EventInv, EventNotification PROVE Found'
<1> DEFINE n == Head(evQ)  q == Len(evQ')
           x == [event |-> n.event, lastSeen |-> n.stamp]
<1>1. /\ UNCHANGED <<now, evApi>> /\ n = evQ[1] /\ 1 \in DOMAIN evQ
      /\ n.event \in Exists /\ n.stamp \in Nat \ {0}
      /\ evQ' \in Seq(Note) /\ q = Len(evQ) - 1
      /\ \A i \in DOMAIN evQ' : evQ'[i] = evQ[i + 1] /\ i + 1 \in DOMAIN evQ
      /\ recent' = IF n.event \notin Warning THEN recent ELSE Push(recent, x, maxItems)
  BY Notified DEF EventInv
<1>2. /\ q \in Nat /\ DOMAIN evQ' = 1..q /\ DOMAIN evQ = 1..(q + 1) /\ Len(evQ) = q + 1
      /\ \A i \in 1..q : evQ'[i] = evQ[i + 1] /\ i + 1 \in 1..(q + 1)
  <2>1. evQ \in Seq(Note)
    BY DEF EventInv, EventTypes
  <2> QED
    BY <1>1, <2>1
<1>3. EventTypes
  BY DEF EventInv
<1>4. recent \in Seq(RingItem) /\ Len(recent) \in Nat /\ DOMAIN recent = 1..Len(recent)
      /\ Len(recent) <= maxItems /\ maxItems \in Nat \ {0}
  BY EventAssumption DEF EventInv, EventTypes
<1> HIDE DEF n, q, x
<1>5. SUFFICES ASSUME Cardinality(Warnings) <= maxItems, NEW e \in Warning, StrictlyNewest(e)
               PROVE  (InRing(e) \/ OnItsWay(e))'
  BY <1>1 DEF Found, Warnings, StrictlyNewest
<1>6. InRing(e) \/ OnItsWay(e)
  BY <1>5 DEF EventInv, Found
\* Only what comes behind it in the queue moves up.
<1>7. ASSUME NEW i \in DOMAIN evQ, i # 1, evQ[i] = [event |-> e, stamp |-> evApi[e]],
             \A j, k \in i..Len(evQ) : (j # k /\ evQ[j].event \in Warning) => evQ[j].event # evQ[k].event
      PROVE  OnItsWay(e)'
  <2>1. i - 1 \in 1..q /\ (i - 1) + 1 = i
    BY <1>2, <1>7
  <2>2. evQ'[i - 1] = [event |-> e, stamp |-> evApi'[e]]
    BY <1>1, <1>2, <1>7, <2>1
  <2>3. ASSUME NEW j \in (i - 1)..q, NEW k \in (i - 1)..q, j # k, evQ'[j].event \in Warning
        PROVE  evQ'[j].event # evQ'[k].event
    <3>1. /\ j \in 1..q /\ k \in 1..q /\ j + 1 # k + 1
          /\ j + 1 \in i..Len(evQ) /\ k + 1 \in i..Len(evQ)
      BY <1>2, <2>1, <2>3
    <3> QED
      BY <1>2, <1>7, <2>3, <3>1
  <2> QED
    BY <1>2, <2>1, <2>2, <2>3 DEF OnItsWay, q
\* The queue's pairs without its head.
<1>8. ASSUME \A j, k \in DOMAIN evQ : (j # k /\ evQ[j].event \in Warning) => evQ[j].event # evQ[k].event
      PROVE  /\ \A j, k \in DOMAIN evQ' : (j # k /\ evQ'[j].event \in Warning) => evQ'[j].event # evQ'[k].event
             /\ n.event \in Warning => \A k \in DOMAIN evQ' : n.event # evQ'[k].event
  <2>1. ASSUME NEW j \in 1..q, NEW k \in 1..q, j # k, evQ'[j].event \in Warning
        PROVE  evQ'[j].event # evQ'[k].event
    <3>1. j + 1 # k + 1 /\ j + 1 \in DOMAIN evQ /\ k + 1 \in DOMAIN evQ
      BY <1>2, <2>1
    <3> QED
      BY <1>2, <1>8, <2>1, <3>1
  <2>2. ASSUME n.event \in Warning, NEW k \in 1..q PROVE n.event # evQ'[k].event
    <3>1. 1 # k + 1 /\ k + 1 \in DOMAIN evQ
      BY <1>2
    <3> QED
      BY <1>1, <1>2, <1>8, <2>2, <3>1
  <2> QED
    BY <1>2, <2>1, <2>2
<1>9. CASE n.event \notin Warning
  <2>1. recent' = recent
    BY <1>1, <1>9
  <2>2. CASE OnItsWay(e)
    <3>1. PICK i \in DOMAIN evQ :
            /\ evQ[i] = [event |-> e, stamp |-> evApi[e]]
            /\ \A j, k \in i..Len(evQ) : (j # k /\ evQ[j].event \in Warning) => evQ[j].event # evQ[k].event
      BY <2>2 DEF OnItsWay
    <3>2. i # 1
      BY <1>1, <1>9, <3>1
    <3> QED
      BY <1>7, <3>1, <3>2
  <2>3. CASE InRing(e)
    <3>1. PICK i \in DOMAIN recent :
            /\ recent[i] = [event |-> e, lastSeen |-> evApi[e]]
            /\ \A j, k \in i..Len(recent) : j # k => recent[j].event # recent[k].event
            /\ \A j \in i..Len(recent), k \in DOMAIN evQ : recent[j].event # evQ[k].event
            /\ \A j, k \in DOMAIN evQ : (j # k /\ evQ[j].event \in Warning) => evQ[j].event # evQ[k].event
      BY <2>3 DEF InRing
    <3>2. \A j, k \in DOMAIN evQ' : (j # k /\ evQ'[j].event \in Warning) => evQ'[j].event # evQ'[k].event
      BY <1>8, <3>1
    <3>3. \A j \in i..Len(recent), k \in DOMAIN evQ' : recent[j].event # evQ'[k].event
      BY <1>1, <3>1
    <3>4. recent'[i] = [event |-> e, lastSeen |-> evApi'[e]]
      BY <1>1, <2>1, <3>1
    <3>5. InRing(e)'
      BY <2>1, <3>1, <3>2, <3>3, <3>4 DEF InRing
    <3> QED
      BY <3>5
  <2> QED
    BY <1>6, <2>2, <2>3
<1>10. CASE n.event \in Warning
  <2> DEFINE r == Len(recent')
  <2>1. x \in RingItem /\ recent' = Push(recent, x, maxItems)
    BY <1>1, <1>10 DEF RingItem, x
  <2>2. PICK d \in {0, 1} : /\ r = Len(recent) + 1 - d
                            /\ \A i \in 1..(r - 1) : recent'[i] = recent[i + d]
                            /\ d = 1 <=> Len(recent) = maxItems
    <3> DEFINE g == Push(recent, x, maxItems)
    <3>1. \E d \in {0, 1} : /\ Len(g) = Len(recent) + 1 - d
                            /\ \A i \in 1..(Len(g) - 1) : g[i] = recent[i + d]
                            /\ d = 1 <=> Len(recent) = maxItems
      BY ONLY <1>4, <2>1, Pushed
    <3> QED
      BY <2>1, <3>1
  <2>3. r \in 1..maxItems /\ recent'[r] = x /\ DOMAIN recent' = 1..r
    <3> DEFINE g == Push(recent, x, maxItems)
    <3>1. g \in Seq(RingItem) /\ Len(g) \in 1..maxItems /\ g[Len(g)] = x
      BY ONLY <1>4, <2>1, PushFacts
    <3> QED
      BY <2>1, <3>1
  <2> HIDE DEF r
  <2>4. CASE OnItsWay(e)
    <3>1. PICK i \in DOMAIN evQ :
            /\ evQ[i] = [event |-> e, stamp |-> evApi[e]]
            /\ \A j, k \in i..Len(evQ) : (j # k /\ evQ[j].event \in Warning) => evQ[j].event # evQ[k].event
      BY <2>4 DEF OnItsWay
    <3>2. CASE i # 1
      BY <1>7, <3>1, <3>2
    <3>3. CASE i = 1
      <4>1. \A j, k \in DOMAIN evQ : (j # k /\ evQ[j].event \in Warning) => evQ[j].event # evQ[k].event
        BY <1>2, <3>1, <3>3
      <4>2. /\ \A j, k \in DOMAIN evQ' : (j # k /\ evQ'[j].event \in Warning) => evQ'[j].event # evQ'[k].event
            /\ \A k \in DOMAIN evQ' : n.event # evQ'[k].event
        BY <1>8, <1>10, <4>1
      <4>3. recent'[r] = [event |-> e, lastSeen |-> evApi'[e]] /\ r \in DOMAIN recent'
        BY <1>1, <2>3, <3>1, <3>3 DEF x
      <4>4. \A j, k \in r..r : j = k /\ j = r
        BY <2>3
      <4>5. recent'[r].event = n.event
        BY <2>3 DEF x
      <4>6. InRing(e)'
        BY <4>2, <4>3, <4>4, <4>5 DEF InRing, r
      <4> QED
        BY <4>6
    <3> QED
      BY <3>2, <3>3
  <2>5. CASE InRing(e)
    <3>1. PICK i \in DOMAIN recent :
            /\ recent[i] = [event |-> e, lastSeen |-> evApi[e]]
            /\ \A j, k \in i..Len(recent) : j # k => recent[j].event # recent[k].event
            /\ \A j \in i..Len(recent), k \in DOMAIN evQ : recent[j].event # evQ[k].event
            /\ \A j, k \in DOMAIN evQ : (j # k /\ evQ[j].event \in Warning) => evQ[j].event # evQ[k].event
      BY <2>5 DEF InRing
    <3>2. i - d >= 1
      <4>1. SUFFICES ASSUME i = 1, d = 1 PROVE FALSE
        BY <1>4
      <4>2. n.event \in Warnings
        BY <1>1, <1>10 DEF Exists, Warnings
      <4>3. \A j \in 1..Len(recent) : recent[j].event # n.event
        BY <1>1, <3>1, <4>1
      <4> QED
        BY <1>3, <1>5, <2>2, <3>1, <4>1, <4>2, <4>3, RingHoldsAll
    <3>3. /\ i - d \in 1..(r - 1) /\ (i - d) + d = i
          /\ \A j \in (i - d)..r : j = r \/ (/\ j \in 1..(r - 1) /\ j + d \in i..Len(recent))
      <4> DEFINE m == Len(recent)
      <4>4. m \in Nat /\ r = m + 1 - d
        BY <1>4, <2>2
      <4>5. i \in 1..m
        BY <1>4, <3>1
      <4>6. r \in Nat
        BY <1>4, <2>3
      <4> HIDE DEF m
      <4>1. m \in Nat /\ i \in 1..m /\ r \in Nat /\ r = m + 1 - d /\ i - d >= 1
        BY <3>2, <4>4, <4>5, <4>6
      <4>2. i - d \in 1..(r - 1) /\ (i - d) + d = i
        BY <4>1
      <4>3. \A j \in (i - d)..r : j = r \/ (/\ j \in 1..(r - 1) /\ j + d \in i..m)
        BY <4>1
      <4> QED
        BY <4>2, <4>3 DEF m
    <3>4. recent'[i - d] = [event |-> e, lastSeen |-> evApi'[e]] /\ i - d \in DOMAIN recent'
      <4>1. recent'[i - d] = recent[i]
        BY <2>2, <3>3
      <4>2. i - d \in 1..r
        BY <2>3, <3>3
      <4> QED
        BY <1>1, <2>3, <3>1, <4>1, <4>2
    <3>5. ASSUME NEW j \in (i - d)..r
          PROVE  \/ j = r /\ recent'[j].event = evQ[1].event
                 \/ j # r /\ j + d \in i..Len(recent) /\ recent'[j].event = recent[j + d].event
      <4>1. CASE j = r
        BY <1>1, <2>3, <4>1 DEF x
      <4>2. CASE j # r
        BY <2>2, <3>3, <4>2
      <4> QED
        BY <4>1, <4>2
    <3>6. ASSUME NEW j \in (i - d)..r, NEW k \in (i - d)..r, j # k
          PROVE  recent'[j].event # recent'[k].event
      <4>0. \A l \in i..Len(recent) : recent[l].event # evQ[1].event
        BY <1>1, <3>1
      <4>1. CASE j = r
        <5>1. recent'[j].event = evQ[1].event /\ recent'[k].event = recent[k + d].event
              /\ k + d \in i..Len(recent)
          BY <3>5, <3>6, <4>1
        <5> QED
          BY <4>0, <5>1
      <4>2. CASE k = r
        <5>1. recent'[k].event = evQ[1].event /\ recent'[j].event = recent[j + d].event
              /\ j + d \in i..Len(recent)
          BY <3>5, <3>6, <4>2
        <5> QED
          BY <4>0, <5>1
      <4>3. CASE j # r /\ k # r
        <5>1. j + d # k + d
          BY <1>4, <2>3, <3>3, <3>6
        <5> QED
          BY <3>1, <3>5, <4>3, <5>1
      <4> QED
        BY <4>1, <4>2, <4>3
    <3>7. /\ \A j, k \in DOMAIN evQ' : (j # k /\ evQ'[j].event \in Warning) => evQ'[j].event # evQ'[k].event
          /\ \A k \in DOMAIN evQ' : n.event # evQ'[k].event
      BY <1>8, <1>10, <3>1
    <3>8. ASSUME NEW j \in (i - d)..r, NEW k \in DOMAIN evQ' PROVE recent'[j].event # evQ'[k].event
      <4>1. evQ'[k] = evQ[k + 1] /\ k + 1 \in DOMAIN evQ
        BY <1>1
      <4> QED
        BY <1>1, <3>1, <3>5, <3>7, <4>1
    <3>9. InRing(e)'
      BY <3>4, <3>6, <3>7, <3>8 DEF InRing, r
    <3> QED
      BY <3>9
  <2> QED
    BY <1>6, <2>4, <2>5
<1> QED
  BY <1>9, <1>10

LEMMA FoundKept ==
  ASSUME EventInv, [Next]_vars PROVE Found'
<1>1. CASE UNCHANGED <<evApi, evQ, recent>>
  BY <1>1 DEF EventInv, Found, Warnings, StrictlyNewest, InRing, OnItsWay
<1>2. CASE Tick
  BY <1>1, <1>2 DEF Tick, api, queues, watchers
<1>3. CASE Resync
  <2>1. evApi' = evApi
    BY <1>3 DEF Resync, api
  <2>2. evQ' \in SetToSeqs({[event |-> e, stamp |-> evApi[e]] : e \in {e \in Event : evApi[e] # 0}})
    BY <1>3 DEF Resync
  <2>3. /\ \A i, j \in DOMAIN evQ' : i # j => evQ'[i].event # evQ'[j].event
        /\ \A e \in Exists : \E i \in DOMAIN evQ' : evQ'[i] = [event |-> e, stamp |-> evApi[e]]
        /\ evQ' \in Seq(Note)
    BY <2>2, ResyncOrder DEF EventInv
  <2>4. ASSUME NEW e \in Warning, StrictlyNewest(e)' PROVE OnItsWay(e)'
    <3>1. e \in Exists
      BY <2>1, <2>4, EventAssumption DEF StrictlyNewest, Warnings, Exists
    <3>2. PICK i \in DOMAIN evQ' : evQ'[i] = [event |-> e, stamp |-> evApi[e]]
      BY <2>3, <3>1
    <3>3. \A j \in i..Len(evQ') : j \in DOMAIN evQ'
      BY <2>3
    <3> QED
      BY <2>1, <2>3, <3>2, <3>3 DEF OnItsWay
  <2> QED
    BY <2>4 DEF Found
<1>4. CASE \E x \in Event : WriteEvent(x)
  BY <1>4, FoundWhenWritten
<1>5. CASE EventNotification
  BY <1>5, FoundWhenNotified
<1> QED
  BY <1>1, <1>2, <1>3, <1>4, <1>5, EventStepKinds

LEMMA EventAlways == Spec => []EventInv
<1>1. Init => EventInv
  BY EventInitially
<1>2. EventInv /\ [Next]_vars => EventInv'
  BY EventTypesKept, FoundKept DEF EventInv
<1> QED
  BY <1>1, <1>2, PTL DEF Spec

(* However often resyncs repeat events and in whatever order: when all are  *)
(* in, the Warning with the latest time stamp is among the recent ones, as  *)
(* long as there are no more Warnings than places.                          *)
THEOREM NewestWarningIsKept == Spec => []NewestWarningKept
<1>1. ASSUME EventInv PROVE NewestWarningKept
  <2>1. SUFFICES ASSUME evQ = <<>>, Cardinality(Warnings) <= maxItems, NEW e \in Warning,
                        evApi[e] # 0, \A f \in Warning \ {e} : evApi[e] > evApi[f]
                 PROVE  [event |-> e, lastSeen |-> evApi[e]] \in ToSet(Recent(maxItems, {Category[e]}, evApi[e]))
    BY DEF NewestWarningKept, Warnings
  <2> DEFINE x == [event |-> e, lastSeen |-> evApi[e]]
             newestFirst == Reverse(recent)
             I == {i \in DOMAIN newestFirst : /\ newestFirst[i].lastSeen >= evApi[e]
                                              /\ Category[newestFirst[i].event] \in {Category[e]}}
             found == AtPositions(newestFirst, I)
  <2>2. StrictlyNewest(e) /\ ~OnItsWay(e)
    BY <2>1 DEF StrictlyNewest, Warnings, OnItsWay
  <2>3. InRing(e)
    BY <1>1, <2>1, <2>2 DEF EventInv, Found
  <2>4. PICK i \in DOMAIN recent : recent[i] = x
    BY <2>3 DEF InRing
  <2>5. /\ recent \in Seq(RingItem) /\ Len(recent) <= maxItems /\ DOMAIN recent = 1..Len(recent)
        /\ Len(recent) \in Nat /\ maxItems \in Nat
    BY <1>1, EventAssumption DEF EventInv, EventTypes
  <2> DEFINE p == Len(recent) - i + 1
  <2>6. /\ newestFirst \in Seq(RingItem) /\ Len(newestFirst) = Len(recent)
        /\ p \in 1..Len(recent) /\ Len(recent) - p + 1 = i
    BY <2>5, ReverseFacts
  <2>7. newestFirst[p] = x /\ p \in DOMAIN newestFirst
    BY <2>4, <2>5, <2>6, ReverseFacts
  <2> HIDE DEF newestFirst, p
  <2>8. evApi[e] \in Nat
    BY <1>1, EventAssumption DEF EventInv, EventTypes
  <2>9. p \in I /\ I \in SUBSET (DOMAIN newestFirst)
    BY <2>7, <2>8
  <2> HIDE DEF I
  <2>10. /\ found \in Seq(RingItem) /\ Len(found) <= Len(newestFirst)
         /\ Rank(I, p) \in DOMAIN found /\ found[Rank(I, p)] = x
    BY <2>6, <2>7, <2>9, AtPositionsFacts
  <2> HIDE DEF found
  <2>11. Len(found) \in Nat /\ Len(found) <= maxItems /\ DOMAIN found = 1..Len(found)
    BY <2>5, <2>6, <2>10
  <2>12. Recent(maxItems, {Category[e]}, evApi[e]) = SubSeq(found, 1, Len(found))
    <3>1. Recent(maxItems, {Category[e]}, evApi[e]) =
            SubSeq(found, 1, IF Len(found) < maxItems THEN Len(found) ELSE maxItems)
      BY DEF Recent, found, I, newestFirst
    <3> DEFINE l == Len(found)
    <3>3. l \in Nat /\ maxItems \in Nat /\ l <= maxItems
      BY <2>5, <2>11
    <3> HIDE DEF l
    <3>4. l < maxItems \/ l = maxItems
      BY <3>3
    <3>2. Len(found) < maxItems \/ Len(found) = maxItems
      BY <3>4 DEF l
    <3> QED
      BY <3>1, <3>2
  <2>13. SubSeq(found, 1, Len(found)) = found
    BY <2>10, <2>11
  <2> QED
    BY <2>10, <2>12, <2>13 DEF ToSet
<1> QED
  BY <1>1, EventAlways, PTL
=============================================================================
