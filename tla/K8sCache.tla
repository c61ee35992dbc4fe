------------------------------ MODULE K8sCache ------------------------------
(***************************************************************************)
(* k8s.Cache: pods, the owners of ReplicaSets, rollouts and mounts, as the *)
(* informers' callbacks fill them.  The callbacks of one informer run one  *)
(* after the other on its goroutine; Run walks over the pods on its own.   *)
(***************************************************************************)
EXTENDS Naturals, FiniteSets

CONSTANTS
  Pod, ReplicaSet, None,
  OwnerOf,     \* pod -> its ReplicaSet, another controller, or None
  ParentOf,    \* ReplicaSet -> its Deployment, or None
  CreatedAt,   \* ReplicaSet -> its creation time, 0 when it has none
  MountsOf     \* pod -> the ConfigMaps and Secrets it consumes

ASSUME CacheAssumption ==
  /\ None \notin ReplicaSet /\ CreatedAt \in [ReplicaSet -> Nat]
  /\ \A r \in ReplicaSet : ParentOf[r] \notin ReplicaSet

VARIABLES
  pods,           \* pod -> [rev, owner]
  podMountIndex,  \* pod -> [owner, mounts]
  rsOwners,       \* ReplicaSet -> its parent, once seen
  rollouts,       \* workload -> the ReplicaSet of its most recent rollout
  adding,         \* goroutine -> the onPodAdd it is in, or None
  rsAdding,       \* the ReplicaSet whose onRSAdd is between its two sections
  walk            \* the pods Run has still to process; None before the sync

cacheVars == <<pods, podMountIndex, rsOwners, rollouts, adding, rsAdding, walk>>

Empty == [x \in {} |-> None]
Put(f, k, v) == [x \in DOMAIN f \cup {k} |-> IF x = k THEN v ELSE f[x]]
Without(f, k) == [x \in DOMAIN f \ {k} |-> f[x]]

CacheInit ==
  /\ pods = Empty /\ podMountIndex = Empty /\ rsOwners = Empty /\ rollouts = Empty
  /\ adding = [g \in {"informer", "run"} |-> None]
  /\ rsAdding = None /\ walk = None

\* Mutant: only the pod's own references count.
resolveOwnerOneLevel(p) == OwnerOf[p]

\* A pod of a ReplicaSet belongs to its Deployment, if that is known.
resolveOwner(p) ==
  LET r == OwnerOf[p] IN
  IF r \in DOMAIN rsOwners /\ rsOwners[r] # None THEN rsOwners[r] ELSE r

\* onPodAdd up to the write: the owner is looked up under a lock of its own.
BeginPodAdd(g, p, rev) ==
  adding' = [adding EXCEPT ![g] = [pod |-> p, rev |-> rev, owner |-> resolveOwner(p)]]

EndPodAdd(g) ==
  LET a == adding[g] IN
  /\ a # None
  /\ pods' = Put(pods, a.pod, [rev |-> a.rev, owner |-> a.owner])
  /\ podMountIndex' = Put(podMountIndex, a.pod, [owner |-> a.owner, mounts |-> MountsOf[a.pod]])
  /\ adding' = [adding EXCEPT ![g] = None]
  /\ UNCHANGED <<rsOwners, rollouts, rsAdding, walk>>

\* The tombstone of a deletion that was missed is not a Pod and is ignored.
onPodDelete(p, tombstone) ==
  /\ pods' = IF tombstone THEN pods ELSE Without(pods, p)
  /\ UNCHANGED <<podMountIndex, rsOwners, rollouts, adding, rsAdding, walk>>

\* onRSAdd: the owner, then the rollout; none without a creation time.
BeginRSAdd(r) ==
  /\ rsAdding = None
  /\ rsOwners' = Put(rsOwners, r, ParentOf[r])
  /\ rsAdding' = IF CreatedAt[r] = 0 THEN None ELSE r
  /\ UNCHANGED <<pods, podMountIndex, rollouts, adding, walk>>

\* An orphan ReplicaSet is its own workload.
RolloutOf(r) == IF ParentOf[r] = None THEN r ELSE ParentOf[r]

\* Mutant: the ReplicaSet seen last is the rollout.
NewerSeenLast(r) == TRUE

Newer(r) ==
  LET w == RolloutOf(r) IN
  w \notin DOMAIN rollouts \/ CreatedAt[r] > CreatedAt[rollouts[w]]

EndRSAdd ==
  /\ rsAdding # None
  /\ rollouts' = IF Newer(rsAdding) THEN Put(rollouts, RolloutOf(rsAdding), rsAdding) ELSE rollouts
  /\ rsAdding' = None
  /\ UNCHANGED <<pods, podMountIndex, rsOwners, adding, walk>>

\* Run, after the stores have synced: it lists the pods and processes each.
\* The callbacks may lag behind the stores, and others run meanwhile.
BeginWalk(list) ==
  /\ walk = None
  /\ walk' = list
  /\ UNCHANGED <<pods, podMountIndex, rsOwners, rollouts, adding, rsAdding>>

WalkPod ==
  /\ walk # None /\ adding["run"] = None
  /\ \E x \in walk : walk' = walk \ {x} /\ BeginPodAdd("run", x.pod, x.rev)
  /\ UNCHANGED <<pods, podMountIndex, rsOwners, rollouts, rsAdding>>

\* ConfigWatcher.findMounters: the owners of the indexed pods that use c.
findMounters(c) ==
  {podMountIndex[p].owner : p \in {q \in DOMAIN podMountIndex : c \in podMountIndex[q].mounts}}
=============================================================================
