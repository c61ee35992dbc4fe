------------------------------ MODULE Watchers ------------------------------
(***************************************************************************)
(* The detector's four watchers and the API server they watch.  What is    *)
(* written reaches each informer in order, object by object, and late; a   *)
(* resync repeats every object.  A deletion the informer missed arrives as *)
(* a tombstone.                                                            *)
(***************************************************************************)
EXTENDS K8sCache, ConfigWatcher, EventWatcher, AuditWatcher

CONSTANTS
  MaxWrites,  \* bound: writes to the API server
  MaxTime     \* bound: the clock

\* Whom a pod belongs to, what the API server holds of an object, and what
\* the config watcher records of one.  NoConfig is none of them.
Owner == {None} \cup ReplicaSet \cup {OwnerOf[p] : p \in Pod} \cup {ParentOf[r] : r \in ReplicaSet}
ManagedFields == [name : Manager, time : Nat, fields : SUBSET {"data"}]
ConfigObject == [data : Data, version : Nat, managers : Seq(ManagedFields), created : Nat]
Change == [config : Config, from : Data, to : Data, by : {NoConfig} \cup SUBSET Owner]

ASSUME WatchersAssumption ==
  /\ NoConfig \notin Data /\ NoConfig \notin ConfigObject /\ NoConfig \notin Change
  /\ MaxWrites \in Nat /\ MaxTime \in Nat

VARIABLES
  podApi,   \* pod -> its revision, 0 when there is none
  rsApi,    \* the ReplicaSets there are
  cfgApi,   \* object -> [data, version, managers, created], or NoConfig
  evApi,    \* event -> its time stamp, 0 when there is none
  podQ, rsQ, cfgQ, evQ,  \* what the informers have still to report
  writes, now,
  wrote     \* history: version -> the manager that wrote it, and when

api == <<podApi, rsApi, cfgApi, evApi>>
queues == <<podQ, rsQ, cfgQ, evQ>>
env == <<api, queues, writes, now, wrote>>
watchers == <<cacheVars, configVars, recent, events>>
vars == <<env, watchers>>

Deleted == 0
Tombstone == MaxWrites + 1

Init ==
  /\ CacheInit /\ ConfigInit /\ EventInit /\ AuditInit
  /\ podApi = [p \in Pod |-> 0] /\ rsApi = {} /\ evApi = [e \in Event |-> 0]
  /\ cfgApi = [c \in Config |-> NoConfig]
  /\ podQ = [p \in Pod |-> <<>>] /\ rsQ = {} /\ cfgQ = [c \in Config |-> <<>>] /\ evQ = <<>>
  /\ writes = 0 /\ now = 1 /\ wrote = <<>>

-----------------------------------------------------------------------------
\* The API server.

Write == writes < MaxWrites /\ writes' = writes + 1
Notify(q, x, n) == [q EXCEPT ![x] = Append(@, n)]

WritePod(p) ==
  /\ Write
  /\ podApi' = [podApi EXCEPT ![p] = writes']
  /\ podQ' = Notify(podQ, p, writes')
  /\ UNCHANGED <<rsApi, cfgApi, evApi, rsQ, cfgQ, evQ, now, wrote, watchers>>

DeletePod(p) ==
  /\ Write
  /\ podApi[p] # 0 /\ podApi' = [podApi EXCEPT ![p] = 0]
  /\ \E n \in {Deleted, Tombstone} : podQ' = Notify(podQ, p, n)
  /\ UNCHANGED <<rsApi, cfgApi, evApi, rsQ, cfgQ, evQ, now, wrote, watchers>>

CreateReplicaSet(r) ==
  /\ Write
  /\ r \notin rsApi /\ rsApi' = rsApi \cup {r} /\ rsQ' = rsQ \cup {r}
  /\ UNCHANGED <<podApi, cfgApi, evApi, podQ, cfgQ, evQ, now, wrote, watchers>>

\* A write takes over the manager's entry, wherever it then stands.
Managed(ms, m) ==
  LET others == AtPositions(ms, {i \in DOMAIN ms : ms[i].name # m}) IN
  {InsertAt(others, i, [name |-> m, time |-> now, fields |-> {"data"}]) : i \in 1..(Len(others) + 1)}

\* The audit informers report it as well; what the audit watcher makes of a
\* write does not depend on when it hears of it.
WriteConfig(c, data, m) ==
  LET old == cfgApi[c] IN
  /\ Write
  /\ wrote' = Append(wrote, [object |-> c, manager |-> m, time |-> now])
  /\ \E ms \in Managed(IF old = NoConfig THEN <<>> ELSE old.managers, m) :
       LET new == [data |-> data, version |-> Len(wrote'), managers |-> ms,
                   created |-> IF old = NoConfig THEN now ELSE old.created] IN
       /\ cfgApi' = [cfgApi EXCEPT ![c] = new]
       /\ IF old = NoConfig THEN recordCreate(c, new) ELSE recordUpdate(c, old, new, now)
  /\ cfgQ' = Notify(cfgQ, c, data)
  /\ UNCHANGED <<podApi, rsApi, evApi, podQ, rsQ, evQ, now, cacheVars, configVars, recent>>

\* The config watcher has no handler for deletions.
DeleteConfig(c) ==
  /\ Write
  /\ cfgApi[c] # NoConfig /\ cfgApi' = [cfgApi EXCEPT ![c] = NoConfig]
  /\ recordDelete(c, cfgApi[c], now)
  /\ UNCHANGED <<podApi, rsApi, evApi, queues, now, wrote, cacheVars, configVars, recent>>

\* An event, or another occurrence of it; the time stamp is one of three.
WriteEvent(e) ==
  /\ Write
  /\ evApi' = [evApi EXCEPT ![e] = now]
  /\ evQ' = Append(evQ, [event |-> e, stamp |-> now])
  /\ UNCHANGED <<podApi, rsApi, cfgApi, podQ, rsQ, cfgQ, now, wrote, watchers>>

Tick ==
  /\ now < MaxTime /\ now' = now + 1
  /\ UNCHANGED <<api, queues, writes, wrote, watchers>>

Once(n, absent) == IF n = absent THEN <<>> ELSE <<n>>

\* The audit handler returns early for each of the objects (AuditResync).
Resync ==
  /\ \A p \in Pod : podQ[p] = <<>>
  /\ \A c \in Config : cfgQ[c] = <<>>
  /\ rsQ = {} /\ evQ = <<>>
  /\ podQ' = [p \in Pod |-> Once(podApi[p], 0)]
  /\ cfgQ' = [c \in Config |-> IF cfgApi[c] = NoConfig THEN <<>> ELSE <<cfgApi[c].data>>]
  /\ rsQ' = rsApi
  /\ \E order \in SetToSeqs({[event |-> e, stamp |-> evApi[e]] : e \in {e \in Event : evApi[e] # 0}}) :
       evQ' = order
  /\ UNCHANGED <<api, writes, now, wrote, watchers>>

AuditResync(c) ==
  /\ cfgApi[c] # NoConfig
  /\ recordUpdate(c, cfgApi[c], cfgApi[c], now)
  /\ UNCHANGED <<env, cacheVars, configVars, recent>>

-----------------------------------------------------------------------------
\* The informers' goroutines and Cache.Run.

PodNotification(p) ==
  /\ podQ[p] # <<>> /\ adding["informer"] = None
  /\ podQ' = [podQ EXCEPT ![p] = Tail(@)]
  /\ LET n == Head(podQ[p]) IN
     IF n \in {Deleted, Tombstone} THEN onPodDelete(p, n = Tombstone)
     ELSE /\ BeginPodAdd("informer", p, n)
          /\ UNCHANGED <<pods, podMountIndex, rsOwners, rollouts, rsAdding, walk>>
  /\ UNCHANGED <<api, rsQ, cfgQ, evQ, writes, now, wrote, configVars, recent, events>>

RSNotification(r) ==
  /\ r \in rsQ /\ rsQ' = rsQ \ {r}
  /\ BeginRSAdd(r)
  /\ UNCHANGED <<api, podQ, cfgQ, evQ, writes, now, wrote, configVars, recent, events>>

PodsListed == {[pod |-> p, rev |-> podApi[p]] : p \in {p \in Pod : podApi[p] # 0}}

CacheStep ==
  /\ EndPodAdd("informer") \/ EndPodAdd("run") \/ EndRSAdd \/ BeginWalk(PodsListed) \/ WalkPod
  /\ UNCHANGED <<env, configVars, recent, events>>

ConfigNotification(c) ==
  /\ cfgQ[c] # <<>> /\ cfgQ' = [cfgQ EXCEPT ![c] = Tail(@)]
  /\ applySnapshot(c, Head(cfgQ[c]))
  /\ UNCHANGED <<api, podQ, rsQ, evQ, writes, now, wrote, cacheVars, recent, events>>

ConfigStep(k) ==
  /\ AppendChange(k) \/ (applying[k] # NoConfig /\ Attribute(k, findMounters(applying[k].config)))
  /\ UNCHANGED <<env, cacheVars, recent, events>>

EventNotification ==
  /\ evQ # <<>> /\ evQ' = Tail(evQ)
  /\ LET n == Head(evQ) IN
     \E i \in 1..3 : onEvent(n.event, [j \in 1..3 |-> IF j = i THEN n.stamp ELSE 0], now)
  /\ UNCHANGED <<api, podQ, rsQ, cfgQ, writes, now, wrote, cacheVars, configVars, events>>

Handle ==
  \/ \E p \in Pod : PodNotification(p)
  \/ \E r \in ReplicaSet : RSNotification(r)
  \/ CacheStep
  \/ \E c \in Config : ConfigNotification(c)
  \/ \E k \in {"ConfigMap", "Secret"} : ConfigStep(k)
  \/ EventNotification

Next ==
  \/ \E p \in Pod : WritePod(p) \/ DeletePod(p)
  \/ \E r \in ReplicaSet : CreateReplicaSet(r)
  \/ \E c \in Config : DeleteConfig(c) \/ AuditResync(c) \/ \E d \in Data, m \in Manager : WriteConfig(c, d, m)
  \/ \E e \in Event : WriteEvent(e)
  \/ Tick \/ Resync \/ Handle

\* Informers deliver what they hold, and resync for ever.
Fairness == WF_vars(Handle) /\ WF_vars(Resync)

Spec == Init /\ [][Next]_vars /\ Fairness

-----------------------------------------------------------------------------

TrueOwner(p) ==
  LET r == OwnerOf[p] IN
  IF r \in rsApi /\ ParentOf[r] # None THEN ParentOf[r] ELSE r

\* A pod may be filed under its ReplicaSet, or with an old revision, because
\* callbacks of two informers and Run's walk overtake each other.  Resyncs
\* put that right: in the end every pod there is stands under its Deployment.
OwnersSettle ==
  \A p \in Pod :
    <>[](podApi[p] # 0 => /\ p \in DOMAIN pods
                          /\ pods[p] = [rev |-> podApi[p], owner |-> TrueOwner(p)])

\* Whatever the order in which ReplicaSets are reported and repeated, the
\* rollout of a workload is the latest created of those processed.
RolloutIsNewest ==
  \A r \in DOMAIN rsOwners \ {rsAdding} :
    CreatedAt[r] # 0 => /\ RolloutOf(r) \in DOMAIN rollouts
                        /\ CreatedAt[rollouts[RolloutOf(r)]] >= CreatedAt[r]

\* The changes kept, with the one of the object's kind that is being
\* recorded, and where among them those of the object are.
Kept(c) == Append(history, applying[KindOf[c]])
ChangesOf(c) == {i \in DOMAIN Kept(c) : Kept(c)[i] # NoConfig /\ Kept(c)[i].config = c}

\* The changes of an object are a chain: each begins where the one before it
\* ended, names at least one key, and the last ends at the snapshot, which is
\* the object's content once everything was reported.  So no change is lost,
\* repeated by a resync or told of a state that never was.
HistoryChains ==
  \A c \in Config :
    /\ \A i \in ChangesOf(c) :
         /\ diffKeys(Kept(c)[i].from, Kept(c)[i].to) # {}
         /\ \A j \in ChangesOf(c) :
              (i < j /\ ~\E k \in ChangesOf(c) : i < k /\ k < j) => Kept(c)[i].to = Kept(c)[j].from
         /\ (\A j \in ChangesOf(c) : j <= i) => Kept(c)[i].to = last[c]
    /\ c \notin Skipped /\ cfgQ[c] = <<>> /\ cfgApi[c] # NoConfig => last[c] = cfgApi[c].data

\* The repetitions of a resync fill the ring.  When all are in, the event
\* with the latest time stamp is still among the recent ones, unless there
\* are more Warnings than places.
NewestWarningKept ==
  (evQ = <<>> /\ Cardinality({e \in Warning : evApi[e] # 0}) <= maxItems) =>
    \A e \in Warning :
      evApi[e] # 0 /\ (\A f \in Warning \ {e} : evApi[e] > evApi[f]) =>
        [event |-> e, lastSeen |-> evApi[e]] \in ToSet(Recent(maxItems, {Category[e]}, evApi[e]))

\* An audit entry names a manager that wrote the object in the very second of
\* its version (the API server keeps whole seconds), and no version is
\* recorded as an update twice, whatever resyncs repeat.
AuditTellsWrites ==
  /\ \A e \in ToSet(Query(maxEvents, FALSE)) : \E v \in 1..e.version :
       /\ wrote[v].object = e.object /\ wrote[v].manager = e.actor
       /\ wrote[v].time = wrote[e.version].time
  /\ \A i, j \in DOMAIN events :
       i < j /\ events[i].object = events[j].object /\ events[j].action = "update" =>
         events[i].version < events[j].version
=============================================================================
