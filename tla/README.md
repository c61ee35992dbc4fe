# PodPulse in TLA+

PodPulse watches a Kubernetes cluster: tailers ship container logs to a
detector, the detector mines them into templates and raises an anomaly for a
template it has never seen, and an issue engine lists anomalies, configuration
changes and cluster events together. Clusters behind a firewall connect
through a tunnel their agent opens. This directory specifies the parts of that
program that keep state and run concurrently, model-checks them with TLC and
proves the most important facts about them with TLAPS.

Paths are relative to `src/`. Every definition that models code has an entry
in `PROJECT.json` ("map") with the lines it stands for.

## Inventory

| Component | Code | State | Operations | Talks to | What is hard |
|---|---|---|---|---|---|
| Template miner | `internal/detect/drain3` | prefix trees, clusters | `Add`, `Clusters` | called by the detector | nodes that fill up, merges, order of lines |
| Detector | `internal/detect/templates` | baselines, pods, hits per cluster | `Observe`, `PodCount`, `HitsAround` | miner, `logsev`; called by ingest | cold-start gates, rolling windows, lookup by text |
| Anomaly store | `internal/anomaly` | cards, two indexes, last seen | `Record`, `BumpPods`, `SetState`, `All` | called by ingest, API, issue engine | dedup and grouping windows, eviction, late records |
| Ingest | `internal/api` `handleIngest` | none of its own | one request per batch | detector, store, k8s cache, dispatcher | requests interleave between four critical sections |
| Issue engine | `internal/issue` | Issues by ID | `Refresh`, `SetState`, `All` | config and event watchers, store, API | reads, decides and writes in separate critical sections |
| Connect hub | `internal/connect` | online entries; tables `clusters`, `pairing_tokens` | `authorize`, `resolveToken`, `watchClose`, `IsOnline` | remotedialer, Postgres, registry, proxy | reconnects against the watcher of the old connection, failing calls |
| Cluster registry | `internal/clusters` | rows, clients, configs | `Register`, `LoadAll`, `RefreshFromDB`, `Delete` | Postgres, hub, proxy, API | cache against table, check-then-insert |
| Cluster proxy | `internal/proxy` | per-cluster proxy cache; table `proxy_audit` | `ServeHTTP`, `build` | registry, hub | unsynchronised cache, never invalidated |
| Tailing | `internal/tail` | offsets, partial records, set of tailed files | `FileTailer.Run`, `Watcher.scan` | kubelet's log files | rotation, truncation, torn lines |
| Shipping | `cmd/pp-tailer` | bounded channel, batch | loop, `doFlush`, `postBatch` | ingest | drop on full, failed posts, shutdown |
| Kubernetes cache | `internal/k8s/cache.go` | pods, owners, rollouts | informer callbacks, `LookupPod` | ingest | callbacks in any order |
| Config, event, audit watchers | `internal/k8s` | snapshots, rings | informer callbacks, readers | issue engine, API | resyncs, rings at their limit, two-step updates |
| User onboarding | `internal/users` | users in memory | `Onboard`, `Remove`, `Kubeconfig` | cluster API | partial failure, changed scope |
| Authentication | `internal/auth` | sessions, users, organizations | `Signup`, `Login`, `Resolve`, `Logout` | Postgres | sliding expiry races |
| Migrations | `internal/db` | `schema_migrations` | `Migrate` | Postgres | two detectors at once, crashes |
| Tunnel agent | `cmd/pp-connect` | cached token | `runTunnel`, `tokenSource.Get` | hub, API server | reconnects, token rotation |
| Dashboard views | `internal/api` | none | `handleSummary`, `handleListIncidents`, ... | store, cache | windows and bins at their edges |
| Pure text rules | `internal/logsev`, `rca`, `redact` | none | `Classify`, `Fill`, `Line` | detector, ingest | decision order |

What makes each correct: a known error never alerts again (miner, detector);
one card and one alert per error and nothing lost (store, ingest); a complete,
bounded list that keeps what users decided (issue engine); one cluster per
token, and an online state that follows the tunnel (hub); the caches follow
the tables and never mix clusters up (registry, proxy); lines in order and at
most once (tailing, shipping); histories that tell what happened (watchers);
access that is whole when it is handed out, and over when it is over
(onboarding, sessions); each migration applied once (migrations).

`PROJECT.json` lists, under "hazards", where each of these bites in the code.

## Modules

| Module | Models | Notes |
|---|---|---|
| `Drain3` | the miner as pure operators on a miner value | `descend` is the one path that takes, at each depth, the child the code takes: no recursion, so it can be proved about. A node is a pair of token count and path. |
| `Drain3Miner` | one miner under its mutex | `AddLine` is `Miner.Add` of a line with at least one token |
| `Detector` | `templates.Detector`; EXTENDS `Drain3` | `Observe` is `CountLine`, `BlankLine` or `TemplateLine`, the three ways through the function; each runs under `Detector.mu`. `PodCounts` and `HitsAround` look a cluster up by workload and text over maps without an order: each is the set of what the call may return, with the zero of a text it does not find |
| `AnomalyStore` | `anomaly.Store` | `Record` is `Dedup`, `Group` or `Insert`; state and operations only |
| `AnomalyStoreSpec` | the store with any callers | a record may arrive up to `MaxLag` after it fired |
| `Overview` | the incident the summary opens with; EXTENDS `AnomalyStoreSpec` | operators of what one call of `All` returned |
| `Ingest` | concurrent `handleIngest` requests; INSTANCEs `Detector` and `AnomalyStore` | one action per critical section or read; a request's local variables live in `req[r].local` |
| `Alerting` | what ingestion promises, with no requests, locks or windows: an anomaly is found, then becomes a card or a variant in one step, and the alert of a card is handed over once | `Ingest` implements it: `Promised` |
| `IssueEngine` | `issue.Engine`; INSTANCEs `AnomalyStore` | `Refresh` is a loop of single map accesses against watchers, ingest and users |
| `ConnectHub` | `connect.Hub`, the two tables and the rows of `clusters.Store` | one action per statement, transaction or critical section of `authorize` and `watchClose` |
| `FileTailer` | `tail.FileTailer`, `tail.Watcher.scan` and the kubelet's files | a file is a sequence of units (the beginning of a line, cut in its header or not; its rest with the newline) of a stream; offsets count units. One action per turn of `Run`'s loop |
| `Tailer` | `pp-tailer`; EXTENDS `FileTailer` | the bounded channel, the select loop, `postBatch`, shutdown |
| `Ring` | a bounded history | `Push`, and what a reader's loop collects of it (`AtPositions`) |
| `K8sCache` | `k8s.Cache` | `onPodAdd` and `onRSAdd` in the two critical sections they have, run by the informers and by the walk of `Run` at once |
| `ConfigWatcher` | `k8s.ConfigWatcher` | `applySnapshot` in three sections: the snapshot, the mounters, the history |
| `EventWatcher`, `AuditWatcher` | the watchers of events and of who changed what | their handlers run under one mutex |
| `Watchers` | the four watchers together with the API server | composes the four; one queue per object, resyncs, tombstones |
| `Requests` | what the requests of the control plane share | `req[r]` is a request's operation, step and local variables; `Begin` and `Reply` |
| `Migrations` | `db.Migrate` | any number of detectors, one action per statement; a transaction holds the database's lock on `schema_migrations` (`Holds`) |
| `ClusterStore` | `clusters.Store` and its table | one action per critical section and statement |
| `ClusterProxy` | `proxy.MultiClusterProxy` | `ServeHTTP`, `serveCluster`, `build`, and the audit row |
| `UserOnboarding` | `users.Manager` and the objects of the clusters | one action per call of a cluster's API; roles and bindings have what somebody may have edited |
| `Sessions` | `auth.Manager` and its tables | one action per statement; a signup is one transaction |
| `ControlPlane` | `pp-detector`'s start and its requests | composes the six above: restarts, and another detector on the same database |
| `Detector_proofs` (with the miner and its operators), `AnomalyStore_proofs` (with the primary incident), `Ingest_proofs`, `IssueEngine_proofs`, `ConnectHub_proofs`, `ControlPlane_proofs`, `Tailer_proofs`, `Watchers_proofs` | theorems about the module each is named after | |
| `MC*` | constants of the runs | |

State corresponds to fields by name: `baselines`, `pods`, `hits` are the
detector's maps; `all`, `byID`, `lastSeen` the store's (`heap` holds the
`*Stored` values both indexes share); `issues` is `Engine.all`; `online` and
`rows` are the maps of the hub and the registry; `clusters`, `tokens` and
`table` the tables; `tail[p]` has the local variables of a `FileTailer.Run`.
Variables marked *history* (`seen`, `fired`, `alerts`, `sent`, `shown`,
`touched`, `created`, `added`, `last`, `wrote`, `born`, `ended`, ...) are not
read by any modelled code; they let properties speak about what happened.

What an operation does beyond its state is left out: an Issue's texts and
timelines, the sample of an anomaly, request forwarding. `errorTopic`, the
severity of a message, the category of an event, who counts as a human and
which objects are too noisy to audit are constants, so the properties hold for
any keyword table. Time is a number of ticks that any action may observe
unchanged; a window is compared with `<`, `<=`, `>=` exactly as the code does.

Definitions marked *Mutant* are faults a change of the code could introduce.
They are used by no specification; each is paired in `PROJECT.json` with the
property that notices it.

## Runs

| Run | Question | Bounds |
|---|---|---|
| `drain3_miner` | Does a mined line stay known, whatever follows? | 5 lines of 2 or 3 tokens over two words and a number; one tree level and one child, so that nodes fill up on the second word |
| `detector` | Does a template fire once, after the gates, with exact windows? | one workload, two pods, 4 lines, 4 minutes; windows of 1 and 2 minutes, so that entries expire and sit on the cutoff |
| `anomaly_store` | Do dedup, grouping and eviction keep cards, indexes and alerts consistent, and does the summary open with one of the worst? | 3 records with a lag of up to one minute, one bump or user action, 2 cards, 4 minutes |
| `ingest` | Do concurrent requests alert once, lose nothing and implement `Alerting`? | two requests, 3 lines, two workloads, two pods, one card, so that cards are evicted under requests in flight |
| `issue_engine` | Is the list complete, the user's, and does Refresh go on? | two config changes (read limit 1), one event, one anomaly, one user action, 2 Issues, 3 ticks |
| `connect_hub` | Do tokens, clusters, sessions and watchers stay together, is a paired cluster listed, and offline once its agent has gone? | two attempts, two tokens for one name, two cluster IDs, one restart; behaviours in which database calls may fail, and ones in which they do not |
| `connect_hub_live` | Does a connected agent end up online? (violated) | two attempts with one token, no failures, no restart |
| `tailing` | Do lines arrive in order and once, does a line tagged F end its record, and does everything go on? | one log of one stream (nothing the tailer does depends on it) over two inodes, 3 lines, one tear, rename, truncation or deletion; a channel of one record and batches of two |
| `tailing_rotation` | Is a rotated log followed? (violated) | 2 inodes, renaming |
| `tailing_streams` | Is a record one message? (violated) | the same, with two streams |
| `watchers` | Do cache, histories and rings tell what happened? | 3 writes to one pod, two ReplicaSets of one Deployment, a ConfigMap and a Secret, three events, two managers; rings of 1 and 2; resyncs without bound |
| `control_plane` | Do the tables, caches and clusters stay together when requests, failures and restarts meet? | two detectors, two migrations, two requests at a time, 4 operations or restarts, two clusters, one organization and name, so that requests collide; two signups with one e-mail; sessions that end after a tick |

Two actors and windows of one or two ticks are enough because every property
relates at most two of them: two requests, two attempts, two cards, a line and
its predecessor, a write and the one before. Where a limit matters it is set to
one or two, so that it is reached within the bound. `connect_hub` has one name,
so one row at a time: for its invariants, two clusters side by side are left to
the theorems, which hold for any names; `GoneIsOffline` speaks of one cluster
whose steps touch no other. Runs have no deadlock check: a bounded clock and
bounded inputs let every model come to rest.

Fairness. `WF(Refresh)` stands for `runIssueRefresher`, whose ticker calls
`Refresh` for the life of the process and whose steps never wait for anything
but a free mutex. `WF(Serve(a))` and `WF(watchClose(a))` stand for a request
goroutine that runs on, each of its database calls having a timeout, and a
watcher whose ticker keeps ticking. In `Tailer`, `WF(scan)`, `WF(Run(p))` and
`WF(Ship)` stand for the poll and flush tickers and goroutines that can go on;
`postBatch` has a client timeout. In `Watchers`, informers hand over what they
hold and resync for ever (`cache.go`'s shared informers have a resync period).
In `ControlPlane`, a detector that has started to migrate goes on, and the
database answers. Agents, users, administrators, the kubelet and whoever
writes to the API server are never obliged to act.

### Where the code and its documentation disagree

Three runs end in a counterexample; `PROJECT.json` quotes the documentation.

* `connect_hub_live`: a watcher that found no session deletes the entry of a
  session that has started meanwhile, its successor's or its own. `IsOnline`
  needs both the entry and a session, so the connected cluster is refused by
  the proxy until its agent reconnects.
* `tailing_rotation`: `file.go:100` looks for a new inode with `fstat` of the
  descriptor it holds open, which always shows the old one. A log rotated by
  renaming is never followed, and the lines of the new file are not read.
* `tailing_streams`: `partial` is one buffer for stdout and stderr
  (`file.go:65`, :86). What stdout left in it is put before the next line of
  stderr, and two messages leave as one record, although `cri.go:10` says
  "one logical message at a time".

Others were met while modelling and have no run.

Detection and cards. A low-severity line before the first severe one is not
counted (`detector.go:113`, "counted but not templated"); an unclassified line
passes the gate (`detector.go:110`, README:77); two clusters of one workload
may come to read the same, and `PodCount` and `HitsAround` pick either; a text
that a merge has just changed has no pods to bump. A template fires with
its first line, so with one pod: severity comes from the spread over workloads
only and is never "medium". An anomaly recorded late stands after a younger
card and hides it from the grouping walk, so one topic can have two cards
within the window (`store.go:89`; README:32 says it "collapses"). A second pod
counted between `Observe` and `Record` finds no card to bump and is missing
from it (`detector.go:15`).

Issues. `Refresh` overwrites a state set between its look-up and its `put`
(`engine.go:61`, against :163); a state set on an anomaly does not reach its
mirrored Issue (`engine.go:102`); an event repeated a minute later is a second
Issue (`engine.go:415`); a config change still among the newest 200 is rebuilt
every 15 minutes and never gets older than 6 hours (`engine.go:61`).

Views. Between `Observe` (`api.go:337`) and `HitsAround` (:373) a line of another
request can merge with the new cluster and change its text: `HitsAround` does
not find it, and the Before/After panel shows 0 and 0 although the hits are
retained (`detector.go:248`). A negative quotient is cut to zero (`api.go:858`),
so the first bin of the sparkline also counts cards up to ten minutes older
than the "last 6h" of :849. Incidents are cut at multiples of five minutes
(:700), so two anomalies a second apart can be two incidents, not one of the
"60s window" of :680. A rollout is blamed for resolved and silenced anomalies
as well.

Tailing. A line that is torn at the end of the file is emitted in two pieces
(the second fails to parse); a reopening that fails loses the rotation; a
tailer started after a restart begins at the end and skips what was written
meanwhile; a deleted file is never noticed, so its tailer stays. The last batch
is always lost at shutdown.

Watchers. A tombstone is ignored, so a pod deleted while an informer was
disconnected stays in the cache until its name is used again, and the mount
index is never trimmed. Comments in `cache.go` (97-100, 122-123) promise a
walk after the sync that completes owners; the informers' handlers may still be
running then, and the walk can bring a deleted pod back or overwrite a newer
entry: only resyncs settle it. A rollback to an old ReplicaSet is not a rollout
(`cache.go:289` compares creation times). A deleted ConfigMap keeps its
snapshot, and one created anew is compared with it. `RecentChanges` is "newest
first" only within one kind. The repetitions of a resync can push the newest
event out when there are more Warnings than places. A deletion is attributed
to the last writer, and of several managers in one second to the first listed.

Control plane. `serveCluster` never returns false, so the fall-back the
comments at `cluster_proxy.go` 109 and 147 describe cannot be reached. A cached
proxy is never dropped: a deleted cluster goes on being served, and its audit
rows have no organization. The cache is a map without a lock, for which Go may
stop the process. Requests to the own cluster are never audited (their
`cluster_id` is null, and the column is not), although `cluster_proxy.go:71`
says every request is. `Remove` and `Kubeconfig` fall back to the detector's
own cluster when a look-up fails (`users.go:201`), and then delete objects of
the same names there. A RoleBinding of the name is taken for success and left as
it is (`users.go:177`), unlike a Role (:157): if its subjects are others, the
user is recorded and has no access. A failed onboarding leaves its objects, and one with
another scope leaves the earlier role; users are kept in memory only, so a
restart forgets who was onboarded. Without a database two concurrent
registrations of one name both succeed; with one, names are unique over all
organizations (`0001_init.sql:21`) although `clusters.go:105` checks one. A
lost answer of the database leaves table and cache apart until a restart, and
a refresh that overtakes a deletion lists the deleted cluster. A deleted
cluster's token can pair again (`hub.go:222`). A reader that saw a session
expire can purge it just after another extended it. A second detector whose
migration fails serves from memory.

## Proofs

| Module | Theorems | For any |
|---|---|---|
| `ConnectHub_proofs` | `TypeOK`, `TokenPerCluster`, `SessionsOfOneToken`, `OnlineIsWatched`, `RegisteredIsListed` | attempts, tokens, organizations, names, cluster IDs, restarts; behaviours with failing database calls and without (`HubAssumption`) |
| `Detector_proofs` | of the miner: `TypeOK`, `SeenLinesStayKnown`, `TreeBounded`, `TemplatesOnlyGeneralise` | lines, tokens, depth, number of children, similarity threshold at most 1 (`DrainAssumption`, `MinerAssumption`) |
| | of the detector: `FireOnce`, `ColdStartQuiet`, `PodsExact`, `BeforeAfterExact` | the above, and workloads, pods, messages, gates and retention times (`DetectorAssumption`) |
| `ControlPlane_proofs` | `MigratedInOrder`, `EndedStaysEnded`, `OrgHasAdmin`, `ProxyIsOfItsCluster`, `CacheFollowsTable`, `OnboardedHasRole` | detectors, migrations, requests, clusters, organizations, names, e-mails, tokens; calls that fail or whose answers are lost, restarts at any step |
| `AnomalyStore_proofs` | `IndexesAgree`, `NoRepeatedAlert`, `OneCardPerTopicInOrder`, `CardsOnlyGain`; `PrimaryIsWorst` | workloads, templates, topics, windows, limits, lags, records and times (`StoreAssumption`, `BoundsAssumption`, `OverviewAssumption`) |
| `Ingest_proofs` | `AlertedExactlyOnce`, `EveryAnomalyAccounted`; the refinement `Promised` | requests, lines, parameters of miner and detector, windows and limits of the store, as far as the parts agree on them (`PartsAssumption`) |
| `Tailer_proofs` | `TypeOK`, `InOrderAtMostOnce`, `FullEndsRecord` | paths, inodes, streams, lines, tears and other faults, sizes of the channel and of batches, lost posts (`TailerAssumption`, `ShipAssumption`) |
| `IssueEngine_proofs` | `RefreshComplete`, `LogStateIsTheUsers` | objects, events, workloads, limits, windows no longer than `gcAge` (as in `engine.go`), clocks; any signals, records and user actions between two steps of a refresh (`EngineAssumption`) |
| `Watchers_proofs` | `RolloutIsNewest`, `HistoryChains`, `AuditTellsWrites`, `NewestWarningKept` | pods, ReplicaSets, objects, events, managers, lengths of the rings, writes, resyncs and lags of the informers (`CacheAssumption`, `ConfigAssumption`, `EventAssumption`, `AuditAssumption`, `WatchersAssumption`) |

The hub. The invariant is `HubInv`: types, and who may hold which cluster ID.
One step per action; a cluster's row is tied to its token from the statement
that inserts it to the one that binds it, whatever fails in between.
`RegisteredIsListed` speaks of calls that succeed, and needs to know that an
authorize past the refresh left its cluster in the Store, or lost the row for
good (`ListedInv`).

The miner. `SeenLinesStayKnown` is not inductive: that a line's route has a
fitting cluster now says nothing of the route it takes once nodes have filled
up. `GoodMiner` adds what is: a *route* of the line, made of nodes that exist,
ends in a leaf with a cluster whose template covers it. A route, once there,
stays (`RouteStable`): every step of it is to an existing child, which is
looked up before the room is counted; a shared wildcard child is only taken by
a token without a child of its own, and the full node that sent it there never
gets another. Clusters never move, their templates only turn tokens into
wildcards, and a template that covers a line agrees with it everywhere, so it
reaches any threshold up to 1 and the line finds a match. The descent is
stated by CHOOSE; `RouteUnique` and `RouteExists` show that there is exactly
one path to choose.

The detector. `DetectorInv` says that each workload's miner is `GoodMiner` for
every masked line it was ever given, and that what has fired was among them;
what fires next is a new cluster and so is not. For the gates it says that a
baseline counts no more lines than the workload has really emitted, and was
created by one of them.

For `PodsExact` and `BeforeAfterExact`, `TracksTrue` says that each pod and
each hit of a cluster is the record of a line that went to it, and that a line
without one is past its retention. Hits and lines are then counted by a
bijection: `trimHits` drops a prefix, and times never go back. `HitsAround`
looks a text up, and `Followed` adds what makes that exact within one critical
section: the clusters with hits are the clusters of the miners. So the text of
a cluster is found, and what is returned are the lines of one of the clusters
that read so, also of two that converged (which takes five lines, more than the
run has). By a later critical section the text may be gone, which the theorem
does not deny: see the disagreements above.

The store. `NoRepeatedAlert` is not inductive: dedup looks at `lastSeen`, which
a record that comes late can set back. `SeenSinceFired` says why that is
harmless: the key of a card stands, at the time it fired or later, unless the
window of that card is over. Indexes and order are kept by sliding positions:
a record appends a card and drops the first ones, so each position is an
earlier one shifted. `PrimaryIsWorst` needs no invariant but the types: ranks of
severities lie 100 apart and all bonuses together reach 80.

Ingest. It holds a detector and a store, each with the invariants proved above:
the operators of `Ingest`'s instances are shown equal to those of the modules,
layer by layer, under `PartsAssumption`. What is left is the hand-over. Since
a template fires once (`FireOnce`), no two requests carry one anomaly and
dedup never matches, so what `Record` calls fresh is in one request until it
is sent.

The refinement maps an anomaly to its number among those that fired: open while
a request carries it between the detector and `Record`, a card when it is in
`heap`, a variant when a card of its workload has its template, due while a
request is about to dispatch it. Every step of `Ingest` is one of five
(`StepKinds`): it changes none of this (`Quiet`), fires, groups, inserts or
dispatches. That grouping adds one variant and no second one needs `FireOnce`
again; that firing adds none needs `VariantsFired`: a variant on a card is the
template of an anomaly that fired, so the new one is not among them.

The issue engine. `RefreshComplete` speaks of a refresh that is over;
`NothingLost` says it of one under way: each signal it read is listed and will
outlive the collection at the end, is still to do, or its Issue is in hand
between the check and the `put`. What is still to do must go on meaning the
same signal while watchers append and ingest evicts (`TodoKnown`), an Issue in
hand must not be one that was listed meanwhile (`HandSound`), and the entry
whose time a refresh is about to set must still be there (`BumpSound`): only
`Refresh` puts and collects, and the detector runs one at a time
(`cmd/pp-detector/main.go:357`, :363). From
`HandSound` also follows that a refresh never writes over a log issue, which is
`LogStateIsTheUsers`. TLC checked `EngineInv` on the instance of the run first.

The watchers. Each of the four keeps apart from the others, so each has an
invariant over its own variables and a lemma that sorts the steps of the
system. `RolloutIsNewest` is inductive with types (`CacheInv`). `AuditInv`:
what the API server holds is backed by a write for every manager it lists
(`ObjectBacked`), so every entry is (`EntryBacked`), and a resync records
nothing, its versions being equal. `ConfigInv`: the changes kept, with the one
not yet appended, are a chain that ends at the snapshot (`Chained`), and what
is queued ends at the content of the object (`Reported`); a ring that drops
its first element drops the beginning of one chain only (`ChainMoved`).
`EventInv`: the newest Warning is in the ring with fewer others behind it than
there are Warnings, or on its way with no other twice behind it; the ring
cannot drop it where it has as many places as there are Warnings, which
`NewestWarningKept` therefore asks. With fewer it fails.

The control plane. Its modules share nothing but requests, so each theorem has
an invariant of its own and a lemma that a step of the system is one of a few
steps of that part or leaves its variables alone. `MigrationInv`: a detector at
a file has found every earlier one recorded, and records never go. `SessionInv`:
the session a request is about to create is new (`CommitsAreNew`); extending a
session that is over changes nothing. `RoutingInv`: every row of the table, the
memory and the requests under way is of a cluster that was born in that mode
(`TableBorn`, `MemoryBorn`, `RequestsBorn`), which is what a proxy is built
from (`ProxiesBorn`).

`CacheFollowsTable` adds what the requests at the Store
may do (`CacheInv`): a registration is the only one to have its cluster, a
deleted row never returns, and every difference has a request or a mishap to
account for it. `OnboardedHasRole` follows the chain an onboarding has built
so far, as long as nobody crossed it (`AccessInv`); what a binding that was
there before grants is not part of it, since the code does not look.

The tailers. `OrderInv`: a file has its lines in the order they were written,
a torn one as two neighbours; a file is read for one path (`OneOwner`); what
is buffered is what precedes the offset; and all that is still ahead is newer
than what was consumed, except the rest of a line whose beginning was taken.
That an inode which is open is not reused for another file (`Unused`) is what
the argument rests on. `MessageInv` says where the parts glued together come
from: files of one path, which follow each other without sharing lines, and
no line that ends a message between the first and the last of them.

Only model-checked: the liveness properties `SignalsSurface`, `ReadsOn`,
`Delivers`, `GoneIsOffline`, `OwnersSettle` and `StartsUp` (fairness and
ENABLED are beyond the prover). Every safety property and every action
property that a passing run checks has a theorem. Only proved: the types, which
no run checks, since what would break them breaks another property.

## Not modelled

The development mode of the hub without Postgres; the torn `time.Time` of the
data race at `engine.go:85`; torn reads of a card by a view while a request
updates it (`All` returns the live cards); the tunnel agent's token cache of 30
seconds and its loopback proxy; the role "member", which nothing assigns;
services and read-only snapshots of the cache; the counts and the sparkline of the
summary, the grouping into incidents, the workload and deployment lists, the recommendations, the timeline and the order
and number of what lists show; rows of `clusters` that another detector on the
same database writes (the other detector of `ControlPlane` only migrates); text
rules, redaction and layout; HTTP, TLS, certificates and request forwarding;
the demo, the CLI, the dashboard's page and the charts. `PROJECT.json` gives
the reason for each component.

## Plan

1. Done: miner, detector, store, views, ingest, issue engine, hub, tailing,
   watchers, control plane.
2. Done: proofs of every safety property, and one refinement (`Alerting`).
3. Next: "a template is reported once" as an abstract specification of the
   detector; the tunnel agent's token cache with the hub; the severity
   classifier against a reference definition.
