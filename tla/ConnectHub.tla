----------------------------- MODULE ConnectHub -----------------------------
(***************************************************************************)
(* connect.Hub: agents pair a cluster with a token and hold a tunnel open. *)
(* One connection attempt is one goroutine: it authorizes step by step,    *)
(* each step one transaction, one statement or one critical section, then  *)
(* holds its session until it closes, and leaves a watchClose goroutine    *)
(* behind.  With the clusters table, the pairing_tokens table and the rows *)
(* of clusters.Store, which the Hub refreshes.                             *)
(***************************************************************************)
EXTENDS Integers

CONSTANTS
  Attempt,      \* the connection attempts agents make
  Token,        \* the pairing tokens
  Org, Name,    \* organizations, cluster names
  Cluster,      \* cluster IDs; a first connect takes one never used before
  None,         \* NULL in pairing_tokens.cluster_id, and no token
  Flaky,        \* the behaviours considered: FALSE where database calls succeed
  MaxRestarts   \* bound on the restarts of the detector

ASSUME HubAssumption ==
  /\ Flaky \subseteq BOOLEAN
  /\ MaxRestarts \in Nat
  /\ None \notin Cluster \cup Token

VARIABLES
  clusters,  \* table: cluster ID -> [org, name, online]
  tokens,    \* table: token -> [org, name, cluster, expired]
  online,    \* Hub.online: the IDs with an entry
  rows,      \* clusters.Store.rows: ID -> online
  conn,      \* attempt -> where its handler is, its token and cluster
  watcher,   \* attempt -> where its watchClose is
  created,   \* history: <<token, cluster ID>> of every row a first connect made
  restarts,
  flaky      \* may database calls fail in this behaviour?

tables == <<clusters, tokens, created>>
world == <<restarts, flaky>>
vars == <<tables, online, rows, conn, watcher, world>>

ClusterRow == [org : Org, name : Name, online : BOOLEAN]
TokenRow == [org : Org, name : Name, cluster : Cluster \cup {None}, expired : BOOLEAN]

Steps == {"idle", "select", "rebind", "bind", "enter", "mark", "refresh", "store",
          "watch", "upgrade", "live", "closed"}
Handler == [step : Steps, token : Token \cup {None}, cluster : Cluster \cup {None},
            read : BOOLEAN]

Put(f, k, v) == [x \in DOMAIN f \cup {k} |-> IF x = k THEN v ELSE f[x]]

SetOnline(c, b) ==
  clusters' = IF c \in DOMAIN clusters THEN [clusters EXCEPT ![c].online = b] ELSE clusters

\* A best-effort UPDATE: its error is ignored.
TrySetOnline(c, b) == SetOnline(c, b) \/ (flaky /\ UNCHANGED clusters)

At(a, step) == conn[a].step = step
Move(a, to) == conn' = [conn EXCEPT ![a] = to]
Step(a, step) == Move(a, [conn[a] EXCEPT !.step = step])
Resolved(a, c) == Move(a, [conn[a] EXCEPT !.step = "enter", !.cluster = c])
Reject(a) == Step(a, "closed")

\* remotedialer: a client key has a session as long as a connection for it
\* is being served.
HasSession(c) == \E a \in Attempt : At(a, "live") /\ conn[a].cluster = c

IsOnline(c) == c \in online /\ HasSession(c)

Init ==
  /\ clusters = [c \in {} |-> 0]
  /\ tokens = [t \in {} |-> 0]
  /\ online = {}
  /\ rows = [c \in {} |-> 0]
  /\ conn = [a \in Attempt |-> [step |-> "idle", token |-> None, cluster |-> None,
                                read |-> FALSE]]
  /\ watcher = [a \in Attempt |-> "none"]
  /\ created = {}
  /\ restarts = 0
  /\ flaky \in Flaky

-----------------------------------------------------------------------------
CreatePairingToken(t, org, name) ==
  /\ t \notin DOMAIN tokens
  /\ tokens' = Put(tokens, t, [org |-> org, name |-> name,
                               cluster |-> None, expired |-> FALSE])
  /\ UNCHANGED <<clusters, created, online, rows, conn, watcher, world>>

\* The hour of the token passes.
Expire(t) ==
  /\ t \in DOMAIN tokens /\ ~tokens[t].expired
  /\ tokens' = [tokens EXCEPT ![t] = [@ EXCEPT !.expired = TRUE]]
  /\ UNCHANGED <<clusters, created, online, rows, conn, watcher, world>>

Dial(a, t) ==
  /\ At(a, "idle")
  /\ Move(a, [conn[a] EXCEPT !.step = "select", !.token = t])
  /\ UNCHANGED <<tables, online, rows, watcher, world>>

-----------------------------------------------------------------------------
(* resolveToken: a SELECT, then in the same transaction either an UPDATE   *)
(* for a reconnect, or an INSERT and an UPDATE for the first connect.      *)
SelectToken(a) ==
  LET t == conn[a].token IN
  /\ At(a, "select")
  /\ IF t \notin DOMAIN tokens THEN Reject(a)
     ELSE IF tokens[t].cluster # None
       THEN Move(a, [conn[a] EXCEPT !.step = "rebind", !.cluster = tokens[t].cluster])
     ELSE IF tokens[t].expired THEN Reject(a)
     ELSE Step(a, "bind")
  /\ UNCHANGED <<tables, online, rows, watcher, world>>

Rebind(a) ==
  /\ At(a, "rebind")
  /\ SetOnline(conn[a].cluster, TRUE)
  /\ Resolved(a, conn[a].cluster)
  /\ UNCHANGED <<tokens, created, online, rows, watcher, world>>

\* Mutant: the name column is not UNIQUE.
NameNotUnique(name) == TRUE

\* clusters.name is UNIQUE: the INSERT waits for a concurrent one of the
\* same name and fails once that is committed.
NameFree(name) == \A c \in DOMAIN clusters : clusters[c].name # name

\* uuid.New
Fresh(c) == \A x \in created : x[2] # c

InsertCluster(a, c) ==
  LET t == conn[a].token IN
  /\ Fresh(c)
  /\ clusters' = Put(clusters, c, [org |-> tokens[t].org, name |-> tokens[t].name,
                                   online |-> TRUE])
  /\ tokens' = [tokens EXCEPT ![t].cluster = c]
  /\ created' = created \cup {<<t, c>>}

\* Mutant: a first connect takes over the cluster that has its name.
BindAdopts(a) ==
  LET t == conn[a].token IN
  /\ At(a, "bind")
  /\ \E c \in Cluster :
       /\ IF NameFree(tokens[t].name) THEN InsertCluster(a, c)
          ELSE /\ c \in DOMAIN clusters /\ clusters[c].name = tokens[t].name
               /\ tokens' = [tokens EXCEPT ![t].cluster = c]
               /\ UNCHANGED <<clusters, created>>
       /\ Resolved(a, c)
  /\ UNCHANGED <<online, rows, watcher, world>>

Bind(a) ==
  /\ At(a, "bind") /\ NameFree(tokens[conn[a].token].name)
  /\ \E c \in Cluster :
       /\ InsertCluster(a, c)
       /\ \/ Resolved(a, c)
          \/ flaky /\ Reject(a)   \* committed, but the answer was lost
  /\ UNCHANGED <<online, rows, watcher, world>>

NameTaken(a) ==
  /\ At(a, "bind") /\ ~NameFree(tokens[conn[a].token].name)
  /\ Reject(a)
  /\ UNCHANGED <<tables, online, rows, watcher, world>>

\* A database error rolls back and rejects the agent.
Rollback(a) ==
  /\ flaky
  /\ At(a, "select") \/ At(a, "rebind") \/ At(a, "bind")
  /\ Reject(a)
  /\ UNCHANGED <<tables, online, rows, watcher, world>>

-----------------------------------------------------------------------------
(* The rest of authorize.                                                  *)
Enter(a) ==
  /\ At(a, "enter")
  /\ online' = online \cup {conn[a].cluster}
  /\ Step(a, "mark")
  /\ UNCHANGED <<tables, rows, watcher, world>>

markOnline(a) ==
  /\ At(a, "mark")
  /\ TrySetOnline(conn[a].cluster, TRUE)
  /\ Step(a, "refresh")
  /\ UNCHANGED <<tokens, created, online, rows, watcher, world>>

\* Mutant: a failed refresh rejects the agent.
RefreshReadRejects(a) ==
  LET c == conn[a].cluster IN
  /\ At(a, "refresh")
  /\ \/ /\ c \in DOMAIN clusters
        /\ Move(a, [conn[a] EXCEPT !.step = "store", !.read = clusters[c].online])
     \/ (c \notin DOMAIN clusters \/ flaky) /\ Reject(a)
  /\ UNCHANGED <<tables, online, rows, watcher, world>>

\* OnClusterRegistered: Store.RefreshFromDB reads the row, then stores it.
RefreshRead(a) ==
  LET c == conn[a].cluster IN
  /\ At(a, "refresh")
  /\ \/ /\ c \in DOMAIN clusters
        /\ Move(a, [conn[a] EXCEPT !.step = "store", !.read = clusters[c].online])
     \/ (c \notin DOMAIN clusters \/ flaky) /\ Step(a, "watch")
  /\ UNCHANGED <<tables, online, rows, watcher, world>>

\* Mutant: only a row the Store knows already is refreshed.
RefreshWriteKnown(a) ==
  /\ At(a, "store")
  /\ rows' = IF conn[a].cluster \in DOMAIN rows
             THEN Put(rows, conn[a].cluster, conn[a].read) ELSE rows
  /\ Step(a, "watch")
  /\ UNCHANGED <<tables, online, watcher, world>>

RefreshWrite(a) ==
  /\ At(a, "store")
  /\ rows' = Put(rows, conn[a].cluster, conn[a].read)
  /\ Step(a, "watch")
  /\ UNCHANGED <<tables, online, watcher, world>>

Watch(a) ==
  /\ At(a, "watch")
  /\ watcher' = [watcher EXCEPT ![a] = "poll"]
  /\ Step(a, "upgrade")
  /\ UNCHANGED <<tables, online, rows, world>>

(* remotedialer upgrades the connection and serves it until it breaks.     *)
Upgrade(a) ==
  /\ At(a, "upgrade")
  /\ Step(a, "live") \/ Reject(a)
  /\ UNCHANGED <<tables, online, rows, watcher, world>>

Disconnect(a) ==
  /\ At(a, "live")
  /\ Step(a, "closed")
  /\ UNCHANGED <<tables, online, rows, watcher, world>>

-----------------------------------------------------------------------------
(* watchClose: the ticks that find a session change nothing.               *)
Poll(a) ==
  /\ watcher[a] = "poll" /\ ~HasSession(conn[a].cluster)
  /\ watcher' = [watcher EXCEPT ![a] = "drop"]
  /\ UNCHANGED <<tables, online, rows, conn, world>>

\* Mutant: the watcher leaves the row as it is.
DropOnly(a) ==
  /\ watcher[a] = "drop"
  /\ online' = online \ {conn[a].cluster}
  /\ watcher' = [watcher EXCEPT ![a] = "done"]
  /\ UNCHANGED <<tables, rows, conn, world>>

Drop(a) ==
  /\ watcher[a] = "drop"
  /\ online' = online \ {conn[a].cluster}
  /\ watcher' = [watcher EXCEPT ![a] = "mark"]
  /\ UNCHANGED <<tables, rows, conn, world>>

markOffline(a) ==
  /\ watcher[a] = "mark"
  /\ TrySetOnline(conn[a].cluster, FALSE)
  /\ watcher' = [watcher EXCEPT ![a] = "done"]
  /\ UNCHANGED <<tokens, created, online, rows, conn, world>>

-----------------------------------------------------------------------------
(* Store.Delete: the row first, which sets the tokens' cluster to NULL,    *)
(* then the caches.  A caller that found no row any more may still be      *)
(* between the two.                                                        *)
DeleteRow(c) ==
  /\ c \in DOMAIN rows /\ c \in DOMAIN clusters
  /\ clusters' = [x \in DOMAIN clusters \ {c} |-> clusters[x]]
  /\ tokens' = [t \in DOMAIN tokens |->
       IF tokens[t].cluster = c THEN [tokens[t] EXCEPT !.cluster = None] ELSE tokens[t]]
  /\ UNCHANGED <<created, online, rows, conn, watcher, world>>

DeleteCache(c) ==
  /\ c \in DOMAIN rows \ DOMAIN clusters
  /\ rows' = [x \in DOMAIN rows \ {c} |-> rows[x]]
  /\ UNCHANGED <<tables, online, conn, watcher, world>>

\* The process stops and starts again: LoadAll reads the table.
Restart ==
  /\ restarts < MaxRestarts
  /\ restarts' = restarts + 1
  /\ online' = {}
  /\ rows' = [c \in DOMAIN clusters |-> clusters[c].online]
  /\ conn' = [a \in Attempt |->
       IF At(a, "idle") THEN conn[a] ELSE [conn[a] EXCEPT !.step = "closed"]]
  /\ watcher' = [a \in Attempt |-> IF watcher[a] = "none" THEN "none" ELSE "done"]
  /\ UNCHANGED <<tables, flaky>>

-----------------------------------------------------------------------------
authorize(a) ==
  \/ SelectToken(a) \/ Rebind(a) \/ Bind(a) \/ NameTaken(a) \/ Rollback(a)
  \/ Enter(a) \/ markOnline(a) \/ RefreshRead(a) \/ RefreshWrite(a) \/ Watch(a)

Serve(a) == authorize(a) \/ Upgrade(a)

watchClose(a) == Poll(a) \/ Drop(a) \/ markOffline(a)

Admin ==
  \/ \E t \in Token, org \in Org, name \in Name : CreatePairingToken(t, org, name)
  \/ \E c \in Cluster : DeleteRow(c) \/ DeleteCache(c)

Next ==
  \/ Admin \/ Restart
  \/ \E t \in Token : Expire(t)
  \/ \E a \in Attempt :
       \/ \E t \in Token : Dial(a, t)
       \/ Serve(a) \/ Disconnect(a) \/ watchClose(a)

\* A handler runs on; a watcher's ticker keeps ticking.
Fairness == \A a \in Attempt : WF_vars(Serve(a)) /\ WF_vars(watchClose(a))

Spec == Init /\ [][Next]_vars /\ Fairness

-----------------------------------------------------------------------------
\* An attempt in one of these has its entry and no watcher yet.
Entering == {"mark", "refresh", "store", "watch"}

TypeOK ==
  /\ clusters \in [DOMAIN clusters -> ClusterRow]
  /\ DOMAIN clusters \subseteq Cluster
  /\ tokens \in [DOMAIN tokens -> TokenRow]
  /\ DOMAIN tokens \subseteq Token
  /\ online \subseteq Cluster
  /\ rows \in [DOMAIN rows -> BOOLEAN] /\ DOMAIN rows \subseteq Cluster
  /\ conn \in [Attempt -> Handler]
  /\ watcher \in [Attempt -> {"none", "poll", "drop", "mark", "done"}]
  /\ created \subseteq Token \X Cluster

(* Concurrent first connects with one token, and reconnects, never split   *)
(* or share a cluster: every cluster row belongs to exactly one token, and *)
(* a token to no row that is gone.                                         *)
TokenPerCluster ==
  /\ \A c \in DOMAIN clusters : \E t \in DOMAIN tokens :
       \A u \in DOMAIN tokens : tokens[u].cluster = c <=> u = t
  /\ \A t \in DOMAIN tokens : tokens[t].cluster \in DOMAIN clusters \cup {None}

(* Traffic for a cluster goes to agents of one token only: two sessions    *)
(* under one client key were opened with the same token.                   *)
SessionsOfOneToken ==
  \A a, b \in Attempt :
    (At(a, "live") /\ At(b, "live") /\ conn[a].cluster = conn[b].cluster)
      => conn[a].token = conn[b].token

(* No entry is forgotten: whatever has an entry in Hub.online has a        *)
(* watcher that will remove it, or an authorize about to start one.        *)
OnlineIsWatched ==
  \A c \in online : \E a \in Attempt :
    /\ conn[a].cluster = c
    /\ watcher[a] \in {"poll", "drop"} \/ conn[a].step \in Entering

(* "so the row is visible to /v1/clusters immediately": a cluster row      *)
(* whose authorize is over is in the Store's rows.                         *)
RegisteredIsListed ==
  ~flaky => \A c \in DOMAIN clusters \ DOMAIN rows : \E a \in Attempt :
    conn[a].step \in {"enter"} \cup Entering /\ conn[a].cluster = c

Gone(c) == \A a \in Attempt :
  conn[a].step \in {"idle", "closed"} \/ conn[a].cluster # c

(* When a cluster's agent stays away, its entry goes and, unless database  *)
(* calls fail or the detector restarted, so does its online mark in the    *)
(* table, whatever its earlier sessions' watchers did meanwhile.           *)
GoneIsOffline ==
  \A c \in Cluster :
    <>[]Gone(c) => <>[](/\ c \notin online
                        /\ \/ flaky \/ restarts > 0
                           \/ c \notin DOMAIN clusters
                           \/ ~clusters[c].online)

(* hub.go:283: "IsOnline reports whether a cluster currently has a live WS *)
(* tunnel."                                                                *)
LiveIsOnline ==
  \A c \in Cluster : <>[]HasSession(c) => []<>IsOnline(c)

=============================================================================
