---------------------------- MODULE ClusterStore ----------------------------
(***************************************************************************)
(* clusters.Store: the clusters table and what the process keeps of it.    *)
(* A call of the database is a step of its own; it can fail, before or     *)
(* after it took effect.                                                   *)
(***************************************************************************)
EXTENDS Requests

CONSTANTS
  Cluster,   \* cluster IDs; uuid.New takes one never used before
  Org, Name

VARIABLES
  mode,      \* the process: "starting", "db" or "memory" (no database)
  table,     \* table: ID -> [org, name, mode]
  rows,      \* Store.rows
  configs,   \* the IDs with a kubeconfig (and a client) in the Store
  born,      \* history: ID -> the row it was created with
  unsure     \* history: the IDs whose database call failed after its effect, or
             \* whose row was refreshed after it was deleted

storeVars == <<mode, table, rows, configs, born, unsure>>

StoreInit ==
  /\ mode = "starting" /\ table = Nothing /\ rows = Nothing
  /\ configs = {} /\ born = Nothing /\ unsure = {}

\* No organization (uuid.Nil) sees every cluster.
sameOrg(rowOrg, callerOrg) == callerOrg = None \/ rowOrg = callerOrg

\* Without a database there is no login, and no organization.
Caller == IF mode = "db" THEN Org ELSE {None}

List(org) == {c \in DOMAIN rows : sameOrg(rows[c].org, org)}

Mode(c) == IF c \in DOMAIN rows THEN rows[c].mode ELSE "unknown"

OrgID(c) == IF c \in DOMAIN rows THEN rows[c].org ELSE None

Fresh(c) == c \notin DOMAIN born

\* clusters.name is UNIQUE, over all organizations.
NameFree(n) == \A c \in DOMAIN table : table[c].name # n

-----------------------------------------------------------------------------
\* Register: past the health check, no cluster of the name in memory.
BeginRegister(r, org, n) ==
  /\ mode # "starting" /\ org \in Caller
  /\ \A c \in DOMAIN rows : rows[c].name = n => rows[c].org # org
  /\ Begin(r, [op |-> "register", step |-> "insert", cluster |-> None,
               row |-> [org |-> org, name |-> n, mode |-> "kubeconfig"]])
  /\ UNCHANGED storeVars

Insert(r, c) ==
  LET row == req[r].row IN
  /\ In(r, "register", "insert") /\ Fresh(c)
  /\ born' = Put(born, c, row)
  /\ IF mode = "memory"
     THEN /\ req' = [req EXCEPT ![r] = [@ EXCEPT !.step = "cache", !.cluster = c]]
          /\ UNCHANGED <<table, unsure>>
     ELSE /\ NameFree(row.name)
          /\ table' = Put(table, c, row)
          /\ \/ req' = [req EXCEPT ![r] = [@ EXCEPT !.step = "cache", !.cluster = c]] /\ UNCHANGED unsure
             \/ Reply(r) /\ unsure' = unsure \cup {c}
  /\ UNCHANGED <<mode, rows, configs, ops>>

\* The name is taken by now, or the database failed.
InsertFails(r) ==
  /\ In(r, "register", "insert") /\ mode = "db"
  /\ Reply(r)
  /\ UNCHANGED <<storeVars, ops>>

CacheRow(r) ==
  /\ In(r, "register", "cache")
  /\ rows' = Put(rows, req[r].cluster, req[r].row)
  /\ configs' = configs \cup {req[r].cluster}
  /\ Reply(r)
  /\ UNCHANGED <<mode, table, born, unsure, ops>>

-----------------------------------------------------------------------------
BeginDelete(r, org, c) ==
  /\ mode # "starting" /\ org \in Caller
  /\ c \in List(org)
  /\ Begin(r, [op |-> "delete", step |-> IF mode = "db" THEN "row" ELSE "cache", cluster |-> c])
  /\ UNCHANGED storeVars

\* Mutant: the caches are cleared whether or not the row could be deleted.
DeleteRowLast(r) ==
  LET c == req[r].cluster IN
  /\ In(r, "delete", "row")
  /\ rows' = Without(rows, c) /\ configs' = configs \ {c}
  /\ table' = Without(table, c) \/ UNCHANGED table
  /\ Reply(r)
  /\ UNCHANGED <<mode, born, unsure, ops>>

DeleteRow(r) ==
  LET c == req[r].cluster IN
  /\ In(r, "delete", "row")
  /\ \/ /\ table' = Without(table, c)
        /\ \/ To(r, "cache") /\ UNCHANGED unsure
           \/ Reply(r) /\ unsure' = unsure \cup {c}
     \/ Reply(r) /\ UNCHANGED <<table, unsure>>
  /\ UNCHANGED <<mode, rows, configs, born, ops>>

DeleteCache(r) ==
  LET c == req[r].cluster IN
  /\ In(r, "delete", "cache")
  /\ rows' = Without(rows, c) /\ configs' = configs \ {c}
  /\ Reply(r)
  /\ UNCHANGED <<mode, table, born, unsure, ops>>

-----------------------------------------------------------------------------
(* An agent has paired its cluster (connect.Hub: a row of mode tunnel), or *)
(* has come back; then OnClusterRegistered refreshes the row.              *)
AgentConnects(r, c, org, n) ==
  LET Refresh == Begin(r, [op |-> "refresh", step |-> "read", cluster |-> c]) IN
  /\ mode = "db"
  /\ \/ /\ Fresh(c) /\ NameFree(n)
        /\ LET row == [org |-> org, name |-> n, mode |-> "tunnel"] IN
           table' = Put(table, c, row) /\ born' = Put(born, c, row)
        /\ \/ Refresh /\ UNCHANGED unsure
           \/ Begin(r, NoOp) /\ unsure' = unsure \cup {c}   \* committed, but the answer was lost
     \/ /\ c \in DOMAIN table /\ table[c].mode = "tunnel" /\ table[c].org = org /\ table[c].name = n
        /\ Refresh
        /\ UNCHANGED <<table, born, unsure>>
  /\ UNCHANGED <<mode, rows, configs>>

\* RefreshFromDB; an error is logged and leaves the Store as it was.
RefreshRead(r) ==
  LET c == req[r].cluster IN
  /\ In(r, "refresh", "read")
  /\ \/ /\ c \in DOMAIN table
        /\ req' = [req EXCEPT ![r] = [op |-> "refresh", step |-> "write", cluster |-> c, row |-> table[c]]]
        /\ UNCHANGED unsure
     \/ Reply(r) /\ unsure' = unsure \cup {c}
  /\ UNCHANGED <<mode, table, rows, configs, born, ops>>

RefreshWrite(r) ==
  LET c == req[r].cluster IN
  /\ In(r, "refresh", "write")
  /\ rows' = Put(rows, c, req[r].row)
  /\ unsure' = IF c \in DOMAIN table THEN unsure ELSE unsure \cup {c}
  /\ Reply(r)
  /\ UNCHANGED <<mode, table, configs, born, ops>>

-----------------------------------------------------------------------------
\* LoadAll at start-up; the detector serves even when it fails.
LoadAll ==
  /\ mode = "starting" /\ mode' = "db"
  /\ \/ /\ rows' = table /\ unsure' = {}
        /\ configs' = {c \in DOMAIN table : table[c].mode = "kubeconfig"}
     \/ UNCHANGED <<rows, configs>> /\ unsure' = DOMAIN table
  /\ UNCHANGED <<table, born>>

\* No database: the Store is empty and stays in memory.
ServeFromMemory ==
  /\ mode = "starting" /\ mode' = "memory"
  /\ UNCHANGED <<table, rows, configs, born, unsure>>

StoreStops ==
  /\ mode' = "starting" /\ rows' = Nothing /\ configs' = {}
  /\ UNCHANGED <<table, born, unsure>>

StoreStep(r) ==
  \/ \E c \in Cluster : Insert(r, c)
  \/ InsertFails(r) \/ CacheRow(r) \/ DeleteRow(r) \/ DeleteCache(r)
  \/ RefreshRead(r) \/ RefreshWrite(r)
=============================================================================
