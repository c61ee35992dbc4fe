---------------------------- MODULE ClusterProxy ----------------------------
(***************************************************************************)
(* proxy.MultiClusterProxy: /k8s/<cluster_id>/... goes to that cluster's   *)
(* apiserver, through a proxy kept per cluster, and everything else to the *)
(* in-cluster one.  The cache has no lock: two requests may both build the *)
(* proxy, and the Go runtime may stop the process (Restart) for it.        *)
(***************************************************************************)
EXTENDS ClusterStore

VARIABLES
  proxies,   \* cluster ID -> the mode its cached proxy was built for
  audit      \* table proxy_audit: [cluster, org]

proxyVars == <<proxies, audit>>

ProxyInit == proxies = Nothing /\ audit = {}

ServeHTTP(r, c) ==
  /\ mode # "starting"
  /\ Begin(r, [op |-> "proxy", cluster |-> c, mode |-> "unknown",
               step |-> IF c = None THEN "audit"
                        ELSE IF c \in DOMAIN proxies THEN "gate" ELSE "mode"])
  /\ UNCHANGED <<storeVars, proxyVars>>

\* build: the cluster's mode, under the Store's lock.
ReadMode(r) ==
  /\ In(r, "proxy", "mode")
  /\ req' = [req EXCEPT ![r] = [@ EXCEPT !.step = "build", !.mode = Mode(req[r].cluster)]]
  /\ UNCHANGED <<storeVars, proxyVars, ops>>

\* Mutant: what is not known to have a kubeconfig is a tunnel.
ProxyModeGuess(m) == IF m = "kubeconfig" THEN m ELSE "tunnel"

\* A cluster the Store does not know is tried as one with a kubeconfig.
ProxyMode(m) == IF m = "tunnel" THEN m ELSE "kubeconfig"

\* The kubeconfig is read under the lock again; without one it is an error,
\* which is answered and not cached.
Build(r) ==
  LET c == req[r].cluster
      m == ProxyMode(req[r].mode) IN
  /\ In(r, "proxy", "build")
  /\ IF m = "tunnel" \/ c \in configs
     THEN proxies' = Put(proxies, c, m) /\ To(r, "gate")
     ELSE UNCHANGED proxies /\ To(r, "audit")
  /\ UNCHANGED <<storeVars, audit, ops>>

\* Forwarded, or refused because the agent is offline.
Gate(r) ==
  /\ In(r, "proxy", "gate")
  /\ To(r, "audit")
  /\ UNCHANGED <<storeVars, proxyVars, ops>>

\* The organization is looked up when the answer is out; the row is inserted
\* by a goroutine that may fail, and does without a cluster (NOT NULL).
Audit(r) ==
  LET c == req[r].cluster IN
  /\ In(r, "proxy", "audit")
  /\ \/ /\ mode = "db" /\ c # None
        /\ audit' = audit \cup {[cluster |-> c, org |-> OrgID(c)]}
     \/ UNCHANGED audit
  /\ Reply(r)
  /\ UNCHANGED <<storeVars, proxies, ops>>

ProxyStops == proxies' = Nothing /\ UNCHANGED audit

ProxyStep(r) == ReadMode(r) \/ Build(r) \/ Gate(r) \/ Audit(r)
=============================================================================
