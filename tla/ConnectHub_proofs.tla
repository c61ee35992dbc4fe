-------------------------- MODULE ConnectHub_proofs --------------------------
(***************************************************************************)
(* The safety invariants of ConnectHub, for any attempts, tokens, cluster  *)
(* IDs and restarts, whether or not database calls fail.                   *)
(***************************************************************************)
EXTENDS ConnectHub, TLAPS

(* Why tokens and clusters match: an ID is created once, for one token;    *)
(* attempts and tokens only ever hold IDs created for them; a bound        *)
(* token's cluster has its row, under the token's name, so the UNIQUE name *)
(* stops a second first connect; and every row is still bound.             *)
IDsCreatedOnce == \A x, y \in created : x[2] = y[2] => x = y

(* Steps of an attempt that knows its cluster.                             *)
Holding == {"rebind", "enter", "upgrade", "live"} \cup Entering

AttemptsHoldOwn ==
  \A a \in Attempt :
    /\ conn[a].cluster # None => <<conn[a].token, conn[a].cluster>> \in created
    /\ conn[a].step \in {"idle", "select", "bind"} => conn[a].cluster = None
    /\ conn[a].step \in Holding => conn[a].cluster # None
    /\ conn[a].step \in {"rebind", "bind"} => conn[a].token \in DOMAIN tokens

TokensHoldOwn ==
  \A t \in DOMAIN tokens : tokens[t].cluster # None =>
    /\ <<t, tokens[t].cluster>> \in created
    /\ tokens[t].cluster \in DOMAIN clusters
    /\ clusters[tokens[t].cluster].name = tokens[t].name

RowsBound == \A c \in DOMAIN clusters : \E t \in DOMAIN tokens : tokens[t].cluster = c

Owned == IDsCreatedOnce /\ AttemptsHoldOwn /\ TokensHoldOwn /\ RowsBound

HubInv == TypeOK /\ Owned

-----------------------------------------------------------------------------
LEMMA HubInit == Init => HubInv /\ OnlineIsWatched
BY DEF Init, HubInv, TypeOK, Handler, Steps, Owned, IDsCreatedOnce, AttemptsHoldOwn,
       Entering, Holding, TokensHoldOwn, RowsBound, OnlineIsWatched

(* What a step of handler a to the given state does to conn.               *)
LEMMA MoveFacts ==
  ASSUME TypeOK, NEW a \in Attempt, NEW to \in Handler, Move(a, to)
  PROVE  /\ conn' \in [Attempt -> Handler]
         /\ conn'[a] = to
         /\ \A b \in Attempt \ {a} : conn'[b] = conn[b]
BY DEF TypeOK, Move

LEMMA StepFacts ==
  ASSUME TypeOK, NEW a \in Attempt, NEW s \in Steps, Step(a, s)
  PROVE  /\ conn' \in [Attempt -> Handler]
         /\ conn'[a].step = s
         /\ conn'[a].token = conn[a].token
         /\ conn'[a].cluster = conn[a].cluster
         /\ \A b \in Attempt \ {a} : conn'[b] = conn[b]
<1> DEFINE to == [conn[a] EXCEPT !.step = s]
<1>1. conn[a] \in Handler
  BY DEF TypeOK
<1>2. /\ to \in Handler
      /\ to.step = s /\ to.token = conn[a].token /\ to.cluster = conn[a].cluster
  BY <1>1 DEF Handler
<1> HIDE DEF to
<1>3. Move(a, to)
  BY DEF Step, to
<1> QED
  BY <1>2, <1>3, MoveFacts

(* A step that only moves attempt a on, to a step that needs no more than  *)
(* the one it was in.                                                      *)
LEMMA StepKeepsOwned ==
  ASSUME HubInv, NEW a \in Attempt, NEW s \in Steps, Step(a, s),
         UNCHANGED tables,
         s \notin {"idle", "select", "rebind"},
         s = "bind" => conn[a].token \in DOMAIN tokens /\ conn[a].cluster = None,
         s \in Holding => conn[a].cluster # None
  PROVE  Owned'
<1>1. /\ conn'[a].step = s
      /\ conn'[a].token = conn[a].token
      /\ conn'[a].cluster = conn[a].cluster
      /\ \A b \in Attempt \ {a} : conn'[b] = conn[b]
  BY StepFacts DEF HubInv
<1>2. AttemptsHoldOwn'
  BY <1>1 DEF HubInv, Owned, AttemptsHoldOwn, Entering, Holding, tables
<1>3. (IDsCreatedOnce /\ TokensHoldOwn /\ RowsBound)'
  BY DEF HubInv, Owned, IDsCreatedOnce, TokensHoldOwn, RowsBound, tables
<1> QED
  BY <1>2, <1>3 DEF Owned

(* The best-effort updates change nothing else of a row.                   *)
LEMMA SetOnlineFacts ==
  ASSUME TypeOK, NEW c, NEW b \in BOOLEAN, SetOnline(c, b)
  PROVE  /\ DOMAIN clusters' = DOMAIN clusters
         /\ clusters' \in [DOMAIN clusters -> ClusterRow]
         /\ \A x \in DOMAIN clusters : clusters'[x].name = clusters[x].name
<1>1. CASE c \in DOMAIN clusters
  <2>1. /\ clusters[c] \in ClusterRow
        /\ [clusters[c] EXCEPT !.online = b] \in ClusterRow
        /\ [clusters[c] EXCEPT !.online = b].name = clusters[c].name
    BY <1>1 DEF TypeOK, ClusterRow
  <2> QED
    BY <1>1, <2>1 DEF SetOnline, TypeOK
<1>2. CASE c \notin DOMAIN clusters
  BY <1>2 DEF SetOnline, TypeOK
<1> QED
  BY <1>1, <1>2

-----------------------------------------------------------------------------
(* The administrator's steps and time.                                     *)
LEMMA CreateTokenKeepsInv ==
  ASSUME HubInv, NEW t \in Token, NEW org \in Org, NEW name \in Name,
         CreatePairingToken(t, org, name)
  PROVE  HubInv'
<1>1. /\ DOMAIN tokens' = DOMAIN tokens \cup {t}
      /\ t \notin DOMAIN tokens
      /\ tokens'[t] = [org |-> org, name |-> name, cluster |-> None, expired |-> FALSE]
      /\ \A u \in DOMAIN tokens : tokens'[u] = tokens[u]
  BY DEF CreatePairingToken, Put
<1>2. tokens' \in [DOMAIN tokens' -> TokenRow]
  <2>1. tokens'[t] \in TokenRow
    BY <1>1 DEF TokenRow
  <2>2. \A u \in DOMAIN tokens' : tokens'[u] \in TokenRow
    BY <1>1, <2>1 DEF HubInv, TypeOK
  <2> QED
    BY <2>2, <1>1 DEF CreatePairingToken, Put
<1>3. TypeOK'
  BY <1>1, <1>2 DEF HubInv, TypeOK, CreatePairingToken
<1>4. AttemptsHoldOwn'
  BY <1>1 DEF HubInv, Owned, AttemptsHoldOwn, CreatePairingToken
<1>5. TokensHoldOwn'
  <2> SUFFICES ASSUME NEW u \in DOMAIN tokens', tokens'[u].cluster # None
               PROVE  /\ <<u, tokens'[u].cluster>> \in created
                      /\ tokens'[u].cluster \in DOMAIN clusters
                      /\ clusters[tokens'[u].cluster].name = tokens'[u].name
    BY DEF TokensHoldOwn, CreatePairingToken
  <2>1. u \in DOMAIN tokens
    BY <1>1
  <2> QED
    BY <1>1, <2>1 DEF HubInv, Owned, TokensHoldOwn
<1>6. RowsBound'
  <2> SUFFICES ASSUME NEW c \in DOMAIN clusters
               PROVE  \E u \in DOMAIN tokens' : tokens'[u].cluster = c
    BY DEF RowsBound, CreatePairingToken
  <2>1. PICK u \in DOMAIN tokens : tokens[u].cluster = c
    BY DEF HubInv, Owned, RowsBound
  <2> QED
    BY <1>1, <2>1
<1>7. IDsCreatedOnce'
  BY DEF HubInv, Owned, IDsCreatedOnce, CreatePairingToken
<1> QED
  BY <1>3, <1>4, <1>5, <1>6, <1>7 DEF HubInv, Owned

LEMMA ExpireKeepsInv ==
  ASSUME HubInv, NEW t \in Token, Expire(t)
  PROVE  HubInv'
<1>1. /\ tokens[t] \in TokenRow
      /\ [tokens[t] EXCEPT !.expired = TRUE] \in TokenRow
      /\ [tokens[t] EXCEPT !.expired = TRUE].cluster = tokens[t].cluster
      /\ [tokens[t] EXCEPT !.expired = TRUE].name = tokens[t].name
  BY DEF HubInv, TypeOK, TokenRow, Expire
<1>2. /\ tokens' \in [DOMAIN tokens -> TokenRow]
      /\ DOMAIN tokens' = DOMAIN tokens
      /\ \A u \in DOMAIN tokens : /\ tokens'[u].cluster = tokens[u].cluster
                                  /\ tokens'[u].name = tokens[u].name
  BY <1>1 DEF HubInv, TypeOK, Expire
<1>3. TypeOK'
  BY <1>2 DEF HubInv, TypeOK, Expire
<1>4. AttemptsHoldOwn'
  BY <1>2 DEF HubInv, Owned, AttemptsHoldOwn, Expire
<1>5. TokensHoldOwn'
  BY <1>2 DEF HubInv, Owned, TokensHoldOwn, Expire
<1>6. RowsBound' /\ IDsCreatedOnce'
  BY <1>2 DEF HubInv, Owned, RowsBound, IDsCreatedOnce, Expire
<1> QED
  BY <1>3, <1>4, <1>5, <1>6 DEF HubInv, Owned

LEMMA DeleteRowKeepsInv ==
  ASSUME HubInv, NEW c \in Cluster, DeleteRow(c)
  PROVE  HubInv'
<1>1. /\ DOMAIN tokens' = DOMAIN tokens
      /\ \A t \in DOMAIN tokens :
           /\ tokens[t].cluster = c => tokens'[t] = [tokens[t] EXCEPT !.cluster = None]
           /\ tokens[t].cluster # c => tokens'[t] = tokens[t]
      /\ DOMAIN clusters' = DOMAIN clusters \ {c}
      /\ \A d \in DOMAIN clusters \ {c} : clusters'[d] = clusters[d]
  BY DEF DeleteRow
<1>2. \A t \in DOMAIN tokens :
        /\ tokens'[t] \in TokenRow
        /\ tokens[t].cluster = c => tokens'[t].cluster = None
        /\ tokens'[t].name = tokens[t].name
  <2> TAKE t \in DOMAIN tokens
  <2>1. tokens[t] \in TokenRow
    BY DEF HubInv, TypeOK
  <2>2. /\ [tokens[t] EXCEPT !.cluster = None] \in TokenRow
        /\ [tokens[t] EXCEPT !.cluster = None].cluster = None
        /\ [tokens[t] EXCEPT !.cluster = None].name = tokens[t].name
    BY <2>1 DEF TokenRow
  <2> QED
    BY <1>1, <2>1, <2>2
<1>3. TypeOK'
  <2>1. tokens' \in [DOMAIN tokens' -> TokenRow]
    BY <1>1, <1>2 DEF DeleteRow
  <2>2. clusters' \in [DOMAIN clusters' -> ClusterRow]
    BY <1>1 DEF DeleteRow, HubInv, TypeOK
  <2> QED
    BY <1>1, <2>1, <2>2 DEF HubInv, TypeOK, DeleteRow
<1>4. AttemptsHoldOwn'
  BY <1>1 DEF HubInv, Owned, AttemptsHoldOwn, DeleteRow
<1>5. TokensHoldOwn'
  <2> SUFFICES ASSUME NEW t \in DOMAIN tokens, tokens'[t].cluster # None
               PROVE  /\ <<t, tokens'[t].cluster>> \in created
                      /\ tokens'[t].cluster \in DOMAIN clusters'
                      /\ clusters'[tokens'[t].cluster].name = tokens'[t].name
    <3>1. DOMAIN tokens' = DOMAIN tokens /\ created' = created
      BY <1>1 DEF DeleteRow
    <3> QED
      BY <3>1 DEF TokensHoldOwn
  <2>1. tokens[t].cluster # c /\ tokens'[t] = tokens[t]
    BY <1>1, <1>2
  <2> QED
    BY <1>1, <2>1 DEF HubInv, Owned, TokensHoldOwn
<1>6. RowsBound' /\ IDsCreatedOnce'
  BY <1>1 DEF HubInv, Owned, RowsBound, IDsCreatedOnce, DeleteRow
<1> QED
  BY <1>3, <1>4, <1>5, <1>6 DEF HubInv, Owned

-----------------------------------------------------------------------------
(* The handler's steps.                                                    *)
LEMMA StepKeepsInv ==
  ASSUME HubInv, NEW a \in Attempt, NEW s \in Steps, Step(a, s),
         UNCHANGED tables,
         s \notin {"idle", "select", "rebind"},
         s = "bind" => conn[a].token \in DOMAIN tokens /\ conn[a].cluster = None,
         s \in Holding => conn[a].cluster # None,
         online' \subseteq Cluster,
         rows' \in [DOMAIN rows' -> BOOLEAN], DOMAIN rows' \subseteq Cluster,
         watcher' \in [Attempt -> {"none", "poll", "drop", "mark", "done"}]
  PROVE  HubInv'
<1>1. conn' \in [Attempt -> Handler]
  BY StepFacts DEF HubInv
<1>2. TypeOK'
  BY <1>1 DEF HubInv, TypeOK, tables
<1>3. Owned'
  BY StepKeepsOwned
<1> QED
  BY <1>2, <1>3 DEF HubInv

LEMMA DialKeepsInv ==
  ASSUME HubInv, NEW a \in Attempt, NEW t \in Token, Dial(a, t)
  PROVE  HubInv'
<1> DEFINE to == [conn[a] EXCEPT !.step = "select", !.token = t]
<1>1. conn[a] \in Handler /\ conn[a].cluster = None
  BY DEF HubInv, TypeOK, Owned, AttemptsHoldOwn, Dial, At
<1>2. to \in Handler /\ to.step = "select" /\ to.cluster = None
  BY <1>1 DEF Handler, Steps
<1>3. Move(a, to)
  BY DEF Dial
<1> HIDE DEF to
<1>4. /\ conn' \in [Attempt -> Handler] /\ conn'[a] = to
      /\ \A b \in Attempt \ {a} : conn'[b] = conn[b]
  BY <1>2, <1>3, MoveFacts DEF HubInv
<1>5. TypeOK'
  BY <1>4 DEF HubInv, TypeOK, Dial, tables
<1>6. AttemptsHoldOwn'
  BY <1>2, <1>4 DEF HubInv, Owned, AttemptsHoldOwn, Entering, Holding, Dial, tables
<1>7. (IDsCreatedOnce /\ TokensHoldOwn /\ RowsBound)'
  BY DEF HubInv, Owned, IDsCreatedOnce, TokensHoldOwn, RowsBound, Dial, tables
<1> QED
  BY <1>5, <1>6, <1>7 DEF HubInv, Owned

(* A handler that gets the cluster c its token has, or is getting.         *)
LEMMA HoldKeepsAttempts ==
  ASSUME HubInv, NEW a \in Attempt, NEW s \in {"rebind", "enter"}, NEW c \in Cluster,
         Move(a, [conn[a] EXCEPT !.step = s, !.cluster = c]),
         <<conn[a].token, c>> \in created',
         s = "rebind" => conn[a].token \in DOMAIN tokens,
         created \subseteq created', DOMAIN tokens' = DOMAIN tokens
  PROVE  AttemptsHoldOwn' /\ conn' \in [Attempt -> Handler]
<1> DEFINE to == [conn[a] EXCEPT !.step = s, !.cluster = c]
<1>1. conn[a] \in Handler
  BY DEF HubInv, TypeOK
<1>2. /\ to \in Handler
      /\ to.step = s /\ to.token = conn[a].token /\ to.cluster = c
  BY <1>1 DEF Handler, Steps
<1> HIDE DEF to
<1>3. /\ conn' \in [Attempt -> Handler] /\ conn'[a] = to
      /\ \A b \in Attempt \ {a} : conn'[b] = conn[b]
  BY <1>2, MoveFacts DEF HubInv, to
<1>4. c # None
  BY HubAssumption
<1>5. AttemptsHoldOwn'
  BY <1>2, <1>3, <1>4 DEF HubInv, Owned, AttemptsHoldOwn, Entering, Holding
<1> QED
  BY <1>3, <1>5

LEMMA SelectKeepsInv ==
  ASSUME HubInv, NEW a \in Attempt, SelectToken(a)
  PROVE  HubInv'
<1> DEFINE t == conn[a].token
<1>1. UNCHANGED <<tables, online, rows, watcher>>
  BY DEF SelectToken
<1>2. CASE Step(a, "closed")
  BY <1>1, <1>2, StepKeepsInv DEF Steps, HubInv, TypeOK, Entering, Holding
<1>3. CASE Step(a, "bind") /\ t \in DOMAIN tokens
  BY <1>1, <1>3, StepKeepsInv DEF SelectToken, At, Owned, AttemptsHoldOwn, Steps, HubInv, TypeOK, Entering, Holding
<1>4. CASE /\ t \in DOMAIN tokens /\ tokens[t].cluster # None
           /\ Move(a, [conn[a] EXCEPT !.step = "rebind", !.cluster = tokens[t].cluster])
  <2>1. tokens[t].cluster \in Cluster /\ <<t, tokens[t].cluster>> \in created
    BY <1>4 DEF HubInv, TypeOK, TokenRow, Owned, TokensHoldOwn
  <2>2. AttemptsHoldOwn' /\ conn' \in [Attempt -> Handler]
    BY <1>1, <1>4, <2>1, HoldKeepsAttempts DEF tables
  <2>3. TypeOK'
    BY <1>1, <2>2 DEF HubInv, TypeOK, tables
  <2>4. (IDsCreatedOnce /\ TokensHoldOwn /\ RowsBound)'
    BY <1>1 DEF HubInv, Owned, IDsCreatedOnce, TokensHoldOwn, RowsBound, tables
  <2> QED
    BY <2>2, <2>3, <2>4 DEF HubInv, Owned
<1> QED
  BY <1>2, <1>3, <1>4 DEF SelectToken, Reject

LEMMA RebindKeepsInv ==
  ASSUME HubInv, NEW a \in Attempt, Rebind(a)
  PROVE  HubInv'
<1> DEFINE c == conn[a].cluster
<1>1. conn[a].step = "rebind" /\ conn[a].token \in DOMAIN tokens
  BY DEF HubInv, Owned, AttemptsHoldOwn, Rebind, At
<1>2. c \in Cluster /\ <<conn[a].token, c>> \in created
  BY <1>1 DEF HubInv, TypeOK, Handler, Owned, AttemptsHoldOwn, Holding
<1>3. /\ SetOnline(c, TRUE)
      /\ Move(a, [conn[a] EXCEPT !.step = "enter", !.cluster = c])
      /\ UNCHANGED <<tokens, created, online, rows, watcher>>
  BY DEF Rebind, Resolved
<1>4. /\ DOMAIN clusters' = DOMAIN clusters
      /\ clusters' \in [DOMAIN clusters -> ClusterRow]
      /\ \A x \in DOMAIN clusters : clusters'[x].name = clusters[x].name
  BY <1>3, SetOnlineFacts DEF HubInv
<1>5. AttemptsHoldOwn' /\ conn' \in [Attempt -> Handler]
  BY <1>2, <1>3, HoldKeepsAttempts
<1>6. TypeOK'
  BY <1>3, <1>4, <1>5 DEF HubInv, TypeOK
<1>7. (IDsCreatedOnce /\ TokensHoldOwn /\ RowsBound)'
  BY <1>3, <1>4 DEF HubInv, Owned, IDsCreatedOnce, TokensHoldOwn, RowsBound
<1> QED
  BY <1>5, <1>6, <1>7 DEF HubInv, Owned

(* The heart of it: the name of a token that is already bound is taken by  *)
(* its own cluster, so a first connect never binds a token twice.          *)
LEMMA BindKeepsInv ==
  ASSUME HubInv, NEW a \in Attempt, Bind(a)
  PROVE  HubInv'
<1> DEFINE t == conn[a].token
<1>1. /\ conn[a].step = "bind" /\ t \in DOMAIN tokens /\ t \in Token
      /\ NameFree(tokens[t].name)
  BY DEF HubInv, Owned, AttemptsHoldOwn, TypeOK, Bind, At
<1>2. PICK c \in Cluster : /\ InsertCluster(a, c)
                           /\ Resolved(a, c) \/ Reject(a)
  BY DEF Bind
<1>3. UNCHANGED <<online, rows, watcher>>
  BY DEF Bind
<1>4. tokens[t].cluster = None
  BY <1>1 DEF HubInv, Owned, TokensHoldOwn, NameFree
<1>5. /\ \A x \in created : x[2] # c
      /\ created' = created \cup {<<t, c>>}
      /\ c \notin DOMAIN clusters /\ DOMAIN clusters' = DOMAIN clusters \cup {c}
      /\ clusters'[c] = [org |-> tokens[t].org, name |-> tokens[t].name, online |-> TRUE]
      /\ \A d \in DOMAIN clusters : clusters'[d] = clusters[d]
  <2>1. c \notin DOMAIN clusters
    <3> SUFFICES ASSUME c \in DOMAIN clusters PROVE FALSE
      OBVIOUS
    <3>1. PICK u \in DOMAIN tokens : tokens[u].cluster = c
      BY DEF HubInv, Owned, RowsBound
    <3>2. <<u, c>> \in created
      BY <3>1, HubAssumption DEF HubInv, Owned, TokensHoldOwn
    <3> QED
      BY <1>2, <3>2 DEF InsertCluster, Fresh
  <2> QED
    BY <1>2, <2>1 DEF InsertCluster, Fresh, Put
<1>6. /\ tokens[t] \in TokenRow
      /\ [tokens[t] EXCEPT !.cluster = c] \in TokenRow
      /\ [tokens[t] EXCEPT !.cluster = c].cluster = c
      /\ [tokens[t] EXCEPT !.cluster = c].name = tokens[t].name
  BY <1>1 DEF HubInv, TypeOK, TokenRow
<1>7. /\ tokens' = [tokens EXCEPT ![t] = [tokens[t] EXCEPT !.cluster = c]]
      /\ DOMAIN tokens' = DOMAIN tokens
      /\ tokens' \in [DOMAIN tokens -> TokenRow]
      /\ tokens'[t].cluster = c /\ tokens'[t].name = tokens[t].name
      /\ \A u \in DOMAIN tokens \ {t} : tokens'[u] = tokens[u]
  BY <1>1, <1>2, <1>6 DEF InsertCluster, HubInv, TypeOK
<1>8. AttemptsHoldOwn' /\ conn' \in [Attempt -> Handler]
  <2>1. CASE Resolved(a, c)
    BY <1>5, <1>7, <2>1, HoldKeepsAttempts DEF Resolved
  <2>2. CASE Reject(a)
    <3>1. /\ conn' \in [Attempt -> Handler] /\ conn'[a].step = "closed"
          /\ conn'[a].token = conn[a].token /\ conn'[a].cluster = conn[a].cluster
          /\ \A b \in Attempt \ {a} : conn'[b] = conn[b]
      BY <2>2, StepFacts DEF Reject, Steps, HubInv
    <3> QED
      BY <3>1, <1>5, <1>7 DEF HubInv, Owned, AttemptsHoldOwn, Entering, Holding
  <2> QED
    BY <1>2, <2>1, <2>2
<1>9. TypeOK'
  <2>1. clusters'[c] \in ClusterRow
    BY <1>5, <1>6 DEF TokenRow, ClusterRow
  <2>2. clusters' \in [DOMAIN clusters' -> ClusterRow]
    BY <1>2, <1>5, <2>1 DEF HubInv, TypeOK, InsertCluster, Put
  <2>3. created' \subseteq Token \X Cluster
    BY <1>1, <1>5 DEF HubInv, TypeOK
  <2> QED
    BY <1>3, <1>5, <1>7, <1>8, <2>2, <2>3 DEF HubInv, TypeOK
<1>10. IDsCreatedOnce'
  BY <1>5 DEF HubInv, Owned, IDsCreatedOnce
<1>11. TokensHoldOwn'
  BY <1>1, <1>5, <1>7 DEF HubInv, Owned, TokensHoldOwn
<1>12. RowsBound'
  BY <1>1, <1>4, <1>5, <1>7, HubAssumption DEF HubInv, Owned, RowsBound, TypeOK
<1> QED
  BY <1>8, <1>9, <1>10, <1>11, <1>12 DEF HubInv, Owned

LEMMA MarkKeepsInv ==
  ASSUME HubInv, NEW c, NEW b \in BOOLEAN, TrySetOnline(c, b),
         UNCHANGED <<tokens, created, online, rows>>,
         conn' \in [Attempt -> Handler], AttemptsHoldOwn',
         watcher' \in [Attempt -> {"none", "poll", "drop", "mark", "done"}]
  PROVE  HubInv'
<1>1. /\ DOMAIN clusters' = DOMAIN clusters
      /\ clusters' \in [DOMAIN clusters -> ClusterRow]
      /\ \A x \in DOMAIN clusters : clusters'[x].name = clusters[x].name
  BY SetOnlineFacts DEF TrySetOnline, HubInv, TypeOK
<1>2. TypeOK'
  BY <1>1 DEF HubInv, TypeOK
<1>3. (IDsCreatedOnce /\ TokensHoldOwn /\ RowsBound)'
  BY <1>1 DEF HubInv, Owned, IDsCreatedOnce, TokensHoldOwn, RowsBound
<1> QED
  BY <1>2, <1>3 DEF HubInv, Owned

LEMMA ServeKeepsInv ==
  ASSUME HubInv, NEW a \in Attempt, Serve(a)
  PROVE  HubInv'
<1>1. conn[a].step \in Holding => conn[a].cluster \in Cluster
  BY DEF HubInv, TypeOK, Handler, Owned, AttemptsHoldOwn
<1>2. CASE SelectToken(a)
  BY <1>2, SelectKeepsInv
<1>3. CASE Rebind(a)
  BY <1>3, RebindKeepsInv
<1>4. CASE Bind(a)
  BY <1>4, BindKeepsInv
<1>5. CASE NameTaken(a) \/ Rollback(a)
  BY <1>5, StepKeepsInv DEF NameTaken, Rollback, Reject, Steps, Entering, Holding, HubInv, TypeOK
<1>11. CASE Upgrade(a)
  BY <1>1, <1>11, HubAssumption, StepKeepsInv
  DEF Upgrade, Reject, At, Steps, Entering, Holding, HubInv, TypeOK
<1>6. CASE Enter(a)
  <2>1. online' \subseteq Cluster
    BY <1>1, <1>6 DEF Enter, At, Holding, HubInv, TypeOK
  <2> QED
    BY <1>1, <1>6, <2>1, HubAssumption, StepKeepsInv DEF Enter, At, Steps, Entering, Holding, HubInv, TypeOK
<1>7. CASE markOnline(a)
  <2>1. /\ conn' \in [Attempt -> Handler] /\ conn'[a].step = "refresh"
        /\ conn'[a].token = conn[a].token /\ conn'[a].cluster = conn[a].cluster
        /\ \A b \in Attempt \ {a} : conn'[b] = conn[b]
    BY <1>7, StepFacts DEF markOnline, Steps, HubInv
  <2>2. conn[a].cluster # None
    BY <1>1, <1>7, HubAssumption DEF markOnline, At, Entering, Holding
  <2>3. AttemptsHoldOwn'
    BY <1>7, <2>1, <2>2 DEF markOnline, HubInv, Owned, AttemptsHoldOwn
  <2> QED
    BY <1>7, <2>1, <2>3, MarkKeepsInv DEF markOnline, HubInv, TypeOK
<1>8. CASE RefreshRead(a)
  <2> DEFINE c == conn[a].cluster
             to == [conn[a] EXCEPT !.step = "store", !.read = clusters[c].online]
  <2>1. UNCHANGED <<tables, online, rows, watcher>> /\ c \in Cluster /\ c # None
    BY <1>1, <1>8, HubAssumption DEF RefreshRead, At, Entering, Holding
  <2>2. CASE Step(a, "watch")
    BY <2>1, <2>2, StepKeepsInv DEF Steps, Entering, Holding, HubInv, TypeOK
  <2>3. CASE c \in DOMAIN clusters /\ Move(a, to)
    <3>1. conn[a] \in Handler /\ clusters[c] \in ClusterRow
      BY <2>3 DEF HubInv, TypeOK
    <3>2. /\ to \in Handler
          /\ to.step = "store" /\ to.token = conn[a].token /\ to.cluster = c
      BY <3>1 DEF Handler, Steps, ClusterRow
    <3> HIDE DEF to
    <3>3. /\ conn' \in [Attempt -> Handler] /\ conn'[a] = to
          /\ \A b \in Attempt \ {a} : conn'[b] = conn[b]
      BY <2>3, <3>2, MoveFacts DEF HubInv
    <3>4. AttemptsHoldOwn'
      BY <2>1, <3>2, <3>3 DEF tables, HubInv, Owned, AttemptsHoldOwn
    <3>5. TypeOK'
      BY <2>1, <3>3 DEF tables, HubInv, TypeOK
    <3>6. (IDsCreatedOnce /\ TokensHoldOwn /\ RowsBound)'
      BY <2>1 DEF tables, HubInv, Owned, IDsCreatedOnce, TokensHoldOwn, RowsBound
    <3> QED
      BY <3>4, <3>5, <3>6 DEF HubInv, Owned
  <2> QED
    BY <1>8, <2>2, <2>3 DEF RefreshRead
<1>9. CASE RefreshWrite(a)
  <2>1. conn[a].cluster \in Cluster /\ conn[a].read \in BOOLEAN
    BY <1>1, <1>9 DEF RefreshWrite, At, Entering, Holding, HubInv, TypeOK, Handler
  <2>2. rows' \in [DOMAIN rows' -> BOOLEAN] /\ DOMAIN rows' \subseteq Cluster
    BY <1>9, <2>1 DEF RefreshWrite, Put, HubInv, TypeOK
  <2> QED
    BY <1>9, <2>1, <2>2, HubAssumption, StepKeepsInv
    DEF RefreshWrite, Steps, Entering, Holding, HubInv, TypeOK
<1>10. CASE Watch(a)
  <2>1. watcher' \in [Attempt -> {"none", "poll", "drop", "mark", "done"}]
    BY <1>10 DEF Watch, HubInv, TypeOK
  <2> QED
    BY <1>1, <1>10, <2>1, HubAssumption, StepKeepsInv
    DEF Watch, At, Steps, Entering, Holding, HubInv, TypeOK
<1> QED
  BY <1>2, <1>3, <1>4, <1>5, <1>6, <1>7, <1>8, <1>9, <1>10, <1>11 DEF Serve, authorize

LEMMA WatchCloseKeepsInv ==
  ASSUME HubInv, NEW a \in Attempt, watchClose(a)
  PROVE  HubInv'
<1>1. /\ conn' = conn /\ UNCHANGED <<tokens, created, rows>> /\ online' \subseteq online
      /\ watcher' \in [Attempt -> {"none", "poll", "drop", "mark", "done"}]
  BY DEF watchClose, Poll, Drop, markOffline, tables, HubInv, TypeOK
<1>2. AttemptsHoldOwn' /\ conn' \in [Attempt -> Handler]
  BY <1>1 DEF HubInv, TypeOK, Owned, AttemptsHoldOwn
<1>3. CASE markOffline(a)
  BY <1>1, <1>2, <1>3, MarkKeepsInv DEF markOffline
<1>4. CASE UNCHANGED clusters
  <2>1. TypeOK'
    BY <1>1, <1>4 DEF HubInv, TypeOK
  <2>2. (IDsCreatedOnce /\ TokensHoldOwn /\ RowsBound)'
    BY <1>1, <1>4 DEF HubInv, Owned, IDsCreatedOnce, TokensHoldOwn, RowsBound
  <2> QED
    BY <1>2, <2>1, <2>2 DEF HubInv, Owned
<1> QED
  BY <1>3, <1>4 DEF watchClose, Poll, Drop, tables

LEMMA RestartKeepsInv ==
  ASSUME HubInv, Restart
  PROVE  HubInv'
<1>1. \A a \in Attempt :
        /\ conn'[a] \in Handler
        /\ conn'[a].step \in {"idle", "closed"}
        /\ conn'[a].token = conn[a].token /\ conn'[a].cluster = conn[a].cluster
        /\ conn'[a].step = "idle" => conn[a].step = "idle"
  <2> TAKE a \in Attempt
  <2>1. conn[a] \in Handler
    BY DEF HubInv, TypeOK
  <2>2. /\ [conn[a] EXCEPT !.step = "closed"] \in Handler
        /\ [conn[a] EXCEPT !.step = "closed"].step = "closed"
        /\ [conn[a] EXCEPT !.step = "closed"].token = conn[a].token
        /\ [conn[a] EXCEPT !.step = "closed"].cluster = conn[a].cluster
    BY <2>1 DEF Handler, Steps
  <2> QED
    BY <2>1, <2>2 DEF Restart, At
<1>2. TypeOK'
  <2>1. conn' \in [Attempt -> Handler]
    BY <1>1 DEF Restart
  <2>2. rows' \in [DOMAIN rows' -> BOOLEAN] /\ DOMAIN rows' \subseteq Cluster
    <3>1. \A c \in DOMAIN clusters : clusters[c].online \in BOOLEAN
      BY DEF HubInv, TypeOK, ClusterRow
    <3> QED
      BY <3>1 DEF Restart, HubInv, TypeOK
  <2> QED
    BY <2>1, <2>2 DEF Restart, tables, HubInv, TypeOK
<1>3. AttemptsHoldOwn'
  BY <1>1 DEF Restart, tables, HubInv, Owned, AttemptsHoldOwn, Entering, Holding
<1>4. (IDsCreatedOnce /\ TokensHoldOwn /\ RowsBound)'
  BY DEF Restart, tables, HubInv, Owned, IDsCreatedOnce, TokensHoldOwn, RowsBound
<1> QED
  BY <1>2, <1>3, <1>4 DEF HubInv, Owned

LEMMA UnchangedKeepsInv ==
  ASSUME HubInv, UNCHANGED <<tables, conn, online, watcher>>,
         rows' \in [DOMAIN rows' -> BOOLEAN], DOMAIN rows' \subseteq Cluster
  PROVE  HubInv'
BY DEF tables, HubInv, TypeOK, Owned, IDsCreatedOnce, AttemptsHoldOwn, TokensHoldOwn, RowsBound

LEMMA NextKeepsInv == HubInv /\ [Next]_vars => HubInv'
<1> SUFFICES ASSUME HubInv, [Next]_vars PROVE HubInv'
  OBVIOUS
<1>1. CASE Admin
  <2>1. ASSUME NEW c \in Cluster, DeleteCache(c) PROVE HubInv'
    BY <2>1, UnchangedKeepsInv DEF DeleteCache, HubInv, TypeOK
  <2> QED
    BY <1>1, <2>1, CreateTokenKeepsInv, DeleteRowKeepsInv DEF Admin
<1>2. CASE Restart
  BY <1>2, RestartKeepsInv
<1>3. ASSUME NEW t \in Token, Expire(t) PROVE HubInv'
  BY <1>3, ExpireKeepsInv
<1>4. ASSUME NEW a \in Attempt, NEW t \in Token, Dial(a, t) PROVE HubInv'
  BY <1>4, DialKeepsInv
<1>5. ASSUME NEW a \in Attempt, Serve(a) \/ watchClose(a) PROVE HubInv'
  BY <1>5, ServeKeepsInv, WatchCloseKeepsInv
<1>6. ASSUME NEW a \in Attempt, Disconnect(a) PROVE HubInv'
  BY <1>6, StepKeepsInv DEF Disconnect, Steps, Entering, Holding, HubInv, TypeOK
<1>7. CASE UNCHANGED vars
  BY <1>7, UnchangedKeepsInv DEF vars, HubInv, TypeOK
<1> QED
  BY <1>1, <1>2, <1>3, <1>4, <1>5, <1>6, <1>7 DEF Next

-----------------------------------------------------------------------------
(* Every reachable state of the Hub is well typed and matched, whatever    *)
(* the number of attempts, tokens and IDs: HubInv is inductive.            *)
THEOREM HubInvariant == Spec => []HubInv
<1>1. Init => HubInv
  BY HubInit
<1> QED
  BY <1>1, NextKeepsInv, PTL DEF Spec

THEOREM HubTypeOK == Spec => []TypeOK
<1>1. HubInv => TypeOK
  BY DEF HubInv
<1> QED
  BY <1>1, HubInvariant, PTL

(* A token and its cluster are one to one in both tables, however first    *)
(* connects, reconnects, deletions and restarts interleave.                *)
THEOREM HubTokenPerCluster == Spec => []TokenPerCluster
<1>1. HubInv => TokenPerCluster
  <2> SUFFICES ASSUME HubInv PROVE TokenPerCluster
    OBVIOUS
  <2>1. ASSUME NEW c \in DOMAIN clusters
        PROVE  \E t \in DOMAIN tokens :
                 \A u \in DOMAIN tokens : tokens[u].cluster = c <=> u = t
    <3>1. c \in Cluster /\ c # None
      BY HubAssumption DEF HubInv, TypeOK
    <3>2. PICK t \in DOMAIN tokens : tokens[t].cluster = c
      BY DEF HubInv, Owned, RowsBound
    <3>3. ASSUME NEW u \in DOMAIN tokens, tokens[u].cluster = c PROVE u = t
      <4>1. <<u, c>> \in created /\ <<t, c>> \in created
        BY <3>1, <3>2, <3>3 DEF HubInv, Owned, TokensHoldOwn
      <4>2. <<u, c>> = <<t, c>>
        BY <4>1 DEF HubInv, Owned, IDsCreatedOnce
      <4> QED
        BY <4>2
    <3> QED
      BY <3>2, <3>3
  <2>2. \A t \in DOMAIN tokens : tokens[t].cluster \in DOMAIN clusters \cup {None}
    BY DEF HubInv, Owned, TokensHoldOwn
  <2> QED
    BY <2>1, <2>2 DEF TokenPerCluster
<1> QED
  BY <1>1, HubInvariant, PTL

(* Two tunnels under one client key always came from one token: no agent   *)
(* can receive the traffic meant for another token's cluster.              *)
THEOREM HubSessionsOfOneToken == Spec => []SessionsOfOneToken
<1>1. HubInv => SessionsOfOneToken
  <2> SUFFICES ASSUME HubInv, NEW a \in Attempt, NEW b \in Attempt,
                      At(a, "live"), At(b, "live"), conn[a].cluster = conn[b].cluster
               PROVE  conn[a].token = conn[b].token
    BY DEF SessionsOfOneToken
  <2> DEFINE c == conn[a].cluster
  <2>1. c # None
    BY DEF HubInv, Owned, AttemptsHoldOwn, Holding, At
  <2>2. <<conn[a].token, c>> \in created /\ <<conn[b].token, c>> \in created
    BY <2>1 DEF HubInv, Owned, AttemptsHoldOwn
  <2>3. <<conn[a].token, c>> = <<conn[b].token, c>>
    BY <2>2 DEF HubInv, Owned, IDsCreatedOnce
  <2> QED
    BY <2>3
<1> QED
  BY <1>1, HubInvariant, PTL

(* An entry keeps its guard through any step that removes no watcher of    *)
(* it and no authorize under way, and adds no entry.                       *)
Guards(a, c) ==
  /\ conn[a].cluster = c
  /\ watcher[a] \in {"poll", "drop"} \/ conn[a].step \in Entering

LEMMA OneKeepsWatched ==
  ASSUME OnlineIsWatched, NEW a \in Attempt,
         \A b \in Attempt \ {a} : conn'[b] = conn[b] /\ watcher'[b] = watcher[b],
         \A c \in online' : Guards(a, c) => Guards(a, c)',
         \A c \in online' \ online : Guards(a, c)'
  PROVE  OnlineIsWatched'
<1> SUFFICES ASSUME NEW c \in online'
             PROVE  \E b \in Attempt : Guards(b, c)'
  BY DEF OnlineIsWatched, Guards
<1>1. CASE c \in online
  <2>1. PICK b \in Attempt : Guards(b, c)
    BY <1>1 DEF OnlineIsWatched, Guards
  <2>2. Guards(b, c)'
    BY <2>1 DEF Guards
  <2> QED
    BY <2>2
<1>2. CASE c \notin online
  BY <1>2
<1> QED
  BY <1>1, <1>2

(* A step of the handler that keeps its cluster and its watcher, and does  *)
(* not leave authorize without one.                                        *)
LEMMA StepKeepsWatched ==
  ASSUME HubInv, OnlineIsWatched, NEW a \in Attempt, NEW s \in Steps, Step(a, s),
         conn[a].step \in Entering => s \in Entering,
         UNCHANGED watcher, online' \subseteq online \cup {conn[a].cluster},
         online' # online => s \in Entering
  PROVE  OnlineIsWatched'
<1>1. /\ conn'[a].step = s /\ conn'[a].cluster = conn[a].cluster
      /\ \A b \in Attempt \ {a} : conn'[b] = conn[b]
  BY StepFacts DEF HubInv
<1>2. \A c \in online' : Guards(a, c) => Guards(a, c)'
  BY <1>1 DEF Guards
<1>3. \A c \in online' \ online : Guards(a, c)'
  BY <1>1 DEF Guards
<1> QED
  BY <1>1, <1>2, <1>3, OneKeepsWatched

(* A step of a handler that had no cluster yet.                            *)
LEMMA MoveKeepsWatched ==
  ASSUME HubInv, OnlineIsWatched, NEW a \in Attempt, NEW to, Move(a, to),
         conn[a].step \in {"idle", "select", "bind"},
         UNCHANGED <<watcher, online>>
  PROVE  OnlineIsWatched'
<1>1. \A b \in Attempt \ {a} : conn'[b] = conn[b]
  BY DEF Move, HubInv, TypeOK
<1>2. \A c \in online' : ~Guards(a, c)
  BY HubAssumption DEF Guards, HubInv, TypeOK, Owned, AttemptsHoldOwn
<1> QED
  BY <1>1, <1>2, OneKeepsWatched

LEMMA ServeKeepsWatched ==
  ASSUME HubInv, OnlineIsWatched, NEW a \in Attempt, Serve(a)
  PROVE  OnlineIsWatched'
<1>1. CASE SelectToken(a) \/ NameTaken(a)
  BY <1>1, MoveKeepsWatched DEF SelectToken, NameTaken, Reject, Step, At
<1>2. CASE Bind(a)
  BY <1>2, MoveKeepsWatched DEF Bind, Resolved, Reject, Step, At
<1>3. CASE Rebind(a)
  <2>1. [conn[a] EXCEPT !.step = "enter", !.cluster = conn[a].cluster]
          = [conn[a] EXCEPT !.step = "enter"]
    <3>1. conn[a] \in Handler
      BY DEF HubInv, TypeOK
    <3> QED
      BY <3>1 DEF Handler
  <2>2. Step(a, "enter")
    BY <1>3, <2>1 DEF Rebind, Resolved, Step
  <2> QED
    BY <1>3, <2>2, StepKeepsWatched DEF Rebind, At, Steps, Entering
<1>4. CASE Rollback(a) \/ Upgrade(a)
  BY <1>4, StepKeepsWatched DEF Rollback, Upgrade, Reject, At, Steps, Entering
<1>5. CASE Enter(a)
  BY <1>5, StepKeepsWatched DEF Enter, At, Steps, Entering
<1>6. CASE markOnline(a) \/ RefreshWrite(a)
  BY <1>6, StepKeepsWatched DEF markOnline, RefreshWrite, At, Steps, Entering
<1>7. CASE RefreshRead(a)
  <2>1. CASE Step(a, "watch")
    BY <1>7, <2>1, StepKeepsWatched DEF RefreshRead, At, Steps, Entering
  <2>2. CASE Move(a, [conn[a] EXCEPT !.step = "store",
                                     !.read = clusters[conn[a].cluster].online])
    <3>1. conn[a] \in Handler
      BY DEF HubInv, TypeOK
    <3>2. /\ conn'[a].step = "store" /\ conn'[a].cluster = conn[a].cluster
          /\ \A b \in Attempt \ {a} : conn'[b] = conn[b]
      BY <2>2, <3>1 DEF Move, HubInv, TypeOK, Handler
    <3> QED
      BY <1>7, <3>2, OneKeepsWatched DEF RefreshRead, Guards, Entering
  <2> QED
    BY <1>7, <2>1, <2>2 DEF RefreshRead
<1>8. CASE Watch(a)
  <2>1. /\ conn'[a].cluster = conn[a].cluster
        /\ \A b \in Attempt \ {a} : conn'[b] = conn[b]
    BY <1>8, StepFacts DEF Watch, Steps, HubInv
  <2>2. /\ watcher'[a] = "poll" /\ online' = online
        /\ \A b \in Attempt \ {a} : watcher'[b] = watcher[b]
    BY <1>8 DEF Watch, HubInv, TypeOK
  <2> QED
    BY <2>1, <2>2, OneKeepsWatched DEF Guards
<1> QED
  BY <1>1, <1>2, <1>3, <1>4, <1>5, <1>6, <1>7, <1>8 DEF Serve, authorize

LEMMA WatchCloseKeepsWatched ==
  ASSUME HubInv, OnlineIsWatched, NEW a \in Attempt, watchClose(a)
  PROVE  OnlineIsWatched'
<1>1. /\ conn' = conn
      /\ \A b \in Attempt \ {a} : watcher'[b] = watcher[b]
  BY DEF watchClose, Poll, Drop, markOffline, HubInv, TypeOK
<1>2. CASE Poll(a)
  BY <1>1, <1>2, OneKeepsWatched DEF Poll, Guards, HubInv, TypeOK
<1>3. CASE Drop(a)
  <2>1. \A c \in online' : c # conn[a].cluster /\ c \in online
    BY <1>3 DEF Drop
  <2> QED
    BY <1>1, <2>1, OneKeepsWatched DEF Guards
<1>4. CASE markOffline(a)
  BY <1>1, <1>4, OneKeepsWatched DEF markOffline, Guards, Entering, HubInv, TypeOK
<1> QED
  BY <1>2, <1>3, <1>4 DEF watchClose

LEMMA NextKeepsWatched ==
  HubInv /\ OnlineIsWatched /\ [Next]_vars => OnlineIsWatched'
<1> SUFFICES ASSUME HubInv, OnlineIsWatched, [Next]_vars PROVE OnlineIsWatched'
  OBVIOUS
<1>1. CASE Admin \/ (\E t \in Token : Expire(t)) \/ UNCHANGED vars
  <2>1. UNCHANGED <<online, conn, watcher>>
    BY <1>1 DEF Admin, CreatePairingToken, DeleteRow, DeleteCache, Expire, vars
  <2> QED
    BY <2>1 DEF OnlineIsWatched
<1>2. CASE Restart
  BY <1>2 DEF Restart, OnlineIsWatched
<1>3. ASSUME NEW a \in Attempt, NEW t \in Token, Dial(a, t) PROVE OnlineIsWatched'
  BY <1>3, MoveKeepsWatched DEF Dial, At
<1>4. ASSUME NEW a \in Attempt, Serve(a) \/ watchClose(a) PROVE OnlineIsWatched'
  BY <1>4, ServeKeepsWatched, WatchCloseKeepsWatched
<1>5. ASSUME NEW a \in Attempt, Disconnect(a) PROVE OnlineIsWatched'
  BY <1>5, StepKeepsWatched DEF Disconnect, At, Steps, Entering
<1> QED
  BY <1>1, <1>2, <1>3, <1>4, <1>5 DEF Next

(* No entry of Hub.online is ever left without a goroutine that will       *)
(* remove it.                                                              *)
THEOREM HubOnlineIsWatched == Spec => []OnlineIsWatched
<1>1. Init => OnlineIsWatched
  BY HubInit
<1> QED
  BY <1>1, NextKeepsWatched, HubInvariant, PTL DEF Spec

-----------------------------------------------------------------------------
(* Attempts whose authorize has not refreshed the Store yet, or just has.  *)
Registering == {"enter"} \cup Entering

LEMMA FlakyStays == [Next]_vars => UNCHANGED flaky
<1> SUFFICES ASSUME [Next]_vars PROVE flaky' = flaky
  OBVIOUS
<1>1. CASE Admin \/ (\E t \in Token : Expire(t)) \/ Restart \/ UNCHANGED vars
  BY <1>1 DEF Admin, CreatePairingToken, DeleteRow, DeleteCache, Expire, Restart, vars, world
<1>2. ASSUME NEW a \in Attempt,
             (\E t \in Token : Dial(a, t)) \/ Serve(a) \/ Disconnect(a) \/ watchClose(a)
      PROVE  flaky' = flaky
  BY <1>2 DEF Dial, Serve, authorize, SelectToken, Rebind, Bind, NameTaken, Rollback, Enter,
              markOnline, RefreshRead, RefreshWrite, Watch, Upgrade, Disconnect, watchClose,
              Poll, Drop, markOffline, world
<1> QED
  BY <1>1, <1>2 DEF Next

(* An authorize is past the refresh only when the Store lists its cluster, *)
(* or the row is gone, and then for good: its ID is never created again.   *)
RefreshedAreListed ==
  \A a \in Attempt : At(a, "watch") =>
    conn[a].cluster \in DOMAIN rows \/ conn[a].cluster \notin DOMAIN clusters

ListedInv == ~flaky => RefreshedAreListed /\ RegisteredIsListed

LEMMA ListedInit == Init => ListedInv
BY DEF Init, ListedInv, RefreshedAreListed, RegisteredIsListed, At

(* One attempt goes on; no row is added, and none leaves the Store.        *)
LEMMA OneKeepsListed ==
  ASSUME ListedInv, UNCHANGED flaky, NEW a \in Attempt, \A b \in Attempt \ {a} : conn'[b] = conn[b],
         DOMAIN clusters' \subseteq DOMAIN clusters, DOMAIN rows \subseteq DOMAIN rows',
         ~flaky /\ conn[a].step \in Registering =>
           \/ conn'[a].step \in Registering /\ conn'[a].cluster = conn[a].cluster
           \/ conn[a].cluster \in DOMAIN rows' \/ conn[a].cluster \notin DOMAIN clusters',
         ~flaky /\ conn'[a].step = "watch" =>
           conn'[a].cluster \in DOMAIN rows' \/ conn'[a].cluster \notin DOMAIN clusters'
  PROVE  ListedInv'
<1> SUFFICES ASSUME ~flaky PROVE RefreshedAreListed' /\ RegisteredIsListed'
  BY DEF ListedInv
<1>1. RefreshedAreListed'
  BY DEF ListedInv, RefreshedAreListed, At
<1>2. ASSUME NEW c \in DOMAIN clusters' \ DOMAIN rows'
      PROVE  \E b \in Attempt : conn'[b].step \in Registering /\ conn'[b].cluster = c
  <2>1. PICK b \in Attempt : conn[b].step \in Registering /\ conn[b].cluster = c
    BY <1>2 DEF ListedInv, RegisteredIsListed, Registering
  <2> QED
    BY <1>2, <2>1
<1> QED
  BY <1>1, <1>2 DEF RegisteredIsListed, Registering

LEMMA StepKeepsListed ==
  ASSUME HubInv, ListedInv, UNCHANGED flaky, NEW a \in Attempt, NEW s \in Steps, Step(a, s),
         DOMAIN clusters' \subseteq DOMAIN clusters, DOMAIN rows \subseteq DOMAIN rows',
         ~flaky /\ conn[a].step \in Registering =>
           \/ s \in Registering
           \/ conn[a].cluster \in DOMAIN rows' \/ conn[a].cluster \notin DOMAIN clusters',
         ~flaky /\ s = "watch" =>
           conn[a].cluster \in DOMAIN rows' \/ conn[a].cluster \notin DOMAIN clusters'
  PROVE  ListedInv'
<1>1. /\ conn'[a].step = s /\ conn'[a].cluster = conn[a].cluster
      /\ \A b \in Attempt \ {a} : conn'[b] = conn[b]
  BY StepFacts DEF HubInv
<1> QED
  BY <1>1, OneKeepsListed

LEMMA BindKeepsListed ==
  ASSUME HubInv, ListedInv, UNCHANGED flaky, NEW a \in Attempt, Bind(a)
  PROVE  ListedInv'
<1> SUFFICES ASSUME ~flaky PROVE RefreshedAreListed' /\ RegisteredIsListed'
  BY DEF ListedInv
<1>1. PICK c \in Cluster : InsertCluster(a, c) /\ Resolved(a, c)
  BY DEF Bind
<1> DEFINE to == [conn[a] EXCEPT !.step = "enter", !.cluster = c]
<1>2. to.step = "enter" /\ to.cluster = c
  <2>1. conn[a] \in Handler
    BY DEF HubInv, TypeOK
  <2> QED
    BY <2>1 DEF Handler
<1>3. Move(a, to)
  BY <1>1 DEF Resolved
<1> HIDE DEF to
<1>4. conn'[a] = to /\ \A b \in Attempt \ {a} : conn'[b] = conn[b]
  BY <1>3 DEF Move, HubInv, TypeOK
<1>5. /\ DOMAIN clusters' = DOMAIN clusters \cup {c} /\ rows' = rows /\ At(a, "bind")
      /\ \A b \in Attempt : conn[b].cluster = c => c = None
  BY <1>1 DEF Bind, InsertCluster, Put, Fresh, HubInv, Owned, AttemptsHoldOwn
<1>6. c # None
  BY HubAssumption
<1>7. RefreshedAreListed'
  BY <1>2, <1>4, <1>5, <1>6 DEF ListedInv, RefreshedAreListed, At
<1>8. ASSUME NEW d \in DOMAIN clusters' \ DOMAIN rows'
      PROVE  \E b \in Attempt : conn'[b].step \in Registering /\ conn'[b].cluster = d
  <2>1. CASE d = c
    BY <1>2, <1>4, <2>1 DEF Registering
  <2>2. CASE d # c
    <3>1. PICK b \in Attempt : conn[b].step \in Registering /\ conn[b].cluster = d
      BY <1>5, <1>8, <2>2 DEF ListedInv, RegisteredIsListed, Registering
    <3>2. b # a
      BY <1>5, <3>1 DEF At, Registering, Entering
    <3> QED
      BY <1>4, <3>1, <3>2
  <2> QED
    BY <2>1, <2>2
<1> QED
  BY <1>7, <1>8 DEF RegisteredIsListed, Registering

LEMMA ServeKeepsListed ==
  ASSUME HubInv, ListedInv, UNCHANGED flaky, NEW a \in Attempt, Serve(a)
  PROVE  ListedInv'
<1>0. DOMAIN rows' = DOMAIN rows \/ RefreshWrite(a)
  BY DEF Serve, authorize, SelectToken, Rebind, Bind, NameTaken, Rollback, Enter, markOnline,
         RefreshRead, Watch, Upgrade
<1>1. CASE SelectToken(a)
  <2>1. UNCHANGED <<clusters, rows>> /\ At(a, "select")
    BY <1>1 DEF SelectToken, tables
  <2>2. \A b \in Attempt \ {a} : conn'[b] = conn[b]
    BY <1>1 DEF SelectToken, Reject, Step, Move, HubInv, TypeOK
  <2>3. conn'[a].step # "watch"
    <3>1. conn[a] \in Handler
      BY DEF HubInv, TypeOK
    <3>2. PICK s \in Steps \ {"watch"} :
            \E c : \/ Move(a, [conn[a] EXCEPT !.step = s])
                   \/ Move(a, [conn[a] EXCEPT !.step = s, !.cluster = c])
      BY <1>1 DEF SelectToken, Reject, Step, Steps
    <3>3. PICK c : \/ Move(a, [conn[a] EXCEPT !.step = s])
                   \/ Move(a, [conn[a] EXCEPT !.step = s, !.cluster = c])
      BY <3>2
    <3>4. [conn[a] EXCEPT !.step = s].step = s /\ [conn[a] EXCEPT !.step = s, !.cluster = c].step = s
      BY <3>1 DEF Handler
    <3>5. PICK to : Move(a, to) /\ to.step = s
      BY <3>3, <3>4
    <3> QED
      BY <3>5 DEF Move, HubInv, TypeOK
  <2> QED
    BY <2>1, <2>2, <2>3, OneKeepsListed DEF At, Registering, Entering
<1>2. CASE NameTaken(a) \/ Upgrade(a) \/ Rollback(a)
  BY <1>2, StepKeepsListed DEF NameTaken, Upgrade, Rollback, Reject, At, Steps, Registering, Entering, tables
<1>3. CASE Bind(a)
  BY <1>3, BindKeepsListed
<1>4. CASE Rebind(a)
  <2>1. [conn[a] EXCEPT !.step = "enter", !.cluster = conn[a].cluster]
          = [conn[a] EXCEPT !.step = "enter"]
    <3>1. conn[a] \in Handler
      BY DEF HubInv, TypeOK
    <3> QED
      BY <3>1 DEF Handler
  <2>2. Step(a, "enter") /\ At(a, "rebind") /\ rows' = rows
    BY <1>4, <2>1 DEF Rebind, Resolved, Step
  <2>3. DOMAIN clusters' = DOMAIN clusters
    BY <1>4, SetOnlineFacts DEF Rebind, HubInv
  <2> QED
    BY <2>2, <2>3, StepKeepsListed DEF At, Steps, Registering, Entering
<1>5. CASE Enter(a)
  BY <1>5, StepKeepsListed DEF Enter, At, Steps, Registering, Entering, tables
<1>6. CASE markOnline(a)
  <2>1. DOMAIN clusters' = DOMAIN clusters
    BY <1>6, SetOnlineFacts DEF markOnline, TrySetOnline, HubInv
  <2> QED
    BY <1>6, <2>1, StepKeepsListed DEF markOnline, At, Steps, Registering, Entering
<1>7. CASE RefreshRead(a)
  <2>1. UNCHANGED <<clusters, rows>>
    BY <1>7 DEF RefreshRead, tables
  <2>2. CASE (conn[a].cluster \notin DOMAIN clusters \/ flaky) /\ Step(a, "watch")
    BY <2>1, <2>2, StepKeepsListed DEF Steps, Registering, Entering
  <2>3. CASE Move(a, [conn[a] EXCEPT !.step = "store", !.read = clusters[conn[a].cluster].online])
    <3>1. conn[a] \in Handler
      BY DEF HubInv, TypeOK
    <3>2. /\ conn'[a].step = "store" /\ conn'[a].cluster = conn[a].cluster
          /\ \A b \in Attempt \ {a} : conn'[b] = conn[b]
      BY <2>3, <3>1 DEF Move, HubInv, TypeOK, Handler
    <3> QED
      BY <2>1, <3>2, OneKeepsListed DEF Registering, Entering
  <2> QED
    BY <1>7, <2>2, <2>3 DEF RefreshRead
<1>8. CASE RefreshWrite(a)
  <2>1. DOMAIN rows' = DOMAIN rows \cup {conn[a].cluster} /\ UNCHANGED clusters /\ Step(a, "watch")
    BY <1>8 DEF RefreshWrite, Put, tables
  <2> QED
    BY <2>1, StepKeepsListed DEF Steps
<1>9. CASE Watch(a)
  <2>1. UNCHANGED <<clusters, rows>> /\ At(a, "watch") /\ Step(a, "upgrade")
    BY <1>9 DEF Watch, tables
  <2>2. ~flaky => conn[a].cluster \in DOMAIN rows \/ conn[a].cluster \notin DOMAIN clusters
    BY <2>1 DEF ListedInv, RefreshedAreListed
  <2> QED
    BY <2>1, <2>2, StepKeepsListed DEF Steps
<1> QED
  BY <1>1, <1>2, <1>3, <1>4, <1>5, <1>6, <1>7, <1>8, <1>9 DEF Serve, authorize

LEMMA NextKeepsListed == HubInv /\ ListedInv /\ [Next]_vars => ListedInv'
<1> SUFFICES ASSUME HubInv, ListedInv, [Next]_vars PROVE ListedInv'
  OBVIOUS
<1>0. UNCHANGED flaky
  BY FlakyStays
<1>1. ASSUME UNCHANGED conn, DOMAIN clusters' \subseteq DOMAIN clusters,
             DOMAIN rows \ DOMAIN rows' \subseteq Cluster \ DOMAIN clusters
      PROVE  ListedInv'
  BY <1>0, <1>1 DEF ListedInv, RefreshedAreListed, RegisteredIsListed, At
<1>2. CASE Admin \/ (\E t \in Token : Expire(t)) \/ UNCHANGED vars
  BY <1>1, <1>2 DEF Admin, CreatePairingToken, DeleteRow, DeleteCache, Expire, vars, tables
<1>3. CASE Restart
  <2>1. UNCHANGED clusters /\ DOMAIN rows' = DOMAIN clusters
    BY <1>3 DEF Restart, tables
  <2>2. ASSUME NEW b \in Attempt PROVE conn'[b].step # "watch"
    <3>1. conn[b] \in Handler
      BY DEF HubInv, TypeOK
    <3> QED
      BY <1>3, <3>1 DEF Restart, At, Handler
  <2> QED
    BY <1>0, <2>1, <2>2 DEF ListedInv, RefreshedAreListed, RegisteredIsListed, At
<1>4. ASSUME NEW a \in Attempt, NEW t \in Token, Dial(a, t) PROVE ListedInv'
  <2> DEFINE to == [conn[a] EXCEPT !.step = "select", !.token = t]
  <2>1. to.step = "select"
    BY DEF HubInv, TypeOK, Handler
  <2>2. Move(a, to) /\ At(a, "idle") /\ UNCHANGED <<clusters, rows>>
    BY <1>4 DEF Dial, tables
  <2> HIDE DEF to
  <2>3. conn'[a] = to /\ \A b \in Attempt \ {a} : conn'[b] = conn[b]
    BY <2>2 DEF Move, HubInv, TypeOK
  <2> QED
    BY <1>0, <2>1, <2>2, <2>3, OneKeepsListed DEF At, Registering, Entering
<1>5. ASSUME NEW a \in Attempt, Serve(a) PROVE ListedInv'
  BY <1>0, <1>5, ServeKeepsListed
<1>6. ASSUME NEW a \in Attempt, watchClose(a) PROVE ListedInv'
  <2>1. UNCHANGED <<conn, rows>> /\ DOMAIN clusters' = DOMAIN clusters
    BY <1>6, SetOnlineFacts DEF watchClose, Poll, Drop, markOffline, TrySetOnline, HubInv, tables
  <2> QED
    BY <1>1, <2>1
<1>7. ASSUME NEW a \in Attempt, Disconnect(a) PROVE ListedInv'
  BY <1>0, <1>7, StepKeepsListed DEF Disconnect, At, Steps, Registering, Entering, tables
<1> QED
  BY <1>2, <1>3, <1>4, <1>5, <1>6, <1>7 DEF Next

(* While the database answers, a cluster that has been paired is listed    *)
(* once its agent's authorize is over, whatever deletions, restarts and    *)
(* other agents do meanwhile.                                              *)
THEOREM HubRegisteredIsListed == Spec => []RegisteredIsListed
<1>1. Init => ListedInv
  BY ListedInit
<1>2. ListedInv => RegisteredIsListed
  BY DEF ListedInv, RegisteredIsListed
<1> QED
  BY <1>1, <1>2, NextKeepsListed, HubInvariant, PTL DEF Spec
=============================================================================
