------------------------- MODULE ControlPlane_proofs -------------------------
(***************************************************************************)
(* The safety of ControlPlane's database and sessions for any number of    *)
(* detectors, migrations, requests, organizations and tokens.              *)
(***************************************************************************)
EXTENDS ControlPlane, TLAPS

(* Who may be at which migration: one that checks or applies a file has    *)
(* found every earlier one recorded.                                       *)
Earlier(f, vs) == \A g \in 1..(f - 1) : g \in vs

Working == {"check", "apply", "record", "commit"}
MigrationSteps == Working \cup {"down", "done", "failed"}

MigrationInv ==
  /\ versions \subseteq Nat \ {0}
  /\ migrating \in [Process -> [step : MigrationSteps, file : Nat]]
  /\ \A p \in Process : migrating[p].step \in Working =>
       migrating[p].file \in Nat \ {0} /\ Earlier(migrating[p].file, versions)
  /\ MigratedInOrder

(* The steps of one detector's migration; every step of the system is one  *)
(* of them or leaves the database's schema alone.                          *)
MigrationStep(p) == BeginMigrate(p) \/ Migrate(p) \/ DatabaseError(p) \/ Die(p)

LEMMA StepsMigrateOrStutter ==
  ASSUME [Next]_vars
  PROVE  (\E p \in Process : MigrationStep(p)) \/ UNCHANGED migrationVars
<1>1. CASE UNCHANGED vars
  BY <1>1 DEF vars
<1>2. CASE \E p \in Process : Start(p) \/ MigrateStep(p) \/ MigrateError(p) \/ Stop(p)
  BY <1>2 DEF MigrationStep, Start, MigrateStep, MigrateError, Stop
<1>3. CASE Serve \/ Person \/ LogoutRequest \/ Clock
  BY <1>3 DEF Serve, Person, LogoutRequest, Clock
<1>4. CASE \E r \in Req : StoreRequest(r) \/ ProxyRequest(r) \/ UserRequest(r) \/ SessionRequest(r) \/ Step(r)
  BY <1>4 DEF StoreRequest, ProxyRequest, UserRequest, SessionRequest, Step
<1> QED
  BY <1>1, <1>2, <1>3, <1>4 DEF Next

LEMMA MigrationInit == Init => MigrationInv
BY DEF Init, MigrationsInit, MigrationInv, MigratedInOrder, Down, Working, MigrationSteps

LEMMA StageFacts ==
  ASSUME MigrationInv, NEW p \in Process, NEW s \in MigrationSteps, NEW f \in Nat, Stage(p, s, f)
  PROVE  /\ migrating' \in [Process -> [step : MigrationSteps, file : Nat]]
         /\ migrating'[p].step = s /\ migrating'[p].file = f
         /\ \A q \in Process \ {p} : migrating'[q] = migrating[q]
BY DEF MigrationInv, Stage

(* A step that moves one detector and records nothing.                     *)
LEMMA StageKeepsInv ==
  ASSUME MigrationInv, NEW p \in Process, NEW s \in MigrationSteps, NEW f \in Nat, Stage(p, s, f),
         UNCHANGED <<applied, versions>>,
         s \in Working => f # 0 /\ Earlier(f, versions)
  PROVE  MigrationInv'
<1>1. /\ migrating' \in [Process -> [step : MigrationSteps, file : Nat]]
      /\ migrating'[p].step = s /\ migrating'[p].file = f
      /\ \A q \in Process \ {p} : migrating'[q] = migrating[q]
  BY StageFacts
<1>2. (MigratedInOrder /\ versions \subseteq Nat \ {0})'
  BY DEF MigrationInv, MigratedInOrder
<1>3. ASSUME NEW q \in Process, migrating'[q].step \in Working
      PROVE  migrating'[q].file \in Nat \ {0} /\ Earlier(migrating'[q].file, versions')
  BY <1>1, <1>3 DEF MigrationInv, Earlier
<1> QED
  BY <1>1, <1>2, <1>3 DEF MigrationInv

LEMMA CheckKeepsInv ==
  ASSUME MigrationInv, NEW p \in Process, CheckMigration(p)
  PROVE  MigrationInv'
<1> DEFINE f == migrating[p].file
<1>1. f \in Nat \ {0} /\ Earlier(f, versions) /\ UNCHANGED <<applied, versions>>
  BY DEF CheckMigration, Now, MigrationInv, Working
<1>2. CASE f > Files
  BY <1>1, <1>2, StageKeepsInv DEF CheckMigration, Working, MigrationSteps
<1>3. CASE f <= Files /\ f \in versions
  <2>1. Stage(p, "check", f + 1)
    BY <1>1, <1>3, MigrationsAssumption DEF CheckMigration
  <2>2. Earlier(f + 1, versions)
    BY <1>1, <1>3 DEF Earlier
  <2> QED
    BY <1>1, <2>1, <2>2, StageKeepsInv DEF Working, MigrationSteps
<1>4. CASE f <= Files /\ f \notin versions
  <2>1. Stage(p, "apply", f)
    BY <1>1, <1>4, MigrationsAssumption DEF CheckMigration
  <2> QED
    BY <1>1, <2>1, StageKeepsInv DEF Working, MigrationSteps
<1> QED
  BY <1>1, <1>2, <1>3, <1>4, MigrationsAssumption

LEMMA AbortKeepsInv ==
  ASSUME MigrationInv, NEW p \in Process, Abort(p), UNCHANGED <<applied, versions>>
  PROVE  MigrationInv'
BY StageKeepsInv DEF Abort, Working, MigrationSteps

LEMMA ApplyKeepsInv ==
  ASSUME MigrationInv, NEW p \in Process, ApplyMigration(p)
  PROVE  MigrationInv'
<1> DEFINE f == migrating[p].file
<1>1. f \in Nat \ {0} /\ Earlier(f, versions) /\ UNCHANGED <<applied, versions>>
  BY DEF ApplyMigration, Now, MigrationInv, Working
<1>2. Abort(p) \/ Stage(p, "record", f)
  BY DEF ApplyMigration
<1> QED
  BY <1>1, <1>2, AbortKeepsInv, StageKeepsInv DEF Working, MigrationSteps

LEMMA RecordKeepsInv ==
  ASSUME MigrationInv, NEW p \in Process, RecordMigration(p)
  PROVE  MigrationInv'
<1> DEFINE f == migrating[p].file
<1>1. f \in Nat \ {0} /\ Earlier(f, versions) /\ UNCHANGED <<applied, versions>>
  BY DEF RecordMigration, Now, MigrationInv, Working
<1>2. Abort(p) \/ Stage(p, "commit", f)
  BY DEF RecordMigration
<1> QED
  BY <1>1, <1>2, AbortKeepsInv, StageKeepsInv DEF Working, MigrationSteps

(* The commit: statements and record together.                             *)
LEMMA CommitKeepsInv ==
  ASSUME MigrationInv, NEW p \in Process, Commit(p)
  PROVE  MigrationInv'
<1> DEFINE f == migrating[p].file
<1>1. /\ f \in Nat \ {0} /\ Earlier(f, versions)
      /\ applied' = applied \cup {f} /\ versions' = versions \cup {f}
  BY DEF Commit, Now, MigrationInv, Working
<1>2. (MigratedInOrder /\ versions \subseteq Nat \ {0})'
  <2>1. applied' = versions' /\ versions' \subseteq Nat \ {0}
    BY <1>1 DEF MigrationInv, MigratedInOrder
  <2>2. ASSUME NEW h \in versions', NEW g \in 1..h  PROVE g \in versions'
    <3>1. CASE h = f
      BY <1>1, <2>2, <3>1 DEF Earlier
    <3>2. CASE h \in versions
      BY <1>1, <2>2, <3>2 DEF MigrationInv, MigratedInOrder
    <3> QED
      BY <1>1, <3>1, <3>2
  <2> QED
    BY <2>1, <2>2 DEF MigratedInOrder
<1>3. Earlier(f + 1, versions')
  BY <1>1 DEF Earlier
<1>4. \E s \in MigrationSteps, k \in Nat :
        Stage(p, s, k) /\ (s \in Working => k # 0 /\ Earlier(k, versions'))
  <2>1. CASE Stage(p, "check", f + 1)
    <3>1. "check" \in MigrationSteps /\ f + 1 \in Nat \ {0}
      BY <1>1 DEF Working, MigrationSteps
    <3> QED
      BY <1>3, <2>1, <3>1
  <2>2. CASE Stage(p, "failed", 0)
    <3>1. "failed" \in MigrationSteps /\ "failed" \notin Working
      BY DEF Working, MigrationSteps
    <3> QED
      BY <2>2, <3>1
  <2> QED
    BY <2>1, <2>2 DEF Commit
<1>5. PICK s \in MigrationSteps, k \in Nat :
        Stage(p, s, k) /\ (s \in Working => k # 0 /\ Earlier(k, versions'))
  BY <1>4
<1>6. /\ migrating' \in [Process -> [step : MigrationSteps, file : Nat]]
      /\ migrating'[p].step = s /\ migrating'[p].file = k
      /\ \A q \in Process \ {p} : migrating'[q] = migrating[q]
  BY <1>5, StageFacts
<1>7. ASSUME NEW q \in Process, migrating'[q].step \in Working
      PROVE  migrating'[q].file \in Nat \ {0} /\ Earlier(migrating'[q].file, versions')
  <2>1. CASE q = p
    BY <1>5, <1>6, <1>7, <2>1
  <2>2. CASE q # p
    BY <1>1, <1>6, <1>7, <2>2 DEF MigrationInv, Earlier
  <2> QED
    BY <2>1, <2>2
<1> QED
  BY <1>2, <1>6, <1>7 DEF MigrationInv

LEMMA MigrationKeepsInv == MigrationInv /\ [Next]_vars => MigrationInv'
<1> SUFFICES ASSUME MigrationInv, [Next]_vars PROVE MigrationInv'
  OBVIOUS
<1>1. CASE UNCHANGED migrationVars
  BY <1>1 DEF migrationVars, MigrationInv, MigratedInOrder, Earlier
<1>2. ASSUME NEW p \in Process, MigrationStep(p) PROVE MigrationInv'
  <2>1. CASE BeginMigrate(p)
    BY <2>1, StageKeepsInv DEF BeginMigrate, Earlier, Working, MigrationSteps
  <2>2. CASE CheckMigration(p)
    BY <2>2, CheckKeepsInv
  <2>3. CASE ApplyMigration(p)
    BY <2>3, ApplyKeepsInv
  <2>4. CASE RecordMigration(p)
    BY <2>4, RecordKeepsInv
  <2>5. CASE Commit(p)
    BY <2>5, CommitKeepsInv
  <2>6. CASE DatabaseError(p)
    BY <2>6, AbortKeepsInv DEF DatabaseError
  <2>7. CASE Die(p)
    <3>1. Stage(p, "down", 0) /\ UNCHANGED <<applied, versions>>
      BY <2>7 DEF Die, Stage, Down
    <3> QED
      BY <3>1, StageKeepsInv DEF Working, MigrationSteps
  <2> QED
    BY <1>2, <2>1, <2>2, <2>3, <2>4, <2>5, <2>6, <2>7 DEF MigrationStep, Migrate
<1> QED
  BY <1>1, <1>2, StepsMigrateOrStutter

(* However many detectors migrate one database at once, stop half way or   *)
(* lose it: what is applied is recorded, in the order of the files and     *)
(* without gaps.                                                           *)
THEOREM MigrationsInOrder == Spec => []MigratedInOrder
<1>1. MigrationInv => MigratedInOrder
  BY DEF MigrationInv
<1> QED
  BY <1>1, MigrationInit, MigrationKeepsInv, PTL DEF Spec

-----------------------------------------------------------------------------
(* Requests.  The fields a request of each operation has, as far as a step *)
(* that changes another one must keep them.                                *)
Shape(x) ==
  /\ {"op", "step"} \subseteq DOMAIN x
  /\ x.op = "signup" => {"slug", "email"} \subseteq DOMAIN x
  /\ x.op = "register" => {"cluster", "row"} \subseteq DOMAIN x
  /\ x.op \in {"delete", "refresh"} => "cluster" \in DOMAIN x
  /\ x.op = "proxy" => {"cluster", "mode"} \subseteq DOMAIN x
  /\ x.op \in {"onboard", "remove"} => {"client", "namespace", "name", "scope"} \subseteq DOMAIN x
  /\ x.op = "onboard" => "crossed" \in DOMAIN x /\ x.crossed \in BOOLEAN

ReqShape == DOMAIN req = Req /\ \A r \in Req : Shape(req[r])

(* A step may end or ignore the requests of some operations, and changes   *)
(* or begins none.                                                         *)
Kept(S) == \A q \in Req : req'[q].op \in S => req'[q] = req[q]

LEMMA NoOpFacts == Shape(NoOp) /\ NoOp.op = "none"
BY DEF Shape, NoOp

LEMMA ReplyFacts ==
  ASSUME ReqShape, NEW r \in Req, Reply(r)
  PROVE  ReqShape' /\ Kept({"signup", "register", "delete", "refresh", "proxy", "onboard"})
BY NoOpFacts DEF ReqShape, Reply, Kept

LEMMA ToFacts ==
  ASSUME ReqShape, NEW r \in Req, NEW s, To(r, s)
  PROVE  /\ ReqShape'
         /\ req'[r] = [req[r] EXCEPT !.step = s]
         /\ req'[r].op = req[r].op /\ req'[r].step = s
         /\ \A q \in Req \ {r} : req'[q] = req[q]
<1> DEFINE x == [req[r] EXCEPT !.step = s]
<1>1. Shape(req[r])
  BY DEF ReqShape
<1>2. Shape(x) /\ x.op = req[r].op /\ x.step = s
  BY <1>1 DEF Shape
<1>3. req' = [req EXCEPT ![r] = x]
  BY DEF To
<1> HIDE DEF x
<1>4. req'[r] = x /\ DOMAIN req' = Req /\ \A q \in Req \ {r} : req'[q] = req[q]
  BY <1>3 DEF ReqShape
<1>5. ReqShape'
  BY <1>2, <1>4 DEF ReqShape
<1> QED
  BY <1>2, <1>4, <1>5 DEF x

LEMMA BeginFacts ==
  ASSUME ReqShape, NEW r \in Req, NEW x, Shape(x), Begin(r, x)
  PROVE  /\ ReqShape' /\ req'[r] = x
         /\ \A q \in Req \ {r} : req'[q] = req[q]
BY DEF ReqShape, Begin

(* One request is given another record of its operation's shape.           *)
LEMMA SetFacts ==
  ASSUME ReqShape, NEW r \in Req, NEW x, Shape(x), req' = [req EXCEPT ![r] = x]
  PROVE  /\ ReqShape' /\ req'[r] = x
         /\ \A q \in Req \ {r} : req'[q] = req[q]
BY DEF ReqShape

(* Crossing touches onboardings only.                                      *)
LEMMA CrossFacts ==
  ASSUME NEW rs, DOMAIN rs = Req, \A q \in Req : Shape(rs[q]), NEW a
  PROVE  /\ DOMAIN Cross(rs, a) = Req
         /\ \A q \in Req : Shape(Cross(rs, a)[q])
         /\ \A q \in Req : Cross(rs, a)[q].op # "onboard" => Cross(rs, a)[q] = rs[q]
<1>1. ASSUME NEW x, Shape(x), x.op = "onboard"
      PROVE  Shape([x EXCEPT !.crossed = TRUE]) /\ [x EXCEPT !.crossed = TRUE].op = "onboard"
  BY <1>1 DEF Shape
<1>2. ASSUME NEW q \in Req
      PROVE  Cross(rs, a)[q] = IF rs[q].op = "onboard" /\ Account(rs[q]) = a
                               THEN [rs[q] EXCEPT !.crossed = TRUE] ELSE rs[q]
  BY <1>2 DEF Cross
<1>3. ASSUME NEW q \in Req
      PROVE  Shape(Cross(rs, a)[q]) /\ (Cross(rs, a)[q].op # "onboard" => Cross(rs, a)[q] = rs[q])
  <2>1. CASE rs[q].op = "onboard" /\ Account(rs[q]) = a
    <3>1. Cross(rs, a)[q] = [rs[q] EXCEPT !.crossed = TRUE]
      BY <1>2, <2>1
    <3> QED
      BY <1>1, <2>1, <3>1
  <2>2. CASE ~(rs[q].op = "onboard" /\ Account(rs[q]) = a)
    BY <1>2, <2>2
  <2> QED
    BY <2>1, <2>2
<1>4. DOMAIN Cross(rs, a) = Req
  BY DEF Cross
<1> QED
  BY <1>3, <1>4

LEMMA StoreReqs ==
  ASSUME ReqShape, NEW r \in Req, StoreStep(r) \/ StoreRequest(r)
  PROVE  ReqShape' /\ Kept({"signup", "proxy", "onboard"})
<1>1. CASE InsertFails(r) \/ CacheRow(r) \/ DeleteCache(r) \/ RefreshWrite(r)
  BY <1>1, ReplyFacts DEF InsertFails, CacheRow, DeleteCache, RefreshWrite, Kept
<1>2. ASSUME NEW c \in Cluster, Insert(r, c)
      PROVE  ReqShape' /\ Kept({"signup", "proxy", "onboard"})
  <2> DEFINE x == [req[r] EXCEPT !.step = "cache", !.cluster = c]
  <2>1. CASE Reply(r)
    BY <2>1, ReplyFacts DEF Kept
  <2>2. CASE req' = [req EXCEPT ![r] = x]
    <3>1. Shape(x) /\ x.op = "register"
      BY <1>2 DEF Insert, In, ReqShape, Shape
    <3> HIDE DEF x
    <3> QED
      BY <2>2, <3>1, SetFacts DEF Kept
  <2> QED
    BY <1>2, <2>1, <2>2 DEF Insert
<1>3. CASE DeleteRow(r)
  BY <1>3, ReplyFacts, ToFacts DEF DeleteRow, In, Kept
<1>4. CASE RefreshRead(r)
  <2> DEFINE x == [op |-> "refresh", step |-> "write", cluster |-> req[r].cluster, row |-> table[req[r].cluster]]
  <2>1. Shape(x) /\ x.op = "refresh"
    BY DEF Shape
  <2>2. Reply(r) \/ req' = [req EXCEPT ![r] = x]
    BY <1>4 DEF RefreshRead
  <2> HIDE DEF x
  <2> QED
    BY <2>1, <2>2, ReplyFacts, SetFacts DEF Kept
<1>5. ASSUME NEW org, NEW n, BeginRegister(r, org, n)
      PROVE  ReqShape' /\ Kept({"signup", "proxy", "onboard"})
  <2> DEFINE x == [op |-> "register", step |-> "insert", cluster |-> None,
                   row |-> [org |-> org, name |-> n, mode |-> "kubeconfig"]]
  <2>1. Shape(x) /\ x.op = "register"
    BY DEF Shape
  <2>2. Begin(r, x)
    BY <1>5 DEF BeginRegister
  <2> HIDE DEF x
  <2> QED
    BY <2>1, <2>2, BeginFacts DEF Kept
<1>6. ASSUME NEW org, NEW c, BeginDelete(r, org, c)
      PROVE  ReqShape' /\ Kept({"signup", "proxy", "onboard"})
  <2> DEFINE x == [op |-> "delete", step |-> IF mode = "db" THEN "row" ELSE "cache", cluster |-> c]
  <2>1. Shape(x) /\ x.op = "delete"
    BY DEF Shape
  <2>2. Begin(r, x)
    BY <1>6 DEF BeginDelete
  <2> HIDE DEF x
  <2> QED
    BY <2>1, <2>2, BeginFacts DEF Kept
<1>7. ASSUME NEW c, NEW org, NEW n, AgentConnects(r, c, org, n)
      PROVE  ReqShape' /\ Kept({"signup", "proxy", "onboard"})
  <2>1. PICK x : Begin(r, x) /\ (x = [op |-> "refresh", step |-> "read", cluster |-> c] \/ x = NoOp)
    BY <1>7 DEF AgentConnects
  <2>2. Shape(x) /\ x.op \in {"refresh", "none"}
    BY <2>1 DEF Shape, NoOp
  <2> QED
    BY <2>1, <2>2, BeginFacts DEF Kept
<1>8. CASE StoreStep(r)
  BY <1>1, <1>2, <1>3, <1>4, <1>8 DEF StoreStep
<1>9. CASE StoreRequest(r)
  BY <1>5, <1>6, <1>7, <1>9 DEF StoreRequest
<1> QED
  BY <1>8, <1>9

LEMMA ProxyReqs ==
  ASSUME ReqShape, NEW r \in Req, ProxyStep(r) \/ ProxyRequest(r)
  PROVE  ReqShape' /\ Kept({"signup", "register", "delete", "refresh", "onboard"})
<1>1. CASE ReadMode(r)
  <2> DEFINE x == [req[r] EXCEPT !.step = "build", !.mode = Mode(req[r].cluster)]
  <2>1. Shape(x) /\ x.op = "proxy"
    BY <1>1 DEF ReadMode, In, ReqShape, Shape
  <2>2. req' = [req EXCEPT ![r] = x]
    BY <1>1 DEF ReadMode
  <2> HIDE DEF x
  <2> QED
    BY <2>1, <2>2, SetFacts DEF Kept
<1>2. CASE Build(r)
  BY <1>2, ToFacts DEF Build, In, Kept
<1>3. CASE Gate(r)
  BY <1>3, ToFacts DEF Gate, In, Kept
<1>4. CASE Audit(r)
  BY <1>4, ReplyFacts DEF Audit, Kept
<1>5. ASSUME NEW c, ServeHTTP(r, c)
      PROVE  ReqShape' /\ Kept({"signup", "register", "delete", "refresh", "onboard"})
  <2> DEFINE x == [op |-> "proxy", cluster |-> c, mode |-> "unknown",
                   step |-> IF c = None THEN "audit" ELSE IF c \in DOMAIN proxies THEN "gate" ELSE "mode"]
  <2>1. Shape(x) /\ x.op = "proxy"
    BY DEF Shape
  <2>2. Begin(r, x)
    BY <1>5 DEF ServeHTTP
  <2> HIDE DEF x
  <2> QED
    BY <2>1, <2>2, BeginFacts DEF Kept
<1> QED
  BY <1>1, <1>2, <1>3, <1>4, <1>5 DEF ProxyStep, ProxyRequest

LEMMA PersonReqs ==
  ASSUME ReqShape, Person
  PROVE  /\ ReqShape' /\ Kept({"signup", "register", "delete", "refresh", "proxy"})
         /\ UNCHANGED storeVars
<1>1. (\E k : EditRole(k)) \/ (\E k : EditBinding(k))
  BY DEF Person
<1>2. UNCHANGED storeVars /\ \E a : req' = Cross(req, a)
  BY <1>1 DEF EditRole, EditBinding
<1>3. PICK a : req' = Cross(req, a)
  BY <1>2
<1> QED
  BY <1>2, <1>3, CrossFacts DEF ReqShape, Kept

LEMMA UserReqs ==
  ASSUME ReqShape, NEW r \in Req, UserStep(r) \/ UserRequest(r) \/ Person
  PROVE  ReqShape' /\ Kept({"signup", "register", "delete", "refresh", "proxy"})
<1>1. CASE CreateAccount(r) \/ CreateRole(r) \/ CreateBinding(r)
  BY <1>1, ToFacts, ReplyFacts DEF CreateAccount, CreateRole, CreateBinding, In, Kept
<1>2. CASE OnboardFails(r) \/ Record(r) \/ Forget(r)
  BY <1>2, ReplyFacts DEF OnboardFails, Record, Forget, Kept
<1>3. CASE RemoveObject(r)
  <2> DEFINE next == CASE req[r].step = "binding" -> "role" [] req[r].step = "role" -> "account" [] OTHER -> "record"
             x == [req[r] EXCEPT !.step = next]
             rs == [req EXCEPT ![r] = x]
  <2>1. req[r].op = "remove" /\ (To(r, next) \/ req' = Cross(rs, Account(req[r])))
    BY <1>3 DEF RemoveObject
  <2> HIDE DEF next
  <2>2. CASE To(r, next)
    BY <2>1, <2>2, ToFacts DEF Kept
  <2>3. CASE req' = Cross(rs, Account(req[r]))
    <3>1. Shape(x) /\ x.op = "remove"
      BY <2>1 DEF ReqShape, Shape
    <3> HIDE DEF x
    <3>2. /\ DOMAIN rs = Req /\ \A q \in Req : Shape(rs[q])
          /\ rs[r].op = "remove" /\ \A q \in Req \ {r} : rs[q] = req[q]
      BY <3>1 DEF ReqShape
    <3> HIDE DEF rs
    <3>3. ReqShape' /\ \A q \in Req : req'[q].op # "onboard" => req'[q] = rs[q]
      BY <2>3, <3>2, CrossFacts DEF ReqShape
    <3> QED
      BY <3>2, <3>3 DEF Kept
  <2> QED
    BY <2>1, <2>2, <2>3
<1>4. ASSUME NEW c, NEW u, NEW ns, NEW s, OnboardInCluster(r, c, u, ns, s)
      PROVE  ReqShape' /\ Kept({"signup", "register", "delete", "refresh", "proxy"})
  <2>1. PICK client : Begin(r, [op |-> "onboard", step |-> "account", cluster |-> c, client |-> client,
                                name |-> u, namespace |-> ns, scope |-> s, crossed |-> FALSE])
    BY <1>4 DEF OnboardInCluster
  <2> DEFINE x == [op |-> "onboard", step |-> "account", cluster |-> c, client |-> client,
                   name |-> u, namespace |-> ns, scope |-> s, crossed |-> FALSE]
  <2>2. Shape(x) /\ x.op = "onboard"
    BY DEF Shape
  <2> HIDE DEF x
  <2> QED
    BY <2>1, <2>2, BeginFacts DEF Kept, x
<1>5. ASSUME NEW k, BeginRemove(r, k)
      PROVE  ReqShape' /\ Kept({"signup", "register", "delete", "refresh", "proxy"})
  <2>1. PICK online \in BOOLEAN :
          Begin(r, [op |-> "remove", step |-> "binding", key |-> k, name |-> k.name,
                    client |-> LookupOrOwn(k.cluster, online),
                    namespace |-> users[k].namespace, scope |-> users[k].scope])
    BY <1>5 DEF BeginRemove
  <2> DEFINE x == [op |-> "remove", step |-> "binding", key |-> k, name |-> k.name,
                   client |-> LookupOrOwn(k.cluster, online),
                   namespace |-> users[k].namespace, scope |-> users[k].scope]
  <2>2. Shape(x) /\ x.op = "remove"
    BY DEF Shape
  <2> QED
    BY <2>1, <2>2, BeginFacts DEF Kept
<1>6. CASE Person
  BY <1>6, PersonReqs
<1> QED
  BY <1>1, <1>2, <1>3, <1>4, <1>5, <1>6 DEF UserStep, UserRequest

LEMMA SessionReqs ==
  ASSUME ReqShape, NEW r \in Req, SessionStep(r) \/ SessionRequest(r)
  PROVE  ReqShape' /\ Kept({"register", "delete", "refresh", "proxy", "onboard"})
<1>1. CASE InsertOrg(r) \/ InsertUser(r)
  BY <1>1, ReplyFacts, ToFacts DEF InsertOrg, InsertUser, In, Kept
<1>2. CASE CommitSignup(r) \/ SignupFails(r) \/ MintLogin(r) \/ Extend(r) \/ Purge(r)
  BY <1>2, ReplyFacts DEF CommitSignup, SignupFails, MintLogin, Extend, Purge, Kept
<1>3. ASSUME NEW o, NEW e, BeginSignup(r, o, e)
      PROVE  ReqShape' /\ Kept({"register", "delete", "refresh", "proxy", "onboard"})
  <2> DEFINE x == [op |-> "signup", step |-> "org", slug |-> o, email |-> e]
  <2>1. Shape(x) /\ x.op = "signup"
    BY DEF Shape
  <2>2. Begin(r, x)
    BY <1>3 DEF BeginSignup
  <2> HIDE DEF x
  <2> QED
    BY <2>1, <2>2, BeginFacts DEF Kept
<1>4. ASSUME NEW e, BeginLogin(r, e)
      PROVE  ReqShape' /\ Kept({"register", "delete", "refresh", "proxy", "onboard"})
  <2> DEFINE x == [op |-> "login", step |-> "mint", email |-> e]
  <2>1. Shape(x) /\ x.op = "login"
    BY DEF Shape
  <2>2. Begin(r, x)
    BY <1>4 DEF BeginLogin
  <2> HIDE DEF x
  <2> QED
    BY <2>1, <2>2, BeginFacts DEF Kept
<1>5. ASSUME NEW t, BeginResolve(r, t)
      PROVE  ReqShape' /\ Kept({"register", "delete", "refresh", "proxy", "onboard"})
  <2> DEFINE x == [op |-> "resolve", token |-> t, email |-> sessions[t].email,
                   step |-> IF clock > sessions[t].expires THEN "purge" ELSE "extend"]
  <2>1. Shape(x) /\ x.op = "resolve"
    BY DEF Shape
  <2>2. Begin(r, x)
    BY <1>5 DEF BeginResolve
  <2> HIDE DEF x
  <2> QED
    BY <2>1, <2>2, BeginFacts DEF Kept
<1> QED
  BY <1>1, <1>2, <1>3, <1>4, <1>5 DEF SessionStep, SessionRequest

-----------------------------------------------------------------------------
(* Signups about to commit: their e-mails are new, and no two the same.    *)
Committing == {r \in Req : In(r, "signup", "commit")}

CommitsAreNew ==
  /\ \A r \in Committing : req[r].email \notin DOMAIN admins
  /\ \A r, q \in Committing : r # q => req[r].email # req[q].email

SessionInv == ReqShape /\ CommitsAreNew /\ OrgHasAdmin /\ EndedStaysEnded

LEMMA SessionInit == Init => SessionInv
<1> SUFFICES ASSUME Init PROVE SessionInv
  OBVIOUS
<1>1. ReqShape /\ Committing = {}
  BY NoOpFacts DEF Init, RequestsInit, ReqShape, Committing, In, NoOp
<1>2. OrgHasAdmin /\ EndedStaysEnded
  BY DEF Init, SessionsInit, OrgHasAdmin, EndedStaysEnded, Nothing
<1> QED
  BY <1>1, <1>2 DEF SessionInv, CommitsAreNew

(* Signups may end, and nothing else happens to them or to the tables.     *)
LEMMA FewerSignupsKeepInv ==
  ASSUME SessionInv, ReqShape', Kept({"signup"}), UNCHANGED <<orgs, admins>>, EndedStaysEnded'
  PROVE  SessionInv'
<1>1. \A r \in Committing' : r \in Committing /\ req'[r] = req[r]
  BY DEF Committing, In, Kept
<1> QED
  BY <1>1 DEF SessionInv, CommitsAreNew, OrgHasAdmin

LEMMA MintKeepsEnded ==
  ASSUME EndedStaysEnded, UNCHANGED ended, NEW t, NEW e, Mint(t, e)
  PROVE  EndedStaysEnded'
BY DEF EndedStaysEnded, Mint, Put

LEMMA EndKeepsEnded ==
  ASSUME EndedStaysEnded, NEW t, End(t)
  PROVE  EndedStaysEnded'
BY DEF EndedStaysEnded, End, Without

LEMMA SignupsKeepInv ==
  ASSUME SessionInv, NEW r \in Req,
         InsertOrg(r) \/ InsertUser(r) \/ CommitSignup(r) \/ SignupFails(r)
  PROVE  SessionInv'
<1>0. ReqShape'
  BY SessionReqs DEF SessionInv, SessionStep
<1>1. CASE Reply(r) /\ UNCHANGED sessionVars
  BY <1>0, <1>1, ReplyFacts, FewerSignupsKeepInv DEF SessionInv, sessionVars, Kept, EndedStaysEnded
<1>2. CASE In(r, "signup", "org") /\ To(r, "user") /\ UNCHANGED sessionVars
  <2>1. /\ req'[r].step = "user"
        /\ \A q \in Req \ {r} : req'[q] = req[q]
    BY <1>2, ToFacts DEF SessionInv
  <2>2. \A q \in Committing' : q \in Committing /\ req'[q] = req[q]
    BY <2>1 DEF Committing, In
  <2> QED
    BY <1>0, <1>2, <2>2 DEF SessionInv, CommitsAreNew, OrgHasAdmin, EndedStaysEnded, sessionVars
<1>3. CASE InsertUser(r) /\ To(r, "commit") /\ req[r].email \notin DOMAIN admins
  <2>1. /\ req'[r] = [req[r] EXCEPT !.step = "commit"]
        /\ \A q \in Req \ {r} : req'[q] = req[q]
    BY <1>3, ToFacts DEF SessionInv
  <2>2. req'[r].email = req[r].email
    BY <1>3, <2>1 DEF SessionInv, ReqShape, Shape, InsertUser, In
  <2>3. \A q \in Committing' : q = r \/ (q \in Committing /\ req'[q] = req[q])
    BY <2>1 DEF Committing, In
  <2>4. \A q \in Committing \ {r} : req[q].email # req[r].email
    BY <1>3 DEF InsertUser, Committing
  <2>5. CommitsAreNew'
    BY <1>3, <2>2, <2>3, <2>4 DEF SessionInv, CommitsAreNew, InsertUser, sessionVars
  <2> QED
    BY <1>0, <1>3, <2>5 DEF SessionInv, OrgHasAdmin, EndedStaysEnded, InsertUser, sessionVars
<1>4. CASE CommitSignup(r)
  <2> DEFINE e == req[r].email
             o == req[r].slug
  <2>1. r \in Committing /\ e \notin DOMAIN admins
    BY <1>4 DEF CommitSignup, Committing, SessionInv, CommitsAreNew
  <2>2. /\ orgs' = orgs \cup {o}
        /\ DOMAIN admins' = DOMAIN admins \cup {e} /\ admins'[e] = o
        /\ \A x \in DOMAIN admins : admins'[x] = admins[x]
    BY <1>4, <2>1 DEF CommitSignup, Put
  <2>3. OrgHasAdmin'
    BY <2>2 DEF SessionInv, OrgHasAdmin
  <2>4. \A q \in Committing' : q \in Committing /\ req'[q] = req[q]
    BY <1>4, ReplyFacts DEF SessionInv, CommitSignup, Kept, Committing, In
  <2>5. r \notin Committing'
    BY <1>4, NoOpFacts DEF CommitSignup, Reply, Committing, In, SessionInv, ReqShape
  <2>6. CommitsAreNew'
    BY <2>1, <2>2, <2>4, <2>5 DEF SessionInv, CommitsAreNew
  <2>7. EndedStaysEnded'
    BY <1>4, MintKeepsEnded DEF CommitSignup, SessionInv
  <2> QED
    BY <1>0, <2>3, <2>6, <2>7 DEF SessionInv
<1> QED
  BY <1>1, <1>2, <1>3, <1>4 DEF InsertOrg, InsertUser, SignupFails

LEMMA OtherSessionStepsKeepInv ==
  ASSUME SessionInv, NEW r \in Req, MintLogin(r) \/ Extend(r) \/ Purge(r)
  PROVE  SessionInv'
<1>1. ReqShape' /\ Kept({"signup"}) /\ UNCHANGED <<orgs, admins>>
  BY ReplyFacts DEF SessionInv, MintLogin, Extend, Purge, Kept
<1>2. EndedStaysEnded'
  <2>1. CASE UNCHANGED <<sessions, ended>>
    BY <2>1 DEF SessionInv, EndedStaysEnded
  <2>2. CASE MintLogin(r)
    BY <2>1, <2>2, MintKeepsEnded DEF MintLogin, SessionInv
  <2>3. CASE Extend(r)
    BY <2>3 DEF Extend, SessionInv, EndedStaysEnded
  <2>4. CASE Purge(r)
    BY <2>1, <2>4, EndKeepsEnded DEF Purge, SessionInv
  <2> QED
    BY <2>2, <2>3, <2>4
<1> QED
  BY <1>1, <1>2, FewerSignupsKeepInv

(* A request that begins is at its first step, so not about to commit.     *)
LEMMA SessionRequestKeepsInv ==
  ASSUME SessionInv, NEW r \in Req, SessionRequest(r)
  PROVE  SessionInv'
<1>1. ReqShape'
  BY SessionReqs DEF SessionInv
<1>2. UNCHANGED sessionVars
  BY DEF SessionRequest, BeginSignup, BeginLogin, BeginResolve
<1>3. PICK x : Begin(r, x) /\ ~(x.op = "signup" /\ x.step = "commit")
  <2>1. ASSUME NEW o, NEW e, BeginSignup(r, o, e)
        PROVE  \E x : Begin(r, x) /\ ~(x.op = "signup" /\ x.step = "commit")
    <3>1. [op |-> "signup", step |-> "org", slug |-> o, email |-> e].step = "org"
      OBVIOUS
    <3> QED
      BY <2>1, <3>1 DEF BeginSignup
  <2>2. ASSUME NEW e, BeginLogin(r, e)
        PROVE  \E x : Begin(r, x) /\ ~(x.op = "signup" /\ x.step = "commit")
    <3>1. [op |-> "login", step |-> "mint", email |-> e].op = "login"
      OBVIOUS
    <3> QED
      BY <2>2, <3>1 DEF BeginLogin
  <2>3. ASSUME NEW t, BeginResolve(r, t)
        PROVE  \E x : Begin(r, x) /\ ~(x.op = "signup" /\ x.step = "commit")
    <3> DEFINE x == [op |-> "resolve", token |-> t, email |-> sessions[t].email,
                     step |-> IF clock > sessions[t].expires THEN "purge" ELSE "extend"]
    <3>1. x.op = "resolve" /\ Begin(r, x)
      BY <2>3 DEF BeginResolve
    <3> QED
      BY <3>1
  <2> QED
    BY <2>1, <2>2, <2>3 DEF SessionRequest
<1>4. req'[r] = x /\ \A q \in Req \ {r} : req'[q] = req[q]
  BY <1>3 DEF Begin, SessionInv, ReqShape
<1>5. \A q \in Committing' : q \in Committing /\ req'[q] = req[q]
  BY <1>3, <1>4 DEF Committing, In
<1> QED
  BY <1>1, <1>2, <1>5 DEF SessionInv, CommitsAreNew, OrgHasAdmin, EndedStaysEnded, sessionVars

LEMMA SessionKeepsInv == SessionInv /\ [Next]_vars => SessionInv'
<1> SUFFICES ASSUME SessionInv, [Next]_vars PROVE SessionInv'
  OBVIOUS
<1>0. ASSUME UNCHANGED sessionVars, ReqShape', Kept({"signup"}) PROVE SessionInv'
  BY <1>0, FewerSignupsKeepInv DEF SessionInv, EndedStaysEnded, sessionVars
<1>1. CASE UNCHANGED <<req, sessionVars>>
  BY <1>0, <1>1 DEF SessionInv, ReqShape, Kept
<1>2. ASSUME NEW p \in Process, Start(p) \/ MigrateStep(p) \/ MigrateError(p) \/ Stop(p)
      PROVE  SessionInv'
  <2>1. CASE Start(p) \/ MigrateStep(p) \/ MigrateError(p)
    BY <1>1, <2>1 DEF Start, MigrateStep, MigrateError
  <2>2. CASE Stop(p)
    <3>1. UNCHANGED sessionVars /\ (UNCHANGED req \/ req' = [q \in Req |-> NoOp])
      BY <2>2 DEF Stop
    <3>2. CASE req' = [q \in Req |-> NoOp]
      BY <1>0, <3>1, <3>2, NoOpFacts DEF ReqShape, Kept
    <3> QED
      BY <1>1, <3>1, <3>2
  <2> QED
    BY <1>2, <2>1, <2>2
<1>3. CASE Serve
  BY <1>1, <1>3 DEF Serve
<1>4. CASE LogoutRequest
  <2>1. PICK t \in Token : End(t) /\ UNCHANGED <<req, orgs, admins>>
    BY <1>4 DEF LogoutRequest, Logout
  <2> QED
    BY <2>1, EndKeepsEnded, FewerSignupsKeepInv DEF SessionInv, ReqShape, Kept
<1>5. CASE Clock
  BY <1>5, FewerSignupsKeepInv DEF Clock, Tick, SessionInv, ReqShape, Kept, EndedStaysEnded
<1>6. ASSUME NEW r \in Req, StoreRequest(r) \/ ProxyRequest(r) \/ UserRequest(r) \/ SessionRequest(r) \/ Step(r)
      PROVE  SessionInv'
  <2>1. CASE (StoreStep(r) \/ StoreRequest(r)) /\ UNCHANGED sessionVars
    BY <1>0, <2>1, StoreReqs DEF SessionInv, Kept
  <2>2. CASE (ProxyStep(r) \/ ProxyRequest(r)) /\ UNCHANGED sessionVars
    BY <1>0, <2>2, ProxyReqs DEF SessionInv, Kept
  <2>3. CASE (UserStep(r) \/ UserRequest(r)) /\ UNCHANGED sessionVars
    BY <1>0, <2>3, UserReqs DEF SessionInv, Kept
  <2>4. CASE SessionStep(r)
    BY <2>4, SignupsKeepInv, OtherSessionStepsKeepInv DEF SessionStep
  <2>5. CASE SessionRequest(r)
    BY <2>5, SessionRequestKeepsInv
  <2> QED
    BY <1>6, <2>1, <2>2, <2>3, <2>4, <2>5 DEF Step, StoreRequest, ProxyRequest, UserRequest
<1>7. CASE Person
  BY <1>0, <1>7, PersonReqs DEF SessionInv, Kept, Person
<1>8. CASE UNCHANGED vars
  BY <1>1, <1>8 DEF vars
<1> QED
  BY <1>2, <1>3, <1>4, <1>5, <1>6, <1>7, <1>8 DEF Next

(* A session that was logged out or found expired stays over, whatever     *)
(* requests were extending or deleting it meanwhile.                       *)
THEOREM SessionsStayEnded == Spec => []EndedStaysEnded
<1>1. SessionInv => EndedStaysEnded
  BY DEF SessionInv
<1> QED
  BY <1>1, SessionInit, SessionKeepsInv, PTL DEF Spec

(* Whatever signups run together and wherever one fails, every             *)
(* organization has an admin, and every admin an organization.             *)
THEOREM EveryOrgHasAdmin == Spec => []OrgHasAdmin
<1>1. SessionInv => OrgHasAdmin
  BY DEF SessionInv
<1> QED
  BY <1>1, SessionInit, SessionKeepsInv, PTL DEF Spec

-----------------------------------------------------------------------------
(* Whatever is said of a cluster, in the table, in memory, in a cache or   *)
(* by a request under way, is what it was created with.                    *)
Is(c, row, bs) == c \in DOMAIN bs /\ bs[c] = row

RequestBorn(x, bs) ==
  /\ x.op = "register" => x.row.mode = "kubeconfig" /\ (x.step = "cache" => Is(x.cluster, x.row, bs))
  /\ x.op = "refresh" /\ x.step = "write" => Is(x.cluster, x.row, bs)
  /\ x.op = "proxy" /\ x.mode = "tunnel" => x.cluster \in DOMAIN bs /\ bs[x.cluster].mode = "tunnel"

TableBorn == \A c \in DOMAIN table : Is(c, table[c], born)

MemoryBorn ==
  /\ \A c \in DOMAIN rows : Is(c, rows[c], born)
  /\ \A c \in configs : c \in DOMAIN born /\ born[c].mode = "kubeconfig"

RequestsBorn == \A r \in Req : RequestBorn(req[r], born)

ProxiesBorn == \A c \in DOMAIN proxies : c \in DOMAIN born /\ proxies[c] = born[c].mode

RoutingInv == ReqShape /\ TableBorn /\ MemoryBorn /\ RequestsBorn /\ ProxiesBorn

BornGrows == \A c \in DOMAIN born : c \in DOMAIN born' /\ born'[c] = born[c]

LEMMA RoutingInit == Init => RoutingInv
<1> SUFFICES ASSUME Init PROVE RoutingInv
  OBVIOUS
<1>1. ReqShape /\ \A r \in Req : req[r].op = "none"
  BY NoOpFacts DEF Init, RequestsInit, ReqShape
<1>2. TableBorn /\ MemoryBorn /\ ProxiesBorn
  BY DEF Init, StoreInit, ProxyInit, TableBorn, MemoryBorn, ProxiesBorn, Nothing
<1> QED
  BY <1>1, <1>2 DEF RoutingInv, RequestsBorn, RequestBorn

LEMMA GrowthKeepsRequest ==
  ASSUME NEW x, RequestBorn(x, born), BornGrows
  PROVE  RequestBorn(x, born')
BY DEF RequestBorn, Is, BornGrows

(* Requests may end, and nothing is said that was not.                     *)
LEMMA FewerRequestsKeepInv ==
  ASSUME RoutingInv, ReqShape', Kept({"register", "refresh", "proxy"}), BornGrows,
         TableBorn', MemoryBorn', ProxiesBorn'
  PROVE  RoutingInv'
<1>1. ASSUME NEW q \in Req PROVE RequestBorn(req'[q], born')
  <2>1. CASE req'[q].op \in {"register", "refresh", "proxy"}
    BY <2>1, GrowthKeepsRequest DEF RoutingInv, RequestsBorn, Kept
  <2>2. CASE req'[q].op \notin {"register", "refresh", "proxy"}
    BY <2>2 DEF RequestBorn
  <2> QED
    BY <2>1, <2>2
<1> QED
  BY <1>1 DEF RoutingInv, RequestsBorn

(* One request changes, and what it says is right.                         *)
LEMMA OneRequestKeepsInv ==
  ASSUME RoutingInv, ReqShape', NEW r \in Req, RequestBorn(req'[r], born'),
         \A q \in Req \ {r} : req'[q] = req[q],
         BornGrows, TableBorn', MemoryBorn', ProxiesBorn'
  PROVE  RoutingInv'
<1>1. ASSUME NEW q \in Req PROVE RequestBorn(req'[q], born')
  BY <1>1, GrowthKeepsRequest DEF RoutingInv, RequestsBorn
<1> QED
  BY <1>1 DEF RoutingInv, RequestsBorn

LEMMA UnchangedTables ==
  ASSUME RoutingInv
  PROVE  /\ UNCHANGED born => BornGrows
         /\ UNCHANGED <<table, born>> => TableBorn'
         /\ UNCHANGED <<rows, configs, born>> => MemoryBorn'
         /\ UNCHANGED <<proxies, born>> => ProxiesBorn'
BY DEF RoutingInv, BornGrows, TableBorn, MemoryBorn, ProxiesBorn

(* A cluster that is new: what is said of the others stays true.           *)
LEMMA BirthFacts ==
  ASSUME RoutingInv, NEW c, NEW row, Fresh(c), born' = Put(born, c, row),
         UNCHANGED <<rows, configs, proxies>>,
         UNCHANGED table \/ table' = Put(table, c, row)
  PROVE  BornGrows /\ Is(c, row, born') /\ TableBorn' /\ MemoryBorn' /\ ProxiesBorn'
<1>1. BornGrows /\ Is(c, row, born')
  BY DEF Fresh, Put, BornGrows, Is
<1>2. TableBorn'
  <2>1. CASE UNCHANGED table
    BY <1>1, <2>1 DEF RoutingInv, TableBorn, BornGrows, Is
  <2>2. CASE table' = Put(table, c, row)
    BY <1>1, <2>2 DEF RoutingInv, TableBorn, BornGrows, Is, Put
  <2> QED
    BY <2>1, <2>2
<1>3. MemoryBorn' /\ ProxiesBorn'
  BY <1>1 DEF RoutingInv, MemoryBorn, ProxiesBorn, BornGrows, Is
<1> QED
  BY <1>1, <1>2, <1>3

LEMMA RegisterKeepsRouting ==
  ASSUME RoutingInv, NEW r \in Req, UNCHANGED proxyVars,
         \/ \E org, n : BeginRegister(r, org, n)
         \/ \E c \in Cluster : Insert(r, c)
         \/ InsertFails(r) \/ CacheRow(r)
  PROVE  RoutingInv'
<1>1. ASSUME NEW org, NEW n, BeginRegister(r, org, n) PROVE RoutingInv'
  <2> DEFINE x == [op |-> "register", step |-> "insert", cluster |-> None,
                   row |-> [org |-> org, name |-> n, mode |-> "kubeconfig"]]
  <2>1. Shape(x) /\ RequestBorn(x, born)
    BY DEF Shape, RequestBorn
  <2>2. Begin(r, x) /\ UNCHANGED storeVars
    BY <1>1 DEF BeginRegister
  <2> HIDE DEF x
  <2>3. ReqShape' /\ req'[r] = x /\ \A q \in Req \ {r} : req'[q] = req[q]
    BY <2>1, <2>2, BeginFacts DEF RoutingInv
  <2> QED
    BY <2>1, <2>2, <2>3, OneRequestKeepsInv, UnchangedTables DEF storeVars, proxyVars
<1>2. ASSUME NEW c \in Cluster, Insert(r, c) PROVE RoutingInv'
  <2> DEFINE x == [req[r] EXCEPT !.step = "cache", !.cluster = c]
  <2>1. BornGrows /\ Is(c, req[r].row, born') /\ TableBorn' /\ MemoryBorn' /\ ProxiesBorn'
    BY <1>2, BirthFacts DEF Insert, proxyVars
  <2>2. CASE Reply(r)
    BY <2>1, <2>2, ReplyFacts, FewerRequestsKeepInv DEF RoutingInv, Kept
  <2>3. CASE req' = [req EXCEPT ![r] = x]
    <3>1. /\ Shape(x) /\ x.op = "register" /\ x.step = "cache"
          /\ x.cluster = c /\ x.row = req[r].row
      BY <1>2 DEF Insert, In, RoutingInv, ReqShape, Shape
    <3> HIDE DEF x
    <3>2. ReqShape' /\ req'[r] = x /\ \A q \in Req \ {r} : req'[q] = req[q]
      BY <2>3, <3>1, SetFacts DEF RoutingInv
    <3>3. req[r].row.mode = "kubeconfig"
      BY <1>2 DEF Insert, In, RoutingInv, RequestsBorn, RequestBorn
    <3>4. RequestBorn(x, born')
      BY <2>1, <3>1, <3>3 DEF RequestBorn
    <3> QED
      BY <2>1, <3>2, <3>4, OneRequestKeepsInv
  <2> QED
    BY <1>2, <2>2, <2>3 DEF Insert
<1>3. CASE InsertFails(r)
  BY <1>3, ReplyFacts, FewerRequestsKeepInv, UnchangedTables DEF InsertFails, RoutingInv, Kept, storeVars, proxyVars
<1>4. CASE CacheRow(r)
  <2>1. Is(req[r].cluster, req[r].row, born) /\ req[r].row.mode = "kubeconfig"
    BY <1>4 DEF CacheRow, In, RoutingInv, RequestsBorn, RequestBorn
  <2>2. MemoryBorn'
    BY <1>4, <2>1 DEF CacheRow, RoutingInv, MemoryBorn, Is, Put
  <2>3. BornGrows /\ TableBorn' /\ ProxiesBorn'
    BY <1>4, UnchangedTables DEF CacheRow, proxyVars
  <2> QED
    BY <1>4, <2>2, <2>3, ReplyFacts, FewerRequestsKeepInv DEF CacheRow, RoutingInv, Kept
<1> QED
  BY <1>1, <1>2, <1>3, <1>4

LEMMA DeleteKeepsRouting ==
  ASSUME RoutingInv, NEW r \in Req, UNCHANGED proxyVars,
         \/ \E org, c : BeginDelete(r, org, c)
         \/ DeleteRow(r) \/ DeleteCache(r)
  PROVE  RoutingInv'
<1>1. ASSUME NEW org, NEW c, BeginDelete(r, org, c) PROVE RoutingInv'
  <2> DEFINE x == [op |-> "delete", step |-> IF mode = "db" THEN "row" ELSE "cache", cluster |-> c]
  <2>1. Shape(x) /\ RequestBorn(x, born)
    BY DEF Shape, RequestBorn
  <2>2. Begin(r, x) /\ UNCHANGED storeVars
    BY <1>1 DEF BeginDelete
  <2> HIDE DEF x
  <2>3. ReqShape' /\ req'[r] = x /\ \A q \in Req \ {r} : req'[q] = req[q]
    BY <2>1, <2>2, BeginFacts DEF RoutingInv
  <2> QED
    BY <2>1, <2>2, <2>3, OneRequestKeepsInv, UnchangedTables DEF storeVars, proxyVars
<1>2. CASE DeleteRow(r)
  <2>1. TableBorn'
    BY <1>2 DEF DeleteRow, RoutingInv, TableBorn, Is, Without
  <2>2. BornGrows /\ MemoryBorn' /\ ProxiesBorn'
    BY <1>2, UnchangedTables DEF DeleteRow, proxyVars
  <2>3. ReqShape' /\ Kept({"register", "refresh", "proxy"})
    BY <1>2, ReplyFacts, ToFacts DEF DeleteRow, In, RoutingInv, Kept
  <2> QED
    BY <2>1, <2>2, <2>3, FewerRequestsKeepInv
<1>3. CASE DeleteCache(r)
  <2>1. MemoryBorn'
    BY <1>3 DEF DeleteCache, RoutingInv, MemoryBorn, Is, Without
  <2>2. BornGrows /\ TableBorn' /\ ProxiesBorn'
    BY <1>3, UnchangedTables DEF DeleteCache, proxyVars
  <2> QED
    BY <1>3, <2>1, <2>2, ReplyFacts, FewerRequestsKeepInv DEF DeleteCache, RoutingInv, Kept
<1> QED
  BY <1>1, <1>2, <1>3

LEMMA RefreshKeepsRouting ==
  ASSUME RoutingInv, NEW r \in Req, UNCHANGED proxyVars,
         \/ \E c, org, n : AgentConnects(r, c, org, n)
         \/ RefreshRead(r) \/ RefreshWrite(r)
  PROVE  RoutingInv'
<1>1. ASSUME NEW c, NEW org, NEW n, AgentConnects(r, c, org, n) PROVE RoutingInv'
  <2> DEFINE row == [org |-> org, name |-> n, mode |-> "tunnel"]
  <2>2. PICK x : /\ Begin(r, x) /\ UNCHANGED <<rows, configs>>
                 /\ (x = [op |-> "refresh", step |-> "read", cluster |-> c] \/ x = NoOp)
    BY <1>1 DEF AgentConnects
  <2>1. Shape(x) /\ RequestBorn(x, born')
    BY <2>2 DEF Shape, RequestBorn, NoOp
  <2>3. BornGrows /\ TableBorn' /\ MemoryBorn' /\ ProxiesBorn'
    <3>1. CASE UNCHANGED <<table, born>>
      BY <2>2, <3>1, UnchangedTables DEF proxyVars
    <3>2. CASE Fresh(c) /\ table' = Put(table, c, row) /\ born' = Put(born, c, row)
      BY <2>2, <3>2, BirthFacts DEF proxyVars
    <3> QED
      BY <1>1, <3>1, <3>2 DEF AgentConnects
  <2>4. ReqShape' /\ req'[r] = x /\ \A q \in Req \ {r} : req'[q] = req[q]
    BY <2>1, <2>2, BeginFacts DEF RoutingInv
  <2> QED
    BY <2>1, <2>3, <2>4, OneRequestKeepsInv
<1>2. CASE RefreshRead(r)
  <2> DEFINE c == req[r].cluster
             x == [op |-> "refresh", step |-> "write", cluster |-> c, row |-> table[c]]
  <2>1. BornGrows /\ TableBorn' /\ MemoryBorn' /\ ProxiesBorn' /\ UNCHANGED born
    BY <1>2, UnchangedTables DEF RefreshRead, proxyVars
  <2>2. CASE Reply(r)
    BY <2>1, <2>2, ReplyFacts, FewerRequestsKeepInv DEF RoutingInv, Kept
  <2>3. CASE c \in DOMAIN table /\ req' = [req EXCEPT ![r] = x]
    <3>1. Shape(x) /\ RequestBorn(x, born')
      BY <2>1, <2>3 DEF Shape, RequestBorn, RoutingInv, TableBorn, Is
    <3> HIDE DEF x
    <3>2. ReqShape' /\ req'[r] = x /\ \A q \in Req \ {r} : req'[q] = req[q]
      BY <2>3, <3>1, SetFacts DEF RoutingInv
    <3> QED
      BY <2>1, <3>1, <3>2, OneRequestKeepsInv
  <2> QED
    BY <1>2, <2>2, <2>3 DEF RefreshRead
<1>3. CASE RefreshWrite(r)
  <2>1. Is(req[r].cluster, req[r].row, born)
    BY <1>3 DEF RefreshWrite, In, RoutingInv, RequestsBorn, RequestBorn
  <2>2. MemoryBorn'
    BY <1>3, <2>1 DEF RefreshWrite, RoutingInv, MemoryBorn, Is, Put
  <2>3. BornGrows /\ TableBorn' /\ ProxiesBorn'
    BY <1>3, UnchangedTables DEF RefreshWrite, proxyVars
  <2> QED
    BY <1>3, <2>2, <2>3, ReplyFacts, FewerRequestsKeepInv DEF RefreshWrite, RoutingInv, Kept
<1> QED
  BY <1>1, <1>2, <1>3

LEMMA ProxyKeepsRouting ==
  ASSUME RoutingInv, NEW r \in Req,
         (\E c : ServeHTTP(r, c)) \/ ProxyStep(r)
  PROVE  RoutingInv'
<1>0. UNCHANGED storeVars
  BY DEF ServeHTTP, ProxyStep, ReadMode, Build, Gate, Audit
<1>1. BornGrows /\ TableBorn' /\ MemoryBorn'
  BY <1>0, UnchangedTables DEF storeVars
<1>2. ASSUME NEW c, ServeHTTP(r, c) PROVE RoutingInv'
  <2> DEFINE x == [op |-> "proxy", cluster |-> c, mode |-> "unknown",
                   step |-> IF c = None THEN "audit" ELSE IF c \in DOMAIN proxies THEN "gate" ELSE "mode"]
  <2>1. Shape(x) /\ RequestBorn(x, born')
    BY DEF Shape, RequestBorn
  <2>2. Begin(r, x) /\ UNCHANGED proxies
    BY <1>2 DEF ServeHTTP, proxyVars
  <2> HIDE DEF x
  <2>3. ReqShape' /\ req'[r] = x /\ \A q \in Req \ {r} : req'[q] = req[q]
    BY <2>1, <2>2, BeginFacts DEF RoutingInv
  <2> QED
    BY <1>0, <1>1, <2>1, <2>2, <2>3, OneRequestKeepsInv, UnchangedTables DEF storeVars
<1>3. CASE ReadMode(r)
  <2> DEFINE c == req[r].cluster
             x == [req[r] EXCEPT !.step = "build", !.mode = Mode(c)]
  <2>1. Shape(x) /\ x.op = "proxy" /\ x.cluster = c /\ x.mode = Mode(c)
    BY <1>3 DEF ReadMode, In, RoutingInv, ReqShape, Shape
  <2>2. req' = [req EXCEPT ![r] = x] /\ UNCHANGED proxies
    BY <1>3 DEF ReadMode, proxyVars
  <2>3. Mode(c) = "tunnel" => c \in DOMAIN born /\ born[c].mode = "tunnel"
    BY DEF Mode, RoutingInv, MemoryBorn, Is
  <2> HIDE DEF x
  <2>4. RequestBorn(x, born')
    BY <1>0, <2>1, <2>3 DEF RequestBorn, storeVars
  <2>5. ReqShape' /\ req'[r] = x /\ \A q \in Req \ {r} : req'[q] = req[q]
    BY <2>1, <2>2, SetFacts DEF RoutingInv
  <2> QED
    BY <1>0, <1>1, <2>2, <2>4, <2>5, OneRequestKeepsInv, UnchangedTables DEF storeVars
<1>4. ASSUME NEW s, To(r, s), req[r].op = "proxy", ProxiesBorn' PROVE RoutingInv'
  <2>1. /\ ReqShape' /\ req'[r] = [req[r] EXCEPT !.step = s]
        /\ \A q \in Req \ {r} : req'[q] = req[q]
    BY <1>4, ToFacts DEF RoutingInv
  <2>2. req'[r].op = "proxy" /\ req'[r].cluster = req[r].cluster /\ req'[r].mode = req[r].mode
    BY <1>4, <2>1 DEF RoutingInv, ReqShape, Shape
  <2>3. RequestBorn(req'[r], born')
    BY <1>0, <1>4, <2>2 DEF RoutingInv, RequestsBorn, RequestBorn, storeVars
  <2> QED
    BY <1>1, <1>4, <2>1, <2>3, OneRequestKeepsInv
<1>5. CASE Build(r)
  <2> DEFINE c == req[r].cluster
             m == ProxyMode(req[r].mode)
  <2>1. req[r].op = "proxy"
    BY <1>5 DEF Build, In
  <2>2. m = "tunnel" \/ c \in configs => c \in DOMAIN born /\ (m = "tunnel" \/ m = "kubeconfig")
                                         /\ born[c].mode = m
    <3>1. CASE req[r].mode = "tunnel"
      BY <2>1, <3>1 DEF ProxyMode, RoutingInv, RequestsBorn, RequestBorn
    <3>2. CASE req[r].mode # "tunnel"
      BY <3>2 DEF ProxyMode, RoutingInv, MemoryBorn
    <3> QED
      BY <3>1, <3>2
  <2>3. ProxiesBorn'
    BY <1>0, <1>5, <2>2 DEF Build, RoutingInv, ProxiesBorn, Put, storeVars
  <2> QED
    BY <1>4, <1>5, <2>1, <2>3 DEF Build
<1>6. CASE Gate(r)
  BY <1>0, <1>4, <1>6, UnchangedTables DEF Gate, In, proxyVars, storeVars
<1>7. CASE Audit(r)
  BY <1>0, <1>1, <1>7, ReplyFacts, FewerRequestsKeepInv, UnchangedTables DEF Audit, RoutingInv, Kept, storeVars
<1> QED
  BY <1>2, <1>3, <1>5, <1>6, <1>7 DEF ProxyStep

LEMMA RoutingKeepsInv == RoutingInv /\ [Next]_vars => RoutingInv'
<1> SUFFICES ASSUME RoutingInv, [Next]_vars PROVE RoutingInv'
  OBVIOUS
<1>0. ASSUME UNCHANGED <<storeVars, proxyVars>>, ReqShape', Kept({"register", "refresh", "proxy"})
      PROVE  RoutingInv'
  BY <1>0, FewerRequestsKeepInv, UnchangedTables DEF storeVars, proxyVars
<1>1. CASE UNCHANGED <<req, storeVars, proxyVars>>
  BY <1>0, <1>1 DEF RoutingInv, ReqShape, Kept
<1>2. ASSUME NEW p \in Process, Start(p) \/ MigrateStep(p) \/ MigrateError(p) \/ Stop(p)
      PROVE  RoutingInv'
  <2>1. CASE UNCHANGED <<req, ownVars>>
    BY <1>1, <2>1 DEF ownVars
  <2>2. CASE req' = [q \in Req |-> NoOp] /\ StoreStops /\ ProxyStops
    <3>1. ReqShape' /\ Kept({"register", "refresh", "proxy"})
      BY <2>2, NoOpFacts DEF ReqShape, Kept
    <3>2. BornGrows /\ TableBorn'
      BY <2>2, UnchangedTables DEF StoreStops
    <3>3. MemoryBorn' /\ ProxiesBorn'
      BY <2>2 DEF StoreStops, ProxyStops, MemoryBorn, ProxiesBorn, Nothing
    <3> QED
      BY <3>1, <3>2, <3>3, FewerRequestsKeepInv
  <2> QED
    BY <1>2, <2>1, <2>2 DEF Start, MigrateStep, MigrateError, Stop
<1>3. CASE Serve
  <2>1. BornGrows /\ TableBorn' /\ ProxiesBorn' /\ UNCHANGED <<req, born>>
    BY <1>3, UnchangedTables DEF Serve, LoadAll, ServeFromMemory, proxyVars
  <2>2. MemoryBorn'
    BY <1>3 DEF Serve, LoadAll, ServeFromMemory, RoutingInv, MemoryBorn, TableBorn, Is
  <2> QED
    BY <2>1, <2>2, FewerRequestsKeepInv DEF RoutingInv, ReqShape, Kept
<1>4. CASE Clock \/ LogoutRequest
  BY <1>1, <1>4 DEF Clock, Tick, LogoutRequest, Logout, ownVars
<1>5. CASE Person
  BY <1>0, <1>5, PersonReqs DEF RoutingInv, Person, EditRole, EditBinding, Kept
<1>6. ASSUME NEW r \in Req, StoreRequest(r) \/ ProxyRequest(r) \/ UserRequest(r) \/ SessionRequest(r) \/ Step(r)
      PROVE  RoutingInv'
  <2>1. CASE StoreRequest(r)
    BY <2>1, RegisterKeepsRouting, DeleteKeepsRouting, RefreshKeepsRouting DEF StoreRequest
  <2>2. CASE StoreStep(r) /\ UNCHANGED proxyVars
    BY <2>2, RegisterKeepsRouting, DeleteKeepsRouting, RefreshKeepsRouting DEF StoreStep
  <2>3. CASE ProxyRequest(r) \/ ProxyStep(r)
    BY <2>3, ProxyKeepsRouting DEF ProxyRequest
  <2>4. CASE UserRequest(r) \/ (UserStep(r) /\ UNCHANGED proxyVars)
    <3>1. UNCHANGED <<storeVars, proxyVars>>
      BY <2>4 DEF UserRequest, UserStep, OnboardInCluster, BeginRemove, CreateAccount, CreateRole, CreateBinding,
                  OnboardFails, Record, RemoveObject, Forget
    <3> QED
      BY <1>0, <2>4, <3>1, UserReqs DEF RoutingInv, Kept
  <2>5. CASE SessionRequest(r) \/ (SessionStep(r) /\ UNCHANGED ownVars)
    <3>1. UNCHANGED <<storeVars, proxyVars>>
      BY <2>5 DEF SessionRequest, ownVars
    <3> QED
      BY <1>0, <2>5, <3>1, SessionReqs DEF RoutingInv, Kept
  <2> QED
    BY <1>6, <2>1, <2>2, <2>3, <2>4, <2>5 DEF Step
<1>7. CASE UNCHANGED vars
  BY <1>1, <1>7 DEF vars, ownVars
<1> QED
  BY <1>2, <1>3, <1>4, <1>5, <1>6, <1>7 DEF Next

(* Whatever registrations, deletions, refreshes and restarts run beside    *)
(* them, requests never put a proxy of one kind in the cache for a cluster *)
(* of the other.                                                           *)
THEOREM ProxiesAreOfTheirClusters == Spec => []ProxyIsOfItsCluster
<1>1. RoutingInv => ProxyIsOfItsCluster
  BY DEF RoutingInv, ProxiesBorn, ProxyIsOfItsCluster
<1> QED
  BY <1>1, RoutingInit, RoutingKeepsInv, PTL DEF Spec

-----------------------------------------------------------------------------
(* The Store and the table.  A request that accounts for a difference: a   *)
(* row it inserted and has not cached, one it deleted and has not dropped, *)
(* or one it is refreshing.                                                *)
StoreOps == {"register", "delete", "refresh"}

Excuses(x, c) ==
  /\ x.op \in StoreOps /\ x.cluster = c
  /\ x.op = "refresh" \/ x.step = "cache"

DifferencesExcused ==
  mode = "db" =>
    \A c \in (DOMAIN rows \ DOMAIN table) \cup (DOMAIN table \ DOMAIN rows) :
      c \in unsure \/ \E r \in Req : Excuses(req[r], c)

(* A cluster being registered is in the table, not in memory yet, and out  *)
(* of the other requests' reach; one whose row was deleted never returns.  *)
RegistersAlone ==
  \A r \in Req : mode = "db" /\ In(r, "register", "cache") =>
    /\ req[r].cluster \in DOMAIN table \ DOMAIN rows
    /\ \A q \in Req \ {r} :
         \/ req[q].op \notin StoreOps \/ In(q, "register", "insert")
         \/ req[q].cluster # req[r].cluster

DeletedIsGone ==
  \A r \in Req : mode = "db" /\ In(r, "delete", "cache") => req[r].cluster \notin DOMAIN table

StoreRequestsBorn ==
  \A r \in Req : req[r].op \in StoreOps =>
    In(r, "register", "insert") \/ req[r].cluster \in DOMAIN born

StartsEmpty ==
  mode = "starting" => DOMAIN rows = {} /\ configs = {} /\ \A r \in Req : req[r].op \notin StoreOps

CacheInv ==
  /\ RoutingInv /\ StoreRequestsBorn /\ StartsEmpty
  /\ RegistersAlone /\ DeletedIsGone /\ DifferencesExcused
  /\ configs \subseteq DOMAIN rows

(* What is left of the requests on the Store by a step of another part.    *)
Spared == \A q \in Req : req[q].op \in StoreOps => req'[q] = req[q]

LEMMA CacheInit == Init => CacheInv
<1> SUFFICES ASSUME Init PROVE CacheInv
  OBVIOUS
<1>1. \A r \in Req : req[r].op = "none"
  BY NoOpFacts DEF Init, RequestsInit
<1>2. mode = "starting" /\ rows = Nothing /\ configs = {}
  BY DEF Init, StoreInit
<1>3. DOMAIN rows = {}
  BY <1>2 DEF Nothing
<1> QED
  BY <1>1, <1>2, <1>3, RoutingInit
     DEF CacheInv, StoreRequestsBorn, StartsEmpty, RegistersAlone, DeletedIsGone, DifferencesExcused, StoreOps, In

(* A step that leaves the tables and the requests on the Store alone.      *)
LEMMA SparedKeepsCache ==
  ASSUME CacheInv, RoutingInv', UNCHANGED storeVars, Spared, Kept(StoreOps)
  PROVE  CacheInv'
<1>1. \A q \in Req : req'[q].op \in StoreOps \/ req[q].op \in StoreOps => req'[q] = req[q]
  BY DEF Spared, Kept
<1>2. /\ mode' = mode /\ table' = table /\ rows' = rows
      /\ configs' = configs /\ born' = born /\ unsure' = unsure
  BY DEF storeVars
<1>3. StoreRequestsBorn' /\ StartsEmpty' /\ (configs \subseteq DOMAIN rows)'
  BY <1>1, <1>2 DEF CacheInv, StoreRequestsBorn, StartsEmpty, StoreOps, In
<1>4. RegistersAlone'
  BY <1>1, <1>2 DEF CacheInv, RegistersAlone, In, StoreOps
<1>5. DeletedIsGone'
  BY <1>1, <1>2 DEF CacheInv, DeletedIsGone, In, StoreOps
<1>6. DifferencesExcused'
  BY <1>1, <1>2 DEF CacheInv, DifferencesExcused, Excuses
<1> QED
  BY <1>3, <1>4, <1>5, <1>6 DEF CacheInv

(* A step of one request that changes the tables at one cluster.           *)
OnlyAt(c) ==
  /\ \A d : d # c => (d \in DOMAIN rows' <=> d \in DOMAIN rows) /\ (d \in DOMAIN table' <=> d \in DOMAIN table)
  /\ unsure \subseteq unsure' /\ mode' = mode /\ mode # "starting"

LEMMA LocalStepKeepsCache ==
  ASSUME CacheInv, RoutingInv', NEW r \in Req, NEW c, OnlyAt(c),
         \A q \in Req \ {r} : req'[q] = req[q],
         BornGrows, configs' \subseteq DOMAIN rows',
         req[r].op \in StoreOps => req[r].cluster = c \/ In(r, "register", "insert"),
         req'[r].op \in StoreOps =>
           In(r, "register", "insert")' \/ (req'[r].cluster = c /\ c \in DOMAIN born'),
         mode = "db" =>
           /\ In(r, "register", "cache")' => c \in DOMAIN table' \ DOMAIN rows'
           /\ In(r, "delete", "cache")' => c \notin DOMAIN table'
           /\ (c \in DOMAIN rows' <=> c \in DOMAIN table') \/ c \in unsure' \/ \E q \in Req : Excuses(req'[q], c)
           /\ \A q \in Req \ {r} :
                /\ In(q, "register", "cache") =>
                     \/ req[q].cluster # c
                     \/ UNCHANGED <<table, rows>> /\ (req'[r].op \notin StoreOps \/ In(r, "register", "insert")')
                /\ In(q, "delete", "cache") /\ req[q].cluster = c => c \notin DOMAIN table'
                /\ In(r, "register", "cache")' =>
                     req[q].op \notin StoreOps \/ In(q, "register", "insert") \/ req[q].cluster # c
  PROVE  CacheInv'
<1>1. mode' = mode /\ mode # "starting"
  BY DEF OnlyAt
<1>2. StoreRequestsBorn'
  BY DEF CacheInv, StoreRequestsBorn, BornGrows, StoreOps, In
<1>3. StartsEmpty'
  BY <1>1 DEF StartsEmpty
<1>4. ASSUME NEW p \in Req, mode' = "db", In(p, "register", "cache")'
      PROVE  /\ req'[p].cluster \in DOMAIN table' \ DOMAIN rows'
             /\ \A q \in Req \ {p} :
                  \/ req'[q].op \notin StoreOps \/ In(q, "register", "insert")'
                  \/ req'[q].cluster # req'[p].cluster
  <2>1. CASE p = r
    <3>1. req'[r].cluster = c
      BY <1>4, <2>1 DEF StoreOps, In
    <3> QED
      BY <1>1, <1>4, <2>1, <3>1 DEF In
  <2>2. CASE p # r
    <3>1. /\ In(p, "register", "cache") /\ req'[p] = req[p]
          /\ \/ req[p].cluster # c
             \/ UNCHANGED <<table, rows>> /\ (req'[r].op \notin StoreOps \/ In(r, "register", "insert")')
      BY <1>1, <1>4, <2>2 DEF In
    <3>2. req[p].cluster \in DOMAIN table \ DOMAIN rows
      BY <1>1, <1>4, <3>1 DEF CacheInv, RegistersAlone
    <3>3. req'[p].cluster \in DOMAIN table' \ DOMAIN rows'
      BY <3>1, <3>2 DEF OnlyAt
    <3>4. ASSUME NEW q \in Req \ {p}
          PROVE  \/ req'[q].op \notin StoreOps \/ In(q, "register", "insert")'
                 \/ req'[q].cluster # req'[p].cluster
      <4>1. CASE q = r
        BY <3>1, <4>1
      <4>2. CASE q # r
        BY <1>1, <1>4, <3>1, <4>2 DEF CacheInv, RegistersAlone, In
      <4> QED
        BY <4>1, <4>2
    <3> QED
      BY <3>3, <3>4
  <2> QED
    BY <2>1, <2>2
<1>5. ASSUME NEW p \in Req, mode' = "db", In(p, "delete", "cache")'
      PROVE  req'[p].cluster \notin DOMAIN table'
  <2>1. CASE p = r
    BY <1>1, <1>5, <2>1 DEF In, StoreOps
  <2>2. CASE p # r
    <3>1. In(p, "delete", "cache") /\ req'[p] = req[p]
      BY <1>5, <2>2 DEF In
    <3>2. req[p].cluster \notin DOMAIN table
      BY <1>1, <1>5, <3>1 DEF CacheInv, DeletedIsGone
    <3> QED
      BY <1>1, <1>5, <2>2, <3>1, <3>2 DEF OnlyAt
  <2> QED
    BY <2>1, <2>2
<1>6. ASSUME mode' = "db", NEW d \in (DOMAIN rows' \ DOMAIN table') \cup (DOMAIN table' \ DOMAIN rows')
      PROVE  d \in unsure' \/ \E q \in Req : Excuses(req'[q], d)
  <2>1. CASE d = c
    BY <1>1, <1>6, <2>1
  <2>2. CASE d # c
    <3>1. d \in unsure \/ \E q \in Req : Excuses(req[q], d)
      BY <1>1, <1>6, <2>2 DEF CacheInv, DifferencesExcused, OnlyAt
    <3>2. ASSUME NEW q \in Req, Excuses(req[q], d) PROVE q # r
      BY <2>2, <3>2 DEF Excuses, In
    <3> QED
      BY <3>1, <3>2 DEF OnlyAt
  <2> QED
    BY <2>1, <2>2
<1> QED
  BY <1>2, <1>3, <1>4, <1>5, <1>6 DEF CacheInv, RegistersAlone, DeletedIsGone, DifferencesExcused

(* A request that excuses nothing begins or ends, or goes on to a step at  *)
(* which it changes nothing yet.                                           *)
LEMMA QuietStepKeepsCache ==
  ASSUME CacheInv, RoutingInv', NEW r \in Req, UNCHANGED storeVars, mode # "starting",
         \A q \in Req \ {r} : req'[q] = req[q],
         req[r].op \notin StoreOps \/ In(r, "register", "insert"),
         req'[r].op \in StoreOps =>
           \/ In(r, "register", "insert")'
           \/ /\ req'[r].op \in {"delete", "refresh"}
              /\ req'[r].cluster \in DOMAIN born
              /\ mode = "db" =>
                   /\ ~In(r, "delete", "cache")'
                   /\ \A q \in Req : In(q, "register", "cache") => req[q].cluster # req'[r].cluster
  PROVE  CacheInv'
<1> DEFINE c == req'[r].cluster
<1>1. /\ mode' = mode /\ table' = table /\ rows' = rows
      /\ configs' = configs /\ born' = born /\ unsure' = unsure
  BY DEF storeVars
<1>2. OnlyAt(c) /\ BornGrows /\ configs' \subseteq DOMAIN rows'
  BY <1>1 DEF OnlyAt, BornGrows, CacheInv
<1>3. ASSUME mode = "db", ~(c \in DOMAIN rows' <=> c \in DOMAIN table')
      PROVE  c \in unsure' \/ \E q \in Req : Excuses(req'[q], c)
  <2>1. c \in unsure \/ \E q \in Req : Excuses(req[q], c)
    BY <1>1, <1>3 DEF CacheInv, DifferencesExcused
  <2>2. ASSUME NEW q \in Req, Excuses(req[q], c) PROVE q # r
    BY <2>2 DEF Excuses, In
  <2> QED
    BY <1>1, <2>1, <2>2
<1>4. \A q \in Req \ {r} : mode = "db" /\ In(q, "delete", "cache") => req[q].cluster \notin DOMAIN table'
  BY <1>1 DEF CacheInv, DeletedIsGone
<1>5. req'[r].op \in StoreOps => In(r, "register", "insert")' \/ (req'[r].cluster = c /\ c \in DOMAIN born')
  BY <1>1
<1>6. ~In(r, "register", "cache")' /\ (mode = "db" => ~In(r, "delete", "cache")')
  BY DEF StoreOps, In
<1>7. mode = "db" => \A q \in Req \ {r} : In(q, "register", "cache") =>
        \/ req[q].cluster # c
        \/ UNCHANGED <<table, rows>> /\ (req'[r].op \notin StoreOps \/ In(r, "register", "insert")')
  BY <1>1
<1>8. req[r].op \in StoreOps => req[r].cluster = c \/ In(r, "register", "insert")
  OBVIOUS
<1> HIDE DEF c
<1> QED
  BY <1>2, <1>3, <1>4, <1>5, <1>6, <1>7, <1>8, LocalStepKeepsCache

(* Requests on the Store begin, step by step and end.                      *)
LEMMA BegunOnStore ==
  ASSUME CacheInv, NEW r \in Req, NEW x, Begin(r, x)
  PROVE  /\ req[r].op = "none" /\ req'[r] = x
         /\ \A q \in Req \ {r} : req'[q] = req[q]
BY NoOpFacts DEF Begin, CacheInv, RoutingInv, ReqShape

LEMMA EndedOnStore ==
  ASSUME CacheInv, NEW r \in Req, Reply(r)
  PROVE  req'[r].op = "none" /\ \A q \in Req \ {r} : req'[q] = req[q]
BY NoOpFacts DEF Reply, CacheInv, RoutingInv, ReqShape

LEMMA RegisterKeepsCache ==
  ASSUME CacheInv, RoutingInv', NEW r \in Req,
         \/ \E org, n : BeginRegister(r, org, n)
         \/ \E c \in Cluster : Insert(r, c)
         \/ InsertFails(r) \/ CacheRow(r)
  PROVE  CacheInv'
<1>1. ASSUME NEW org, NEW n, BeginRegister(r, org, n) PROVE CacheInv'
  <2> DEFINE x == [op |-> "register", step |-> "insert", cluster |-> None,
                   row |-> [org |-> org, name |-> n, mode |-> "kubeconfig"]]
  <2>1. Begin(r, x) /\ UNCHANGED storeVars /\ mode # "starting" /\ x.op = "register" /\ x.step = "insert"
    BY <1>1 DEF BeginRegister
  <2> HIDE DEF x
  <2>2. req[r].op = "none" /\ req'[r] = x /\ \A q \in Req \ {r} : req'[q] = req[q]
    BY <2>1, BegunOnStore
  <2> QED
    BY <2>1, <2>2, QuietStepKeepsCache DEF In, StoreOps
<1>2. ASSUME NEW c \in Cluster, Insert(r, c) PROVE CacheInv'
  <2>1. /\ c \notin DOMAIN born /\ In(r, "register", "insert") /\ born' = Put(born, c, req[r].row)
        /\ UNCHANGED <<mode, rows, configs>>
    BY <1>2 DEF Insert, Fresh
  <2>2. mode # "starting"
    BY <2>1 DEF CacheInv, StartsEmpty, In, StoreOps
  <2>3. BornGrows /\ c \in DOMAIN born'
    BY <2>1 DEF BornGrows, Put
  <2>4. c \notin DOMAIN rows /\ c \notin DOMAIN table
    BY <2>1 DEF CacheInv, RoutingInv, MemoryBorn, TableBorn, Is
  <2> DEFINE x == [req[r] EXCEPT !.step = "cache", !.cluster = c]
             cached == req' = [req EXCEPT ![r] = x]
  <2>0. \/ mode = "memory" /\ cached /\ UNCHANGED <<table, unsure>>
        \/ /\ table' = Put(table, c, req[r].row)
           /\ (cached /\ UNCHANGED unsure) \/ (Reply(r) /\ unsure' = unsure \cup {c})
    BY <1>2 DEF Insert
  <2> HIDE DEF x
  <2>5. /\ \A d : d # c => (d \in DOMAIN table' <=> d \in DOMAIN table)
        /\ mode # "memory" => c \in DOMAIN table'
    BY <2>0 DEF Put
  <2>55. unsure \subseteq unsure'
    BY <2>0
  <2>6. \A q \in Req \ {r} :
          req[q].op \in StoreOps => In(q, "register", "insert") \/ req[q].cluster # c
    BY <2>1 DEF CacheInv, StoreRequestsBorn
  <2>7. OnlyAt(c) /\ configs' \subseteq DOMAIN rows'
    BY <2>1, <2>2, <2>5, <2>55 DEF OnlyAt, CacheInv
  <2>8. CASE Reply(r) /\ unsure' = unsure \cup {c}
    <3>1. req'[r].op = "none" /\ \A q \in Req \ {r} : req'[q] = req[q]
      BY <2>8, EndedOnStore
    <3> QED
      BY <2>1, <2>2, <2>3, <2>4, <2>6, <2>7, <2>8, <3>1, LocalStepKeepsCache DEF In, StoreOps
  <2>9. CASE cached
    <3>1. x.op = "register" /\ x.step = "cache" /\ x.cluster = c
      BY <2>1 DEF x, In, CacheInv, RoutingInv, ReqShape, Shape
    <3>2. req'[r] = x /\ \A q \in Req \ {r} : req'[q] = req[q]
      BY <2>9 DEF CacheInv, RoutingInv, ReqShape
    <3>3. mode = "db" => c \in DOMAIN table'
      BY <2>5
    <3>4. \A q \in Req \ {r} : req[q].op \notin StoreOps \/ In(q, "register", "insert") \/ req[q].cluster # c
      BY <2>6
    <3>5. Excuses(req'[r], c)
      BY <3>1, <3>2 DEF Excuses, StoreOps
    <3> QED
      BY <2>1, <2>2, <2>3, <2>4, <2>6, <2>7, <3>1, <3>2, <3>3, <3>4, <3>5, LocalStepKeepsCache DEF In, StoreOps
  <2> QED
    BY <2>0, <2>8, <2>9
<1>3. CASE InsertFails(r)
  <2>1. In(r, "register", "insert") /\ mode = "db" /\ UNCHANGED storeVars
    BY <1>3 DEF InsertFails
  <2>2. req'[r].op = "none" /\ \A q \in Req \ {r} : req'[q] = req[q]
    BY <1>3, EndedOnStore DEF InsertFails
  <2> QED
    BY <2>1, <2>2, QuietStepKeepsCache DEF In, StoreOps
<1>4. CASE CacheRow(r)
  <2> DEFINE c == req[r].cluster
  <2>1. /\ In(r, "register", "cache") /\ rows' = Put(rows, c, req[r].row) /\ configs' = configs \cup {c}
        /\ UNCHANGED <<mode, table, born, unsure>> /\ Reply(r)
    BY <1>4 DEF CacheRow
  <2>2. req'[r].op = "none" /\ \A q \in Req \ {r} : req'[q] = req[q]
    BY <2>1, EndedOnStore
  <2>3. mode # "starting"
    BY <2>1 DEF CacheInv, StartsEmpty, In, StoreOps
  <2>4. DOMAIN rows' = DOMAIN rows \cup {c}
    BY <2>1 DEF Put
  <2>5. OnlyAt(c) /\ BornGrows /\ configs' \subseteq DOMAIN rows'
    BY <2>1, <2>3, <2>4 DEF OnlyAt, BornGrows, CacheInv
  <2>6. mode = "db" => /\ c \in DOMAIN table
                       /\ \A q \in Req \ {r} : In(q, "register", "cache") \/ In(q, "delete", "cache") => req[q].cluster # c
    BY <2>1 DEF CacheInv, RegistersAlone, In, StoreOps
  <2> QED
    BY <2>1, <2>2, <2>4, <2>5, <2>6, LocalStepKeepsCache DEF In, StoreOps
<1> QED
  BY <1>1, <1>2, <1>3, <1>4

LEMMA DeleteKeepsCache ==
  ASSUME CacheInv, RoutingInv', NEW r \in Req,
         \/ \E org, c : BeginDelete(r, org, c)
         \/ DeleteRow(r) \/ DeleteCache(r)
  PROVE  CacheInv'
<1>1. ASSUME NEW org, NEW c, BeginDelete(r, org, c) PROVE CacheInv'
  <2> DEFINE x == [op |-> "delete", step |-> IF mode = "db" THEN "row" ELSE "cache", cluster |-> c]
  <2>1. /\ Begin(r, x) /\ UNCHANGED storeVars /\ mode # "starting" /\ c \in DOMAIN rows
        /\ x.op = "delete" /\ x.cluster = c /\ (mode = "db" => x.step = "row")
    BY <1>1 DEF BeginDelete, List
  <2> HIDE DEF x
  <2>2. req[r].op = "none" /\ req'[r] = x /\ \A q \in Req \ {r} : req'[q] = req[q]
    BY <2>1, BegunOnStore
  <2>3. c \in DOMAIN born /\ (mode = "db" => \A q \in Req : In(q, "register", "cache") => req[q].cluster # c)
    BY <2>1 DEF CacheInv, RoutingInv, MemoryBorn, Is, RegistersAlone
  <2> QED
    BY <2>1, <2>2, <2>3, QuietStepKeepsCache DEF In, StoreOps
<1>2. CASE DeleteRow(r)
  <2> DEFINE c == req[r].cluster
  <2>1. In(r, "delete", "row") /\ UNCHANGED <<mode, rows, configs, born>>
    BY <1>2 DEF DeleteRow
  <2>2. mode # "starting" /\ c \in DOMAIN born
    BY <2>1 DEF CacheInv, StartsEmpty, StoreRequestsBorn, In, StoreOps
  <2>3. mode = "db" => \A q \in Req \ {r} : In(q, "register", "cache") => req[q].cluster # c
    BY <2>1 DEF CacheInv, RegistersAlone, In, StoreOps
  <2>4. BornGrows /\ configs' \subseteq DOMAIN rows'
    BY <2>1 DEF BornGrows, CacheInv
  <2>5. CASE table' = Without(table, c) /\ To(r, "cache") /\ UNCHANGED unsure
    <3>1. /\ req'[r] = [req[r] EXCEPT !.step = "cache"] /\ req'[r].op = req[r].op /\ req'[r].step = "cache"
          /\ \A q \in Req \ {r} : req'[q] = req[q]
      BY <2>5, ToFacts DEF CacheInv, RoutingInv
    <3>2. req'[r].cluster = c
      BY <2>1, <3>1 DEF In, CacheInv, RoutingInv, ReqShape, Shape
    <3>3. DOMAIN table' = DOMAIN table \ {c}
      BY <2>5 DEF Without
    <3>4. OnlyAt(c)
      BY <2>1, <2>2, <2>5, <3>3 DEF OnlyAt
    <3>5. Excuses(req'[r], c)
      BY <2>1, <3>1, <3>2 DEF Excuses, StoreOps, In
    <3> HIDE DEF c
    <3>6. req[r].cluster = c /\ c \notin DOMAIN table' /\ c \in DOMAIN born'
      BY <2>1, <2>2, <3>3 DEF c
    <3>7. ~In(r, "register", "cache")'
      BY <2>1, <3>1 DEF In
    <3> QED
      BY <2>3, <2>4, <3>1, <3>2, <3>4, <3>5, <3>6, <3>7, LocalStepKeepsCache
  <2>6. CASE table' = Without(table, c) /\ Reply(r) /\ unsure' = unsure \cup {c}
    <3>1. req'[r].op = "none" /\ \A q \in Req \ {r} : req'[q] = req[q]
      BY <2>6, EndedOnStore
    <3>2. DOMAIN table' = DOMAIN table \ {c}
      BY <2>6 DEF Without
    <3>3. OnlyAt(c)
      BY <2>1, <2>2, <2>6, <3>2 DEF OnlyAt
    <3> QED
      BY <2>3, <2>4, <2>6, <3>1, <3>2, <3>3, LocalStepKeepsCache DEF In, StoreOps
  <2>7. CASE Reply(r) /\ UNCHANGED <<table, unsure>>
    <3>1. req'[r].op = "none" /\ \A q \in Req \ {r} : req'[q] = req[q]
      BY <2>7, EndedOnStore
    <3>2. OnlyAt(c)
      BY <2>1, <2>2, <2>7 DEF OnlyAt
    <3>3. ASSUME mode = "db" PROVE (c \in DOMAIN rows' <=> c \in DOMAIN table') \/ c \in unsure' \/ \E q \in Req : Excuses(req'[q], c)
      <4>1. CASE c \in DOMAIN rows <=> c \in DOMAIN table
        BY <2>1, <2>7, <4>1
      <4>2. CASE ~(c \in DOMAIN rows <=> c \in DOMAIN table)
        <5>1. c \in unsure \/ \E q \in Req : Excuses(req[q], c)
          BY <3>3, <4>2 DEF CacheInv, DifferencesExcused
        <5>2. ~Excuses(req[r], c)
          BY <2>1 DEF Excuses, In
        <5> QED
          BY <2>7, <3>1, <5>1, <5>2
      <4> QED
        BY <4>1, <4>2
    <3>4. mode = "db" => \A q \in Req \ {r} : In(q, "delete", "cache") => req[q].cluster \notin DOMAIN table'
      BY <2>7 DEF CacheInv, DeletedIsGone
    <3> QED
      BY <2>3, <2>4, <3>1, <3>2, <3>3, <3>4, LocalStepKeepsCache DEF In, StoreOps
  <2> QED
    BY <1>2, <2>5, <2>6, <2>7 DEF DeleteRow
<1>3. CASE DeleteCache(r)
  <2> DEFINE c == req[r].cluster
  <2>1. /\ In(r, "delete", "cache") /\ rows' = Without(rows, c) /\ configs' = configs \ {c}
        /\ UNCHANGED <<mode, table, born, unsure>> /\ Reply(r)
    BY <1>3 DEF DeleteCache
  <2>2. req'[r].op = "none" /\ \A q \in Req \ {r} : req'[q] = req[q]
    BY <2>1, EndedOnStore
  <2>3. mode # "starting" /\ (mode = "db" => c \notin DOMAIN table)
    BY <2>1 DEF CacheInv, StartsEmpty, DeletedIsGone, In, StoreOps
  <2>4. DOMAIN rows' = DOMAIN rows \ {c}
    BY <2>1 DEF Without
  <2>5. OnlyAt(c) /\ BornGrows /\ configs' \subseteq DOMAIN rows'
    BY <2>1, <2>3, <2>4 DEF OnlyAt, BornGrows, CacheInv
  <2>6. mode = "db" => \A q \in Req \ {r} : In(q, "register", "cache") => req[q].cluster # c
    BY <2>1 DEF CacheInv, RegistersAlone, In, StoreOps
  <2> QED
    BY <2>1, <2>2, <2>3, <2>4, <2>5, <2>6, LocalStepKeepsCache DEF In, StoreOps
<1> QED
  BY <1>1, <1>2, <1>3

LEMMA RefreshKeepsCache ==
  ASSUME CacheInv, RoutingInv', NEW r \in Req,
         \/ \E c, org, n : AgentConnects(r, c, org, n)
         \/ RefreshRead(r) \/ RefreshWrite(r)
  PROVE  CacheInv'
<1>1. ASSUME NEW c, NEW org, NEW n, AgentConnects(r, c, org, n) PROVE CacheInv'
  <2> DEFINE row == [org |-> org, name |-> n, mode |-> "tunnel"]
             y == [op |-> "refresh", step |-> "read", cluster |-> c]
  <2>1. PICK x : /\ Begin(r, x) /\ mode = "db" /\ UNCHANGED <<mode, rows, configs>>
                 /\ \/ x = y /\ UNCHANGED unsure
                    \/ x = NoOp /\ unsure' = unsure \cup {c}
    BY <1>1 DEF AgentConnects
  <2>2. /\ row.mode = "tunnel"
        /\ \/ x.op = "refresh" /\ x.step = "read" /\ x.cluster = c
           \/ x.op = "none" /\ x.step = "none" /\ c \in unsure'
    BY <2>1 DEF NoOp
  <2>3. \/ c \notin DOMAIN born /\ table' = Put(table, c, row) /\ born' = Put(born, c, row)
        \/ c \in DOMAIN table /\ table[c].mode = "tunnel" /\ UNCHANGED <<table, born>>
    BY <1>1 DEF AgentConnects, Fresh
  <2> HIDE DEF row, y
  <2>4. req[r].op = "none" /\ req'[r] = x /\ \A q \in Req \ {r} : req'[q] = req[q]
    BY <2>1, BegunOnStore
  <2>5. BornGrows /\ c \in DOMAIN born' /\ c \in DOMAIN table'
    BY <2>3 DEF BornGrows, Put, CacheInv, RoutingInv, TableBorn, Is
  <2>6. OnlyAt(c) /\ configs' \subseteq DOMAIN rows'
    BY <2>1, <2>3 DEF OnlyAt, Put, CacheInv
  <2>7. ASSUME NEW q \in Req, In(q, "register", "cache") PROVE req[q].cluster # c
    <3>1. Is(req[q].cluster, req[q].row, born) /\ req[q].row.mode = "kubeconfig"
      BY <2>7 DEF CacheInv, RoutingInv, RequestsBorn, RequestBorn, In
    <3> QED
      BY <2>3, <3>1 DEF CacheInv, RoutingInv, TableBorn, Is
  <2>8. ASSUME NEW q \in Req, In(q, "delete", "cache") PROVE req[q].cluster # c
    BY <2>1, <2>3, <2>8 DEF CacheInv, StoreRequestsBorn, DeletedIsGone, In, StoreOps
  <2>9. Excuses(req'[r], c) \/ c \in unsure'
    BY <2>2, <2>4 DEF Excuses, StoreOps
  <2> QED
    BY <2>2, <2>4, <2>5, <2>6, <2>7, <2>8, <2>9, LocalStepKeepsCache DEF In, StoreOps
<1>2. CASE RefreshRead(r)
  <2> DEFINE c == req[r].cluster
             x == [op |-> "refresh", step |-> "write", cluster |-> c, row |-> table[c]]
  <2>1. In(r, "refresh", "read") /\ UNCHANGED <<mode, table, rows, configs, born>>
    BY <1>2 DEF RefreshRead
  <2>2. mode # "starting" /\ c \in DOMAIN born
    BY <2>1 DEF CacheInv, StartsEmpty, StoreRequestsBorn, In, StoreOps
  <2>3. mode = "db" => \A q \in Req \ {r} : In(q, "register", "cache") => req[q].cluster # c
    BY <2>1 DEF CacheInv, RegistersAlone, In, StoreOps
  <2>4. mode = "db" => \A q \in Req \ {r} : In(q, "delete", "cache") => req[q].cluster \notin DOMAIN table'
    BY <2>1 DEF CacheInv, DeletedIsGone
  <2>5. unsure \subseteq unsure'
    BY <1>2 DEF RefreshRead
  <2>6. OnlyAt(c) /\ BornGrows /\ configs' \subseteq DOMAIN rows'
    BY <2>1, <2>2, <2>5 DEF OnlyAt, BornGrows, CacheInv
  <2>7. CASE Reply(r) /\ unsure' = unsure \cup {c}
    <3>1. req'[r].op = "none" /\ \A q \in Req \ {r} : req'[q] = req[q]
      BY <2>7, EndedOnStore
    <3> QED
      BY <2>2, <2>3, <2>4, <2>6, <2>7, <3>1, LocalStepKeepsCache DEF In, StoreOps
  <2>8. CASE req' = [req EXCEPT ![r] = x]
    <3>1. x.op = "refresh" /\ x.step = "write" /\ x.cluster = c
      OBVIOUS
    <3> HIDE DEF x
    <3>2. req'[r] = x /\ \A q \in Req \ {r} : req'[q] = req[q]
      BY <2>8 DEF CacheInv, RoutingInv, ReqShape
    <3>3. Excuses(req'[r], c) /\ c \in DOMAIN born'
      BY <2>1, <2>2, <3>1, <3>2 DEF Excuses, StoreOps
    <3> QED
      BY <2>3, <2>4, <2>6, <3>1, <3>2, <3>3, LocalStepKeepsCache DEF In, StoreOps
  <2> QED
    BY <1>2, <2>7, <2>8 DEF RefreshRead
<1>3. CASE RefreshWrite(r)
  <2> DEFINE c == req[r].cluster
  <2>1. /\ In(r, "refresh", "write") /\ rows' = Put(rows, c, req[r].row) /\ Reply(r)
        /\ unsure' = IF c \in DOMAIN table THEN unsure ELSE unsure \cup {c}
        /\ UNCHANGED <<mode, table, configs, born>>
    BY <1>3 DEF RefreshWrite
  <2>2. req'[r].op = "none" /\ \A q \in Req \ {r} : req'[q] = req[q]
    BY <2>1, EndedOnStore
  <2>3. mode # "starting"
    BY <2>1 DEF CacheInv, StartsEmpty, In, StoreOps
  <2>4. DOMAIN rows' = DOMAIN rows \cup {c}
    BY <2>1 DEF Put
  <2>5. OnlyAt(c) /\ BornGrows /\ configs' \subseteq DOMAIN rows'
    BY <2>1, <2>3, <2>4 DEF OnlyAt, BornGrows, CacheInv
  <2>6. mode = "db" => \A q \in Req \ {r} : In(q, "register", "cache") => req[q].cluster # c
    BY <2>1 DEF CacheInv, RegistersAlone, In, StoreOps
  <2>7. mode = "db" => \A q \in Req \ {r} : In(q, "delete", "cache") => req[q].cluster \notin DOMAIN table'
    BY <2>1 DEF CacheInv, DeletedIsGone
  <2>8. c \in DOMAIN table' \/ c \in unsure'
    BY <2>1
  <2> QED
    BY <2>1, <2>2, <2>4, <2>5, <2>6, <2>7, <2>8, LocalStepKeepsCache DEF In, StoreOps
<1> QED
  BY <1>1, <1>2, <1>3

(* The other parts' steps begin and change requests of their own.          *)
LEMMA OthersSpare ==
  ASSUME CacheInv, NEW r \in Req,
         \/ ProxyRequest(r) \/ ProxyStep(r) \/ UserRequest(r) \/ UserStep(r)
         \/ SessionRequest(r) \/ SessionStep(r)
  PROVE  Spared
<1>0. DOMAIN req = Req /\ \A q \in Req : Shape(req[q])
  BY DEF CacheInv, RoutingInv, ReqShape
<1>1. ASSUME NEW x, Begin(r, x) PROVE Spared
  BY <1>1, BegunOnStore DEF Spared, StoreOps
<1>2. ASSUME NEW x, req[r].op \notin StoreOps, req' = [req EXCEPT ![r] = x] PROVE Spared
  BY <1>0, <1>2 DEF Spared
<1>3. ASSUME req[r].op \notin StoreOps, Reply(r) \/ \E s : To(r, s) PROVE Spared
  BY <1>2, <1>3 DEF Reply, To
<1>4. CASE ProxyRequest(r)
  BY <1>1, <1>4 DEF ProxyRequest, ServeHTTP
<1>5. CASE UserRequest(r)
  BY <1>1, <1>5 DEF UserRequest, OnboardInCluster, BeginRemove
<1>6. CASE SessionRequest(r)
  BY <1>1, <1>6 DEF SessionRequest, BeginSignup, BeginLogin, BeginResolve
<1>7. CASE ProxyStep(r)
  <2>1. req[r].op \notin StoreOps
    BY <1>7 DEF ProxyStep, ReadMode, Build, Gate, Audit, In, StoreOps
  <2> QED
    BY <1>2, <1>3, <1>7, <2>1 DEF ProxyStep, ReadMode, Build, Gate, Audit
<1>8. CASE SessionStep(r)
  <2>1. req[r].op \notin StoreOps
    BY <1>8 DEF SessionStep, InsertOrg, InsertUser, CommitSignup, SignupFails, MintLogin, Extend, Purge, In, StoreOps
  <2> QED
    BY <1>3, <1>8, <2>1 DEF SessionStep, InsertOrg, InsertUser, CommitSignup, SignupFails, MintLogin, Extend, Purge
<1>9. CASE UserStep(r) /\ ~RemoveObject(r)
  <2>1. req[r].op \notin StoreOps
    BY <1>9 DEF UserStep, CreateAccount, CreateRole, CreateBinding, OnboardFails, Record, Forget, In, StoreOps
  <2> QED
    BY <1>3, <1>9, <2>1 DEF UserStep, CreateAccount, CreateRole, CreateBinding, OnboardFails, Record, Forget
<1>10. CASE RemoveObject(r)
  <2> DEFINE next == CASE req[r].step = "binding" -> "role" [] req[r].step = "role" -> "account" [] OTHER -> "record"
             x == [req[r] EXCEPT !.step = next]
             rs == [req EXCEPT ![r] = x]
  <2>1. req[r].op = "remove" /\ (To(r, next) \/ req' = Cross(rs, Account(req[r])))
    BY <1>10 DEF RemoveObject
  <2> HIDE DEF next, x
  <2>2. CASE req' = Cross(rs, Account(req[r]))
    <3>1. \A q \in Req : req[q].op \in StoreOps => rs[q] = req[q]
      BY <1>0, <2>1 DEF StoreOps
    <3> HIDE DEF rs
    <3> QED
      BY <2>2, <3>1 DEF Spared, Cross, StoreOps
  <2> QED
    BY <1>3, <2>1, <2>2 DEF StoreOps
<1> QED
  BY <1>4, <1>5, <1>6, <1>7, <1>8, <1>9, <1>10

LEMMA CacheKeepsInv == CacheInv /\ [Next]_vars => CacheInv'
<1> SUFFICES ASSUME CacheInv, [Next]_vars PROVE CacheInv'
  OBVIOUS
<1>0. RoutingInv /\ RoutingInv' /\ ReqShape
  BY RoutingKeepsInv DEF CacheInv, RoutingInv
<1>1. ASSUME UNCHANGED storeVars, Spared, Kept(StoreOps) PROVE CacheInv'
  BY <1>0, <1>1, SparedKeepsCache
<1>2. CASE UNCHANGED <<req, storeVars>>
  BY <1>1, <1>2 DEF Spared, Kept
<1>3. ASSUME NEW p \in Process, Start(p) \/ MigrateStep(p) \/ MigrateError(p) \/ Stop(p)
      PROVE  CacheInv'
  <2>1. CASE UNCHANGED <<req, ownVars>>
    BY <1>2, <2>1 DEF ownVars
  <2>2. CASE req' = [q \in Req |-> NoOp] /\ StoreStops
    <3>1. \A q \in Req : req'[q].op = "none"
      BY <2>2, NoOpFacts
    <3>2. mode' = "starting" /\ DOMAIN rows' = {} /\ configs' = {}
      BY <2>2 DEF StoreStops, Nothing
    <3> QED
      BY <1>0, <3>1, <3>2
         DEF CacheInv, StoreRequestsBorn, StartsEmpty, RegistersAlone, DeletedIsGone, DifferencesExcused, StoreOps, In
  <2> QED
    BY <1>3, <2>1, <2>2 DEF Start, MigrateStep, MigrateError, Stop
<1>4. CASE Serve
  <2>1. /\ mode = "starting" /\ mode' # "starting" /\ UNCHANGED req
        /\ \/ rows' = table /\ configs' \subseteq DOMAIN table
           \/ UNCHANGED <<rows, configs>> /\ (mode' = "db" => unsure' = DOMAIN table)
        /\ UNCHANGED <<table, born>>
    BY <1>4 DEF Serve, LoadAll, ServeFromMemory
  <2>2. DOMAIN rows = {} /\ configs = {} /\ \A r \in Req : req[r].op \notin StoreOps
    BY <2>1 DEF CacheInv, StartsEmpty
  <2>3. DifferencesExcused'
    BY <2>1, <2>2 DEF DifferencesExcused
  <2>4. configs' \subseteq DOMAIN rows'
    BY <2>1, <2>2
  <2> QED
    BY <1>0, <2>1, <2>2, <2>3, <2>4 DEF CacheInv, StoreRequestsBorn, StartsEmpty, RegistersAlone, DeletedIsGone, StoreOps, In
<1>5. CASE Clock \/ LogoutRequest
  BY <1>2, <1>5 DEF Clock, Tick, LogoutRequest, Logout, ownVars
<1>6. CASE Person
  <2>1. UNCHANGED storeVars /\ \E a : req' = Cross(req, a)
    BY <1>6 DEF Person, EditRole, EditBinding
  <2>2. Spared /\ Kept(StoreOps)
    BY <1>0, <2>1, CrossFacts DEF Spared, Kept, StoreOps, Cross, ReqShape
  <2> QED
    BY <1>1, <2>1, <2>2
<1>7. ASSUME NEW r \in Req, StoreRequest(r) \/ ProxyRequest(r) \/ UserRequest(r) \/ SessionRequest(r) \/ Step(r)
      PROVE  CacheInv'
  <2>1. CASE StoreRequest(r)
    BY <1>0, <2>1, RegisterKeepsCache, DeleteKeepsCache, RefreshKeepsCache DEF StoreRequest
  <2>2. CASE StoreStep(r)
    BY <1>0, <2>2, RegisterKeepsCache, DeleteKeepsCache, RefreshKeepsCache DEF StoreStep
  <2>3. CASE ProxyRequest(r) \/ ProxyStep(r)
    <3>1. UNCHANGED storeVars
      BY <2>3 DEF ProxyRequest, ServeHTTP, ProxyStep, ReadMode, Build, Gate, Audit
    <3> QED
      BY <1>0, <1>1, <2>3, <3>1, OthersSpare, ProxyReqs DEF Kept, StoreOps
  <2>4. CASE UserRequest(r) \/ UserStep(r)
    <3>1. UNCHANGED storeVars
      BY <2>4 DEF UserRequest, UserStep, OnboardInCluster, BeginRemove, CreateAccount, CreateRole, CreateBinding,
                  OnboardFails, Record, RemoveObject, Forget
    <3> QED
      BY <1>0, <1>1, <2>4, <3>1, OthersSpare, UserReqs DEF Kept, StoreOps
  <2>5. CASE (SessionRequest(r) \/ SessionStep(r)) /\ UNCHANGED ownVars
    BY <1>0, <1>1, <2>5, OthersSpare, SessionReqs DEF Kept, StoreOps, ownVars
  <2> QED
    BY <1>7, <2>1, <2>2, <2>3, <2>4, <2>5 DEF Step, SessionRequest
<1>8. CASE UNCHANGED vars
  BY <1>2, <1>8 DEF vars, ownVars
<1> QED
  BY <1>3, <1>4, <1>5, <1>6, <1>7, <1>8 DEF Next

(* What the Store keeps of the clusters is what the table has, but for the *)
(* requests under way and the calls of the database nobody knows the       *)
(* outcome of; and there are no credentials for a cluster it does not list.*)
THEOREM CacheFollows == Spec => []CacheFollowsTable
<1>1. CacheInv => CacheFollowsTable
  BY DEF CacheInv, CacheFollowsTable, DifferencesExcused, Excuses, StoreOps
<1> QED
  BY <1>1, CacheInit, CacheKeepsInv, PTL DEF Spec

-----------------------------------------------------------------------------
(* What an onboarding nobody crossed has made so far is there.             *)
Grants(x) ==
  (x.op = "onboard" /\ ~x.crossed) =>
    /\ x.step \in {"role", "binding", "record"} => Account(x) \in accounts
    /\ x.step \in {"binding", "record"} => Role(x) \in DOMAIN roles /\ roles[Role(x)] = "scoped"
    /\ x.step = "record" => Role(x) \in DOMAIN bindings

AccessInv == ReqShape /\ \A r \in Req : Grants(req[r])

ObjectsGrow ==
  /\ accounts \subseteq accounts' /\ DOMAIN bindings \subseteq DOMAIN bindings'
  /\ \A k \in DOMAIN roles : k \in DOMAIN roles' /\ (roles[k] = "scoped" => roles'[k] = "scoped")

LEMMA AccessInit == Init => AccessInv
<1> SUFFICES ASSUME Init PROVE AccessInv
  OBVIOUS
<1>1. ReqShape /\ \A r \in Req : req[r].op = "none"
  BY NoOpFacts DEF Init, RequestsInit, ReqShape
<1> QED
  BY <1>1 DEF AccessInv, Grants

(* Onboardings may end, and no object goes away.                           *)
LEMMA GrowthKeepsAccess ==
  ASSUME AccessInv, ReqShape', Kept({"onboard"}), ObjectsGrow
  PROVE  AccessInv'
<1>1. ASSUME NEW q \in Req PROVE Grants(req[q])'
  <2>1. CASE req'[q].op = "onboard"
    <3>1. req'[q] = req[q] /\ Grants(req[q])
      BY <2>1 DEF Kept, AccessInv
    <3> QED
      BY <3>1 DEF Grants, ObjectsGrow, Account, Role
  <2>2. CASE req'[q].op # "onboard"
    BY <2>2 DEF Grants
  <2> QED
    BY <2>1, <2>2
<1> QED
  BY <1>1 DEF AccessInv

(* One onboarding goes on, and what it says it has made is there.          *)
LEMMA OneStepKeepsAccess ==
  ASSUME AccessInv, ReqShape', NEW r \in Req, \A q \in Req \ {r} : req'[q] = req[q],
         ObjectsGrow, Grants(req[r])'
  PROVE  AccessInv'
<1>1. ASSUME NEW q \in Req \ {r} PROVE Grants(req[q])'
  <2>1. req'[q] = req[q] /\ Grants(req[q])
    BY DEF AccessInv
  <2> QED
    BY <2>1 DEF Grants, ObjectsGrow, Account, Role
<1> QED
  BY <1>1 DEF AccessInv

(* Objects of one account change or go away: its onboardings are crossed,  *)
(* and no other onboarding has a role or a binding among them.             *)
LEMMA CrossKeepsAccess ==
  ASSUME ReqShape', NEW rs, NEW a, DOMAIN rs = Req, req' = Cross(rs, a),
         \A q \in Req : Shape(rs[q]) /\ Grants(rs[q]),
         \A x \in accounts : x # a => x \in accounts',
         \A k \in DOMAIN bindings : [cluster |-> k.cluster, namespace |-> k.namespace, name |-> k.name] # a =>
           k \in DOMAIN bindings',
         \A k \in DOMAIN roles : [cluster |-> k.cluster, namespace |-> k.namespace, name |-> k.name] # a =>
           k \in DOMAIN roles' /\ roles'[k] = roles[k]
  PROVE  AccessInv'
<1>1. ASSUME NEW q \in Req PROVE Grants(req[q])'
  <2>1. CASE rs[q].op = "onboard" /\ Account(rs[q]) = a
    <3>1. req'[q] = [rs[q] EXCEPT !.crossed = TRUE]
      BY <2>1 DEF Cross
    <3>2. req'[q].crossed = TRUE
      BY <2>1, <3>1 DEF Shape
    <3> QED
      BY <3>2 DEF Grants
  <2>2. CASE rs[q].op = "onboard" /\ Account(rs[q]) # a
    <3>1. req'[q] = rs[q]
      BY <2>2 DEF Cross
    <3> DEFINE k == Role(rs[q])
    <3>2. [cluster |-> k.cluster, namespace |-> k.namespace, name |-> k.name] = Account(rs[q])
      BY DEF Role, Account
    <3> HIDE DEF k
    <3>3. /\ Account(rs[q]) \in accounts => Account(rs[q]) \in accounts'
          /\ k \in DOMAIN bindings => k \in DOMAIN bindings'
          /\ k \in DOMAIN roles => k \in DOMAIN roles' /\ roles'[k] = roles[k]
      BY <2>2, <3>2
    <3>4. Grants(rs[q])
      OBVIOUS
    <3> QED
      BY <3>1, <3>3, <3>4 DEF Grants, k, Role, Account
  <2>3. CASE rs[q].op # "onboard"
    <3>1. req'[q] = rs[q]
      BY <2>3 DEF Cross
    <3> QED
      BY <2>3, <3>1 DEF Grants
  <2> QED
    BY <2>1, <2>2, <2>3
<1> QED
  BY <1>1 DEF AccessInv

LEMMA OnboardKeepsAccess ==
  ASSUME AccessInv, ReqShape', NEW r \in Req, CreateAccount(r) \/ CreateRole(r) \/ CreateBinding(r)
  PROVE  AccessInv'
<1> DEFINE x == req[r]
<1>0. x.op = "onboard" /\ ReqShape /\ Shape(x) /\ Grants(x)
  BY DEF CreateAccount, CreateRole, CreateBinding, In, AccessInv, ReqShape
<1>1. ASSUME NEW s, To(r, s)
      PROVE  /\ \A q \in Req \ {r} : req'[q] = req[q]
             /\ req'[r].op = x.op /\ req'[r].step = s /\ req'[r].crossed = x.crossed
             /\ Account(req'[r]) = Account(x) /\ Role(req'[r]) = Role(x)
  <2>1. /\ req'[r] = [x EXCEPT !.step = s] /\ req'[r].op = x.op /\ req'[r].step = s
        /\ \A q \in Req \ {r} : req'[q] = req[q]
    BY <1>0, <1>1, ToFacts
  <2>2. /\ req'[r].crossed = x.crossed /\ req'[r].client = x.client /\ req'[r].namespace = x.namespace
        /\ req'[r].name = x.name /\ req'[r].scope = x.scope
    BY <1>0, <2>1 DEF Shape
  <2> QED
    BY <2>1, <2>2 DEF Account, Role
<1>2. CASE CreateAccount(r)
  <2>1. To(r, "role") /\ accounts' = accounts \cup {Account(x)} /\ UNCHANGED <<roles, bindings>>
    BY <1>2 DEF CreateAccount
  <2>2. Grants(req[r])' /\ ObjectsGrow
    BY <1>1, <2>1 DEF Grants, ObjectsGrow
  <2> QED
    BY <1>1, <2>1, <2>2, OneStepKeepsAccess
<1>3. CASE CreateRole(r)
  <2>1. /\ To(r, "binding") /\ roles' = Put(roles, Role(x), "scoped") /\ UNCHANGED <<accounts, bindings>>
        /\ x.step = "role"
    BY <1>3 DEF CreateRole, Rules, In
  <2>2. Role(x) \in DOMAIN roles' /\ roles'[Role(x)] = "scoped" /\ ObjectsGrow
    BY <2>1 DEF Put, ObjectsGrow
  <2>3. Grants(req[r])'
    BY <1>0, <1>1, <2>1, <2>2 DEF Grants
  <2> QED
    BY <1>1, <2>1, <2>2, <2>3, OneStepKeepsAccess
<1>4. CASE CreateBinding(r)
  <2>1. /\ bindings' = IF Role(x) \in DOMAIN bindings THEN bindings ELSE Put(bindings, Role(x), "own")
        /\ UNCHANGED <<accounts, roles>> /\ x.step = "binding"
    BY <1>4 DEF CreateBinding, In
  <2>2. Role(x) \in DOMAIN bindings' /\ ObjectsGrow
    BY <2>1 DEF Put, ObjectsGrow
  <2>3. CASE To(r, "record")
    <3>1. Grants(req[r])'
      BY <1>0, <1>1, <2>1, <2>2, <2>3 DEF Grants
    <3> QED
      BY <1>1, <2>2, <2>3, <3>1, OneStepKeepsAccess
  <2>4. CASE Reply(r)
    BY <1>0, <2>2, <2>4, ReplyFacts, GrowthKeepsAccess DEF Kept
  <2> QED
    BY <1>4, <2>3, <2>4 DEF CreateBinding
<1> QED
  BY <1>2, <1>3, <1>4

LEMMA RemoveKeepsAccess ==
  ASSUME AccessInv, ReqShape', NEW r \in Req, RemoveObject(r)
  PROVE  AccessInv'
<1> DEFINE x == req[r]
           next == CASE x.step = "binding" -> "role" [] x.step = "role" -> "account" [] OTHER -> "record"
           y == [x EXCEPT !.step = next]
           rs == [req EXCEPT ![r] = y]
<1>0. x.op = "remove" /\ ReqShape /\ Shape(x)
  BY DEF RemoveObject, AccessInv, ReqShape
<1>1. \/ To(r, next) /\ UNCHANGED <<accounts, roles, bindings>>
      \/ /\ req' = Cross(rs, Account(x))
         /\ bindings' = bindings \/ bindings' = Without(bindings, Role(x))
         /\ roles' = roles \/ roles' = Without(roles, Role(x))
         /\ accounts' = accounts \/ accounts' = accounts \ {Account(x)}
  BY DEF RemoveObject
<1> HIDE DEF next
<1>2. CASE To(r, next) /\ UNCHANGED <<accounts, roles, bindings>>
  <2>1. Kept({"onboard"})
    BY <1>0, <1>2, ToFacts DEF Kept
  <2> QED
    BY <1>2, <2>1, GrowthKeepsAccess DEF ObjectsGrow
<1>3. CASE /\ req' = Cross(rs, Account(x))
           /\ bindings' = bindings \/ bindings' = Without(bindings, Role(x))
           /\ roles' = roles \/ roles' = Without(roles, Role(x))
           /\ accounts' = accounts \/ accounts' = accounts \ {Account(x)}
  <2>1. y.op = "remove" /\ Shape(y)
    BY <1>0 DEF Shape
  <2> HIDE DEF y
  <2>2. DOMAIN rs = Req /\ \A q \in Req : Shape(rs[q]) /\ Grants(rs[q])
    BY <1>0, <2>1 DEF ReqShape, AccessInv, Grants
  <2> HIDE DEF rs
  <2> DEFINE k == Role(x)
             a == Account(x)
  <2>3. [cluster |-> k.cluster, namespace |-> k.namespace, name |-> k.name] = a
    BY DEF Role, Account
  <2> HIDE DEF k, a
  <2>4. /\ bindings' = bindings \/ bindings' = [z \in DOMAIN bindings \ {k} |-> bindings[z]]
        /\ roles' = roles \/ roles' = [z \in DOMAIN roles \ {k} |-> roles[z]]
        /\ accounts' = accounts \/ accounts' = accounts \ {a}
    BY <1>3 DEF k, a, Without
  <2>5. \A z \in accounts : z # a => z \in accounts'
    BY <2>4
  <2>6. \A z \in DOMAIN bindings : [cluster |-> z.cluster, namespace |-> z.namespace, name |-> z.name] # a =>
          z \in DOMAIN bindings'
    BY <2>3, <2>4
  <2>7. \A z \in DOMAIN roles : [cluster |-> z.cluster, namespace |-> z.namespace, name |-> z.name] # a =>
          z \in DOMAIN roles' /\ roles'[z] = roles[z]
    BY <2>3, <2>4
  <2>8. req' = Cross(rs, a)
    BY <1>3 DEF a
  <2> QED
    BY <2>2, <2>5, <2>6, <2>7, <2>8, CrossKeepsAccess
<1> QED
  BY <1>1, <1>2, <1>3

LEMMA PersonKeepsAccess ==
  ASSUME AccessInv, ReqShape', Person
  PROVE  AccessInv'
<1>1. PICK k : EditRole(k) \/ EditBinding(k)
  BY DEF Person
<1> DEFINE a == [cluster |-> k.cluster, namespace |-> k.namespace, name |-> k.name]
<1>2. /\ req' = Cross(req, a) /\ UNCHANGED accounts
      /\ roles' = roles \/ roles' = [roles EXCEPT ![k] = "edited"]
      /\ bindings' = bindings \/ bindings' = [bindings EXCEPT ![k] = "edited"]
  BY <1>1 DEF EditRole, EditBinding
<1>3. DOMAIN req = Req /\ \A q \in Req : Shape(req[q]) /\ Grants(req[q])
  BY DEF AccessInv, ReqShape
<1>4. /\ \A z \in DOMAIN roles : [cluster |-> z.cluster, namespace |-> z.namespace, name |-> z.name] # a =>
           z \in DOMAIN roles' /\ roles'[z] = roles[z]
      /\ DOMAIN bindings' = DOMAIN bindings
  BY <1>2
<1> HIDE DEF a
<1> QED
  BY <1>2, <1>3, <1>4, CrossKeepsAccess

LEMMA AccessKeepsInv == AccessInv /\ [Next]_vars => AccessInv'
<1> SUFFICES ASSUME AccessInv, [Next]_vars PROVE AccessInv'
  OBVIOUS
<1>0. ReqShape
  BY DEF AccessInv
<1>1. ASSUME UNCHANGED <<accounts, roles, bindings>>, ReqShape', Kept({"onboard"}) PROVE AccessInv'
  BY <1>1, GrowthKeepsAccess DEF ObjectsGrow
<1>2. CASE UNCHANGED <<req, accounts, roles, bindings>>
  BY <1>0, <1>1, <1>2 DEF ReqShape, Kept
<1>3. ASSUME NEW p \in Process, Start(p) \/ MigrateStep(p) \/ MigrateError(p) \/ Stop(p)
      PROVE  AccessInv'
  <2>1. CASE UNCHANGED <<req, ownVars>>
    BY <1>2, <2>1 DEF ownVars, userVars
  <2>2. CASE req' = [q \in Req |-> NoOp] /\ UsersStop
    BY <1>1, <2>2, NoOpFacts DEF ReqShape, Kept, UsersStop
  <2> QED
    BY <1>3, <2>1, <2>2 DEF Start, MigrateStep, MigrateError, Stop
<1>4. CASE Serve \/ Clock \/ LogoutRequest
  BY <1>2, <1>4 DEF Serve, Clock, Tick, LogoutRequest, Logout, ownVars, userVars
<1>5. CASE Person
  <2>1. ReqShape'
    BY <1>0, <1>5, PersonReqs
  <2> QED
    BY <1>5, <2>1, PersonKeepsAccess
<1>6. ASSUME NEW r \in Req, StoreRequest(r) \/ ProxyRequest(r) \/ UserRequest(r) \/ SessionRequest(r) \/ Step(r)
      PROVE  AccessInv'
  <2>1. CASE (StoreRequest(r) \/ StoreStep(r)) /\ UNCHANGED userVars
    BY <1>0, <1>1, <2>1, StoreReqs DEF Kept, userVars
  <2>2. CASE (ProxyRequest(r) \/ ProxyStep(r)) /\ UNCHANGED userVars
    BY <1>0, <1>1, <2>2, ProxyReqs DEF Kept, userVars
  <2>3. CASE (SessionRequest(r) \/ SessionStep(r)) /\ UNCHANGED ownVars
    BY <1>0, <1>1, <2>3, SessionReqs DEF Kept, ownVars, userVars
  <2>4. CASE UserRequest(r)
    <3>1. ReqShape'
      BY <1>0, <2>4, UserReqs
    <3>2. UNCHANGED <<accounts, roles, bindings>> /\ \E x : Begin(r, x) /\ (x.op = "onboard" => x.step = "account")
      <4>1. ASSUME NEW c, NEW u, NEW ns, NEW s, OnboardInCluster(r, c, u, ns, s)
            PROVE  \E x : Begin(r, x) /\ (x.op = "onboard" => x.step = "account")
        <5>1. PICK client : Begin(r, [op |-> "onboard", step |-> "account", cluster |-> c, client |-> client,
                                      name |-> u, namespace |-> ns, scope |-> s, crossed |-> FALSE])
          BY <4>1 DEF OnboardInCluster
        <5> DEFINE x == [op |-> "onboard", step |-> "account", cluster |-> c, client |-> client,
                         name |-> u, namespace |-> ns, scope |-> s, crossed |-> FALSE]
        <5>2. x.step = "account"
          OBVIOUS
        <5> QED
          BY <5>1, <5>2
      <4>2. ASSUME NEW k, BeginRemove(r, k)
            PROVE  \E x : Begin(r, x) /\ (x.op = "onboard" => x.step = "account")
        <5>1. PICK client : Begin(r, [op |-> "remove", step |-> "binding", key |-> k, name |-> k.name, client |-> client,
                                      namespace |-> users[k].namespace, scope |-> users[k].scope])
          BY <4>2 DEF BeginRemove
        <5> DEFINE x == [op |-> "remove", step |-> "binding", key |-> k, name |-> k.name, client |-> client,
                         namespace |-> users[k].namespace, scope |-> users[k].scope]
        <5>2. x.op = "remove"
          OBVIOUS
        <5> QED
          BY <5>1, <5>2
      <4>3. UNCHANGED userVars
        BY <2>4 DEF UserRequest, OnboardInCluster, BeginRemove
      <4> QED
        BY <2>4, <4>1, <4>2, <4>3 DEF UserRequest, userVars
    <3>3. PICK x : Begin(r, x) /\ (x.op = "onboard" => x.step = "account")
      BY <3>2
    <3>4. req'[r] = x /\ \A q \in Req \ {r} : req'[q] = req[q]
      BY <1>0, <3>3 DEF Begin, ReqShape
    <3>5. Grants(req[r])'
      BY <3>3, <3>4 DEF Grants
    <3> QED
      BY <3>1, <3>2, <3>4, <3>5, OneStepKeepsAccess DEF ObjectsGrow
  <2>5. CASE UserStep(r)
    <3>1. ReqShape'
      BY <1>0, <2>5, UserReqs
    <3>2. CASE OnboardFails(r) \/ Record(r) \/ Forget(r)
      BY <1>0, <1>1, <3>2, ReplyFacts DEF OnboardFails, Record, Forget, userVars, Kept
    <3> QED
      BY <2>5, <3>1, <3>2, OnboardKeepsAccess, RemoveKeepsAccess DEF UserStep
  <2> QED
    BY <1>6, <2>1, <2>2, <2>3, <2>4, <2>5
       DEF StoreRequest, ProxyRequest, SessionRequest, Step
<1>7. CASE UNCHANGED vars
  BY <1>2, <1>7 DEF vars, ownVars, userVars
<1> QED
  BY <1>3, <1>4, <1>5, <1>6, <1>7 DEF Next

(* Whatever earlier attempts, removals and edits left in the cluster, an   *)
(* onboarding about to be recorded has its account, its role with the      *)
(* rules of its scope and a binding by that name there, unless its objects *)
(* were changed under it.                                                  *)
THEOREM OnboardingHasRole == Spec => []OnboardedHasRole
<1>1. AccessInv => OnboardedHasRole
  BY DEF AccessInv, Grants, OnboardedHasRole, In
<1> QED
  BY <1>1, AccessInit, AccessKeepsInv, PTL DEF Spec
=============================================================================
