--------------------------- MODULE UserOnboarding ---------------------------
(***************************************************************************)
(* users.Manager: a teammate gets a ServiceAccount, a Role and a           *)
(* RoleBinding in a cluster, call by call, and a record in memory.         *)
(***************************************************************************)
EXTENDS ClusterStore

CONSTANTS
  User,        \* names, as sanitize leaves them
  Namespace, Scope,
  InCluster,   \* does the detector run in a cluster itself (cs # nil)?
  Home         \* that cluster, and the empty cluster ID

ASSUME OnboardingAssumption == InCluster \in BOOLEAN /\ Home \notin Cluster \cup {None}

VARIABLES
  users,      \* [cluster, name] -> [namespace, scope]
  accounts,   \* the ServiceAccounts: [cluster, namespace, name]
  roles,      \* [cluster, namespace, name, scope] -> "scoped", or "edited"
  bindings    \* the RoleBindings, named like the roles -> "own", or "edited"

userVars == <<users, accounts, roles, bindings>>

UsersInit == users = Nothing /\ accounts = {} /\ roles = Nothing /\ bindings = Nothing

OwnClient == IF InCluster THEN Home ELSE None

\* main's ClusterLookup: a kubeconfig, else the agent's tunnel if it is up.
ClusterLookup(c, online) ==
  IF c \in configs \/ (mode = "db" /\ Mode(c) = "tunnel" /\ online) THEN c ELSE None

\* Remove and Kubeconfig go to the own cluster when the look-up fails.
LookupOrOwn(c, online) ==
  IF c # Home /\ ClusterLookup(c, online) # None THEN ClusterLookup(c, online) ELSE OwnClient

Account(x) == [cluster |-> x.client, namespace |-> x.namespace, name |-> x.name]
Role(x) == [cluster |-> x.client, namespace |-> x.namespace, name |-> x.name, scope |-> x.scope]

\* What another request or a person does to the objects of an onboarding.
Cross(rs, a) ==
  [q \in Req |-> IF rs[q].op = "onboard" /\ Account(rs[q]) = a
                 THEN [rs[q] EXCEPT !.crossed = TRUE] ELSE rs[q]]

-----------------------------------------------------------------------------
OnboardInCluster(r, c, u, ns, s) ==
  /\ mode # "starting"
  /\ \E online \in BOOLEAN :
       LET client == IF c = Home THEN OwnClient ELSE ClusterLookup(c, online) IN
       /\ client # None
       /\ Begin(r, [op |-> "onboard", step |-> "account", cluster |-> c, client |-> client,
                    name |-> u, namespace |-> ns, scope |-> s, crossed |-> FALSE])
  /\ UNCHANGED <<storeVars, userVars>>

\* Each object may be there already.
CreateAccount(r) ==
  /\ In(r, "onboard", "account")
  /\ accounts' = accounts \cup {Account(req[r])}
  /\ To(r, "role")
  /\ UNCHANGED <<storeVars, users, roles, bindings, ops>>

\* Mutant: a role that is there already is left as it is.
RulesKept(x) == IF Role(x) \in DOMAIN roles THEN roles[Role(x)] ELSE "scoped"

\* A role that is there already is updated to the rules of its scope.
Rules(x) == "scoped"

CreateRole(r) ==
  /\ In(r, "onboard", "role")
  /\ roles' = Put(roles, Role(req[r]), Rules(req[r]))
  /\ To(r, "binding")
  /\ UNCHANGED <<storeVars, users, accounts, bindings, ops>>

\* A binding that is there already is left as it is, whoever it grants to.
CreateBinding(r) ==
  /\ In(r, "onboard", "binding")
  /\ bindings' = IF Role(req[r]) \in DOMAIN bindings THEN bindings
                  ELSE Put(bindings, Role(req[r]), "own")
  /\ To(r, "record") \/ Reply(r)   \* made, but the answer was lost
  /\ UNCHANGED <<storeVars, users, accounts, roles, ops>>

\* An error ends it; what was created stays, and there is no record.
OnboardFails(r) ==
  /\ req[r].op = "onboard" /\ req[r].step # "record"
  /\ Reply(r)
  /\ UNCHANGED <<storeVars, userVars, ops>>

Record(r) ==
  LET x == req[r] IN
  /\ In(r, "onboard", "record")
  /\ users' = Put(users, [cluster |-> x.cluster, name |-> x.name],
                  [namespace |-> x.namespace, scope |-> x.scope])
  /\ Reply(r)
  /\ UNCHANGED <<storeVars, accounts, roles, bindings, ops>>

-----------------------------------------------------------------------------
BeginRemove(r, k) ==
  /\ mode # "starting" /\ k \in DOMAIN users
  /\ \E online \in BOOLEAN :
       Begin(r, [op |-> "remove", step |-> "binding", key |-> k, name |-> k.name,
                 client |-> LookupOrOwn(k.cluster, online),
                 namespace |-> users[k].namespace, scope |-> users[k].scope])
  /\ UNCHANGED <<storeVars, userVars>>

\* The errors of the three deletions are ignored.
RemoveObject(r) ==
  LET x == req[r]
      next == CASE x.step = "binding" -> "role" [] x.step = "role" -> "account" [] OTHER -> "record" IN
  /\ x.op = "remove" /\ x.step # "record"
  /\ \/ /\ x.client # None
        /\ bindings' = IF x.step = "binding" THEN Without(bindings, Role(x)) ELSE bindings
        /\ roles' = IF x.step = "role" THEN Without(roles, Role(x)) ELSE roles
        /\ accounts' = IF x.step = "account" THEN accounts \ {Account(x)} ELSE accounts
        /\ req' = Cross([req EXCEPT ![r] = [x EXCEPT !.step = next]], Account(x))
     \/ To(r, next) /\ UNCHANGED <<accounts, roles, bindings>>
  /\ UNCHANGED <<storeVars, users, ops>>

Forget(r) ==
  /\ In(r, "remove", "record")
  /\ users' = Without(users, req[r].key)
  /\ Reply(r)
  /\ UNCHANGED <<storeVars, accounts, roles, bindings, ops>>

\* Somebody changes by hand the rules of a role, or the subjects of a binding.
EditRole(k) ==
  /\ k \in DOMAIN roles /\ roles[k] = "scoped" /\ Budget
  /\ roles' = [roles EXCEPT ![k] = "edited"]
  /\ req' = Cross(req, [cluster |-> k.cluster, namespace |-> k.namespace, name |-> k.name])
  /\ UNCHANGED <<storeVars, users, accounts, bindings>>

EditBinding(k) ==
  /\ k \in DOMAIN bindings /\ bindings[k] = "own" /\ Budget
  /\ bindings' = [bindings EXCEPT ![k] = "edited"]
  /\ req' = Cross(req, [cluster |-> k.cluster, namespace |-> k.namespace, name |-> k.name])
  /\ UNCHANGED <<storeVars, users, accounts, roles>>

UsersStop == users' = Nothing /\ UNCHANGED <<accounts, roles, bindings>>

UserStep(r) ==
  \/ CreateAccount(r) \/ CreateRole(r) \/ CreateBinding(r) \/ OnboardFails(r) \/ Record(r)
  \/ RemoveObject(r) \/ Forget(r)
=============================================================================
