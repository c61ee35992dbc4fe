---------------------------- MODULE ControlPlane ----------------------------
(***************************************************************************)
(* pp-detector's control plane: it migrates its database, loads the        *)
(* clusters, and then serves registrations, the /k8s proxy, onboarding and *)
(* logins.  It may stop at any time; another detector may start on the     *)
(* same database while it does, as in a rolling update.                    *)
(***************************************************************************)
EXTENDS ClusterProxy, UserOnboarding, Sessions, Migrations

CONSTANT Main  \* the detector whose requests are modelled

ASSUME MainAssumption == Main \in Process

ownVars == <<storeVars, proxyVars, userVars>>
vars == <<req, ops, ownVars, sessionVars, migrationVars>>

Init ==
  /\ RequestsInit /\ StoreInit /\ ProxyInit /\ UsersInit /\ SessionsInit /\ MigrationsInit

-----------------------------------------------------------------------------
\* The first start is not counted as an operation, a restart is.
Start(p) ==
  /\ BeginMigrate(p)
  /\ IF p = Main THEN UNCHANGED ops ELSE Budget
  /\ UNCHANGED <<req, ownVars, sessionVars>>

MigrateStep(p) ==
  /\ Migrate(p)
  /\ UNCHANGED <<req, ops, ownVars, sessionVars>>

MigrateError(p) ==
  /\ DatabaseError(p)
  /\ UNCHANGED <<req, ops, ownVars, sessionVars>>

\* main: without a migrated database the detector runs in memory.
Serve ==
  /\ \/ migrating[Main].step = "done" /\ LoadAll
     \/ migrating[Main].step = "failed" /\ ServeFromMemory
  /\ UNCHANGED <<req, ops, proxyVars, userVars, sessionVars, migrationVars>>

\* Requests and what is only in memory are gone, the clusters' objects stay.
Stop(p) ==
  /\ Die(p)
  /\ IF p = Main
     THEN /\ Budget /\ req' = [r \in Req |-> NoOp]
          /\ StoreStops /\ ProxyStops /\ UsersStop
     ELSE UNCHANGED <<req, ops, ownVars>>
  /\ UNCHANGED sessionVars

-----------------------------------------------------------------------------
\* A cluster ID a caller can know: of a row there is or was.
Known == DOMAIN born

StoreRequest(r) ==
  /\ \/ \E org \in Org \cup {None}, n \in Name : BeginRegister(r, org, n)
     \/ \E org \in Org \cup {None}, c \in Known : BeginDelete(r, org, c)
     \/ \E c \in Cluster, org \in Org, n \in Name : AgentConnects(r, c, org, n)
  /\ UNCHANGED <<proxyVars, userVars, sessionVars, migrationVars>>

ProxyRequest(r) ==
  /\ \E c \in Known \cup {None} : ServeHTTP(r, c)
  /\ UNCHANGED <<userVars, sessionVars, migrationVars>>

UserRequest(r) ==
  /\ \/ \E c \in Known \cup {Home}, u \in User, ns \in Namespace, s \in Scope : OnboardInCluster(r, c, u, ns, s)
     \/ \E k \in DOMAIN users : BeginRemove(r, k)
  /\ UNCHANGED <<proxyVars, sessionVars, migrationVars>>

Person ==
  /\ (\E k \in DOMAIN roles : EditRole(k)) \/ (\E k \in DOMAIN bindings : EditBinding(k))
  /\ UNCHANGED <<proxyVars, sessionVars, migrationVars>>

\* Only with a database is there a login.
SessionRequest(r) ==
  /\ mode = "db"
  /\ \/ \E o \in Slug, e \in Email : BeginSignup(r, o, e)
     \/ \E e \in Email : BeginLogin(r, e)
     \/ \E t \in Token : BeginResolve(r, t)
  /\ UNCHANGED <<ownVars, migrationVars>>

LogoutRequest ==
  /\ mode = "db" /\ \E t \in Token : Logout(t)
  /\ UNCHANGED <<ownVars, migrationVars>>

Clock == Tick /\ UNCHANGED <<ownVars, migrationVars>>

Step(r) ==
  \/ StoreStep(r) /\ UNCHANGED <<proxyVars, userVars, sessionVars, migrationVars>>
  \/ ProxyStep(r) /\ UNCHANGED <<userVars, sessionVars, migrationVars>>
  \/ UserStep(r) /\ UNCHANGED <<proxyVars, sessionVars, migrationVars>>
  \/ SessionStep(r) /\ UNCHANGED <<ownVars, migrationVars>>

Next ==
  \/ \E p \in Process : Start(p) \/ MigrateStep(p) \/ MigrateError(p) \/ Stop(p)
  \/ Serve \/ Person \/ LogoutRequest \/ Clock
  \/ \E r \in Req : StoreRequest(r) \/ ProxyRequest(r) \/ UserRequest(r) \/ SessionRequest(r) \/ Step(r)

\* A detector that starts goes on; the database answers.
Fairness == \A p \in Process : WF_vars(MigrateStep(p))

Spec == Init /\ [][Next]_vars /\ Fairness

-----------------------------------------------------------------------------

\* db.go:96: "Run inside a tx so a half-applied migration leaves no trace."
\* Two detectors that migrate at once, one that dies, an error at any call:
\* what is applied is recorded, and without gaps.
MigratedInOrder ==
  /\ applied = versions
  /\ \A f \in versions : \A g \in 1..f : g \in versions

\* Detectors that wait for each other's transactions do not wait for ever:
\* one that starts serves, with the database or without, unless it stops.
\* Said of Main; the other detector starts and stops beside it.
StartsUp ==
  migrating[Main].step = "check" ~> migrating[Main].step \in {"done", "failed", "down"}

\* The Store's rows are the table's, but for the requests under way and the
\* calls of the database that failed after they took effect (a restart puts
\* those right) or whose refresh overtook a deletion.  Credentials are never
\* kept for a cluster that is not listed.
CacheFollowsTable ==
  /\ configs \subseteq DOMAIN rows
  /\ mode = "db" =>
       \A c \in (DOMAIN rows \ DOMAIN table) \cup (DOMAIN table \ DOMAIN rows) :
         c \in unsure \/ \E r \in Req : req[r].op \in {"register", "delete", "refresh"} /\ req[r].cluster = c

\* Whatever requests meet a cluster that is not in memory yet, or not any
\* more, a cached proxy is of the mode the cluster was created with: traffic
\* for a tunnel never goes to a kubeconfig's server, nor the other way round.
ProxyIsOfItsCluster ==
  \A c \in DOMAIN proxies : proxies[c] = born[c].mode

\* An onboarding about to be recorded left an account in its cluster, a role
\* with the rules of its scope, and a binding of that name, whatever failed
\* attempts and edits left there before; unless somebody removed or edited
\* the same objects meanwhile.  Of whom a binding is that was there already
\* is not part of it: Onboard leaves it as it is (users.go:177).
OnboardedHasRole ==
  \A r \in Req :
    In(r, "onboard", "record") /\ ~req[r].crossed =>
      /\ Account(req[r]) \in accounts
      /\ Role(req[r]) \in DOMAIN roles \cap DOMAIN bindings /\ roles[Role(req[r])] = "scoped"

\* A session that was logged out or found expired stays over, whatever
\* requests were using it meanwhile.
EndedStaysEnded == ended \cap DOMAIN sessions = {}

\* Every organization has the admin it was created with, and an e-mail
\* belongs to an organization there is, whichever call of a signup fails.
OrgHasAdmin == orgs = {admins[e] : e \in DOMAIN admins}
=============================================================================
