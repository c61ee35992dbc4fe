----------------------------- MODULE MCWatchers -----------------------------
(* One pod of the first of two ReplicaSets of one Deployment, a ConfigMap  *)
(* it mounts and a Secret, two Warning events and one that is not.         *)
EXTENDS Watchers

CONSTANTS p1, r1, r2, deploy, cm, sec, e1, e2, e3, alice, controller, key, empty

MCOwnerOf   == p1 :> r1
MCParentOf  == r1 :> deploy @@ r2 :> deploy
MCCreatedAt == r1 :> 1 @@ r2 :> 2
MCMountsOf  == p1 :> {cm}
MCKindOf    == cm :> "ConfigMap" @@ sec :> "Secret"
MCCategory  == e1 :> "oom" @@ e2 :> "unhealthy" @@ e3 :> "other"
=============================================================================
