---------------------------- MODULE AuditWatcher ----------------------------
(***************************************************************************)
(* k8s.AuditWatcher: who changed what, told from the managed fields of the *)
(* objects.  An object is [version, managers, created]: its managers are a *)
(* sequence of [name, time, fields], in the order the API server keeps.    *)
(***************************************************************************)
EXTENDS Naturals, Sequences, SequencesExt, Ring

CONSTANTS
  Object,      \* the audited objects
  Manager,     \* field managers
  User,        \* the managers classifyManager takes for people
  AuditKind,   \* object -> "Deployment", "ConfigMap", "Secret"...
  TooNoisy,    \* objects with auto-managed names
  maxEvents    \* length of the ring (2000)

ASSUME AuditAssumption ==
  User \subseteq Manager /\ TooNoisy \subseteq Object /\ maxEvents \in Nat \ {0}

VARIABLE events  \* the ring, oldest first

AuditInit == events = <<>>

\* Mutant: the last entry of the list.
newestLast(ms) == Last(ms)

\* The first of the entries with the latest time.
newest(ms) ==
  ms[SelectInSeq(ms, LAMBDA e : \A f \in ToSet(ms) : e.time >= f.time)]

actor(o) == IF o.managers = <<>> THEN "system" ELSE newest(o.managers).name

IsUser(o) == actor(o) \in User

\* The fields of the newest entry that has some.
changedFields(o) ==
  LET ms == AtPositions(o.managers, {i \in DOMAIN o.managers : o.managers[i].fields # {}}) IN
  IF ms = <<>> THEN {} ELSE newest(ms).fields

riskFor(kind, fields) ==
  IF \/ kind \in {"Deployment", "StatefulSet", "DaemonSet"} /\ "spec" \in fields
     \/ kind = "Secret" /\ fields \cap {"spec", "data"} # {} THEN "high"
  ELSE IF kind = "ConfigMap" /\ fields \cap {"spec", "data"} # {} THEN "medium"
  ELSE "info"

append(e) == events' = Push(events, e, maxEvents)

Entry(x, o, action, when, risk) ==
  [object |-> x, version |-> o.version, actor |-> actor(o), action |-> action,
   when |-> when, risk |-> risk]

\* Creation by people only; at start-up for every object there is.
recordCreate(x, o) ==
  IF IsUser(o) /\ x \notin TooNoisy
  THEN append(Entry(x, o, "create", o.created, "medium")) ELSE UNCHANGED events

Changed(old, new) == old.version # new.version

\* Updates by anyone, controllers as well.
recordUpdate(x, old, new, now) ==
  IF Changed(old, new) /\ x \notin TooNoisy
  THEN append(Entry(x, new, "update", now, riskFor(AuditKind[x], changedFields(new)))) ELSE UNCHANGED events

\* A deletion is put down to whoever wrote the object last.
recordDelete(x, o, now) ==
  IF IsUser(o) /\ x \notin TooNoisy
  THEN append(Entry(x, o, "delete", now, "high")) ELSE UNCHANGED events

\* Query: newest arrival first, up to limit; onlyHumans leaves controllers out.
Query(limit, onlyHumans) ==
  LET newestFirst == Reverse(events)
      found == AtPositions(newestFirst, {i \in DOMAIN newestFirst : ~onlyHumans \/ newestFirst[i].actor \in User}) IN
  SubSeq(found, 1, IF Len(found) < limit THEN Len(found) ELSE limit)
=============================================================================
