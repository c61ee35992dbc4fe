--------------------------- MODULE ConfigWatcher ---------------------------
(***************************************************************************)
(* k8s.ConfigWatcher: the last snapshot of each ConfigMap and Secret, and  *)
(* the history of their changes.  Two informers, one per kind, call it.    *)
(* Data is a function from keys to values; Absent stands for no such key.  *)
(***************************************************************************)
EXTENDS Naturals, Sequences, Ring

CONSTANTS
  Config,      \* the ConfigMaps and Secrets
  KindOf,      \* object -> "ConfigMap" or "Secret"
  Skipped,     \* the Secrets of kinds and names onSecretAdd passes over
  Key, Value,  \* keys and values, among them:
  Absent,      \* no such key
  EmptyValue,  \* the empty string
  Malformed,   \* values that begin like JSON and do not parse
  maxHist,     \* length of the history (500)
  NoConfig     \* no snapshot

ASSUME ConfigAssumption ==
  /\ EmptyValue \in Value /\ Malformed \subseteq Value \ {EmptyValue}
  /\ Absent \notin Value /\ maxHist \in Nat \ {0} /\ NoConfig \notin Config
  /\ KindOf \in [Config -> {"ConfigMap", "Secret"}]

VARIABLES
  last,      \* object -> its data, or NoConfig
  history,   \* the changes, oldest first
  applying   \* kind -> the change its informer is recording, or NoConfig

configVars == <<last, history, applying>>

Data == [Key -> Value \cup {Absent}]

ConfigInit ==
  /\ last = [c \in Config |-> NoConfig]
  /\ history = <<>>
  /\ applying = [k \in {"ConfigMap", "Secret"} |-> NoConfig]

\* diffKeys for one key.
changeType(old, new) ==
  IF old = new THEN "none"
  ELSE IF new = Absent THEN "removed"
  ELSE IF old = EmptyValue THEN "from_empty"
  ELSE IF new = EmptyValue THEN "became_empty"
  ELSE IF new \in Malformed THEN "malformed_json"
  ELSE IF old = Absent THEN "added"
  ELSE "value_changed"

diffKeys(old, new) ==
  {[key |-> k, type |-> changeType(old[k], new[k])] :
     k \in {k \in Key : changeType(old[k], new[k]) # "none"}}

\* Mutant: the first snapshot is what later ones are compared with.
NextSnapshotKept(c, data) == IF last[c] = NoConfig THEN data ELSE last[c]

NextSnapshot(c, data) == data

\* The first snapshot, and one with the same content, is no change.
IsChange(c, data) == last[c] \notin {NoConfig, data}

\* applySnapshot, first section: the snapshot is replaced.
applySnapshot(c, data) ==
  LET k == KindOf[c] IN
  /\ applying[k] = NoConfig
  /\ IF c \in Skipped THEN UNCHANGED <<last, applying>>
     ELSE /\ last' = [last EXCEPT ![c] = NextSnapshot(c, data)]
          /\ applying' = IF IsChange(c, data)
                         THEN [applying EXCEPT ![k] = [config |-> c, from |-> last[c],
                                                       to |-> data, by |-> NoConfig]]
                         ELSE applying
  /\ UNCHANGED history

\* Who mounts it, under the cache's lock.
Attribute(k, mounters) ==
  /\ applying[k] # NoConfig /\ applying[k].by = NoConfig
  /\ applying' = [applying EXCEPT ![k].by = mounters]
  /\ UNCHANGED <<last, history>>

\* Last section: the change enters the history.
AppendChange(k) ==
  /\ applying[k] # NoConfig /\ applying[k].by # NoConfig
  /\ history' = Push(history, applying[k], maxHist)
  /\ applying' = [applying EXCEPT ![k] = NoConfig]
  /\ UNCHANGED last
=============================================================================
