---------------------------- MODULE AnomalyStore ----------------------------
(***************************************************************************)
(* anomaly.Store: dedup, variant grouping, eviction and the user's card    *)
(* states.  Every operation runs under Store.mu and is one action.  Only   *)
(* new-template anomalies are ever recorded, so the kind is left out, and  *)
(* an anomaly carries its errorTopic instead of the text it is derived     *)
(* from.  Time is a number of minutes.                                     *)
(***************************************************************************)
EXTENDS Integers, Sequences, FiniteSets

CONSTANTS
  Workload, Template,
  Topic,         \* the results of errorTopic, NoTopic included
  NoTopic,       \* "", the topic of what no pattern matches
  dedupWindow,   \* 15 minutes
  groupWindow,   \* 10 minutes
  maxItems       \* Store.maxItems (1000 in the detector)

ASSUME StoreAssumption ==
  /\ NoTopic \in Topic
  /\ dedupWindow \in Nat /\ groupWindow \in Nat
  /\ maxItems \in Nat \ {0}

VARIABLES
  now,       \* time.Now()
  heap,      \* the Stored values ever allocated, by anomaly ID (the card of Insert)
  all,       \* Store.all: their IDs, oldest first
  byID,      \* the IDs Store.byID has an entry for
  lastSeen,  \* Store.lastSeen: <<workload, template>> -> FiredAt
  alerts     \* history: the IDs Record called fresh, with the time of the call

storeVars == <<heap, all, byID, lastSeen, alerts>>

State == {"active", "silenced", "resolved", "ignored"}

-----------------------------------------------------------------------------
Latest(S) == CHOOSE i \in S : \A j \in S : j <= i

At(i) == heap[all[i]]

\* Mutant: the window the wrong way round.
DedupMatchesLate(a) ==
  LET key == <<a.workload, a.template>> IN
  IF key \in DOMAIN lastSeen /\ now - lastSeen[key] >= dedupWindow
  THEN {i \in DOMAIN all : /\ At(i).workload = a.workload
                           /\ At(i).template = a.template}
  ELSE {}

\* 1. Dedup: the stored anomalies of this workload and template, when one
\* was seen less than dedupWindow ago.
DedupMatches(a) ==
  LET key == <<a.workload, a.template>> IN
  IF key \in DOMAIN lastSeen /\ now - lastSeen[key] < dedupWindow
  THEN {i \in DOMAIN all : /\ At(i).workload = a.workload
                           /\ At(i).template = a.template}
  ELSE {}

\* Mutant: the walk stops one minute early.
WalkedShort(i) == \A j \in i..Len(all) : now - At(j).firedAt < groupWindow

\* 2. Grouping walks from the newest and stops at the first entry that fired
\* longer than groupWindow ago.
Walked(i) == \A j \in i..Len(all) : now - At(j).firedAt <= groupWindow

\* Mutant: the topic alone groups, across workloads.
GroupMatchesAnywhere(a) ==
  {i \in DOMAIN all : /\ Walked(i)
                      /\ At(i).topic = a.topic /\ a.topic # NoTopic}

GroupMatches(a) ==
  {i \in DOMAIN all : /\ Walked(i)
                      /\ At(i).workload = a.workload
                      /\ At(i).topic = a.topic /\ a.topic # NoTopic}

\* What Record returns: the ID of the canonical anomaly, and shouldAlert.
Matches(a) == IF DedupMatches(a) # {} THEN DedupMatches(a) ELSE GroupMatches(a)
Fresh(a) == Matches(a) = {}
StoredID(a) == IF Fresh(a) THEN a.id ELSE all[Latest(Matches(a))]

-----------------------------------------------------------------------------
Init ==
  /\ now = 0
  /\ heap = [id \in {} |-> 0]
  /\ all = <<>> /\ byID = {}
  /\ lastSeen = [k \in {} |-> 0]
  /\ alerts = <<>>

MarkSeen(a) ==
  LET key == <<a.workload, a.template>> IN
  lastSeen' = [k \in DOMAIN lastSeen \cup {key} |->
                 IF k = key THEN a.firedAt ELSE lastSeen[k]]

Dedup(a) ==
  /\ DedupMatches(a) # {}
  /\ heap' = [heap EXCEPT ![StoredID(a)].updatedAt = a.firedAt]
  /\ UNCHANGED <<all, byID, lastSeen, alerts>>

\* Mutant: the card notes the topic in place of the variant's template.
GroupTopic(a) ==
  /\ DedupMatches(a) = {} /\ GroupMatches(a) # {}
  /\ MarkSeen(a)
  /\ heap' = [heap EXCEPT ![StoredID(a)].variants = @ \cup {a.topic},
                          ![StoredID(a)].updatedAt = a.firedAt]
  /\ UNCHANGED <<all, byID, alerts>>

\* Mutant: the card shows the pods of its last variant, not the most seen.
GroupLastPods(a) ==
  /\ DedupMatches(a) = {} /\ GroupMatches(a) # {}
  /\ MarkSeen(a)
  /\ heap' = [heap EXCEPT ![StoredID(a)].variants = @ \cup {a.template},
                          ![StoredID(a)].updatedAt = a.firedAt,
                          ![StoredID(a)].affectedPods = a.affectedPods]
  /\ UNCHANGED <<all, byID, alerts>>

Group(a) ==
  LET card == heap[StoredID(a)] IN
  /\ DedupMatches(a) = {} /\ GroupMatches(a) # {}
  /\ MarkSeen(a)
  /\ heap' = [heap EXCEPT ![StoredID(a)] =
       [card EXCEPT !.variants = @ \cup ({a.template} \ {card.template}),
                    !.updatedAt = a.firedAt,
                    !.affectedPods = IF a.affectedPods > @ THEN a.affectedPods ELSE @]]
  /\ UNCHANGED <<all, byID, alerts>>

\* Mutant: the evicted card keeps its entry in byID.
InsertLeaks(a) ==
  LET full == Len(all) >= maxItems
      card == [workload |-> a.workload, template |-> a.template, topic |-> a.topic,
               severity |-> a.severity, firedAt |-> a.firedAt,
               affectedPods |-> a.affectedPods, variants |-> {},
               state |-> "active", updatedAt |-> a.firedAt]
  IN /\ Fresh(a)
     /\ MarkSeen(a)
     /\ heap' = [id \in DOMAIN heap \cup {a.id} |-> IF id = a.id THEN card ELSE heap[id]]
     /\ all' = Append(IF full THEN Tail(all) ELSE all, a.id)
     /\ byID' = byID \cup {a.id}
     /\ alerts' = Append(alerts, [id |-> a.id, at |-> now])

Insert(a) ==
  LET full == Len(all) >= maxItems
      card == [workload |-> a.workload, template |-> a.template, topic |-> a.topic,
               severity |-> a.severity, firedAt |-> a.firedAt,
               affectedPods |-> a.affectedPods, variants |-> {},
               state |-> "active", updatedAt |-> a.firedAt]
  IN /\ Fresh(a)
     /\ MarkSeen(a)
     /\ heap' = [id \in DOMAIN heap \cup {a.id} |-> IF id = a.id THEN card ELSE heap[id]]
     /\ all' = Append(IF full THEN Tail(all) ELSE all, a.id)
     /\ byID' = (IF full THEN byID \ {Head(all)} ELSE byID) \cup {a.id}
     /\ alerts' = Append(alerts, [id |-> a.id, at |-> now])

Record(a) == Dedup(a) \/ Group(a) \/ Insert(a)

\* The most recent anomaly of the workload and template, whatever its state.
BumpPods(w, template, count) ==
  LET found == {i \in DOMAIN all : At(i).workload = w /\ At(i).template = template}
      id    == all[Latest(found)]
  IN /\ heap' = IF found # {} /\ count > heap[id].affectedPods
                THEN [heap EXCEPT ![id].affectedPods = count, ![id].updatedAt = now]
                ELSE heap
     /\ UNCHANGED <<all, byID, lastSeen, alerts>>

SetState(id, state) ==
  /\ id \in byID
  /\ heap' = [heap EXCEPT ![id].state = state, ![id].updatedAt = now]
  /\ UNCHANGED <<all, byID, lastSeen, alerts>>

\* All returns the store's IDs newest first.
All == [i \in DOMAIN all |-> all[Len(all) + 1 - i]]
=============================================================================
