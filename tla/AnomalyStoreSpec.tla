-------------------------- MODULE AnomalyStoreSpec --------------------------
(***************************************************************************)
(* The store with any callers: anomalies are recorded up to MaxLag after   *)
(* they fired (FiredAt is read before Store.mu is taken), pods are bumped  *)
(* and users act on cards.                                                 *)
(***************************************************************************)
EXTENDS AnomalyStore

CONSTANTS
  Error,        \* the <<template, topic>> pairs that occur
  Severity,     \* the severity scoreSeverity gives the anomalies of a template
  MaxPods,      \* bound on the pod counts of BumpPods
  MaxLag,       \* bound on the minutes from an anomaly's firing to Record
  MaxRecords,   \* bound on the calls of Record
  MaxUpdates,   \* bound on the calls of BumpPods and SetState
  MaxTime       \* bound on the clock

ASSUME BoundsAssumption ==
  /\ Error \subseteq Template \X Topic
  /\ Severity \in [Template -> {"low", "medium", "high", "critical"}]
  /\ MaxPods \in Nat
  /\ MaxLag \in Nat /\ MaxRecords \in Nat /\ MaxUpdates \in Nat /\ MaxTime \in Nat

VARIABLES
  records,  \* history: calls of Record so far; anomaly IDs are distinct
  updates   \* history: calls of BumpPods and SetState so far

vars == <<now, storeVars, records, updates>>

\* A template fires with its first line, so with one pod.
RecordSome ==
  /\ records < MaxRecords
  /\ records' = records + 1
  /\ \E w \in Workload, e \in Error, lag \in 0..MaxLag :
       /\ lag <= now
       /\ Record([id |-> records + 1, workload |-> w, template |-> e[1], topic |-> e[2],
                  severity |-> Severity[e[1]], firedAt |-> now - lag, affectedPods |-> 1])
  /\ UNCHANGED <<now, updates>>

BumpSome ==
  /\ updates < MaxUpdates
  /\ updates' = updates + 1
  /\ \E w \in Workload, t \in Template, count \in 2..MaxPods : BumpPods(w, t, count)
  /\ UNCHANGED <<now, records>>

SetSome ==
  /\ updates < MaxUpdates
  /\ updates' = updates + 1
  /\ \E id \in byID, state \in State \ {"active"} : SetState(id, state)
  /\ UNCHANGED <<now, records>>

Tick == now < MaxTime /\ now' = now + 1 /\ UNCHANGED <<storeVars, records, updates>>

SpecInit == Init /\ records = 0 /\ updates = 0
Next == RecordSome \/ BumpSome \/ SetSome \/ Tick
Spec == SpecInit /\ [][Next]_vars

-----------------------------------------------------------------------------

Evicted(id) == id \notin byID

(* The two indexes of the store agree through every insertion and          *)
(* eviction, and it never holds more than maxItems: a card the dashboard   *)
(* lists can always be silenced, and one it cannot list is gone for good.  *)
IndexesAgree ==
  /\ byID = {all[i] : i \in DOMAIN all}
  /\ Len(all) = Cardinality(byID)
  /\ Len(all) <= maxItems

(* "Dedup: identical (workload, kind, template) within 15 minutes": no two *)
(* alerts of one template within dedupWindow of the first's firing, as     *)
(* long as its card is there to absorb the second.                         *)
NoRepeatedAlert ==
  \A i, j \in DOMAIN alerts :
    LET first == heap[alerts[i].id]
        again == heap[alerts[j].id]
    IN (i < j /\ first.workload = again.workload /\ first.template = again.template
          /\ alerts[j].at - first.firedAt < dedupWindow)
       => Evicted(alerts[i].id)

\* Cards i and j of one topic, j alerted at most groupWindow after i fired.
SplitTopic(i, j) ==
  /\ i < j
  /\ At(i).workload = At(j).workload
  /\ At(i).topic = At(j).topic /\ At(i).topic # NoTopic
  /\ \E k \in DOMAIN alerts :
       alerts[k].id = all[j] /\ alerts[k].at - At(i).firedAt <= groupWindow

(* The same where the cards from the first on stand in the order they      *)
(* fired in, through evictions and whatever the variants' templates are.   *)
OneCardPerTopicInOrder ==
  \A i, j \in DOMAIN all :
    SplitTopic(i, j) => \E k \in i..j : At(k).firedAt < At(i).firedAt

(* A card only ever gains: pods and variants grow, and neither absorbing a *)
(* repeat or a variant nor a bump takes back what the user did to it.      *)
Gains(old, new) ==
  /\ old.affectedPods <= new.affectedPods
  /\ old.variants \subseteq new.variants
  /\ (records' # records \/ new.affectedPods # old.affectedPods) => new.state = old.state

CardsOnlyGain == [][\A id \in DOMAIN heap : Gains(heap[id], heap'[id])]_vars
=============================================================================
