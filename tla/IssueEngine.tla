----------------------------- MODULE IssueEngine -----------------------------
(***************************************************************************)
(* issue.Engine: the one goroutine that refreshes the Issue list, against  *)
(* the watchers that append signals, the anomaly store and the users who   *)
(* set states.  Refresh takes Engine.mu for one map access at a time, so   *)
(* every access is a step of its own.  Issue texts are left out: an Issue  *)
(* keeps the number of the signal it shows.  Time is a number of ticks.    *)
(***************************************************************************)
EXTENDS Integers, Sequences, FiniteSets, Functions, Ring

CONSTANTS
  Object,        \* ConfigMaps and Secrets
  Event,         \* what events tell: a pod and a reason
  IssueEvent,    \* those whose category makes an Issue
  Limit,         \* argument of RecentChanges and Recent (200)
  engineWindow,  \* Engine.dedupWindow (15 minutes)
  eventWindow,   \* how far back events are read (15 minutes)
  gcAge,         \* 6 hours
  maxIssues,     \* Engine.maxItems (2000)
  Minute, Day,   \* ticks in a minute, minutes in a day
  \* of the anomaly store
  Workload, Template, Topic, NoTopic, dedupWindow, groupWindow, maxItems,
  UserState,     \* the states that users set, of silenced, resolved and ignored
  \* bounds
  MaxTime, MaxChanges, MaxEvents, MaxRecords, MaxUpdates

ASSUME EngineAssumption ==
  /\ UserState \subseteq {"silenced", "resolved", "ignored"}
  /\ IssueEvent \subseteq Event
  /\ {Limit, maxIssues, maxItems} \subseteq Nat \ {0}
  /\ engineWindow \in Nat /\ eventWindow \in Nat
  /\ gcAge \in Nat /\ eventWindow <= gcAge /\ engineWindow <= gcAge
  /\ Minute \in Nat \ {0} /\ Day \in Nat \ {0}
  /\ {MaxTime, MaxChanges, MaxEvents, MaxRecords, MaxUpdates} \subseteq Nat

VARIABLES
  now,
  changes,  \* the config changes ever seen, oldest first: [object, when]
  events,   \* the Warning events ever seen, oldest first: [event, lastSeen]
  heap, all, byID, lastSeen, alerts,  \* the anomaly store
  issues,   \* Engine.all: ID -> Issue
  refresh,  \* where Refresh is: phase, its now, signals left to do, Issue in hand
  shown,    \* history: the IDs of the signals this or the last Refresh read
  touched   \* history: issue ID or <<"anomaly", ID>> -> the last state a user set, when

storeVars == <<heap, all, byID, lastSeen, alerts>>
signalVars == <<changes, events>>
vars == <<now, signalVars, storeVars, issues, refresh, shown, touched>>

S == INSTANCE AnomalyStore

None == [id |-> <<>>]
Idle(t) == [phase |-> "idle", at |-> t, todo |-> <<>>, hand |-> None]

Put(f, k, v) == [x \in DOMAIN f \cup {k} |-> IF x = k THEN v ELSE f[x]]

Init ==
  /\ now = 0
  /\ changes = <<>> /\ events = <<>>
  /\ heap = [x \in {} |-> 0] /\ all = <<>> /\ byID = {}
  /\ lastSeen = [x \in {} |-> 0] /\ alerts = <<>>
  /\ issues = [x \in {} |-> 0]
  /\ refresh = Idle(0)
  /\ shown = {}
  /\ touched = [x \in {} |-> 0]

-----------------------------------------------------------------------------
(* The signals, newest first, by number.                                   *)
NewestFirst(n) == [i \in 1..n |-> n + 1 - i]
AtMost(seq) == SubSeq(seq, 1, IF Len(seq) < Limit THEN Len(seq) ELSE Limit)

RecentChanges == AtMost(NewestFirst(Len(changes)))
Recent(since) ==
  LET newest == NewestFirst(Len(events))
  IN AtMost(AtPositions(newest, {i \in DOMAIN newest : events[newest[i]].lastSeen >= since}))

(* The IDs.  A change's has the object and the second, an event's the pod, *)
(* the reason and the time of day to the minute.                           *)
configIssueID(n) == <<"cfg", changes[n].object, changes[n].when>>
eventIssueID(n) ==
  <<"evt", events[n].event, (events[n].lastSeen \div Minute) % Day>>
logIssueID(id) == <<"log", id, 0>>

(* The Issues built from them.                                             *)
buildConfigIssue(n) ==
  [id |-> configIssueID(n), of |-> n, state |-> "active",
   firedAt |-> changes[n].when, updatedAt |-> refresh.at]
buildEventIssue(n) ==
  [id |-> eventIssueID(n), of |-> n, state |-> "active",
   firedAt |-> events[n].lastSeen, updatedAt |-> refresh.at]
logAnomalyToIssue(id) ==
  [id |-> logIssueID(id), of |-> id, state |-> heap[id].state,
   firedAt |-> heap[id].firedAt, updatedAt |-> heap[id].updatedAt]

-----------------------------------------------------------------------------
(* Refresh.                                                                *)
InPhase(phase) == refresh.phase = phase /\ refresh.hand = None
Signal == Head(refresh.todo)
Done == refresh' = [refresh EXCEPT !.todo = Tail(@)]
Hold(issue) == refresh' = [refresh EXCEPT !.todo = Tail(@), !.hand = issue]
Enter(phase, todo) == refresh' = [refresh EXCEPT !.phase = phase, !.todo = todo]

Deduped(id) == id \in DOMAIN issues /\ refresh.at - issues[id].updatedAt < engineWindow

Start ==
  /\ InPhase("idle")
  /\ refresh' = [phase |-> "config", at |-> now, todo |-> RecentChanges, hand |-> None]
  /\ shown' = {configIssueID(n) : n \in Range(RecentChanges)}
  /\ UNCHANGED <<now, signalVars, storeVars, issues, touched>>

\* Mutant: a known change ends the Refresh (return in place of continue).
CheckConfigReturns ==
  /\ InPhase("config") /\ refresh.todo # <<>>
  /\ IF Deduped(configIssueID(Signal)) THEN refresh' = Idle(refresh.at)
     ELSE Hold(buildConfigIssue(Signal))
  /\ UNCHANGED <<now, signalVars, storeVars, issues, shown, touched>>

CheckConfig ==
  /\ InPhase("config") /\ refresh.todo # <<>>
  /\ IF Deduped(configIssueID(Signal)) THEN Done ELSE Hold(buildConfigIssue(Signal))
  /\ UNCHANGED <<now, signalVars, storeVars, issues, shown, touched>>

ReadEvents ==
  /\ InPhase("config") /\ refresh.todo = <<>>
  /\ LET recent == Recent(refresh.at - eventWindow) IN
       /\ Enter("events", recent)
       /\ shown' = shown \cup {eventIssueID(n) :
                       n \in {m \in Range(recent) : events[m].event \in IssueEvent}}
  /\ UNCHANGED <<now, signalVars, storeVars, issues, touched>>

\* An event of a known Issue only moves its time, in a step of its own and
\* without the lock; one whose category makes no Issue is passed over.
CheckEvent ==
  /\ InPhase("events") /\ refresh.todo # <<>>
  /\ IF events[Signal].event \notin IssueEvent THEN Done
     ELSE IF Deduped(eventIssueID(Signal))
       THEN refresh' = [refresh EXCEPT !.phase = "bump"]
     ELSE Hold(buildEventIssue(Signal))
  /\ UNCHANGED <<now, signalVars, storeVars, issues, shown, touched>>

BumpEvent ==
  /\ InPhase("bump")
  /\ issues' = [issues EXCEPT ![eventIssueID(Signal)].updatedAt = events[Signal].lastSeen]
  /\ Enter("events", Tail(refresh.todo))
  /\ UNCHANGED <<now, signalVars, storeVars, shown, touched>>

ReadAnomalies ==
  /\ InPhase("events") /\ refresh.todo = <<>>
  /\ Enter("log", S!All)
  /\ shown' = shown \cup {logIssueID(id) : id \in Range(S!All)}
  /\ UNCHANGED <<now, signalVars, storeVars, issues, touched>>

\* Mutant: the mirror is rebuilt although it exists.
CheckAnomalyRebuilds ==
  /\ InPhase("log") /\ refresh.todo # <<>>
  /\ Hold(logAnomalyToIssue(Signal))
  /\ UNCHANGED <<now, signalVars, storeVars, issues, shown, touched>>

CheckAnomaly ==
  /\ InPhase("log") /\ refresh.todo # <<>>
  /\ IF logIssueID(Signal) \in DOMAIN issues THEN Done ELSE Hold(logAnomalyToIssue(Signal))
  /\ UNCHANGED <<now, signalVars, storeVars, issues, shown, touched>>

put ==
  /\ refresh.hand # None
  /\ issues' = Put(issues, refresh.hand.id, refresh.hand)
  /\ refresh' = [refresh EXCEPT !.hand = None]
  /\ UNCHANGED <<now, signalVars, storeVars, shown, touched>>

\* Mutant: an Issue updated exactly at the cutoff is dropped.
YoungAtCutoff == {id \in DOMAIN issues : issues[id].updatedAt > refresh.at - gcAge}

\* What GC may leave: nothing last updated before the cutoff, and when that
\* is too much the maxIssues newest, ties in any order.
Young == {id \in DOMAIN issues : issues[id].updatedAt >= refresh.at - gcAge}

Kept ==
  IF Cardinality(Young) <= maxIssues THEN {Young}
  ELSE {kept \in SUBSET Young :
          /\ Cardinality(kept) = maxIssues
          /\ \A id \in kept, dropped \in Young \ kept :
               issues[id].updatedAt >= issues[dropped].updatedAt}

GC ==
  /\ InPhase("log") /\ refresh.todo = <<>>
  /\ \E kept \in Kept : issues' = [id \in kept |-> issues[id]]
  /\ refresh' = Idle(refresh.at)
  /\ UNCHANGED <<now, signalVars, storeVars, shown, touched>>

Refresh ==
  \/ Start \/ CheckConfig \/ ReadEvents \/ CheckEvent \/ BumpEvent
  \/ ReadAnomalies \/ CheckAnomaly \/ put \/ GC

-----------------------------------------------------------------------------
(* The API: a user silences, resolves or ignores an Issue or an anomaly.   *)
SetState(id, state) ==
  /\ id \in DOMAIN issues
  /\ issues' = [issues EXCEPT ![id].state = state, ![id].updatedAt = now]
  /\ touched' = Put(touched, id, [state |-> state, at |-> now])
  /\ UNCHANGED <<now, signalVars, storeVars, refresh, shown>>

SetAnomalyState(id, state) ==
  /\ S!SetState(id, state)
  /\ touched' = Put(touched, <<"anomaly", id>>, [state |-> state, at |-> now])
  /\ UNCHANGED <<now, signalVars, issues, refresh, shown>>

(* The watchers and the ingest handler.                                    *)
ConfigChange(object) ==
  /\ Len(changes) < MaxChanges
  /\ changes' = Append(changes, [object |-> object, when |-> now])
  /\ UNCHANGED <<now, events, storeVars, issues, refresh, shown, touched>>

\* The API server's LastTimestamp may lie in the past: a resync repeats
\* events and a new watch replays them.
onEvent(event, when) ==
  /\ Len(events) < MaxEvents
  /\ events' = Append(events, [event |-> event, lastSeen |-> when])
  /\ UNCHANGED <<now, changes, storeVars, issues, refresh, shown, touched>>

RecordAnomaly(w, t) ==
  /\ Cardinality(DOMAIN heap) < MaxRecords
  /\ S!Record([id |-> Cardinality(DOMAIN heap) + 1, workload |-> w, template |-> t,
               topic |-> NoTopic, severity |-> "low", firedAt |-> now, affectedPods |-> 1])
  /\ UNCHANGED <<now, signalVars, issues, refresh, shown, touched>>

Tick ==
  /\ now < MaxTime
  /\ now' = now + 1
  /\ UNCHANGED <<signalVars, storeVars, issues, refresh, shown, touched>>

UserActs ==
  /\ Cardinality(DOMAIN touched) < MaxUpdates
  /\ \E state \in UserState :
       \/ \E id \in DOMAIN issues : SetState(id, state)
       \/ \E id \in byID : SetAnomalyState(id, state)

SignalArrives ==
  \/ \E object \in Object : ConfigChange(object)
  \/ \E event \in Event, when \in 0..now : onEvent(event, when)
  \/ \E w \in Workload, t \in Template : RecordAnomaly(w, t)

Next == Refresh \/ UserActs \/ SignalArrives \/ Tick

Spec == Init /\ [][Next]_vars /\ WF_vars(Refresh)

-----------------------------------------------------------------------------

Full == Cardinality(DOMAIN issues) = maxIssues

(* "so the dashboard's single Issues list is complete": when a Refresh is  *)
(* done, every signal it read is on the list, except where the list is at  *)
(* its limit or the anomaly fired before the 6-hour cutoff.                *)
RefreshComplete ==
  refresh.phase = "idle" =>
    \A id \in shown \ DOMAIN issues :
      Full \/ (id[1] = "log" /\ heap[id[2]].firedAt < refresh.at - gcAge)

(* As long as a log issue stays listed only a user changes its state,      *)
(* however refreshes and user actions interleave.                          *)
LogStateIsTheUsers ==
  [][ \A id \in DOMAIN issues \cap DOMAIN issues' :
        (id[1] = "log" /\ issues'[id].state # issues[id].state) =>
          \E state \in UserState : SetState(id, state) ]_vars

(* Every config change among the newest Limit and every anomaly still      *)
(* stored eventually has its issue: the refresher never stops or gets      *)
(* stuck half way.                                                         *)
SignalsSurface ==
  /\ \A n \in 1..MaxChanges :
       n \in DOMAIN changes ~>
         /\ n \in DOMAIN changes
         /\ configIssueID(n) \in DOMAIN issues \/ Len(changes) - n >= Limit
  /\ \A id \in 1..MaxRecords :
       id \in byID ~> logIssueID(id) \in DOMAIN issues \/ id \notin byID

=============================================================================
