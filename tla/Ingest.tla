------------------------------- MODULE Ingest -------------------------------
(***************************************************************************)
(* Server.handleIngest: the requests that run concurrently over one        *)
(* Detector and one Store.  A request works through its lines; between two *)
(* steps of it, each of which holds one lock, any other request may run.   *)
(* Lines are as enrich leaves them.                                        *)
(***************************************************************************)
EXTENDS Integers, Sequences, FiniteSets

CONSTANTS
  \* of the detector
  Token, VariableToken, Wildcard, MaxDepth, MaxChildren, SimNum, SimDen,
  Workload, Pod, Digest, None, Message, MinHistory, MinLines,
  PodRetention, HitRetention, Line, MaxTime, MaxLines,
  \* of the store
  Topic, NoTopic, dedupWindow, groupWindow, maxItems,
  \* of the handler
  Request,       \* the requests
  Batch,         \* the batches they carry, sequences of lines
  errorTopic,    \* message -> topic of its template and sample
  SpreadWindow,  \* how far back scoreSeverity looks (60 seconds)
  Critical       \* other workloads that make it critical (3)

ASSUME IngestAssumption ==
  /\ Batch \subseteq Seq(Line)
  /\ errorTopic \in [Message -> Topic]
  /\ SpreadWindow \in Nat /\ Critical \in Nat \ {0}

VARIABLES
  now,
  baselines, pods, hits, seen, fired,     \* the Detector
  heap, all, byID, lastSeen, alerts,      \* the Store
  req,   \* request -> where it is: step, lines left, and its local variables
  sent   \* history: the alerts handed to the dispatcher, in order

detectorVars == <<baselines, pods, hits, seen, fired>>
storeVars == <<heap, all, byID, lastSeen, alerts>>
vars == <<now, detectorVars, storeVars, req, sent>>

D == INSTANCE Detector
S == INSTANCE AnomalyStore WITH Template <- Seq(D!Word)

ASSUME PartsAssumption ==
  D!DrainAssumption /\ D!DetectorAssumption /\ S!StoreAssumption

Idle == [step |-> "idle"]

\* The request after it is done with the current line.
NextLine(r) ==
  LET rest == Tail(req[r].lines) IN
  IF rest = <<>> THEN Idle ELSE [step |-> "observe", lines |-> rest]

Move(r, local) == req' = [req EXCEPT ![r] = local]
Continue(r, step, local) == Move(r, [step |-> step, lines |-> req[r].lines, local |-> local])

Init ==
  /\ now = 0
  /\ D!Init /\ S!Init
  /\ req = [r \in Request |-> Idle]
  /\ sent = <<>>

-----------------------------------------------------------------------------
Post(r) ==
  /\ req[r] = Idle
  /\ \E batch \in Batch :
       /\ batch # <<>>
       /\ Len(seen) + Len(batch) <= MaxLines
       /\ Move(r, [step |-> "observe", lines |-> batch])
  /\ UNCHANGED <<now, detectorVars, storeVars, sent>>

\* scoreSeverity: the other workloads with an anomaly in the last minute.
\* The walk, newest first, stops at the first of another workload that is
\* older; entries of the own workload are passed over before that test.
\* All workloads are in one namespace here.
Spread(w) ==
  {heap[all[i]].workload : i \in {j \in DOMAIN all :
     \A k \in j..Len(all) :
       heap[all[k]].workload = w \/ now - heap[all[k]].firedAt <= SpreadWindow}} \ {w}

scoreSeverity(w, affectedPods) ==
  LET spread == Cardinality(Spread(w)) IN
  IF spread >= Critical THEN "critical"
  ELSE IF spread >= 1 \/ affectedPods >= 5 THEN "high"
  ELSE IF affectedPods >= 2 THEN "medium"
  ELSE "low"

Observe(r) ==
  LET line  == Head(req[r].lines)
      mined == D!Templated(line.msg.sev) /\ line.msg.words # <<>>
  IN
  /\ req[r].step = "observe"
  /\ D!Observe(line)
  /\ IF mined /\ ~D!NewCluster(line)
       THEN Continue(r, "count", [workload |-> line.workload,
                                  template |-> D!TemplateText(line)])
     ELSE IF D!Fires(line)
       THEN Continue(r, "score", [anomaly |-> D!Anomaly(line), id |-> Len(fired) + 1,
                                  topic |-> errorTopic[line.msg]])
     ELSE Move(r, NextLine(r))
  /\ UNCHANGED <<now, storeVars, sent>>

\* Detector.PodCount, a critical section of its own.
CountPods(r) ==
  /\ req[r].step = "count"
  /\ \E count \in D!PodCounts(req[r].local.workload, req[r].local.template) :
       IF count > 1
       THEN Continue(r, "bump", [workload |-> req[r].local.workload,
                                 template |-> req[r].local.template, count |-> count])
       ELSE Move(r, NextLine(r))
  /\ UNCHANGED <<now, detectorVars, storeVars, sent>>

Bump(r) ==
  /\ req[r].step = "bump"
  /\ S!BumpPods(req[r].local.workload, req[r].local.template, req[r].local.count)
  /\ Move(r, NextLine(r))
  /\ UNCHANGED <<now, detectorVars, sent>>

\* Severity; rca.Fill and the Before/After panel only add text and counts to
\* the anomaly.
Score(r) ==
  LET a == req[r].local.anomaly IN
  /\ req[r].step = "score"
  /\ Continue(r, "record",
       [id |-> req[r].local.id, workload |-> a.workload, template |-> a.template,
        topic |-> req[r].local.topic, firedAt |-> a.firedAt,
        affectedPods |-> a.affectedPods,
        severity |-> scoreSeverity(a.workload, a.affectedPods)])
  /\ UNCHANGED <<now, detectorVars, storeVars, sent>>

\* Mutant: shouldAlert is ignored.
RecordAlwaysAlerts(r) ==
  LET a == req[r].local IN
  /\ req[r].step = "record"
  /\ S!Record(a)
  /\ Continue(r, "dispatch", [id |-> S!StoredID(a)])
  /\ UNCHANGED <<now, detectorVars, sent>>

Record(r) ==
  LET a == req[r].local IN
  /\ req[r].step = "record"
  /\ S!Record(a)
  /\ IF S!Fresh(a) THEN Continue(r, "dispatch", [id |-> S!StoredID(a)])
                   ELSE Move(r, NextLine(r))
  /\ UNCHANGED <<now, detectorVars, sent>>

\* The card is copied, after Store.mu was released, for the goroutine that
\* hands it to every sink.
Dispatch(r) ==
  LET id == req[r].local.id IN
  /\ req[r].step = "dispatch"
  /\ sent' = Append(sent, [id |-> id, severity |-> heap[id].severity,
                           affectedPods |-> heap[id].affectedPods])
  /\ Move(r, NextLine(r))
  /\ UNCHANGED <<now, detectorVars, storeVars>>

Tick ==
  /\ now < MaxTime
  /\ now' = now + 1
  /\ UNCHANGED <<detectorVars, storeVars, req, sent>>

Handle(r) ==
  Observe(r) \/ CountPods(r) \/ Bump(r) \/ Score(r) \/ Record(r) \/ Dispatch(r)

Next == Tick \/ \E r \in Request : Post(r) \/ Handle(r)

Spec == Init /\ [][Next]_vars

-----------------------------------------------------------------------------

InFlight(step) == {r \in Request : req[r].step = step}

(* Every new card is alerted exactly once, however requests interleave:    *)
(* what Record called fresh has been handed to the dispatcher or is about  *)
(* to be, by exactly one request, and nothing else ever is.                *)
AlertedExactlyOnce ==
  LET due == {alerts[i].id : i \in DOMAIN alerts}
      out == {sent[i].id : i \in DOMAIN sent}
      pending == {req[r].local.id : r \in InFlight("dispatch")}
  IN /\ due = out \cup pending /\ out \cap pending = {}
     /\ Len(sent) = Cardinality(out)
     /\ Cardinality(pending) = Cardinality(InFlight("dispatch"))

(* No anomaly is lost: each one the detector returned is on its way to     *)
(* Record, has a card, or is a variant on a card of its workload.          *)
EveryAnomalyAccounted ==
  \A n \in DOMAIN fired :
    \/ \E r \in InFlight("score") \cup InFlight("record") : req[r].local.id = n
    \/ n \in DOMAIN heap
    \/ \E id \in DOMAIN heap : /\ heap[id].workload = fired[n].anomaly.workload
                               /\ fired[n].anomaly.template \in heap[id].variants

Variants ==
  {p \in (DOMAIN heap) \X (DOMAIN fired) :
     /\ heap[p[1]].workload = fired[p[2]].anomaly.workload
     /\ fired[p[2]].anomaly.template \in heap[p[1]].variants}

Promise == INSTANCE Alerting WITH
  of       <- [n \in DOMAIN fired |-> fired[n].anomaly.workload],
  open     <- {req[r].local.id : r \in InFlight("score") \cup InFlight("record")},
  cards    <- DOMAIN heap,
  variants <- Variants,
  due      <- {req[r].local.id : r \in InFlight("dispatch")},
  sent     <- [i \in DOMAIN sent |-> sent[i].id]

(* The requests together keep the promise of module Alerting, step by      *)
(* step: whatever they do between each other's locks, an anomaly is        *)
(* decided once, alerted only with its own card and after it, and grouped  *)
(* under one card, of its workload.                                        *)
Promised == Promise!Spec

=============================================================================
