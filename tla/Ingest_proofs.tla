--------------------------- MODULE Ingest_proofs ---------------------------
(***************************************************************************)
(* Every new card is alerted exactly once, no anomaly the detector         *)
(* returned is lost, and the requests implement module Alerting, for any   *)
(* number of requests and any interleaving.                                *)
(***************************************************************************)
EXTENDS Ingest, FiniteSetTheorems, FunctionTheorems, SequenceTheorems, TLAPS

-----------------------------------------------------------------------------
(* Detector_proofs has its own instance of the detector's operators: they  *)
(* are those of D, layer by layer.  The single miner it is also about has  *)
(* no lines here.                                                          *)
DP == INSTANCE Detector_proofs
        WITH MinerLine <- {}, MaxAdds <- 0, miner <- 0, mined <- {}, adds <- 0

LEMMA SameCardinality ==
  ASSUME NEW T
  PROVE  D!Cardinality(T) = DP!Cardinality(T) /\ Cardinality(T) = DP!Cardinality(T)
BY DEF D!Cardinality, DP!Cardinality, Cardinality

LEMMA SameWords ==
  /\ D!Word = DP!Word
  /\ \A line : D!tokenize(line) = DP!tokenize(line)
  /\ \A sev : D!Templated(sev) = DP!Templated(sev)
BY DEF D!Word, DP!Word, D!tokenize, DP!tokenize, D!isVariable, DP!isVariable,
       D!Templated, DP!Templated, D!MinSeverity, DP!MinSeverity, D!Warn, DP!Warn,
       D!Unknown, DP!Unknown

LEMMA SameChildKey ==
  ASSUME NEW root, NEW n, NEW path, NEW t
  PROVE  D!ChildKey(root, n, path, t) = DP!ChildKey(root, n, path, t)
<1>1. D!Children(root, n, path) = DP!Children(root, n, path)
  BY SameWords DEF D!Children, DP!Children, D!Child, DP!Child
<1> QED
  BY <1>1, SameCardinality DEF D!ChildKey, DP!ChildKey, D!Child, DP!Child

LEMMA SameDescend ==
  ASSUME NEW root, NEW words
  PROVE  D!descend(root, words) = DP!descend(root, words)
<1>1. D!Depth(words) = DP!Depth(words)
  BY DEF D!Depth, DP!Depth
<1>2. ASSUME NEW path
      PROVE  D!RoutesTo(root, words, path) <=> DP!RoutesTo(root, words, path)
  BY <1>1, SameChildKey DEF D!RoutesTo, DP!RoutesTo, D!Prefix, DP!Prefix
<1> QED
  BY <1>1, <1>2, SameWords DEF D!descend, DP!descend

LEMMA SameMatching ==
  ASSUME NEW clusters, NEW leaf, NEW words
  PROVE  D!Matching(clusters, leaf, words) = DP!Matching(clusters, leaf, words)
BY SameCardinality DEF D!Matching, DP!Matching, D!AtLeaf, DP!AtLeaf,
                       D!similarity, DP!similarity, D!Agree, DP!Agree

LEMMA SameBestMatch ==
  ASSUME NEW clusters, NEW leaf, NEW words
  PROVE  D!bestMatch(clusters, leaf, words) = DP!bestMatch(clusters, leaf, words)
BY SameCardinality, SameMatching
   DEF D!bestMatch, DP!bestMatch, D!similarity, DP!similarity, D!Agree, DP!Agree

LEMMA SameMiner ==
  ASSUME NEW m, NEW line
  PROVE  /\ D!IsNew(m, line) = DP!IsNew(m, line)
         /\ D!AddID(m, line) = DP!AddID(m, line)
         /\ D!Add(m, line) = DP!Add(m, line)
<1>1. \A words : D!LeafOf(m, words) = DP!LeafOf(m, words)
  BY SameDescend DEF D!LeafOf, DP!LeafOf
<1>2. D!IsNew(m, line) = DP!IsNew(m, line)
  BY <1>1, SameWords, SameMatching DEF D!IsNew, DP!IsNew
<1>3. D!AddID(m, line) = DP!AddID(m, line)
  BY <1>1, <1>2, SameWords, SameBestMatch DEF D!AddID, DP!AddID
<1>4. \A words, path : D!NodesTo(words, path) = DP!NodesTo(words, path)
  BY DEF D!NodesTo, DP!NodesTo, D!Prefix, DP!Prefix, D!Depth, DP!Depth
<1>5. \A t, words : D!update(t, words) = DP!update(t, words)
  BY DEF D!update, DP!update
<1>6. D!Add(m, line) = DP!Add(m, line)
  BY <1>1, <1>2, <1>3, <1>4, <1>5, SameWords DEF D!Add, DP!Add
<1> QED
  BY <1>2, <1>3, <1>6

LEMMA SameBaseline ==
  ASSUME NEW line
  PROVE  /\ D!BaselineOf(line.workload) = DP!BaselineOf(line.workload)
         /\ D!ClusterOf(line) = DP!ClusterOf(line)
         /\ D!NewCluster(line) = DP!NewCluster(line)
         /\ D!NextBaseline(line) = DP!NextBaseline(line)
         /\ D!TemplateText(line) = DP!TemplateText(line)
<1>1. D!BaselineOf(line.workload) = DP!BaselineOf(line.workload)
  BY DEF D!BaselineOf, DP!BaselineOf, D!Lookup, DP!Lookup, D!newMiner, DP!newMiner,
         D!Empty, DP!Empty
<1>2. D!ClusterOf(line) = DP!ClusterOf(line) /\ D!NewCluster(line) = DP!NewCluster(line)
  BY <1>1, SameMiner DEF D!ClusterOf, DP!ClusterOf, D!NewCluster, DP!NewCluster
<1>3. D!NextBaseline(line) = DP!NextBaseline(line)
  BY <1>1, <1>2, SameMiner
     DEF D!NextBaseline, DP!NextBaseline, D!Lookup, DP!Lookup, D!Put, DP!Put
<1>4. D!TemplateText(line) = DP!TemplateText(line)
  BY <1>2, <1>3 DEF D!TemplateText, DP!TemplateText
<1> QED
  BY <1>1, <1>2, <1>3, <1>4

LEMMA SameNext ==
  ASSUME NEW line
  PROVE  /\ D!NextPods(line) = DP!NextPods(line)
         /\ D!NextHits(line) = DP!NextHits(line)
         /\ D!Fires(line) = DP!Fires(line)
         /\ D!Anomaly(line) = DP!Anomaly(line)
<1>1. D!NextPods(line) = DP!NextPods(line)
  BY SameBaseline DEF D!NextPods, DP!NextPods, D!Lookup, DP!Lookup, D!Put, DP!Put,
                      D!gcPods, DP!gcPods, D!Empty, DP!Empty
<1>2. \A ts, cutoff : D!trimHits(ts, cutoff) = DP!trimHits(ts, cutoff)
  BY DEF D!trimHits, DP!trimHits, D!FirstKept, DP!FirstKept
<1>3. D!NextHits(line) = DP!NextHits(line)
  BY <1>2, SameBaseline DEF D!NextHits, DP!NextHits, D!Lookup, DP!Lookup
<1>4. D!Fires(line) = DP!Fires(line)
  BY SameBaseline, SameWords DEF D!Fires, DP!Fires
<1>5. D!Anomaly(line) = DP!Anomaly(line)
  <2>1. D!Cardinality(DOMAIN D!NextPods(line)) = DP!Cardinality(DOMAIN DP!NextPods(line))
    BY <1>1, SameCardinality
  <2>2. D!TemplateText(line) = DP!TemplateText(line)
    BY SameBaseline
  <2>3. D!Lookup(D!BaselineOf(line.workload).digestSeen, D!ClusterOf(line), {})
          = DP!Lookup(DP!BaselineOf(line.workload).digestSeen, DP!ClusterOf(line), {})
    BY SameBaseline DEF D!Lookup, DP!Lookup
  <2> QED
    BY <2>1, <2>2, <2>3, Zenon DEF D!Anomaly, DP!Anomaly
<1> QED
  BY <1>1, <1>3, <1>4, <1>5

LEMMA SameObserve ==
  ASSUME NEW line
  PROVE  D!Observe(line) <=> DP!Observe(line)
<1>1. D!CountLine(line) <=> DP!CountLine(line)
  BY SameWords DEF D!CountLine, DP!CountLine, D!Saw, DP!Saw
<1>2. D!BlankLine(line) <=> DP!BlankLine(line)
  BY SameWords, SameBaseline DEF D!BlankLine, DP!BlankLine, D!Saw, DP!Saw, D!Put, DP!Put
<1>3. D!TemplateLine(line) <=> DP!TemplateLine(line)
  <2>1. /\ D!Templated(line.msg.sev) = DP!Templated(line.msg.sev)
        /\ D!NextBaseline(line) = DP!NextBaseline(line)
        /\ D!ClusterOf(line) = DP!ClusterOf(line)
        /\ D!NextPods(line) = DP!NextPods(line) /\ D!NextHits(line) = DP!NextHits(line)
        /\ D!Fires(line) = DP!Fires(line) /\ D!Anomaly(line) = DP!Anomaly(line)
    BY SameWords, SameBaseline, SameNext
  <2>2. \A f, k, v : D!Put(f, k, v) = DP!Put(f, k, v)
    BY DEF D!Put, DP!Put
  <2>3. \A l, id : D!Saw(l, id) = DP!Saw(l, id)
    BY DEF D!Saw, DP!Saw
  <2> QED
    BY <2>1, <2>2, <2>3 DEF D!TemplateLine, DP!TemplateLine
<1> QED
  BY <1>1, <1>2, <1>3 DEF D!Observe, DP!Observe

LEMMA PartsAssumed == DP!DetectorAssumption /\ DP!DrainAssumption /\ DP!MinerAssumption
BY PartsAssumption
   DEF D!DetectorAssumption, DP!DetectorAssumption, D!DrainAssumption, DP!DrainAssumption,
       D!LogLine, DP!LogLine, D!Trace, DP!Trace, D!Unknown, DP!Unknown, DP!MinerAssumption

(* What a line does to the detector keeps its invariant; the anomaly it    *)
(* may return joins those that fired.                                      *)
LEMMA ObserveKeeps ==
  ASSUME DP!DetectorInv, NEW line \in Line, D!Observe(line), now' = now
  PROVE  /\ DP!DetectorInv'
         /\ fired' = IF D!Fires(line)
                     THEN Append(fired, [anomaly |-> D!Anomaly(line), nth |-> Len(seen) + 1])
                     ELSE fired
         /\ D!Fires(line) => D!Templated(line.msg.sev) /\ line.msg.words # <<>>
                             /\ D!NewCluster(line)
<1>1. DP!Observe(line)
  BY SameObserve
<1>2. DP!DetectorInv'
  BY <1>1, PartsAssumed, DP!DetectorObserve
<1> QED
  BY <1>2 DEF D!Observe, D!CountLine, D!BlankLine, D!TemplateLine, D!Fires

LEMMA DetectorKept ==
  ASSUME DP!DetectorInv, now' \in Nat, UNCHANGED detectorVars
  PROVE  DP!DetectorInv'
BY PartsAssumed, DP!DetectorTick DEF detectorVars, DP!detectorVars

LEMMA DetectorFacts ==
  ASSUME DP!DetectorInv
  PROVE  /\ now \in Nat /\ Len(fired) \in Nat /\ DOMAIN fired = 1..Len(fired)
         /\ \E R : fired \in Seq(R)
         /\ \A i, j \in DOMAIN fired :
              (i # j /\ fired[i].anomaly.workload = fired[j].anomaly.workload)
                => fired[i].anomaly.template # fired[j].anomaly.template
BY DEF DP!DetectorInv, DP!Logged, DP!FireOnce

LEMMA DetectorStarts == D!Init => DP!DetectorInv
<1>1. D!Init => DP!Init
  BY DEF D!Init, DP!Init, D!Empty, DP!Empty
<1> QED
  BY <1>1, PartsAssumed, DP!DetectorInit

-----------------------------------------------------------------------------
(* A request with lines left has the rest of its batch.                    *)
Steps == {"observe", "count", "bump", "score", "record", "dispatch"}

RequestsShaped ==
  /\ DOMAIN req = Request
  /\ \A r \in Request :
       \/ req[r] = Idle
       \/ req[r].step \in Steps /\ req[r].lines \in Seq(Line) \ {<<>>}

(* The requests that carry an anomaly to Record: each its own one, as the  *)
(* detector returned it, and none of which there is a card yet.            *)
Carrying == InFlight("score") \cup InFlight("record")

Carries(r, n) ==
  /\ req[r].local.id = n
  /\ req[r].step = "score" => req[r].local.anomaly = fired[n].anomaly
  /\ req[r].step = "record" => /\ req[r].local.workload = fired[n].anomaly.workload
                               /\ req[r].local.template = fired[n].anomaly.template

CarriedOnce ==
  /\ \A r \in Carrying : /\ req[r].local.id \in DOMAIN fired \ DOMAIN heap
                         /\ Carries(r, req[r].local.id)
  /\ \A q, r \in Carrying : q # r => req[q].local.id # req[r].local.id

(* A card is that of the anomaly it is named after.                        *)
IsCard(c) ==
  c = [workload |-> c.workload, template |-> c.template, topic |-> c.topic,
       severity |-> c.severity, firedAt |-> c.firedAt, affectedPods |-> c.affectedPods,
       variants |-> c.variants, state |-> c.state, updatedAt |-> c.updatedAt]

CardsOfFired ==
  /\ DOMAIN heap \subseteq DOMAIN fired
  /\ \A id \in DOMAIN heap : /\ IsCard(heap[id])
                             /\ heap[id].workload = fired[id].anomaly.workload
                             /\ heap[id].template = fired[id].anomaly.template
  /\ all \in Seq(DOMAIN heap)

(* The alerts that are due are handed over once, or about to be by one.    *)
Due == {alerts[i].id : i \in DOMAIN alerts}
Out == {sent[i].id : i \in DOMAIN sent}
Pending == {req[r].local.id : r \in InFlight("dispatch")}

AlertsSplit ==
  /\ \E R : alerts \in Seq(R)
  /\ \E R : sent \in Seq(R)
  /\ Due \subseteq DOMAIN heap
  /\ Due = Out \cup Pending /\ Out \cap Pending = {}
  /\ \A i, j \in DOMAIN sent : i # j => sent[i].id # sent[j].id
  /\ \A q, r \in InFlight("dispatch") : q # r => req[q].local.id # req[r].local.id
  /\ IsFiniteSet(InFlight("dispatch"))

HandlerInv ==
  RequestsShaped /\ CarriedOnce /\ CardsOfFired /\ AlertsSplit /\ EveryAnomalyAccounted

IngestInv == DP!DetectorInv /\ HandlerInv

-----------------------------------------------------------------------------
(* What is due, out and pending, on the small.                             *)
LEMMA OutOnce ==
  ASSUME AlertsSplit
  PROVE  AlertedExactlyOnce
<1>1. Len(sent) \in Nat /\ DOMAIN sent = 1..Len(sent)
  BY DEF AlertsSplit
<1>2. Len(sent) = Cardinality(Out)
  <2> DEFINE f == [i \in 1..Len(sent) |-> sent[i].id]
  <2>1. f \in Bijection(1..Len(sent), Out)
    <3>1. f \in [1..Len(sent) -> Out] /\ \A n \in Out : \E i \in 1..Len(sent) : f[i] = n
      BY <1>1 DEF Out
    <3>2. \A i, j \in 1..Len(sent) : f[i] = f[j] => i = j
      BY <1>1 DEF AlertsSplit
    <3> HIDE DEF f
    <3> QED
      BY <3>1, <3>2, Fun_IsBij
  <2>2. ExistsBijection(1..Len(sent), Out)
    BY <2>1 DEF ExistsBijection
  <2> QED
    BY <1>1, <2>2, FS_CountingElements
<1>3. Cardinality(Pending) = Cardinality(InFlight("dispatch"))
  <2> DEFINE R == InFlight("dispatch")
             f == [r \in R |-> req[r].local.id]
  <2>1. f \in Bijection(R, Pending)
    <3>1. f \in [R -> Pending] /\ \A n \in Pending : \E r \in R : f[r] = n
      BY DEF Pending
    <3>2. \A q, r \in R : f[q] = f[r] => q = r
      BY DEF AlertsSplit
    <3> HIDE DEF f
    <3> QED
      BY <3>1, <3>2, Fun_IsBij
  <2>2. ExistsBijection(R, Pending)
    BY <2>1 DEF ExistsBijection
  <2>3. IsFiniteSet(R)
    BY DEF AlertsSplit
  <2> QED
    BY <2>2, <2>3, FS_Bijection
<1> QED
  BY <1>2, <1>3 DEF AlertsSplit, AlertedExactlyOnce, Due, Out, Pending

LEMMA HandlerInit == Init => HandlerInv
<1> SUFFICES ASSUME Init PROVE HandlerInv
  OBVIOUS
<1>1. /\ req = [r \in Request |-> Idle] /\ sent = <<>> /\ alerts = <<>> /\ all = <<>>
      /\ DOMAIN heap = {} /\ fired = <<>>
  BY DEF Init, S!Init, D!Init
<1>2. \A step \in Steps : InFlight(step) = {}
  BY <1>1 DEF InFlight, Idle, Steps
<1>3. Carrying = {} /\ Pending = {} /\ IsFiniteSet(InFlight("dispatch")) /\ Due = {} /\ Out = {}
  BY <1>1, <1>2, FS_EmptySet DEF Carrying, Pending, Due, Out, Steps
<1>4. RequestsShaped /\ CarriedOnce /\ CardsOfFired
  BY <1>1, <1>3 DEF RequestsShaped, CarriedOnce, CardsOfFired
<1>5. AlertsSplit
  BY <1>1, <1>2, <1>3 DEF AlertsSplit, Steps
<1> QED
  BY <1>1, <1>4, <1>5 DEF HandlerInv, EveryAnomalyAccounted

(* One request moves: where it and the others are then.                    *)
LEMMA Moved ==
  ASSUME RequestsShaped, NEW r \in Request, NEW x, Move(r, x)
  PROVE  /\ DOMAIN req' = Request /\ req'[r] = x
         /\ \A q \in Request \ {r} : req'[q] = req[q]
         /\ \A step : InFlight(step)' = (InFlight(step) \ {r}) \cup (IF x.step = step THEN {r} ELSE {})
BY DEF RequestsShaped, Move, InFlight

LEMMA KeepsShape ==
  ASSUME RequestsShaped, NEW r \in Request, NEW x, Move(r, x),
         x = Idle \/ (x.step \in Steps /\ x.lines \in Seq(Line) \ {<<>>})
  PROVE  RequestsShaped'
BY Moved DEF RequestsShaped

(* A request on which nothing depends goes on to such a step: idle, at     *)
(* the start of a line, or after a line that is counted only.              *)
Free == {"idle", "observe", "count", "bump"}

CardsStay ==
  /\ DOMAIN heap' = DOMAIN heap
  /\ \A id \in DOMAIN heap :
       /\ heap'[id].workload = heap[id].workload /\ heap'[id].template = heap[id].template
       /\ heap[id].variants \subseteq heap'[id].variants
       /\ IsCard(heap[id]) => IsCard(heap'[id])

LEMMA FreeMove ==
  ASSUME HandlerInv, NEW r \in Request, NEW x, Move(r, x),
         req[r].step \in Free, x.step \in Free, CardsStay,
         UNCHANGED <<all, alerts, sent, fired>>
  PROVE  CarriedOnce' /\ CardsOfFired' /\ AlertsSplit' /\ EveryAnomalyAccounted'
<1>1. /\ RequestsShaped /\ CarriedOnce /\ CardsOfFired /\ AlertsSplit /\ EveryAnomalyAccounted
  BY DEF HandlerInv
<1>2. /\ InFlight("score")' = InFlight("score") /\ InFlight("record")' = InFlight("record")
      /\ InFlight("dispatch")' = InFlight("dispatch")
      /\ \A q \in InFlight("score") \cup InFlight("record") \cup InFlight("dispatch") :
           req'[q] = req[q]
  BY <1>1, Moved DEF InFlight, Free
<1>3. Carrying' = Carrying
  BY <1>2 DEF Carrying
<1>4. CarriedOnce'
  BY <1>1, <1>2, <1>3 DEF CarriedOnce, Carrying, Carries, CardsStay
<1>5. CardsOfFired'
  BY <1>1 DEF CardsOfFired, CardsStay
<1>6. Due' = Due /\ Out' = Out /\ Pending' = Pending
  BY <1>2 DEF Due, Out, Pending
<1>7. AlertsSplit'
  BY <1>1, <1>2, <1>6 DEF AlertsSplit, CardsStay
<1>8. EveryAnomalyAccounted'
  BY <1>1, <1>2 DEF EveryAnomalyAccounted, CardsStay
<1> QED
  BY <1>4, <1>5, <1>7, <1>8

-----------------------------------------------------------------------------
LEMMA RestOfBatch ==
  ASSUME HandlerInv, NEW r \in Request, req[r].step \in Steps
  PROVE  /\ req[r].lines \in Seq(Line) \ {<<>>} /\ Head(req[r].lines) \in Line
         /\ \/ NextLine(r) = Idle
            \/ NextLine(r).step = "observe" /\ NextLine(r).lines \in Seq(Line) \ {<<>>}
         /\ NextLine(r).step \in Free
         /\ \A step \in Steps : \A local :
              [step |-> step, lines |-> req[r].lines, local |-> local].lines \in Seq(Line) \ {<<>>}
<1>1. req[r].lines \in Seq(Line) \ {<<>>}
  BY DEF HandlerInv, RequestsShaped, Idle, Steps
<1>2. Head(req[r].lines) \in Line /\ Tail(req[r].lines) \in Seq(Line)
  BY <1>1
<1> QED
  BY <1>1, <1>2 DEF NextLine, Idle, Free

LEMMA HeapStays == HandlerInv /\ heap' = heap => CardsStay
BY DEF CardsStay

LEMMA PostKeeps ==
  ASSUME IngestInv, NEW r \in Request, Post(r)
  PROVE  IngestInv'
<1>1. PICK batch \in Batch : batch # <<>> /\ Move(r, [step |-> "observe", lines |-> batch])
  BY DEF Post
<1>2. batch \in Seq(Line) \ {<<>>} /\ HandlerInv /\ RequestsShaped
  BY <1>1, IngestAssumption DEF IngestInv, HandlerInv
<1>3. RequestsShaped'
  BY <1>1, <1>2, KeepsShape DEF Steps
<1>4. CardsStay /\ UNCHANGED <<all, alerts, sent, fired>> /\ req[r].step \in Free
  BY HeapStays DEF Post, IngestInv, storeVars, detectorVars, Idle, Free
<1>5. CarriedOnce' /\ CardsOfFired' /\ AlertsSplit' /\ EveryAnomalyAccounted'
  BY <1>1, <1>2, <1>4, FreeMove DEF Free
<1>6. DP!DetectorInv'
  BY DetectorKept, DetectorFacts DEF Post, IngestInv
<1> QED
  BY <1>3, <1>5, <1>6 DEF IngestInv, HandlerInv

LEMMA CountPodsKeeps ==
  ASSUME IngestInv, NEW r \in Request, CountPods(r)
  PROVE  IngestInv'
<1>1. PICK x : Move(r, x) /\ (x = NextLine(r) \/ \E local : x = [step |-> "bump", lines |-> req[r].lines, local |-> local])
  BY DEF CountPods, Continue
<1>2. HandlerInv /\ RequestsShaped /\ req[r].step = "count"
  BY DEF IngestInv, HandlerInv, CountPods
<1>3. x.step \in Free /\ (x = Idle \/ (x.step \in Steps /\ x.lines \in Seq(Line) \ {<<>>}))
  BY <1>1, <1>2, RestOfBatch DEF Steps, Free
<1>4. CardsStay /\ UNCHANGED <<all, alerts, sent, fired>> /\ req[r].step \in Free
  BY <1>2, HeapStays DEF CountPods, storeVars, detectorVars, Free
<1>5. CarriedOnce' /\ CardsOfFired' /\ AlertsSplit' /\ EveryAnomalyAccounted'
  BY <1>1, <1>2, <1>3, <1>4, FreeMove
<1>6. DP!DetectorInv'
  BY DetectorKept, DetectorFacts DEF CountPods, IngestInv
<1>7. RequestsShaped'
  BY <1>1, <1>2, <1>3, KeepsShape
<1> QED
  BY <1>5, <1>6, <1>7 DEF IngestInv, HandlerInv

LEMMA BumpKeeps ==
  ASSUME IngestInv, NEW r \in Request, Bump(r)
  PROVE  IngestInv'
<1> DEFINE w == req[r].local.workload
           t == req[r].local.template
           found == {i \in DOMAIN all : S!At(i).workload = w /\ S!At(i).template = t}
           id == all[S!Latest(found)]
           count == req[r].local.count
<1>1. /\ HandlerInv /\ RequestsShaped /\ req[r].step = "bump" /\ Move(r, NextLine(r))
      /\ S!BumpPods(w, t, count)
  BY DEF IngestInv, HandlerInv, Bump
<1>2. \/ heap' = heap
      \/ heap' = [heap EXCEPT ![id].affectedPods = count, ![id].updatedAt = now]
  BY <1>1 DEF S!BumpPods
<1> HIDE DEF id, count
<1>3. CardsStay
  <2>1. CASE heap' = heap
    BY <2>1, <1>1, HeapStays
  <2>2. CASE heap' = [heap EXCEPT ![id].affectedPods = count, ![id].updatedAt = now]
    BY <2>2 DEF CardsStay, IsCard
  <2> QED
    BY <1>2, <2>1, <2>2
<1>4. UNCHANGED <<all, alerts, sent, fired>> /\ req[r].step \in Free
  BY <1>1 DEF Bump, S!BumpPods, detectorVars, Free
<1>5. /\ NextLine(r).step \in Free
      /\ \/ NextLine(r) = Idle
         \/ NextLine(r).step \in Steps /\ NextLine(r).lines \in Seq(Line) \ {<<>>}
  BY <1>1, RestOfBatch DEF Steps
<1>6. CarriedOnce' /\ CardsOfFired' /\ AlertsSplit' /\ EveryAnomalyAccounted'
  BY <1>1, <1>3, <1>4, <1>5, FreeMove
<1>7. DP!DetectorInv'
  BY DetectorKept, DetectorFacts DEF Bump, IngestInv
<1>8. RequestsShaped'
  BY <1>1, <1>5, KeepsShape
<1> QED
  BY <1>6, <1>7, <1>8 DEF IngestInv, HandlerInv

-----------------------------------------------------------------------------
(* An anomaly that fires is carried by the request whose line it was.      *)
LEMMA FireMove ==
  ASSUME IngestInv, NEW r \in Request, NEW x, Move(r, x), req[r].step = "observe",
         NEW e, fired' = Append(fired, e),
         x.step = "score", x.local.id = Len(fired) + 1, x.local.anomaly = e.anomaly,
         heap' = heap, UNCHANGED <<all, alerts, sent>>
  PROVE  CarriedOnce' /\ CardsOfFired' /\ AlertsSplit' /\ EveryAnomalyAccounted'
<1> DEFINE n == Len(fired) + 1
<1>1. /\ RequestsShaped /\ CarriedOnce /\ CardsOfFired /\ AlertsSplit /\ EveryAnomalyAccounted
  BY DEF IngestInv, HandlerInv
<1>2. /\ n \notin DOMAIN fired /\ DOMAIN fired' = DOMAIN fired \cup {n}
      /\ fired'[n] = e /\ \A m \in DOMAIN fired : fired'[m] = fired[m]
  BY DetectorFacts DEF IngestInv
<1>3. /\ InFlight("score")' = InFlight("score") \cup {r}
      /\ InFlight("record")' = InFlight("record")
      /\ InFlight("dispatch")' = InFlight("dispatch")
      /\ r \notin InFlight("score") \cup InFlight("record") \cup InFlight("dispatch")
      /\ \A q \in InFlight("score") \cup InFlight("record") \cup InFlight("dispatch") :
           req'[q] = req[q]
      /\ req'[r] = x
  BY <1>1, Moved DEF InFlight
<1>4. Carrying' = Carrying \cup {r} /\ r \notin Carrying
  BY <1>3 DEF Carrying
<1>5. \A q \in Carrying : req'[q] = req[q] /\ req[q].local.id \in DOMAIN fired \ DOMAIN heap
  BY <1>1, <1>3 DEF Carrying, CarriedOnce
<1>6. CarriedOnce'
  <2>1. ASSUME NEW q \in Carrying'
        PROVE  req'[q].local.id \in DOMAIN fired' \ DOMAIN heap' /\ Carries(q, req[q].local.id)'
    <3>1. CASE q = r
      BY <1>1, <1>2, <1>3, <3>1 DEF CardsOfFired, Carries
    <3>2. CASE q # r
      BY <1>1, <1>2, <1>3, <1>4, <1>5, <3>2 DEF CarriedOnce, Carries
    <3> QED
      BY <3>1, <3>2
  <2>2. ASSUME NEW p \in Carrying', NEW q \in Carrying', p # q
        PROVE  req'[p].local.id # req'[q].local.id
    BY <1>1, <1>2, <1>3, <1>4, <1>5, <2>2 DEF CarriedOnce
  <2> QED
    BY <2>1, <2>2 DEF CarriedOnce
<1>7. CardsOfFired'
  BY <1>1, <1>2 DEF CardsOfFired, IsCard
<1>8. Due' = Due /\ Out' = Out /\ Pending' = Pending
  BY <1>3 DEF Due, Out, Pending
<1>9. AlertsSplit'
  BY <1>1, <1>3, <1>8 DEF AlertsSplit
<1>10. EveryAnomalyAccounted'
  BY <1>1, <1>2, <1>3 DEF EveryAnomalyAccounted
<1> QED
  BY <1>6, <1>7, <1>9, <1>10

LEMMA ObserveMoves ==
  ASSUME IngestInv, NEW r \in Request, Observe(r)
  PROVE  IngestInv'
<1> DEFINE line == Head(req[r].lines)
<1>1. /\ HandlerInv /\ RequestsShaped /\ req[r].step = "observe" /\ D!Observe(line)
      /\ now' = now /\ heap' = heap /\ UNCHANGED <<all, alerts, sent>>
  BY DEF IngestInv, HandlerInv, Observe, storeVars
<1>2. line \in Line
  BY <1>1, RestOfBatch DEF Steps
<1>3. /\ DP!DetectorInv'
      /\ fired' = IF D!Fires(line)
                  THEN Append(fired, [anomaly |-> D!Anomaly(line), nth |-> Len(seen) + 1])
                  ELSE fired
      /\ D!Fires(line) => D!Templated(line.msg.sev) /\ line.msg.words # <<>>
                          /\ D!NewCluster(line)
  BY <1>1, <1>2, ObserveKeeps DEF IngestInv
<1>4. \E x : /\ Move(r, x)
             /\ x = Idle \/ (x.step \in Steps /\ x.lines \in Seq(Line) \ {<<>>})
             /\ IF D!Fires(line)
                THEN /\ x.step = "score" /\ x.local.id = Len(fired) + 1
                     /\ x.local.anomaly = D!Anomaly(line)
                ELSE x.step \in Free
  <2>1. CASE D!Fires(line)
    <3>1. Continue(r, "score", [anomaly |-> D!Anomaly(line), id |-> Len(fired) + 1,
                                topic |-> errorTopic[line.msg]])
      BY <2>1, <1>3 DEF Observe
    <3> QED
      BY <3>1, <2>1, <1>1, RestOfBatch DEF Continue, Steps
  <2>2. CASE ~D!Fires(line)
    <3>1. PICK y : /\ Move(r, y)
                   /\ \/ y = NextLine(r)
                      \/ \E local : y = [step |-> "count", lines |-> req[r].lines,
                                          local |-> local]
      BY <2>2 DEF Observe, Continue
    <3>2. y.step \in Free /\ (y = Idle \/ (y.step \in Steps /\ y.lines \in Seq(Line) \ {<<>>}))
      BY <3>1, <1>1, RestOfBatch DEF Steps, Free
    <3> QED
      BY <3>1, <3>2, <2>2
  <2> QED
    BY <2>1, <2>2
<1>5. PICK x : /\ Move(r, x)
               /\ x = Idle \/ (x.step \in Steps /\ x.lines \in Seq(Line) \ {<<>>})
               /\ IF D!Fires(line)
                  THEN /\ x.step = "score" /\ x.local.id = Len(fired) + 1
                       /\ x.local.anomaly = D!Anomaly(line)
                  ELSE x.step \in Free
  BY <1>4
<1>6. RequestsShaped'
  BY <1>1, <1>5, KeepsShape
<1>7. CASE D!Fires(line)
  <2> DEFINE e == [anomaly |-> D!Anomaly(line), nth |-> Len(seen) + 1]
  <2>1. fired' = Append(fired, e) /\ x.local.anomaly = e.anomaly
    BY <1>3, <1>5, <1>7
  <2> HIDE DEF e
  <2>2. CarriedOnce' /\ CardsOfFired' /\ AlertsSplit' /\ EveryAnomalyAccounted'
    BY <2>1, <1>1, <1>5, <1>7, FireMove
  <2> QED
    BY <1>3, <1>6, <2>2 DEF IngestInv, HandlerInv
<1>8. CASE ~D!Fires(line)
  <2>1. CardsStay /\ fired' = fired /\ req[r].step \in Free /\ x.step \in Free
    BY <1>1, <1>3, <1>5, <1>8, HeapStays DEF Free
  <2>2. CarriedOnce' /\ CardsOfFired' /\ AlertsSplit' /\ EveryAnomalyAccounted'
    BY <2>1, <1>1, <1>5, FreeMove
  <2> QED
    BY <1>3, <1>6, <2>2 DEF IngestInv, HandlerInv
<1> QED
  BY <1>7, <1>8

LEMMA ScoreKeeps ==
  ASSUME IngestInv, NEW r \in Request, Score(r)
  PROVE  IngestInv'
<1> DEFINE a == req[r].local.anomaly
           x == [step |-> "record", lines |-> req[r].lines,
                 local |-> [id |-> req[r].local.id, workload |-> a.workload,
                            template |-> a.template, topic |-> req[r].local.topic,
                            firedAt |-> a.firedAt, affectedPods |-> a.affectedPods,
                            severity |-> scoreSeverity(a.workload, a.affectedPods)]]
<1>1. /\ HandlerInv /\ RequestsShaped /\ req[r].step = "score" /\ Move(r, x)
      /\ UNCHANGED <<now, detectorVars, storeVars, sent>>
      /\ CarriedOnce /\ CardsOfFired /\ AlertsSplit /\ EveryAnomalyAccounted
  BY DEF IngestInv, HandlerInv, Score, Continue
<1>2. UNCHANGED <<all, alerts, sent, fired>> /\ heap' = heap
  BY <1>1 DEF storeVars, detectorVars
<1>3. /\ x.step = "record" /\ x.local.id = req[r].local.id /\ x.local.workload = a.workload
      /\ x.local.template = a.template /\ x.lines = req[r].lines
  OBVIOUS
<1> HIDE DEF x
<1>4. RequestsShaped'
  BY <1>1, <1>3, KeepsShape, RestOfBatch DEF Steps
<1>5. /\ r \in InFlight("score") /\ r \in InFlight("record")'
      /\ InFlight("score")' = InFlight("score") \ {r}
      /\ InFlight("record")' = InFlight("record") \cup {r}
      /\ InFlight("dispatch")' = InFlight("dispatch")
      /\ \A q \in (InFlight("score") \cup InFlight("record") \cup InFlight("dispatch")) \ {r} :
           req'[q] = req[q]
      /\ req'[r] = x /\ r \notin InFlight("dispatch")
  BY <1>1, <1>3, Moved DEF InFlight
<1>6. Carrying' = Carrying /\ \A q \in Carrying : req'[q].local.id = req[q].local.id
  BY <1>3, <1>5 DEF Carrying
<1>7. \A q \in Carrying : Carries(q, req[q].local.id)'
  <2>1. Carries(r, req[r].local.id)'
    BY <1>1, <1>2, <1>3, <1>5 DEF CarriedOnce, Carrying, Carries
  <2>2. ASSUME NEW q \in Carrying, q # r PROVE Carries(q, req[q].local.id)'
    BY <1>1, <1>2, <1>5, <2>2 DEF CarriedOnce, Carrying, Carries
  <2> QED
    BY <2>1, <2>2
<1>8. CarriedOnce'
  BY <1>1, <1>2, <1>6, <1>7 DEF CarriedOnce
<1>9. CardsOfFired'
  BY <1>1, <1>2 DEF CardsOfFired, IsCard
<1>10. Due' = Due /\ Out' = Out /\ Pending' = Pending
  BY <1>2, <1>5 DEF Due, Out, Pending
<1>11. AlertsSplit'
  BY <1>1, <1>2, <1>5, <1>10 DEF AlertsSplit
<1>12. EveryAnomalyAccounted'
  BY <1>1, <1>2, <1>3, <1>5, <1>6 DEF EveryAnomalyAccounted, Carrying
<1>13. DP!DetectorInv'
  BY <1>1, DetectorKept, DetectorFacts DEF IngestInv
<1> QED
  BY <1>4, <1>8, <1>9, <1>11, <1>12, <1>13 DEF IngestInv, HandlerInv

-----------------------------------------------------------------------------
(* No card has the template of an anomaly on its way: the detector never   *)
(* fires a template twice, so Record's dedup finds nothing.                *)
LEMMA NoSuchCard ==
  ASSUME IngestInv, NEW r \in InFlight("record"), NEW id \in DOMAIN heap,
         heap[id].workload = req[r].local.workload
  PROVE  heap[id].template # req[r].local.template
<1> DEFINE n == req[r].local.id
<1>1. /\ n \in DOMAIN fired \ DOMAIN heap
      /\ req[r].local.workload = fired[n].anomaly.workload
      /\ req[r].local.template = fired[n].anomaly.template
  BY DEF IngestInv, HandlerInv, CarriedOnce, Carrying, Carries, InFlight
<1>2. /\ id \in DOMAIN fired /\ heap[id].workload = fired[id].anomaly.workload
      /\ heap[id].template = fired[id].anomaly.template
  BY DEF IngestInv, HandlerInv, CardsOfFired
<1> QED
  BY <1>1, <1>2, DetectorFacts DEF IngestInv

LEMMA NoDedup ==
  ASSUME IngestInv, NEW r \in InFlight("record")
  PROVE  S!DedupMatches(req[r].local) = {}
<1> SUFFICES ASSUME NEW i \in S!DedupMatches(req[r].local) PROVE FALSE
  OBVIOUS
<1>1. /\ i \in DOMAIN all /\ heap[all[i]].workload = req[r].local.workload
      /\ heap[all[i]].template = req[r].local.template
  BY DEF S!DedupMatches, S!At
<1>2. all[i] \in DOMAIN heap
  BY <1>1 DEF IngestInv, HandlerInv, CardsOfFired
<1> QED
  BY <1>1, <1>2, NoSuchCard

LEMMA GreatestIndex ==
  ASSUME NEW n \in Nat, NEW I, I \subseteq 1..n, I # {}
  PROVE  \E m \in I : \A j \in I : j <= m
<1> DEFINE T == {n - i : i \in I}
<1>1. T \subseteq Nat /\ T # {} /\ I \subseteq Int
  <2>1. I \subseteq Int /\ \A i \in I : n - i \in Nat
    OBVIOUS
  <2>2. T # {}
    OBVIOUS
  <2> QED
    BY <2>1, <2>2
<1>2. PICK d \in T : \A e \in T : d <= e
  BY <1>1, PartsAssumed, DP!NatMin
<1>3. PICK m \in I : d = n - m
  OBVIOUS
<1>4. ASSUME NEW j \in I PROVE j <= m
  BY <1>1, <1>2, <1>3
<1> QED
  BY <1>4

LEMMA GroupCard ==
  ASSUME IngestInv, NEW a, S!DedupMatches(a) = {}, S!GroupMatches(a) # {}
  PROVE  S!StoredID(a) \in DOMAIN heap /\ heap[S!StoredID(a)].workload = a.workload
<1>1. /\ all \in Seq(DOMAIN heap) /\ Len(all) \in Nat /\ DOMAIN all = 1..Len(all)
  BY DEF IngestInv, HandlerInv, CardsOfFired
<1>2. S!GroupMatches(a) \subseteq 1..Len(all)
  BY <1>1 DEF S!GroupMatches
<1>3. \E m \in S!GroupMatches(a) : \A j \in S!GroupMatches(a) : j <= m
  BY <1>1, <1>2, GreatestIndex
<1>4. S!Latest(S!GroupMatches(a)) \in S!GroupMatches(a)
  BY <1>3 DEF S!Latest
<1>5. S!StoredID(a) = all[S!Latest(S!GroupMatches(a))]
  BY DEF S!StoredID, S!Fresh, S!Matches
<1> DEFINE i == S!Latest(S!GroupMatches(a))
<1>6. i \in DOMAIN all /\ heap[all[i]].workload = a.workload
  BY <1>4 DEF S!GroupMatches, S!At
<1> HIDE DEF i
<1>7. all[i] \in DOMAIN heap
  BY <1>1, <1>6
<1> QED
  BY <1>5, <1>6, <1>7 DEF i

(* The anomaly of a request leaves it: the others are where they were.     *)
LEMMA Recorded ==
  ASSUME IngestInv, NEW r \in Request, req[r].step = "record", NEW x, Move(r, x),
         x.step \in Free \cup {"dispatch"}, fired' = fired
  PROVE  /\ InFlight("score")' = InFlight("score")
         /\ InFlight("record")' = InFlight("record") \ {r}
         /\ r \in InFlight("record") /\ r \notin InFlight("score")
         /\ r \notin InFlight("dispatch")
         /\ InFlight("dispatch")' =
              InFlight("dispatch") \cup (IF x.step = "dispatch" THEN {r} ELSE {})
         /\ Carrying' = Carrying \ {r} /\ r \in Carrying
         /\ \A q \in (Carrying \cup InFlight("dispatch")) \ {r} : req'[q] = req[q]
         /\ req'[r] = x
<1>1. RequestsShaped
  BY DEF IngestInv, HandlerInv
<1>2. /\ InFlight("score")' = InFlight("score")
      /\ InFlight("record")' = InFlight("record") \ {r}
      /\ r \in InFlight("record") /\ r \notin InFlight("score")
      /\ r \notin InFlight("dispatch")
      /\ InFlight("dispatch")' =
           InFlight("dispatch") \cup (IF x.step = "dispatch" THEN {r} ELSE {})
  BY <1>1, Moved DEF InFlight, Free
<1> QED
  BY <1>1, <1>2, Moved DEF Carrying, InFlight

(* A variant of a card: it alerts no one, and the card names it.           *)
LEMMA GroupMove ==
  ASSUME IngestInv, NEW r \in Request, req[r].step = "record", NEW x, Move(r, x),
         x.step \in Free, S!Group(req[r].local), UNCHANGED <<fired, sent>>
  PROVE  CarriedOnce' /\ CardsOfFired' /\ AlertsSplit' /\ EveryAnomalyAccounted'
<1> DEFINE a == req[r].local
           id == S!StoredID(a)
<1>1. /\ CarriedOnce /\ CardsOfFired /\ AlertsSplit /\ EveryAnomalyAccounted
  BY DEF IngestInv, HandlerInv
<1>2. /\ InFlight("score")' = InFlight("score")
      /\ InFlight("record")' = InFlight("record") \ {r}
      /\ r \in InFlight("record") /\ r \notin InFlight("score")
      /\ InFlight("dispatch")' = InFlight("dispatch") /\ r \notin InFlight("dispatch")
      /\ Carrying' = Carrying \ {r} /\ r \in Carrying
      /\ \A q \in (Carrying \cup InFlight("dispatch")) \ {r} : req'[q] = req[q]
  BY Recorded DEF Free
<1>3. id \in DOMAIN heap /\ heap[id].workload = a.workload /\ heap[id].template # a.template
  BY <1>2, GroupCard, NoSuchCard DEF S!Group
<1>4. heap' = [heap EXCEPT ![id] =
        [heap[id] EXCEPT !.variants = @ \cup ({a.template} \ {heap[id].template}),
                         !.updatedAt = a.firedAt,
                         !.affectedPods = IF a.affectedPods > @ THEN a.affectedPods ELSE @]]
  BY DEF S!Group
<1>5. all' = all /\ alerts' = alerts
  BY DEF S!Group
<1> HIDE DEF id
<1>6. IsCard(heap[id])
  BY <1>1, <1>3 DEF CardsOfFired
<1>7. CardsStay /\ a.template \in heap'[id].variants
  <2> DEFINE d(c) == [c EXCEPT !.variants = @ \cup ({a.template} \ {c.template}),
                               !.updatedAt = a.firedAt,
                               !.affectedPods = IF a.affectedPods > @ THEN a.affectedPods ELSE @]
  <2>1. ASSUME NEW c, IsCard(c)
        PROVE  /\ d(c).workload = c.workload /\ d(c).template = c.template
               /\ d(c).variants = c.variants \cup ({a.template} \ {c.template})
               /\ IsCard(d(c))
    <3> DEFINE vs == c.variants \cup ({a.template} \ {c.template})
               n == IF a.affectedPods > c.affectedPods THEN a.affectedPods ELSE c.affectedPods
               u == a.firedAt
    <3>1. d(c) = [c EXCEPT !.variants = vs, !.updatedAt = u, !.affectedPods = n]
      OBVIOUS
    <3> HIDE DEF d, n, vs, u
    <3>2. d(c) = [workload |-> c.workload, template |-> c.template, topic |-> c.topic,
                  severity |-> c.severity, firedAt |-> c.firedAt, affectedPods |-> n,
                  variants |-> vs, state |-> c.state, updatedAt |-> u]
      BY <2>1, <3>1 DEF IsCard
    <3>3. /\ d(c).workload = c.workload /\ d(c).template = c.template
          /\ d(c).variants = vs /\ IsCard(d(c))
      BY <3>2 DEF IsCard
    <3> QED
      BY <3>3 DEF vs
  <2>2. heap' = [heap EXCEPT ![id] = d(heap[id])]
    BY <1>4
  <2> HIDE DEF d
  <2> QED
    BY <1>3, <1>6, <2>1, <2>2 DEF CardsStay
<1>8. CarriedOnce'
  BY <1>1, <1>2, <1>7 DEF CarriedOnce, Carries, CardsStay, Carrying
<1>9. CardsOfFired'
  BY <1>1, <1>5, <1>7 DEF CardsOfFired, CardsStay
<1>10. Due' = Due /\ Out' = Out /\ Pending' = Pending
  BY <1>2, <1>5 DEF Due, Out, Pending
<1>11. AlertsSplit'
  BY <1>1, <1>2, <1>5, <1>7, <1>10 DEF AlertsSplit, CardsStay
<1>12. EveryAnomalyAccounted'
  <2> SUFFICES ASSUME NEW n \in DOMAIN fired
      PROVE  \/ \E q \in Carrying' : req'[q].local.id = n
             \/ n \in DOMAIN heap'
             \/ \E c \in DOMAIN heap' : /\ heap'[c].workload = fired[n].anomaly.workload
                                        /\ fired[n].anomaly.template \in heap'[c].variants
    BY DEF EveryAnomalyAccounted, Carrying
  <2>1. CASE n = a.id
    <3>1. a.workload = fired[n].anomaly.workload /\ a.template = fired[n].anomaly.template
      BY <1>1, <1>2, <2>1 DEF CarriedOnce, Carries, InFlight
    <3> QED
      BY <1>3, <1>7, <3>1 DEF CardsStay
  <2>2. CASE n # a.id
    BY <1>1, <1>2, <1>7, <2>2 DEF EveryAnomalyAccounted, CardsStay, Carrying
  <2> QED
    BY <2>1, <2>2
<1> QED
  BY <1>8, <1>9, <1>11, <1>12

(* A new card: the request that recorded it is the one that alerts.        *)
LEMMA InsertMove ==
  ASSUME IngestInv, NEW r \in Request, req[r].step = "record", NEW x, Move(r, x),
         x.step = "dispatch", x.local.id = req[r].local.id,
         S!Insert(req[r].local), UNCHANGED <<fired, sent>>
  PROVE  CarriedOnce' /\ CardsOfFired' /\ AlertsSplit' /\ EveryAnomalyAccounted'
<1> DEFINE a == req[r].local
<1>1. /\ CarriedOnce /\ CardsOfFired /\ AlertsSplit /\ EveryAnomalyAccounted
  BY DEF IngestInv, HandlerInv
<1>2. /\ InFlight("score")' = InFlight("score")
      /\ InFlight("record")' = InFlight("record") \ {r}
      /\ r \in InFlight("record") /\ r \notin InFlight("score")
      /\ InFlight("dispatch")' = InFlight("dispatch") \cup {r} /\ r \notin InFlight("dispatch")
      /\ Carrying' = Carrying \ {r} /\ r \in Carrying
      /\ \A q \in (Carrying \cup InFlight("dispatch")) \ {r} : req'[q] = req[q]
      /\ req'[r] = x
  BY Recorded
<1>3. /\ a.id \in DOMAIN fired \ DOMAIN heap
      /\ a.workload = fired[a.id].anomaly.workload /\ a.template = fired[a.id].anomaly.template
  BY <1>1, <1>2 DEF CarriedOnce, Carries, InFlight
<1> DEFINE card == [workload |-> a.workload, template |-> a.template, topic |-> a.topic,
                    severity |-> a.severity, firedAt |-> a.firedAt,
                    affectedPods |-> a.affectedPods, variants |-> {},
                    state |-> "active", updatedAt |-> a.firedAt]
<1>4. /\ heap' = [id \in DOMAIN heap \cup {a.id} |-> IF id = a.id THEN card ELSE heap[id]]
      /\ all' = Append(IF Len(all) >= maxItems THEN Tail(all) ELSE all, a.id)
      /\ alerts' = Append(alerts, [id |-> a.id, at |-> now])
  BY DEF S!Insert
<1>5. card.workload = a.workload /\ card.template = a.template /\ IsCard(card)
  BY DEF IsCard
<1> HIDE DEF card
<1>6. /\ DOMAIN heap' = DOMAIN heap \cup {a.id} /\ heap'[a.id] = card
      /\ \A id \in DOMAIN heap : heap'[id] = heap[id]
  BY <1>3, <1>4
<1>7. CarriedOnce'
  BY <1>1, <1>2, <1>6 DEF CarriedOnce, Carries, Carrying
<1>8. CardsOfFired'
  <2>1. \A id \in DOMAIN heap' : /\ id \in DOMAIN fired' /\ IsCard(heap'[id])
                                 /\ heap'[id].workload = fired'[id].anomaly.workload
                                 /\ heap'[id].template = fired'[id].anomaly.template
    BY <1>1, <1>3, <1>5, <1>6 DEF CardsOfFired
  <2>2. all' \in Seq(DOMAIN heap')
    <3>1. all \in Seq(DOMAIN heap') /\ a.id \in DOMAIN heap' /\ maxItems \in Nat \ {0}
      BY <1>1, <1>6, PartsAssumption DEF CardsOfFired, S!StoreAssumption
    <3> QED
      BY <3>1, <1>4
  <2> QED
    BY <2>1, <2>2 DEF CardsOfFired, IsCard
<1>9. Due' = Due \cup {a.id}
  <2>1. PICK R : alerts \in Seq(R)
    BY <1>1 DEF AlertsSplit
  <2>2. /\ DOMAIN alerts' = DOMAIN alerts \cup {Len(alerts) + 1}
        /\ \A i \in DOMAIN alerts : alerts'[i] = alerts[i]
        /\ alerts'[Len(alerts) + 1].id = a.id
    BY <2>1, <1>4
  <2> QED
    BY <2>2 DEF Due
<1>10. Out' = Out /\ Pending' = Pending \cup {a.id}
  BY <1>2 DEF Out, Pending
<1>11. a.id \notin Due
  BY <1>1, <1>3 DEF AlertsSplit
<1>12. AlertsSplit'
  <2>1. \E R : alerts' \in Seq(R)
    <3>1. PICK R : alerts \in Seq(R)
      BY <1>1 DEF AlertsSplit
    <3> DEFINE e == [id |-> a.id, at |-> now]
               Q == R \cup {e}
    <3>2. alerts \in Seq(Q) /\ e \in Q
      BY <3>1
    <3> HIDE DEF Q, e
    <3>3. Append(alerts, e) \in Seq(Q)
      BY <3>2
    <3> QED
      BY <3>3, <1>4 DEF e
  <2>2. Due' \subseteq DOMAIN heap'
    BY <1>1, <1>6, <1>9 DEF AlertsSplit
  <2>3. Due' = Out' \cup Pending' /\ Out' \cap Pending' = {}
    BY <1>1, <1>9, <1>10, <1>11 DEF AlertsSplit
  <2>4. \A p, q \in InFlight("dispatch")' : p # q => req'[p].local.id # req'[q].local.id
    <3>1. \A q \in InFlight("dispatch") : req'[q] = req[q] /\ req[q].local.id # a.id
      BY <1>1, <1>2, <1>11 DEF AlertsSplit, Pending
    <3> QED
      BY <1>1, <1>2, <3>1 DEF AlertsSplit
  <2>5. IsFiniteSet(InFlight("dispatch"))'
    BY <1>1, <1>2, FS_AddElement DEF AlertsSplit
  <2> QED
    BY <1>1, <2>1, <2>2, <2>3, <2>4, <2>5 DEF AlertsSplit
<1>13. EveryAnomalyAccounted'
  <2> SUFFICES ASSUME NEW n \in DOMAIN fired, n # a.id
      PROVE  \/ \E q \in Carrying' : req'[q].local.id = n
             \/ n \in DOMAIN heap'
             \/ \E c \in DOMAIN heap' : /\ heap'[c].workload = fired[n].anomaly.workload
                                        /\ fired[n].anomaly.template \in heap'[c].variants
    BY <1>6 DEF EveryAnomalyAccounted, Carrying
  <2> QED
    BY <1>1, <1>2, <1>6 DEF EveryAnomalyAccounted, Carrying
<1> QED
  BY <1>7, <1>8, <1>12, <1>13

LEMMA RecordKeeps ==
  ASSUME IngestInv, NEW r \in Request, Record(r)
  PROVE  IngestInv'
<1> DEFINE a == req[r].local
<1>1. /\ HandlerInv /\ RequestsShaped /\ req[r].step = "record" /\ S!Record(a)
      /\ UNCHANGED <<now, detectorVars, sent>> /\ r \in InFlight("record")
  BY DEF IngestInv, HandlerInv, Record, InFlight
<1>2. UNCHANGED <<fired, sent>>
  BY <1>1 DEF detectorVars
<1>3. DP!DetectorInv'
  BY <1>1, DetectorKept, DetectorFacts DEF IngestInv
<1>4. S!DedupMatches(a) = {}
  BY <1>1, NoDedup
<1>5. CASE S!Fresh(a)
  <2> DEFINE x == [step |-> "dispatch", lines |-> req[r].lines, local |-> [id |-> S!StoredID(a)]]
  <2>1. S!Insert(a) /\ S!StoredID(a) = a.id /\ Move(r, x)
    BY <1>1, <1>4, <1>5
       DEF Record, Continue, S!Record, S!Dedup, S!Group, S!StoredID, S!Fresh, S!Matches
  <2>2. x.step = "dispatch" /\ x.local.id = a.id /\ x.lines = req[r].lines
    BY <2>1
  <2> HIDE DEF x
  <2>3. CarriedOnce' /\ CardsOfFired' /\ AlertsSplit' /\ EveryAnomalyAccounted'
    BY <1>1, <1>2, <2>1, <2>2, InsertMove
  <2>4. RequestsShaped'
    BY <1>1, <2>1, <2>2, KeepsShape, RestOfBatch DEF Steps
  <2> QED
    BY <1>3, <2>3, <2>4 DEF IngestInv, HandlerInv
<1>6. CASE ~S!Fresh(a)
  <2>1. S!Group(a) /\ Move(r, NextLine(r))
    BY <1>1, <1>4, <1>6 DEF Record, S!Record, S!Dedup, S!Insert
  <2>2. /\ NextLine(r).step \in Free
        /\ \/ NextLine(r) = Idle
           \/ NextLine(r).step \in Steps /\ NextLine(r).lines \in Seq(Line) \ {<<>>}
    BY <1>1, RestOfBatch DEF Steps
  <2>3. CarriedOnce' /\ CardsOfFired' /\ AlertsSplit' /\ EveryAnomalyAccounted'
    BY <1>1, <1>2, <2>1, <2>2, GroupMove
  <2>4. RequestsShaped'
    BY <1>1, <2>1, <2>2, KeepsShape
  <2> QED
    BY <1>3, <2>3, <2>4 DEF IngestInv, HandlerInv
<1> QED
  BY <1>5, <1>6

LEMMA DispatchKeeps ==
  ASSUME IngestInv, NEW r \in Request, Dispatch(r)
  PROVE  IngestInv'
<1> DEFINE n == req[r].local.id
           x == NextLine(r)
           e == [id |-> n, severity |-> heap[n].severity, affectedPods |-> heap[n].affectedPods]
<1>1. /\ HandlerInv /\ RequestsShaped /\ req[r].step = "dispatch" /\ Move(r, x)
      /\ UNCHANGED <<now, detectorVars, storeVars>> /\ sent' = Append(sent, e)
      /\ CarriedOnce /\ CardsOfFired /\ AlertsSplit /\ EveryAnomalyAccounted
  BY DEF IngestInv, HandlerInv, Dispatch
<1>2. UNCHANGED <<all, alerts, fired>> /\ heap' = heap
  BY <1>1 DEF storeVars, detectorVars
<1>3. /\ x.step \in Free
      /\ x = Idle \/ (x.step \in Steps /\ x.lines \in Seq(Line) \ {<<>>})
  BY <1>1, RestOfBatch DEF Steps
<1>4. e.id = n
  OBVIOUS
<1> HIDE DEF x, e
<1>5. RequestsShaped'
  BY <1>1, <1>3, KeepsShape
<1>6. /\ InFlight("score")' = InFlight("score") /\ InFlight("record")' = InFlight("record")
      /\ InFlight("dispatch")' = InFlight("dispatch") \ {r} /\ r \in InFlight("dispatch")
      /\ \A q \in (InFlight("score") \cup InFlight("record") \cup InFlight("dispatch")) \ {r} :
           req'[q] = req[q]
      /\ r \notin InFlight("score") \cup InFlight("record")
  BY <1>1, <1>3, Moved DEF InFlight, Free
<1>7. Carrying' = Carrying /\ \A q \in Carrying : req'[q] = req[q]
  BY <1>6 DEF Carrying
<1>8. CarriedOnce'
  BY <1>1, <1>2, <1>7 DEF CarriedOnce, Carries
<1>9. CardsOfFired'
  BY <1>1, <1>2 DEF CardsOfFired, IsCard
<1>10. /\ Due' = Due /\ Pending' = Pending \ {n} /\ n \in Pending
  BY <1>1, <1>2, <1>6 DEF Due, Pending, AlertsSplit
<1>11. PICK R : sent \in Seq(R)
  BY <1>1 DEF AlertsSplit
<1>12. /\ DOMAIN sent' = DOMAIN sent \cup {Len(sent) + 1} /\ sent'[Len(sent) + 1] = e
       /\ Len(sent) + 1 \notin DOMAIN sent /\ \A i \in DOMAIN sent : sent'[i] = sent[i]
       /\ sent' \in Seq(R \cup {e})
  BY <1>1, <1>11
<1>13. Out' = Out \cup {n}
  BY <1>4, <1>12 DEF Out
<1>14. AlertsSplit'
  <2>1. Due' = Out' \cup Pending' /\ Out' \cap Pending' = {}
    BY <1>1, <1>10, <1>13 DEF AlertsSplit
  <2>2. \A i, j \in DOMAIN sent' : i # j => sent'[i].id # sent'[j].id
    <3>1. \A i \in DOMAIN sent : sent[i].id # n
      BY <1>1, <1>10 DEF AlertsSplit, Out
    <3> QED
      BY <1>1, <1>4, <1>12, <3>1 DEF AlertsSplit
  <2>3. IsFiniteSet(InFlight("dispatch"))'
    BY <1>1, <1>6, FS_RemoveElement DEF AlertsSplit
  <2> QED
    BY <1>1, <1>2, <1>6, <1>10, <1>12, <2>1, <2>2, <2>3 DEF AlertsSplit
<1>15. EveryAnomalyAccounted'
  BY <1>1, <1>2, <1>6 DEF EveryAnomalyAccounted
<1>16. DP!DetectorInv'
  BY <1>1, DetectorKept, DetectorFacts DEF IngestInv
<1> QED
  BY <1>5, <1>8, <1>9, <1>14, <1>15, <1>16 DEF IngestInv, HandlerInv

-----------------------------------------------------------------------------
LEMMA IngestStarts == Init => IngestInv
BY HandlerInit, DetectorStarts DEF Init, IngestInv

LEMMA IngestStays ==
  ASSUME IngestInv, UNCHANGED <<detectorVars, storeVars, req, sent>>, now' \in Nat
  PROVE  IngestInv'
<1>1. DP!DetectorInv'
  BY DetectorKept DEF IngestInv
<1>2. /\ fired' = fired /\ heap' = heap /\ all' = all /\ alerts' = alerts
      /\ req' = req /\ sent' = sent
      /\ RequestsShaped /\ CarriedOnce /\ CardsOfFired /\ AlertsSplit /\ EveryAnomalyAccounted
  BY DEF detectorVars, storeVars, IngestInv, HandlerInv
<1>3. /\ Carrying' = Carrying /\ InFlight("score")' = InFlight("score")
      /\ InFlight("record")' = InFlight("record")
      /\ InFlight("dispatch")' = InFlight("dispatch")
      /\ Due' = Due /\ Out' = Out /\ Pending' = Pending
  BY <1>2 DEF Carrying, InFlight, Due, Out, Pending
<1>4. RequestsShaped' /\ CarriedOnce' /\ CardsOfFired'
  BY <1>2, <1>3 DEF RequestsShaped, Idle, CarriedOnce, Carries, CardsOfFired, IsCard
<1>5. AlertsSplit'
  BY <1>2, <1>3 DEF AlertsSplit
<1>6. EveryAnomalyAccounted'
  BY <1>2, <1>3 DEF EveryAnomalyAccounted
<1> QED
  BY <1>1, <1>4, <1>5, <1>6 DEF IngestInv, HandlerInv

LEMMA IngestStep == IngestInv /\ [Next]_vars => IngestInv'
<1> SUFFICES ASSUME IngestInv, [Next]_vars PROVE IngestInv'
  OBVIOUS
<1>1. now \in Nat
  BY DetectorFacts DEF IngestInv
<1>2. CASE Tick
  BY <1>1, <1>2, IngestStays DEF Tick
<1>3. ASSUME NEW r \in Request, Post(r) \/ Handle(r) PROVE IngestInv'
  BY <1>3, PostKeeps, ObserveMoves, CountPodsKeeps, BumpKeeps, ScoreKeeps, RecordKeeps,
     DispatchKeeps DEF Handle
<1>4. CASE UNCHANGED vars
  BY <1>1, <1>4, IngestStays DEF vars
<1> QED
  BY <1>2, <1>3, <1>4 DEF Next

LEMMA IngestInvariant == Spec => []IngestInv
BY IngestStarts, IngestStep, PTL DEF Spec

(* What Record called fresh reaches the dispatcher once, and nothing else  *)
(* does, for any number of requests that interleave at every step.         *)
THEOREM IngestAlertsOnce == Spec => []AlertedExactlyOnce
<1>1. IngestInv => AlertedExactlyOnce
  BY OutOnce DEF IngestInv, HandlerInv
<1> QED
  BY <1>1, IngestInvariant, PTL

(* Each anomaly the detector returned is on its way to Record, has a card, *)
(* or is a variant on a card of its workload.                              *)
THEOREM IngestLosesNone == Spec => []EveryAnomalyAccounted
<1>1. IngestInv => EveryAnomalyAccounted
  BY DEF IngestInv, HandlerInv
<1> QED
  BY <1>1, IngestInvariant, PTL

-----------------------------------------------------------------------------
(* The promise of module Alerting.  Seen from there a step is one of five. *)
Of == [n \in DOMAIN fired |-> fired[n].anomaly.workload]
Open == {req[r].local.id : r \in Carrying}
SentIDs == [i \in DOMAIN sent |-> sent[i].id]

CardsSame ==
  /\ DOMAIN heap' = DOMAIN heap
  /\ \A id \in DOMAIN heap : heap'[id].workload = heap[id].workload
                             /\ heap'[id].variants = heap[id].variants

Quiet == UNCHANGED <<fired, sent, Open, Pending>> /\ CardsSame

Fired ==
  \E line \in Line : \E e :
    /\ fired' = Append(fired, e) /\ e.anomaly.workload = line.workload
    /\ Open' = Open \cup {Len(fired) + 1}
    /\ UNCHANGED <<heap, sent, Pending>>

Grouped(a) ==
  \E id \in DOMAIN heap :
    /\ heap[id].workload = a.workload
    /\ DOMAIN heap' = DOMAIN heap
    /\ heap'[id].workload = a.workload /\ heap'[id].variants = heap[id].variants \cup {a.template}
    /\ \A c \in DOMAIN heap \ {id} : heap'[c] = heap[c]
    /\ UNCHANGED <<fired, sent, Pending>>

Inserted(a) ==
  /\ DOMAIN heap' = DOMAIN heap \cup {a.id} /\ heap'[a.id].variants = {}
  /\ \A c \in DOMAIN heap : heap'[c] = heap[c]
  /\ Pending' = Pending \cup {a.id}
  /\ UNCHANGED <<fired, sent>>

Decided ==
  \E r \in InFlight("record") :
    /\ Open' = Open \ {req[r].local.id}
    /\ Grouped(req[r].local) \/ Inserted(req[r].local)

Dispatched ==
  \E n \in Pending : \E e :
    /\ e.id = n /\ sent' = Append(sent, e)
    /\ Pending' = Pending \ {n}
    /\ UNCHANGED <<fired, heap, Open>>

LEMMA HeapSame == heap' = heap => CardsSame
BY DEF CardsSame

LEMMA FreeIsQuiet ==
  ASSUME IngestInv, NEW r \in Request, NEW x, Move(r, x), req[r].step \in Free, x.step \in Free
  PROVE  Open' = Open /\ Pending' = Pending
<1>1. /\ InFlight("score")' = InFlight("score") /\ InFlight("record")' = InFlight("record")
      /\ InFlight("dispatch")' = InFlight("dispatch")
      /\ \A q \in InFlight("score") \cup InFlight("record") \cup InFlight("dispatch") :
           req'[q] = req[q]
  BY Moved DEF IngestInv, HandlerInv, InFlight, Free
<1> QED
  BY <1>1 DEF Open, Pending, Carrying

LEMMA PostIsQuiet ==
  ASSUME IngestInv, NEW r \in Request, Post(r)
  PROVE  Quiet
<1>1. PICK batch \in Batch : Move(r, [step |-> "observe", lines |-> batch])
  BY DEF Post
<1>2. req[r].step \in Free /\ [step |-> "observe", lines |-> batch].step \in Free
  BY DEF Post, Idle, Free
<1>3. UNCHANGED <<fired, sent, heap>>
  BY DEF Post, storeVars, detectorVars
<1> QED
  BY <1>1, <1>2, <1>3, FreeIsQuiet, HeapSame DEF Quiet

LEMMA CountPodsIsQuiet ==
  ASSUME IngestInv, NEW r \in Request, CountPods(r)
  PROVE  Quiet
<1>1. PICK x : Move(r, x) /\ (x = NextLine(r) \/ \E local : x = [step |-> "bump", lines |-> req[r].lines, local |-> local])
  BY DEF CountPods, Continue
<1>2. HandlerInv /\ req[r].step = "count" /\ UNCHANGED <<fired, sent, heap>>
  BY DEF IngestInv, CountPods, storeVars, detectorVars
<1>3. x.step \in Free
  BY <1>1, <1>2, RestOfBatch DEF Steps, Free
<1> QED
  BY <1>1, <1>2, <1>3, FreeIsQuiet, HeapSame DEF Quiet, Free

LEMMA BumpIsQuiet ==
  ASSUME IngestInv, NEW r \in Request, Bump(r)
  PROVE  Quiet
<1> DEFINE w == req[r].local.workload
           t == req[r].local.template
           id == all[S!Latest({i \in DOMAIN all : S!At(i).workload = w /\ S!At(i).template = t})]
           count == req[r].local.count
<1>1. /\ HandlerInv /\ req[r].step = "bump" /\ Move(r, NextLine(r))
      /\ S!BumpPods(w, t, count) /\ fired' = fired /\ sent' = sent
  BY DEF IngestInv, Bump, detectorVars
<1>2. \/ heap' = heap
      \/ heap' = [heap EXCEPT ![id].affectedPods = count, ![id].updatedAt = now]
  BY <1>1 DEF S!BumpPods
<1> HIDE DEF id, count
<1>3. CardsSame
  <2>1. CASE heap' = [heap EXCEPT ![id].affectedPods = count, ![id].updatedAt = now]
    <3>1. \A c \in DOMAIN heap : IsCard(heap[c])
      BY <1>1 DEF HandlerInv, CardsOfFired
    <3> QED
      BY <2>1, <3>1 DEF CardsSame, IsCard
  <2> QED
    BY <1>2, <2>1, HeapSame
<1>4. NextLine(r).step \in Free
  BY <1>1, RestOfBatch DEF Steps
<1> QED
  BY <1>1, <1>3, <1>4, FreeIsQuiet DEF Quiet, Free

LEMMA ScoreIsQuiet ==
  ASSUME IngestInv, NEW r \in Request, Score(r)
  PROVE  Quiet
<1>1. PICK x : Move(r, x) /\ x.step = "record" /\ x.local.id = req[r].local.id
  BY DEF Score, Continue
<1>2. req[r].step = "score" /\ UNCHANGED <<fired, sent, heap>> /\ RequestsShaped
  BY DEF Score, storeVars, detectorVars, IngestInv, HandlerInv
<1>3. /\ InFlight("score")' = InFlight("score") \ {r} /\ r \in InFlight("score")
      /\ InFlight("record")' = InFlight("record") \cup {r}
      /\ InFlight("dispatch")' = InFlight("dispatch") /\ r \notin InFlight("dispatch")
      /\ \A q \in Request \ {r} : req'[q] = req[q]
      /\ req'[r].local.id = req[r].local.id
  BY <1>1, <1>2, Moved DEF InFlight
<1>4. Carrying' = Carrying /\ \A q \in Carrying : req'[q].local.id = req[q].local.id
  BY <1>3 DEF Carrying, InFlight
<1>5. Open' = Open /\ Pending' = Pending
  BY <1>3, <1>4 DEF Open, Pending, InFlight
<1> QED
  BY <1>2, <1>5, HeapSame DEF Quiet

LEMMA ObserveFires ==
  ASSUME IngestInv, NEW r \in Request, Observe(r)
  PROVE  Quiet \/ Fired
<1> DEFINE line == Head(req[r].lines)
<1>1. /\ HandlerInv /\ RequestsShaped /\ req[r].step = "observe" /\ D!Observe(line)
      /\ now' = now /\ heap' = heap /\ sent' = sent
  BY DEF IngestInv, HandlerInv, Observe, storeVars
<1>2. line \in Line
  BY <1>1, RestOfBatch DEF Steps
<1>3. /\ fired' = IF D!Fires(line)
                  THEN Append(fired, [anomaly |-> D!Anomaly(line), nth |-> Len(seen) + 1])
                  ELSE fired
      /\ D!Fires(line) => D!Templated(line.msg.sev) /\ line.msg.words # <<>>
                          /\ D!NewCluster(line)
  BY <1>1, <1>2, ObserveKeeps DEF IngestInv
<1>4. CASE D!Fires(line)
  <2>1. PICK x : Move(r, x) /\ x.step = "score" /\ x.local.id = Len(fired) + 1
    BY <1>3, <1>4 DEF Observe, Continue
  <2>2. /\ InFlight("score")' = InFlight("score") \cup {r}
        /\ InFlight("record")' = InFlight("record")
        /\ InFlight("dispatch")' = InFlight("dispatch")
        /\ r \notin InFlight("score") \cup InFlight("record") \cup InFlight("dispatch")
        /\ \A q \in Request \ {r} : req'[q] = req[q]
        /\ req'[r] = x
    BY <1>1, <2>1, Moved DEF InFlight
  <2>3. Carrying' = Carrying \cup {r} /\ \A q \in Carrying : req'[q] = req[q]
    BY <2>2 DEF Carrying, InFlight
  <2>4. Open' = Open \cup {Len(fired) + 1}
    BY <2>1, <2>2, <2>3 DEF Open
  <2>5. Pending' = Pending
    BY <2>2 DEF Pending, InFlight
  <2>6. D!Anomaly(line).workload = line.workload
    BY DEF D!Anomaly
  <2> DEFINE e == [anomaly |-> D!Anomaly(line), nth |-> Len(seen) + 1]
  <2>7. fired' = Append(fired, e) /\ e.anomaly.workload = line.workload
    BY <1>3, <1>4, <2>6
  <2> HIDE DEF e, line
  <2> QED
    BY <1>1, <1>2, <2>4, <2>5, <2>7 DEF Fired
<1>5. CASE ~D!Fires(line)
  <2>1. PICK y : /\ Move(r, y)
                 /\ \/ y = NextLine(r)
                    \/ \E local : y = [step |-> "count", lines |-> req[r].lines, local |-> local]
    BY <1>5 DEF Observe, Continue
  <2>2. y.step \in Free /\ req[r].step \in Free
    BY <1>1, <2>1, RestOfBatch DEF Steps, Free
  <2> QED
    BY <1>1, <1>3, <1>5, <2>1, <2>2, FreeIsQuiet, HeapSame DEF Quiet
<1> QED
  BY <1>4, <1>5

LEMMA RecordDecides ==
  ASSUME IngestInv, NEW r \in Request, Record(r)
  PROVE  Decided
<1>0. PICK a : a = req[r].local
  OBVIOUS
<1>1. /\ HandlerInv /\ RequestsShaped /\ req[r].step = "record" /\ S!Record(a)
      /\ fired' = fired /\ sent' = sent /\ r \in InFlight("record")
      /\ CarriedOnce /\ CardsOfFired
  BY <1>0 DEF IngestInv, HandlerInv, Record, InFlight, detectorVars
<1>2. S!DedupMatches(a) = {}
  BY <1>0, <1>1, NoDedup
<1>3. PICK x : /\ Move(r, x) /\ x.step \in Free \cup {"dispatch"}
               /\ \/ S!Insert(a) /\ x.step = "dispatch" /\ x.local.id = a.id
                  \/ S!Group(a) /\ x.step \in Free
  <2>1. CASE S!Fresh(a)
    <3>1. S!Insert(a) /\ Continue(r, "dispatch", [id |-> a.id])
      BY <1>0, <1>1, <1>2, <2>1 DEF Record, S!Record, S!Dedup, S!Group, S!StoredID, S!Fresh, S!Matches
    <3> QED
      BY <3>1 DEF Continue
  <2>2. CASE ~S!Fresh(a)
    <3>1. S!Group(a) /\ Move(r, NextLine(r))
      BY <1>0, <1>1, <1>2, <2>2 DEF Record, S!Record, S!Dedup, S!Insert
    <3>2. NextLine(r).step \in Free
      BY <1>1, RestOfBatch DEF Steps
    <3> QED
      BY <3>1, <3>2
  <2> QED
    BY <2>1, <2>2
<1>4. /\ InFlight("dispatch")' =
           InFlight("dispatch") \cup (IF x.step = "dispatch" THEN {r} ELSE {})
      /\ Carrying' = Carrying \ {r} /\ r \in Carrying /\ r \notin InFlight("dispatch")
      /\ \A q \in (Carrying \cup InFlight("dispatch")) \ {r} : req'[q] = req[q]
      /\ req'[r] = x
  BY <1>1, <1>3, Recorded
<1>5. Open' = Open \ {a.id}
  <2>1. \A q \in Carrying \ {r} : req[q].local.id # a.id
    BY <1>0, <1>1, <1>4 DEF CarriedOnce
  <2> QED
    BY <1>0, <1>4, <2>1 DEF Open
<1>6. CASE S!Insert(a) /\ x.step = "dispatch" /\ x.local.id = a.id
  <2> DEFINE card == [workload |-> a.workload, template |-> a.template, topic |-> a.topic,
                      severity |-> a.severity, firedAt |-> a.firedAt,
                      affectedPods |-> a.affectedPods, variants |-> {},
                      state |-> "active", updatedAt |-> a.firedAt]
  <2>1. heap' = [id \in DOMAIN heap \cup {a.id} |-> IF id = a.id THEN card ELSE heap[id]]
    BY <1>6 DEF S!Insert
  <2>2. card.variants = {}
    OBVIOUS
  <2> HIDE DEF card
  <2>3. a.id \notin DOMAIN heap
    BY <1>0, <1>1, <1>4 DEF CarriedOnce
  <2>4. Pending' = Pending \cup {a.id}
    BY <1>4, <1>6 DEF Pending
  <2>5. Inserted(a)
    BY <1>1, <2>1, <2>2, <2>3, <2>4 DEF Inserted
  <2> QED
    BY <1>0, <1>1, <1>5, <2>5 DEF Decided
<1>7. CASE S!Group(a) /\ x.step \in Free
  <2>0. PICK id : id = S!StoredID(a)
    OBVIOUS
  <2>1. id \in DOMAIN heap /\ heap[id].workload = a.workload /\ heap[id].template # a.template
    BY <1>0, <1>1, <1>7, <2>0, GroupCard, NoSuchCard DEF S!Group
  <2>2. heap' = [heap EXCEPT ![id] =
          [heap[id] EXCEPT !.variants = @ \cup ({a.template} \ {heap[id].template}),
                           !.updatedAt = a.firedAt,
                           !.affectedPods = IF a.affectedPods > @ THEN a.affectedPods ELSE @]]
    BY <1>7, <2>0 DEF S!Group
  <2>3. IsCard(heap[id])
    BY <1>1, <2>1 DEF CardsOfFired
  <2> DEFINE vs == heap[id].variants \cup ({a.template} \ {heap[id].template})
             m == IF a.affectedPods > heap[id].affectedPods THEN a.affectedPods
                  ELSE heap[id].affectedPods
             u == a.firedAt
             c == [heap[id] EXCEPT !.variants = vs, !.updatedAt = u, !.affectedPods = m]
  <2>4. heap' = [heap EXCEPT ![id] = c]
    BY <2>2
  <2>5. vs = heap[id].variants \cup {a.template}
    BY <2>1
  <2> HIDE DEF vs, m, u
  <2>6. c.workload = heap[id].workload /\ c.variants = vs
    BY <2>3 DEF IsCard
  <2> HIDE DEF c
  <2>7. /\ DOMAIN heap' = DOMAIN heap /\ heap'[id] = c
        /\ \A d \in DOMAIN heap \ {id} : heap'[d] = heap[d]
    BY <2>1, <2>4
  <2>8. Pending' = Pending
    BY <1>4, <1>7 DEF Pending, Free
  <2>9. Grouped(a)
    BY <1>1, <2>1, <2>5, <2>6, <2>7, <2>8 DEF Grouped
  <2> QED
    BY <1>0, <1>1, <1>5, <2>9 DEF Decided
<1> QED
  BY <1>3, <1>6, <1>7

LEMMA DispatchDispatches ==
  ASSUME IngestInv, NEW r \in Request, Dispatch(r)
  PROVE  Dispatched
<1>0. PICK n, x, e : /\ n = req[r].local.id /\ x = NextLine(r)
                     /\ e = [id |-> n, severity |-> heap[n].severity,
                             affectedPods |-> heap[n].affectedPods]
  OBVIOUS
<1>1. /\ HandlerInv /\ RequestsShaped /\ req[r].step = "dispatch" /\ Move(r, x)
      /\ UNCHANGED <<fired, heap>> /\ sent' = Append(sent, e) /\ AlertsSplit
  BY <1>0 DEF IngestInv, HandlerInv, Dispatch, storeVars, detectorVars
<1>2. x.step \in Free /\ e.id = n
  BY <1>0, <1>1, RestOfBatch DEF Steps
<1>3. /\ InFlight("score")' = InFlight("score") /\ InFlight("record")' = InFlight("record")
      /\ InFlight("dispatch")' = InFlight("dispatch") \ {r} /\ r \in InFlight("dispatch")
      /\ \A q \in (InFlight("score") \cup InFlight("record") \cup InFlight("dispatch")) \ {r} :
           req'[q] = req[q]
      /\ r \notin InFlight("score") \cup InFlight("record")
  BY <1>1, <1>2, Moved DEF InFlight, Free
<1>4. Open' = Open
  BY <1>3 DEF Open, Carrying
<1>5. \A q \in InFlight("dispatch") \ {r} : req[q].local.id # n
  BY <1>0, <1>1, <1>3 DEF AlertsSplit
<1>6. Pending' = Pending \ {n} /\ n \in Pending
  BY <1>0, <1>3, <1>5 DEF Pending
<1> QED
  BY <1>1, <1>2, <1>4, <1>6 DEF Dispatched

LEMMA StepKinds ==
  ASSUME IngestInv, [Next]_vars
  PROVE  Quiet \/ Fired \/ Decided \/ Dispatched
<1>1. CASE Tick \/ UNCHANGED vars
  <2>1. UNCHANGED <<fired, sent, heap, req>>
    BY <1>1 DEF Tick, vars, detectorVars, storeVars
  <2>2. Open' = Open /\ Pending' = Pending
    BY <2>1 DEF Open, Pending, Carrying, InFlight
  <2> QED
    BY <2>1, <2>2, HeapSame DEF Quiet
<1>2. ASSUME NEW r \in Request, Post(r) \/ Handle(r)
      PROVE  Quiet \/ Fired \/ Decided \/ Dispatched
  BY <1>2, PostIsQuiet, CountPodsIsQuiet, BumpIsQuiet, ScoreIsQuiet, ObserveFires,
     RecordDecides, DispatchDispatches DEF Handle
<1> QED
  BY <1>1, <1>2 DEF Next

(* What is decided is an anomaly that a request carried, with no card yet. *)
LEMMA DecidedOf ==
  ASSUME IngestInv, Decided
  PROVE  \E a : /\ a.id \in Open /\ a.id \in DOMAIN fired \ DOMAIN heap
                /\ a.workload = fired[a.id].anomaly.workload
                /\ a.template = fired[a.id].anomaly.template
                /\ Open' = Open \ {a.id} /\ fired' = fired /\ sent' = sent
                /\ Grouped(a) \/ Inserted(a)
<1>1. PICK r \in InFlight("record") : /\ Open' = Open \ {req[r].local.id}
                                      /\ Grouped(req[r].local) \/ Inserted(req[r].local)
  BY DEF Decided
<1>2. PICK a : a = req[r].local
  OBVIOUS
<1>3. CarriedOnce /\ r \in Carrying /\ req[r].step = "record"
  BY <1>1 DEF IngestInv, HandlerInv, Carrying, InFlight
<1>4. /\ a.id \in Open /\ a.id \in DOMAIN fired \ DOMAIN heap
      /\ a.workload = fired[a.id].anomaly.workload
      /\ a.template = fired[a.id].anomaly.template
  BY <1>2, <1>3 DEF CarriedOnce, Carries, Open
<1>5. Open' = Open \ {a.id} /\ (Grouped(a) \/ Inserted(a))
  BY <1>1, <1>2
<1>6. fired' = fired /\ sent' = sent
  BY <1>5 DEF Grouped, Inserted
<1> QED
  BY <1>4, <1>5, <1>6

(* A variant on a card is the template of an anomaly of its workload: the  *)
(* one that was folded into the card.                                      *)
VariantsFired ==
  \A id \in DOMAIN heap : \A t \in heap[id].variants :
    \E n \in DOMAIN fired : /\ fired[n].anomaly.workload = heap[id].workload
                            /\ fired[n].anomaly.template = t

LEMMA AppendIs ==
  ASSUME NEW R, NEW s \in Seq(R), NEW x
  PROVE  Append(s, x) = [i \in 1..Len(s) + 1 |-> IF i = Len(s) + 1 THEN x ELSE s[i]]
<1> DEFINE t == Append(s, x)
<1>1. /\ t \in Seq(R \cup {x}) /\ Len(t) = Len(s) + 1 /\ Len(s) \in Nat
      /\ t[Len(s) + 1] = x /\ \A i \in 1..Len(s) : t[i] = s[i]
  OBVIOUS
<1>2. DOMAIN t = 1..Len(s) + 1
  BY <1>1
<1>5. t = [i \in DOMAIN t |-> t[i]]
  <2>1. PICK u : u = t
    OBVIOUS
  <2>2. PICK n \in Nat : u \in [1..n -> R \cup {x}]
    <3>1. u \in Seq(R \cup {x})
      BY <1>1, <2>1
    <3> QED
      BY ONLY <3>1, SeqDef
  <2>3. u = [i \in DOMAIN u |-> u[i]]
    BY ONLY <2>2, Zenon
  <2> QED
    BY ONLY <2>1, <2>3, Zenon
<1> HIDE DEF t
<1>3. \A i \in 1..Len(s) + 1 : t[i] = IF i = Len(s) + 1 THEN x ELSE s[i]
  BY <1>1
<1>4. t = [i \in 1..Len(s) + 1 |-> IF i = Len(s) + 1 THEN x ELSE s[i]]
  BY <1>2, <1>3, <1>5
<1> QED
  BY <1>4 DEF t

LEMMA FiredGrows ==
  ASSUME IngestInv, NEW e, fired' = Append(fired, e)
  PROVE  /\ Len(fired) \in Nat /\ DOMAIN fired' = DOMAIN fired \cup {Len(fired) + 1}
         /\ Len(fired) + 1 \notin DOMAIN fired /\ fired'[Len(fired) + 1] = e
         /\ \A n \in DOMAIN fired : fired'[n] = fired[n]
<1>1. Len(fired) \in Nat /\ \E R : fired \in Seq(R)
  BY DetectorFacts DEF IngestInv
<1> QED
  BY <1>1

LEMMA VariantsStep ==
  ASSUME IngestInv, VariantsFired, [Next]_vars
  PROVE  VariantsFired'
<1>1. CASE Quiet
  BY <1>1 DEF Quiet, CardsSame, VariantsFired
<1>2. CASE Fired
  <2>1. PICK e : fired' = Append(fired, e) /\ heap' = heap
    BY <1>2 DEF Fired
  <2>2. DOMAIN fired \subseteq DOMAIN fired' /\ \A n \in DOMAIN fired : fired'[n] = fired[n]
    BY <2>1, FiredGrows
  <2> QED
    BY <2>1, <2>2 DEF VariantsFired
<1>3. CASE Decided
  <2>1. PICK a : /\ a.id \in DOMAIN fired \ DOMAIN heap
                 /\ a.workload = fired[a.id].anomaly.workload
                 /\ a.template = fired[a.id].anomaly.template
                 /\ fired' = fired /\ (Grouped(a) \/ Inserted(a))
    BY <1>3, DecidedOf
  <2>2. CASE Grouped(a)
    BY <2>1, <2>2 DEF Grouped, VariantsFired
  <2>3. CASE Inserted(a)
    BY <2>1, <2>3 DEF Inserted, VariantsFired
  <2> QED
    BY <2>1, <2>2, <2>3
<1>4. CASE Dispatched
  BY <1>4 DEF Dispatched, VariantsFired
<1> QED
  BY <1>1, <1>2, <1>3, <1>4, StepKinds

LEMMA VariantsStart == Init => VariantsFired
BY DEF Init, S!Init, VariantsFired

-----------------------------------------------------------------------------
LEMMA PromiseStarts == Init => Promise!Init
<1> SUFFICES ASSUME Init PROVE Promise!Init
  OBVIOUS
<1>1. req = [r \in Request |-> Idle] /\ sent = <<>> /\ DOMAIN heap = {} /\ fired = <<>>
  BY DEF Init, S!Init, D!Init
<1>2. InFlight("score") = {} /\ InFlight("record") = {} /\ InFlight("dispatch") = {}
  BY <1>1 DEF InFlight, Idle
<1> QED
  BY <1>1, <1>2 DEF Promise!Init, Variants

LEMMA QuietStutters ==
  ASSUME Quiet
  PROVE  UNCHANGED Promise!vars
<1>1. UNCHANGED <<fired, sent, Open, Pending>> /\ CardsSame
  BY DEF Quiet
<1>2. Variants' = Variants /\ (DOMAIN heap)' = DOMAIN heap
  BY <1>1 DEF Variants, CardsSame
<1> QED
  BY <1>1, <1>2 DEF Promise!vars, Open, Carrying, Pending

LEMMA FiredFinds ==
  ASSUME IngestInv, IngestInv', VariantsFired, Fired
  PROVE  Promise!Next
<1>1. PICK line, e :
         /\ line \in Line
         /\ fired' = Append(fired, e) /\ e.anomaly.workload = line.workload
         /\ Open' = Open \cup {Len(fired) + 1}
         /\ UNCHANGED <<heap, sent, Pending>>
  BY DEF Fired
<1>2. PICK w : w = line.workload /\ w \in Workload
  BY <1>1, PartsAssumption DEF D!DetectorAssumption, D!LogLine
<1>3. PICK N : N = Len(fired) + 1
  OBVIOUS
<1>4. /\ DOMAIN fired' = DOMAIN fired \cup {N} /\ N \notin DOMAIN fired /\ fired'[N] = e
      /\ \A n \in DOMAIN fired : fired'[n] = fired[n]
      /\ Len(fired) \in Nat /\ DOMAIN fired = 1..Len(fired)
  BY <1>1, <1>3, FiredGrows, DetectorFacts DEF IngestInv
<1>5. \A n \in DOMAIN fired : fired[n].anomaly.workload = e.anomaly.workload
                                => fired[n].anomaly.template # e.anomaly.template
  <2>1. \A i, j \in DOMAIN fired' :
          (i # j /\ fired'[i].anomaly.workload = fired'[j].anomaly.workload)
            => fired'[i].anomaly.template # fired'[j].anomaly.template
    BY DEF IngestInv, DP!DetectorInv, DP!FireOnce
  <2> QED
    BY <1>4, <2>1
<1>6. Variants' = Variants
  <2>1. \A id \in DOMAIN heap :
          ~(heap[id].workload = e.anomaly.workload /\ e.anomaly.template \in heap[id].variants)
    BY <1>5 DEF VariantsFired
  <2> QED
    BY <1>1, <1>4, <2>1 DEF Variants
<1>7. Of' = Append(Of, w) /\ Len(Of) + 1 = N
  <2>1. Of \in Seq({fired[n].anomaly.workload : n \in DOMAIN fired}) /\ Len(Of) = Len(fired)
    BY <1>4 DEF Of
  <2>2. Append(Of, w) = [n \in 1..Len(fired) + 1 |-> IF n = Len(fired) + 1 THEN w ELSE Of[n]]
    BY <2>1, AppendIs
  <2>3. Of' = [n \in 1..Len(fired) + 1 |-> fired'[n].anomaly.workload]
    BY <1>3, <1>4 DEF Of
  <2>4. \A n \in 1..Len(fired) + 1 :
          fired'[n].anomaly.workload = IF n = Len(fired) + 1 THEN w ELSE Of[n]
    BY <1>1, <1>2, <1>3, <1>4 DEF Of
  <2> QED
    BY <1>3, <2>1, <2>2, <2>3, <2>4
<1>8. Promise!Find(w)
  BY <1>1, <1>3, <1>6, <1>7 DEF Promise!Find, Of, Open, Carrying, Pending
<1> QED
  BY <1>2, <1>8 DEF Promise!Next

LEMMA DecidedDecides ==
  ASSUME IngestInv, Decided
  PROVE  Promise!Next
<1>1. PICK a : /\ a.id \in Open /\ a.id \in DOMAIN fired \ DOMAIN heap
               /\ a.workload = fired[a.id].anomaly.workload
               /\ a.template = fired[a.id].anomaly.template
               /\ Open' = Open \ {a.id} /\ fired' = fired /\ sent' = sent
               /\ Grouped(a) \/ Inserted(a)
  BY DecidedOf
<1>2. Of' = Of /\ SentIDs' = SentIDs
  BY <1>1 DEF Of, SentIDs
<1>3. CASE Grouped(a)
  <2>1. PICK id \in DOMAIN heap :
          /\ heap[id].workload = a.workload
          /\ DOMAIN heap' = DOMAIN heap
          /\ heap'[id].workload = a.workload
          /\ heap'[id].variants = heap[id].variants \cup {a.template}
          /\ \A c \in DOMAIN heap \ {id} : heap'[c] = heap[c]
          /\ Pending' = Pending
    BY <1>3 DEF Grouped
  <2>2. /\ DOMAIN heap \subseteq DOMAIN fired
        /\ heap[id].workload = fired[id].anomaly.workload
    BY <2>1 DEF IngestInv, HandlerInv, CardsOfFired
  <2>3. \A n \in DOMAIN fired : (fired[n].anomaly.workload = a.workload
                                  /\ fired[n].anomaly.template = a.template) => n = a.id
    BY <1>1, DetectorFacts DEF IngestInv
  <2>4. Variants' = Variants \cup {<<id, a.id>>}
    <3>1. \A c \in DOMAIN heap, n \in DOMAIN fired :
            <<c, n>> \in Variants' <=> <<c, n>> \in Variants \cup {<<id, a.id>>}
      <4>1. ASSUME NEW c \in DOMAIN heap, NEW n \in DOMAIN fired
            PROVE  <<c, n>> \in Variants' <=>
                     /\ heap'[c].workload = fired[n].anomaly.workload
                     /\ fired[n].anomaly.template \in heap'[c].variants
        BY <1>1, <2>1 DEF Variants
      <4>2. ASSUME NEW c \in DOMAIN heap, NEW n \in DOMAIN fired
            PROVE  <<c, n>> \in Variants <=>
                     /\ heap[c].workload = fired[n].anomaly.workload
                     /\ fired[n].anomaly.template \in heap[c].variants
        BY DEF Variants
      <4>3. ASSUME NEW c \in DOMAIN heap, NEW n \in DOMAIN fired, c # id
            PROVE  <<c, n>> \in Variants' <=> <<c, n>> \in Variants \cup {<<id, a.id>>}
        <5>1. heap'[c] = heap[c] /\ <<c, n>> # <<id, a.id>>
          BY <2>1, <4>3
        <5> QED
          BY <4>1, <4>2, <5>1
      <4>4. ASSUME NEW n \in DOMAIN fired
            PROVE  <<id, n>> \in Variants' <=> <<id, n>> \in Variants \cup {<<id, a.id>>}
        <5>1. <<id, n>> = <<id, a.id>> <=> n = a.id
          OBVIOUS
        <5>2. <<id, n>> \in Variants' <=>
                /\ a.workload = fired[n].anomaly.workload
                /\ \/ fired[n].anomaly.template \in heap[id].variants
                   \/ fired[n].anomaly.template = a.template
          BY <2>1, <4>1
        <5>3. <<id, n>> \in Variants <=>
                /\ a.workload = fired[n].anomaly.workload
                /\ fired[n].anomaly.template \in heap[id].variants
          BY <2>1, <4>2
        <5> QED
          BY <1>1, <2>3, <5>1, <5>2, <5>3
      <4> QED
        BY <4>3, <4>4
    <3>2. /\ Variants \subseteq (DOMAIN heap) \X (DOMAIN fired)
          /\ Variants' \subseteq (DOMAIN heap) \X (DOMAIN fired)
          /\ <<id, a.id>> \in (DOMAIN heap) \X (DOMAIN fired)
      BY <1>1, <2>1 DEF Variants
    <3> QED
      BY <3>1, <3>2
  <2>5. Of[id] = Of[a.id]
    BY <1>1, <2>1, <2>2 DEF Of
  <2>6. Promise!Absorb(a.id, id)
    BY <1>1, <1>2, <2>1, <2>4, <2>5
       DEF Promise!Absorb, Of, SentIDs, Open, Carrying, Pending
  <2> QED
    BY <1>1, <2>1, <2>6 DEF Promise!Next, Open, Carrying
<1>4. CASE Inserted(a)
  <2>1. /\ DOMAIN heap' = DOMAIN heap \cup {a.id} /\ heap'[a.id].variants = {}
        /\ \A c \in DOMAIN heap : heap'[c] = heap[c]
        /\ Pending' = Pending \cup {a.id}
    BY <1>4 DEF Inserted
  <2>2. Variants' = Variants
    BY <1>1, <2>1 DEF Variants
  <2>3. Promise!MakeCard(a.id)
    BY <1>1, <1>2, <2>1, <2>2 DEF Promise!MakeCard, Of, SentIDs, Open, Carrying, Pending
  <2> QED
    BY <1>1, <2>3 DEF Promise!Next, Open, Carrying
<1> QED
  BY <1>1, <1>3, <1>4

LEMMA DispatchedAlerts ==
  ASSUME IngestInv, Dispatched
  PROVE  Promise!Next
<1>1. PICK n, e : /\ n \in Pending /\ e.id = n /\ sent' = Append(sent, e)
                  /\ Pending' = Pending \ {n}
                  /\ UNCHANGED <<fired, heap, Open>>
  BY DEF Dispatched
<1>2. Of' = Of /\ Variants' = Variants
  BY <1>1 DEF Of, Variants
<1>3. PICK R : sent \in Seq(R)
  BY DEF IngestInv, HandlerInv, AlertsSplit
<1>4. SentIDs' = Append(SentIDs, n)
  <2>1. /\ Len(sent) \in Nat /\ DOMAIN sent = 1..Len(sent)
        /\ DOMAIN sent' = 1..Len(sent) + 1 /\ sent'[Len(sent) + 1] = e
        /\ \A i \in 1..Len(sent) : sent'[i] = sent[i]
    BY <1>1, <1>3
  <2>2. SentIDs \in Seq({sent[i].id : i \in DOMAIN sent}) /\ Len(SentIDs) = Len(sent)
    BY <2>1 DEF SentIDs
  <2>3. Append(SentIDs, n)
          = [i \in 1..Len(sent) + 1 |-> IF i = Len(sent) + 1 THEN n ELSE SentIDs[i]]
    BY <2>2, AppendIs
  <2>4. SentIDs' = [i \in 1..Len(sent) + 1 |-> sent'[i].id]
    BY <2>1 DEF SentIDs
  <2>5. \A i \in 1..Len(sent) + 1 :
          sent'[i].id = IF i = Len(sent) + 1 THEN n ELSE SentIDs[i]
    BY <1>1, <2>1 DEF SentIDs
  <2> QED
    BY <2>3, <2>4, <2>5
<1>5. Promise!Alert(n)
  BY <1>1, <1>2, <1>4 DEF Promise!Alert, Of, SentIDs, Open, Carrying, Pending
<1> QED
  BY <1>1, <1>5 DEF Promise!Next, Pending

LEMMA PromiseSteps ==
  IngestInv /\ IngestInv' /\ VariantsFired /\ [Next]_vars => [Promise!Next]_(Promise!vars)
BY StepKinds, QuietStutters, FiredFinds, DecidedDecides, DispatchedAlerts

(* The requests together keep the promise of module Alerting: each step of *)
(* one of them is a step of the promise or none, for any number of         *)
(* requests, lines and cards, at any windows and limits.                   *)
THEOREM IngestKeepsPromise == Spec => Promised
<1>1. VariantsFired /\ IngestInv /\ [Next]_vars => VariantsFired'
  BY VariantsStep
<1> QED
  BY <1>1, VariantsStart, IngestInvariant, PromiseStarts, PromiseSteps, PTL
     DEF Spec, Promised, Promise!Spec

=============================================================================
