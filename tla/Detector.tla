------------------------------ MODULE Detector ------------------------------
(***************************************************************************)
(* templates.Detector: the "new error template" detector.  One action per  *)
(* call, each atomic because it runs under Detector.mu.  A log message is  *)
(* the severity logsev.Classify gives it and its tokens; time is a number  *)
(* of minutes.                                                             *)
(***************************************************************************)
EXTENDS Drain3

CONSTANTS
  Workload,      \* namespace / kind / name, already resolved
  Pod, Digest,   \* pod names, image digests
  None,          \* the empty pod name or digest of a line that lacks it
  Message,       \* the messages: records [sev, words]
  MinHistory,    \* MinHistory (5 minutes)
  MinLines,      \* MinLines (200)
  PodRetention,  \* retain argument of gcPods (30 minutes)
  HitRetention,  \* retain argument of trimHits (60 minutes)
  Line,          \* the log lines that arrive, a subset of LogLine
  MaxTime,       \* bound on the clock
  MaxLines       \* bound on the lines observed

\* logsev.Severity, an iota enumeration; MinSeverity is Warn.
Trace == 0
Debug == 1
Info  == 2
Warn  == 3
Error == 4
Fatal == 5
Unknown == 6
MinSeverity == Warn

LogLine == [workload : Workload, pod : Pod \cup {None},
            digest : Digest \cup {None}, msg : Message]

ASSUME DetectorAssumption ==
  /\ Message \subseteq [sev : Trace..Unknown, words : Seq(Token)]
  /\ Line \subseteq LogLine
  /\ None \notin Pod \cup Digest
  /\ MinHistory \in Nat /\ MinLines \in Nat
  /\ PodRetention \in Nat /\ HitRetention \in Nat
  /\ MaxTime \in Nat /\ MaxLines \in Nat

VARIABLES
  now,        \* Detector.now()
  baselines,  \* Detector.baselines
  pods,       \* Detector.pods: <<workload, cluster ID>> -> pod -> last seen
  hits,       \* Detector.hits: <<workload, cluster ID>> -> times
  seen,       \* history: the lines observed, with time and cluster ID
  fired       \* history: the anomalies returned, each with its line's place in seen

detectorVars == <<baselines, pods, hits, seen, fired>>

Empty == [x \in {} |-> x]
Put(f, k, v) == [x \in DOMAIN f \cup {k} |-> IF x = k THEN v ELSE f[x]]
Lookup(f, k, default) == IF k \in DOMAIN f THEN f[k] ELSE default

-----------------------------------------------------------------------------
\* The severity gate: what is fed to Drain3.
Templated(sev) == sev = Unknown \/ sev >= MinSeverity

\* The baseline Observe works on, created on the first line it templates.
BaselineOf(w) ==
  Lookup(baselines, w,
         [miner |-> newMiner, firstSeen |-> now, lines |-> 0,
          known |-> {}, digestSeen |-> Empty])

\* Mutant: the pod seen exactly at the cutoff is dropped.
gcPodsAtCutoff(ps, cutoff) == [p \in {q \in DOMAIN ps : ps[q] > cutoff} |-> ps[p]]

\* gcPods and trimHits: what is left of a key's pods and hits at the cutoff.
gcPods(ps, cutoff) == [p \in {q \in DOMAIN ps : ps[q] >= cutoff} |-> ps[p]]

\* Where trimHits stops looking: the first hit not before the cutoff.
FirstKept(ts, cutoff) ==
  CHOOSE i \in 1..(Len(ts) + 1) :
    /\ \A j \in 1..(i - 1) : ts[j] < cutoff
    /\ i \in DOMAIN ts => ts[i] >= cutoff

trimHits(ts, cutoff) == SubSeq(ts, FirstKept(ts, cutoff), Len(ts))

(* The cluster the line goes to, and whether that creates it.              *)
ClusterOf(line) == AddID(BaselineOf(line.workload).miner, line.msg.words)
NewCluster(line) == IsNew(BaselineOf(line.workload).miner, line.msg.words)

(* The baseline after a templated line.                                    *)
NextBaseline(line) ==
  LET b  == BaselineOf(line.workload)
      id == ClusterOf(line)
      digests == Lookup(b.digestSeen, id, {})
  IN [b EXCEPT !.miner = Add(b.miner, line.msg.words),
               !.lines = @ + 1,
               !.known = IF NewCluster(line) THEN @ \cup {id} ELSE @,
               !.digestSeen = Put(@, id, digests \cup ({line.digest} \ {None}))]

(* Its pods in the last PodRetention, its hits in the last HitRetention.   *)
NextPods(line) ==
  LET ps == Lookup(pods, <<line.workload, ClusterOf(line)>>, Empty) IN
  gcPods(IF line.pod = None THEN ps ELSE Put(ps, line.pod, now), now - PodRetention)

NextHits(line) ==
  LET ts == Lookup(hits, <<line.workload, ClusterOf(line)>>, <<>>) IN
  trimHits(Append(ts, now), now - HitRetention)

TemplateText(line) ==
  NextBaseline(line).miner.clusters[ClusterOf(line)].template

\* Mutant: the known clusters are not consulted.
FiresAgain(line) ==
  LET b == BaselineOf(line.workload) IN
  /\ Templated(line.msg.sev) /\ line.msg.words # <<>>
  /\ now - b.firstSeen >= MinHistory
  /\ NextBaseline(line).lines >= MinLines

\* Mutant: one of the two cold-start gates is enough.
FiresEitherGate(line) ==
  LET b == BaselineOf(line.workload) IN
  /\ Templated(line.msg.sev) /\ line.msg.words # <<>>
  /\ NewCluster(line)
  /\ ClusterOf(line) \notin b.known
  /\ now - b.firstSeen >= MinHistory \/ NextBaseline(line).lines >= MinLines

(* Observe returns an anomaly for a new cluster past the cold-start gates. *)
Fires(line) ==
  LET b == BaselineOf(line.workload) IN
  /\ Templated(line.msg.sev) /\ line.msg.words # <<>>
  /\ NewCluster(line)
  /\ ClusterOf(line) \notin b.known
  /\ now - b.firstSeen >= MinHistory
  /\ NextBaseline(line).lines >= MinLines

Anomaly(line) ==
  [workload |-> line.workload, digest |-> line.digest, firedAt |-> now,
   template |-> TemplateText(line),
   affectedPods |-> Cardinality(DOMAIN NextPods(line)),
   firstSeenInVersion |->
     /\ Lookup(BaselineOf(line.workload).digestSeen, ClusterOf(line), {}) = {}
     /\ line.digest # None]

-----------------------------------------------------------------------------
Init ==
  /\ now = 0
  /\ baselines = Empty /\ pods = Empty /\ hits = Empty
  /\ seen = <<>> /\ fired = <<>>

Saw(line, id) == seen' = Append(seen, [line |-> line, at |-> now, cluster |-> id])

\* Below MinSeverity: only an existing baseline counts the line.
CountLine(line) ==
  /\ ~Templated(line.msg.sev)
  /\ baselines' =
       IF line.workload \in DOMAIN baselines
       THEN [baselines EXCEPT ![line.workload].lines = @ + 1]
       ELSE baselines
  /\ Saw(line, 0)
  /\ UNCHANGED <<pods, hits, fired>>

\* No tokens, no cluster: the baseline is created but the line not counted.
BlankLine(line) ==
  /\ Templated(line.msg.sev) /\ line.msg.words = <<>>
  /\ baselines' = Put(baselines, line.workload, BaselineOf(line.workload))
  /\ Saw(line, 0)
  /\ UNCHANGED <<pods, hits, fired>>

TemplateLine(line) ==
  LET key == <<line.workload, ClusterOf(line)>> IN
  /\ Templated(line.msg.sev) /\ line.msg.words # <<>>
  /\ baselines' = Put(baselines, line.workload, NextBaseline(line))
  /\ pods' = Put(pods, key, NextPods(line))
  /\ hits' = Put(hits, key, NextHits(line))
  /\ Saw(line, key[2])
  /\ fired' = IF Fires(line) THEN Append(fired, [anomaly |-> Anomaly(line), nth |-> Len(seen) + 1])
              ELSE fired

Observe(line) == CountLine(line) \/ BlankLine(line) \/ TemplateLine(line)

-----------------------------------------------------------------------------
(* PodCount and HitsAround walk over the tracked clusters of a workload,   *)
(* in pods or in hits, and take the first whose text it is: with several   *)
(* of one text Go's map order picks any, and without one they return 0.    *)
(* Each is the set of what it may return.                                  *)
ClustersNamed(tracked, w, template) ==
  {id \in {k[2] : k \in {key \in DOMAIN tracked : key[1] = w}} :
     /\ w \in DOMAIN baselines
     /\ id \in DOMAIN baselines[w].miner.clusters
     /\ baselines[w].miner.clusters[id].template = template}

PodCounts(w, template) ==
  IF ClustersNamed(pods, w, template) = {} THEN {0}
  ELSE {Cardinality(DOMAIN pods[<<w, id>>]) : id \in ClustersNamed(pods, w, template)}

\* Mutant: a line at the rollout itself counts on both sides.
AroundTwice(ts, pivot, window) ==
  << Cardinality({i \in DOMAIN ts : ts[i] >= pivot - window /\ ts[i] <= pivot}),
     Cardinality({i \in DOMAIN ts : ts[i] >= pivot /\ ts[i] <= pivot + window}) >>

\* <<before, after>>: the hits of one cluster on either side of a rollout.
Around(ts, pivot, window) ==
  << Cardinality({i \in DOMAIN ts : ts[i] >= pivot - window /\ ts[i] < pivot}),
     Cardinality({i \in DOMAIN ts : ts[i] >= pivot /\ ts[i] <= pivot + window}) >>

HitsAround(w, template, pivot, window) ==
  IF ClustersNamed(hits, w, template) = {} THEN {<<0, 0>>}
  ELSE {Around(hits[<<w, id>>], pivot, window) : id \in ClustersNamed(hits, w, template)}

-----------------------------------------------------------------------------
\* The environment's clock.
Tick ==
  /\ now < MaxTime
  /\ now' = now + 1
  /\ UNCHANGED detectorVars

ObserveSome ==
  /\ Len(seen) < MaxLines
  /\ \E line \in Line : Observe(line)
  /\ UNCHANGED now

Next == ObserveSome \/ Tick

Spec == Init /\ [][Next]_<<now, detectorVars>>

-----------------------------------------------------------------------------
Key == Workload \X (Nat \ {0})

\* The lines of seen that went to the cluster of key k.
LinesOf(k) ==
  {n \in DOMAIN seen : <<seen[n].line.workload, seen[n].cluster>> = k}

(* A template text alerts at most once in a workload's life: the miner     *)
(* never takes a line it knows for a new cluster, so Record's dedup is     *)
(* never what keeps the dashboard quiet.                                   *)
FireOnce ==
  \A i, j \in DOMAIN fired :
    (i # j /\ fired[i].anomaly.workload = fired[j].anomaly.workload)
      => fired[i].anomaly.template # fired[j].anomaly.template

(* README, cold-start gate: nothing fires before the workload has been     *)
(* watched for MinHistory and has emitted MinLines lines, counted over its *)
(* real history whatever created or touched its baseline.                  *)
ColdStartQuiet ==
  \A i \in DOMAIN fired :
    LET earlier == {n \in 1..fired[i].nth :
                      seen[n].line.workload = fired[i].anomaly.workload}
    IN /\ Cardinality(earlier) >= MinLines
       /\ \E n \in earlier : seen[n].at <= fired[i].anomaly.firedAt - MinHistory

(* The pods of a cluster are those that really emitted it: none that did   *)
(* so in the last PodRetention is missing, and right after a line for the  *)
(* cluster there are no others.                                            *)
PodsExact ==
  \A k \in DOMAIN pods :
    LET recent == {seen[n].line.pod : n \in {m \in LinesOf(k) : seen[m].at >= now - PodRetention}}
                    \ {None}
    IN /\ recent \subseteq DOMAIN pods[k]
       /\ (seen # <<>> /\ Len(seen) \in LinesOf(k) /\ seen[Len(seen)].at = now)
            => DOMAIN pods[k] = recent

\* <<before, after>> as they happened: the lines that went to the cluster of k.
LinesAround(k, pivot, window) ==
  << Cardinality({n \in LinesOf(k) : seen[n].at \in pivot - window .. pivot - 1}),
     Cardinality({n \in LinesOf(k) : seen[n].at \in pivot .. pivot + window}) >>

(* The Before/After panel never mixes or makes up counts: asked for a text *)
(* that a cluster of the workload now has, around any rollout whose window *)
(* lies in the retained hour, HitsAround returns the number of lines that  *)
(* went to a cluster of that text on either side - to the one there is,    *)
(* or, when several have merged to one text, to any one of these, never    *)
(* their sum and never the (0, 0) of a text it does not find.              *)
BeforeAfterExact ==
  \A w \in DOMAIN baselines, window \in 1..HitRetention, pivot \in 0..now :
    pivot - window >= now - HitRetention =>
      LET clusters == baselines[w].miner.clusters IN
      \A id \in DOMAIN clusters :
        HitsAround(w, clusters[id].template, pivot, window) =
          {LinesAround(<<w, i>>, pivot, window) :
             i \in {j \in DOMAIN clusters : clusters[j].template = clusters[id].template}}

=============================================================================
