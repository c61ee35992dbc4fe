------------------------------ MODULE MCIngest ------------------------------
(* Two workloads.  The first emits two errors of one topic, one of them    *)
(* from two pods; the second emits one.  A batch is one line, or the       *)
(* first's two errors.                                                     *)
EXTENDS Ingest, TLC

CONSTANTS w1, w2, p1, p2, timeout

ErrorLevel == 4  \* Error of module Detector
Msg(tokens) == [sev |-> ErrorLevel, words |-> tokens]
Refused == Msg(<<"a", "b">>)
Reset   == Msg(<<"b">>)
MCMessage == {Refused, Reset}

LineOf(w, p, m) == [workload |-> w, pod |-> p, digest |-> None, msg |-> m]
MCLine == {LineOf(w1, p1, Refused), LineOf(w1, p2, Refused),
           LineOf(w1, p1, Reset), LineOf(w2, p1, Refused)}
MCBatch == {<<l>> : l \in MCLine} \cup {<<LineOf(w1, p1, Refused), LineOf(w1, p1, Reset)>>}

MCTopic == [m \in Message |-> timeout]

Symmetry == Permutations(Request)
=============================================================================
