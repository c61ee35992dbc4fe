--------------------------- MODULE MCAnomalyStore ---------------------------
(* Two templates of one topic, and one without a topic.                    *)
EXTENDS Overview, TLC

CONSTANTS t1, t2, t3, timeout

MCError == { <<t1, timeout>>, <<t2, timeout>>, <<t3, NoTopic>> }
MCSeverity == [t \in {t1, t2, t3} |-> IF t = t3 THEN "high" ELSE "critical"]
Symmetry == Permutations(Workload) \cup Permutations({t1, t2})
=============================================================================
