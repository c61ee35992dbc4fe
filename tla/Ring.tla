-------------------------------- MODULE Ring --------------------------------
(* The bounded slices of the watchers: a full one loses its first element. *)
EXTENDS Naturals, Sequences, FiniteSets

\* Mutant: a full ring takes nothing more.
PushFull(s, e, max) == IF Len(s) >= max THEN s ELSE Append(s, e)

Push(s, e, max) == Append(IF Len(s) >= max THEN Tail(s) ELSE s, e)

\* What a reader's loop collects: the elements at some positions, in order.
AtPositions(s, I) ==
  [n \in 1..Cardinality(I) |-> s[CHOOSE i \in I : Cardinality({j \in I : j <= i}) = n]]
=============================================================================
