---------------------------- MODULE EventWatcher ----------------------------
(***************************************************************************)
(* k8s.EventWatcher: the ring of recent Warning events.                    *)
(***************************************************************************)
EXTENDS Naturals, Sequences, SequencesExt, Ring

CONSTANTS
  Event,      \* the Event objects
  Warning,    \* those of type Warning
  Category,   \* event -> what categorize makes of its reason
  maxItems    \* length of the ring (1000)

ASSUME EventAssumption == Warning \subseteq Event /\ maxItems \in Nat \ {0}

VARIABLE recent  \* the ring, newest arrival last: [event, lastSeen]

EventInit == recent = <<>>

\* The first of LastTimestamp, FirstTimestamp, EventTime and the clock that
\* is not zero.
LastSeen(stamps, now) ==
  LET set == SelectInSeq(stamps, LAMBDA t : t # 0) IN IF set = 0 THEN now ELSE stamps[set]

\* onEvent: additions, updates and the repetitions of a resync alike.
onEvent(e, stamps, now) ==
  recent' = IF e \notin Warning THEN recent
            ELSE Push(recent, [event |-> e, lastSeen |-> LastSeen(stamps, now)], maxItems)

\* Recent: up to limit of the events since a time, newest arrival first.
Recent(limit, categories, since) ==
  LET newestFirst == Reverse(recent)
      found == AtPositions(newestFirst,
                 {i \in DOMAIN newestFirst : /\ newestFirst[i].lastSeen >= since
                                             /\ Category[newestFirst[i].event] \in categories}) IN
  SubSeq(found, 1, IF Len(found) < limit THEN Len(found) ELSE limit)
=============================================================================
