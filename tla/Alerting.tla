------------------------------ MODULE Alerting ------------------------------
(***************************************************************************)
(* What ingestion promises of the anomalies that the detector returns,     *)
(* with no requests, locks, windows or indexes: every one is decided once. *)
(* It becomes a card of its own, whose alert is then handed over once, or  *)
(* a variant on a card of its workload, and alerts nobody.                 *)
(***************************************************************************)
EXTENDS Naturals, Sequences

CONSTANT Workload

VARIABLES
  of,        \* the workloads of the anomalies, in the order they were found
  open,      \* the numbers of those on which nothing is decided yet
  cards,     \* of those that became cards
  variants,  \* <<card, variant>>
  due,       \* of the cards whose alert is still to be handed over
  sent       \* of those whose alert was, in order

vars == <<of, open, cards, variants, due, sent>>

Init ==
  /\ of = <<>> /\ sent = <<>>
  /\ open = {} /\ cards = {} /\ variants = {} /\ due = {}

Find(w) ==
  /\ of' = Append(of, w)
  /\ open' = open \cup {Len(of) + 1}
  /\ UNCHANGED <<cards, variants, due, sent>>

MakeCard(n) ==
  /\ open' = open \ {n}
  /\ cards' = cards \cup {n}
  /\ due' = due \cup {n}
  /\ UNCHANGED <<of, variants, sent>>

Absorb(n, card) ==
  /\ of[card] = of[n]
  /\ open' = open \ {n}
  /\ variants' = variants \cup {<<card, n>>}
  /\ UNCHANGED <<of, cards, due, sent>>

Alert(n) ==
  /\ due' = due \ {n}
  /\ sent' = Append(sent, n)
  /\ UNCHANGED <<of, open, cards, variants>>

Next ==
  \/ \E w \in Workload : Find(w)
  \/ \E n \in open : MakeCard(n) \/ \E card \in cards : Absorb(n, card)
  \/ \E n \in due : Alert(n)

Spec == Init /\ [][Next]_vars
=============================================================================
