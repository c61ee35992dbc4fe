------------------------------ MODULE Overview ------------------------------
(***************************************************************************)
(* The incident the dashboard opens with: handleSummary takes All() once   *)
(* and computes with it.  It only reads, so these are operators of the     *)
(* store's state at that moment.  Every workload has pods in the cache.    *)
(***************************************************************************)
EXTENDS AnomalyStoreSpec, FiniteSetsExt

CONSTANT summaryWindow  \* handleSummary looks back 6 hours

ASSUME OverviewAssumption == summaryWindow \in Nat

\* What a handler gets from one call of All.
Cards == [i \in DOMAIN all |-> At(Len(all) + 1 - i)]

severityRank(severity) ==
  CASE severity = "critical" -> 4
    [] severity = "high"     -> 3
    [] severity = "medium"   -> 2
    [] severity = "low"      -> 1

-----------------------------------------------------------------------------
\* handleSummary, of the cards at time t.

Counted(cards, t) == {i \in DOMAIN cards : cards[i].firedAt >= t - summaryWindow}
ActiveOnes(cards, t) == {i \in Counted(cards, t) : cards[i].state = "active"}

\* What rca.Fill made of a card: 50 when it is correlated with a deployment,
\* 20 when it is surer than 80, which only correlated ones are.
Bonus == {0, 50, 70}

\* Mutant: the ranks stand ten apart.
PrimaryRankTens(card, t, bonus) ==
  severityRank(card.severity) * 10 + bonus + Max({0, 10 - (t - card.firedAt)})

PrimaryRank(card, t, bonus) ==
  severityRank(card.severity) * 100 + bonus + Max({0, 10 - (t - card.firedAt)})

\* The first of those with the highest rank.
PrimaryIncident(cards, t, bonus) ==
  CHOOSE i \in ActiveOnes(cards, t) :
    \A j \in ActiveOnes(cards, t) \ {i} :
      LET ri == PrimaryRank(cards[i], t, bonus[i])
          rj == PrimaryRank(cards[j], t, bonus[j])
      IN ri > rj \/ (ri = rj /\ i < j)

-----------------------------------------------------------------------------
(* "highest rank by severity + deployment-correlation + recency": what is   *)
(* known of a card and how new it is never outweigh a severity, so the      *)
(* incident the overview opens with is the worst of the active ones.        *)
PrimaryIsWorst ==
  \A cards \in {Cards} : \A i, j \in DOMAIN cards :
    /\ severityRank(cards[i].severity) < severityRank(cards[j].severity)
    /\ {i, j} \subseteq ActiveOnes(cards, now)
    =>
      \A bonus \in [ActiveOnes(cards, now) -> Bonus] : PrimaryIncident(cards, now, bonus) # i
=============================================================================
