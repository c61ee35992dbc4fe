---------------------------- MODULE Drain3Miner ----------------------------
(***************************************************************************)
(* One drain3.Miner under its mutex: any sequence of lines is added to it. *)
(* History: every masked line mined, and how many, for the properties.     *)
(***************************************************************************)
EXTENDS Drain3

CONSTANTS
  MinerLine, \* the lines the workload may emit, each a sequence of tokens
  MaxAdds    \* bound: how many lines are added

ASSUME MinerAssumption ==
  /\ MinerLine \subseteq Seq(Token) \ {<<>>}
  /\ MaxAdds \in Nat

VARIABLES
  miner,   \* the Miner
  mined,   \* history: the masked lines mined so far
  adds     \* history: how many lines were added

minerVars == <<miner, mined, adds>>

MinerTypeOK ==
  /\ miner.root \subseteq Nat \X Seq(Word)
  /\ miner.clusters \in Seq(Cluster)
  /\ mined \subseteq Seq(Word)
  /\ adds \in 0..MaxAdds

MinerInit ==
  /\ miner = newMiner
  /\ mined = {}
  /\ adds = 0

AddLine(line) ==
  /\ adds < MaxAdds
  /\ miner' = Add(miner, line)
  /\ mined' = mined \cup {tokenize(line)}
  /\ adds' = adds + 1

MinerNext == \E line \in MinerLine : AddLine(line)

MinerSpec == MinerInit /\ [][MinerNext]_minerVars

-----------------------------------------------------------------------------
(* A line that was mined once is recognised for ever: it still descends to *)
(* a leaf with a cluster that covers it, whatever nodes, wildcard children *)
(* and merges came after it.  Without this a known error would alert again *)
(* as a new template.                                                      *)
SeenLinesStayKnown ==
  \A words \in mined :
    \E i \in AtLeaf(miner.clusters, LeafOf(miner, words)) :
      Covers(miner.clusters[i].template, words)

(* "keep the tree bounded": an inner node never has more than maxChildren  *)
(* children and the one shared wildcard child.                             *)
TreeBounded ==
  \A n \in miner.root : Cardinality(Children(miner.root, n[1], n[2])) <= MaxChildren + 1

(* A step only generalises: a template keeps each token or turns it into   *)
(* the wildcard, and at most one cluster changes.                          *)
TemplatesOnlyGeneralise == [][Generalised(miner.clusters, miner'.clusters)]_minerVars
=============================================================================
