------------------------------- MODULE Drain3 -------------------------------
(***************************************************************************)
(* The Drain template miner of internal/detect/drain3: pure operators on   *)
(* a miner value.  A line is a sequence of whitespace-separated tokens; a  *)
(* miner is the record                                                     *)
(*                                                                         *)
(*   root      the nodes of the prefix trees, each <<token count, path>>   *)
(*   clusters  the clusters in creation order: a cluster's ID is its index *)
(*                                                                         *)
(* There is no recursion: the descent through the tree is stated by what   *)
(* it returns, the one path every step of which is the child the code      *)
(* takes at that depth.                                                    *)
(***************************************************************************)
EXTENDS Integers, Sequences, FiniteSets

CONSTANTS
  Token,          \* the tokens lines are made of
  VariableToken,  \* those with a digit in them
  Wildcard,       \* "<*>"
  MaxDepth,       \* Miner.maxDepth (4)
  MaxChildren,    \* Miner.maxChildren (100)
  SimNum, SimDen  \* Miner.simTh = SimNum / SimDen (2 / 5)

ASSUME DrainAssumption ==
  /\ VariableToken \subseteq Token
  /\ MaxDepth \in Nat
  /\ MaxChildren \in Nat \ {0}
  /\ SimNum \in Nat \ {0}
  /\ SimDen \in Nat \ {0}
  /\ SimNum <= SimDen

\* What a masked line is made of.
Word == Token \cup {Wildcard}

\* Tokens that look like numbers, IDs or timestamps are masked.
isVariable(t) == t \in VariableToken

tokenize(line) ==
  [i \in DOMAIN line |-> IF isVariable(line[i]) THEN Wildcard ELSE line[i]]

Cluster == [leaf : Nat \X Seq(Word), template : Seq(Word), size : Nat]

newMiner == [root |-> {}, clusters |-> <<>>]

-----------------------------------------------------------------------------
Depth(words) == IF Len(words) < MaxDepth THEN Len(words) ELSE MaxDepth

\* The child for token t of the node at path, in the tree of token count n.
Child(n, path, t) == <<n, Append(path, t)>>

Children(root, n, path) == {t \in Word : Child(n, path, t) \in root}

\* Mutant: the room for a child is tested before the child is looked up.
ChildKeyRoomFirst(root, n, path, t) ==
  IF Cardinality(Children(root, n, path)) < MaxChildren THEN t ELSE Wildcard

\* Mutant: one child too many.
ChildKeyOffByOne(root, n, path, t) ==
  IF \/ Child(n, path, t) \in root
     \/ Cardinality(Children(root, n, path)) <= MaxChildren
  THEN t
  ELSE Wildcard

\* The child of the node at path that descend takes for token t: t's own
\* when it is there or there is room for it, the shared "<*>" child otherwise.
ChildKey(root, n, path, t) ==
  IF \/ Child(n, path, t) \in root
     \/ Cardinality(Children(root, n, path)) < MaxChildren
  THEN t
  ELSE Wildcard

Prefix(path, d) == [i \in 1..d |-> path[i]]

\* path is where words descends to in the trees with these nodes.
RoutesTo(root, words, path) ==
  \A d \in 1..Depth(words) :
    path[d] = ChildKey(root, Len(words), Prefix(path, d - 1), words[d])

descend(root, words) ==
  CHOOSE path \in [1..Depth(words) -> Word] : RoutesTo(root, words, path)

\* The nodes on the way to path, which the descent creates when missing.
NodesTo(words, path) == {<<Len(words), Prefix(path, d)>> : d \in 0..Depth(words)}

-----------------------------------------------------------------------------
Agree(a, b) == a = b \/ a = Wildcard \/ b = Wildcard

\* similarity, in units of 1 / Len(words).
similarity(template, words) ==
  Cardinality({i \in DOMAIN words : Agree(template[i], words[i])})

AtLeaf(clusters, leaf) == {i \in DOMAIN clusters : clusters[i].leaf = leaf}

\* The first of the most similar clusters of the leaf that reach simTh.
Matching(clusters, leaf, words) ==
  {i \in AtLeaf(clusters, leaf) :
     similarity(clusters[i].template, words) * SimDen >= SimNum * Len(words)}

bestMatch(clusters, leaf, words) ==
  LET score(i) == similarity(clusters[i].template, words) IN
  CHOOSE i \in Matching(clusters, leaf, words) :
    \A j \in Matching(clusters, leaf, words) :
      score(j) < score(i) \/ (score(j) = score(i) /\ i <= j)

(* A template covers the lines that differ from it in wildcards only.      *)
Covers(template, words) ==
  \A i \in DOMAIN words : template[i] \in {words[i], Wildcard}

\* Mutant: the template follows the line where the two are compatible.
updateFollows(template, words) ==
  [i \in DOMAIN template |->
     IF Agree(template[i], words[i]) THEN words[i] ELSE Wildcard]

\* Positions on which template and line disagree become wildcards.
update(template, words) ==
  [i \in DOMAIN template |->
     IF template[i] = words[i] THEN template[i] ELSE Wildcard]

-----------------------------------------------------------------------------
(* Miner.Add for a line of at least one token: the miner after it, the ID  *)
(* of the cluster the line was assigned to, and whether that one is new.   *)
LeafOf(m, words) == <<Len(words), descend(m.root, words)>>

IsNew(m, line) ==
  LET words == tokenize(line) IN
  Matching(m.clusters, LeafOf(m, words), words) = {}

AddID(m, line) ==
  LET words == tokenize(line) IN
  IF IsNew(m, line)
  THEN Len(m.clusters) + 1
  ELSE bestMatch(m.clusters, LeafOf(m, words), words)

Add(m, line) ==
  LET words == tokenize(line)
      leaf  == LeafOf(m, words)
      id    == AddID(m, line)
  IN [root |-> m.root \cup NodesTo(words, leaf[2]),
      clusters |->
        IF IsNew(m, line)
        THEN Append(m.clusters, [leaf |-> leaf, template |-> words, size |-> 1])
        ELSE [m.clusters EXCEPT ![id].template = update(@, words),
                                ![id].size = @ + 1]]

-----------------------------------------------------------------------------
(* For the properties: what may become of the clusters.                    *)
Changed(old, new) == {i \in DOMAIN old : new[i].template # old[i].template}

Generalised(old, new) ==
  /\ Len(old) <= Len(new)
  /\ \A i \in DOMAIN old : Covers(new[i].template, old[i].template)
  /\ Cardinality(Changed(old, new)) <= 1
  /\ Changed(old, new) # {} => Len(new) = Len(old)

=============================================================================
