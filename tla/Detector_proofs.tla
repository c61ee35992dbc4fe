-------------------------- MODULE Detector_proofs --------------------------
(***************************************************************************)
(* What Add keeps of a miner; one miner under any lines; and the detector, *)
(* which never fires a template twice nor before its cold-start gates, and *)
(* whose pods and hits are exact.  For any lines, tokens, workloads,       *)
(* depth, number of children, similarity threshold, gates and retentions.  *)
(***************************************************************************)
EXTENDS Detector, Drain3Miner, FiniteSetTheorems, FunctionTheorems,
        SequenceTheorems, WellFoundedInduction, TLAPS


-----------------------------------------------------------------------------
(* Every non-empty set of naturals has a least element.                    *)
LEMMA NatMin ==
  ASSUME NEW S, S \subseteq Nat, S # {}
  PROVE  \E m \in S : \A n \in S : m <= n
<1> DEFINE R == OpToRel(<, Nat)
<1>1. IsWellFoundedOn(R, Nat)
  BY NatLessThanWellFounded
<1>2. \A m, n \in Nat : m < n => <<m, n>> \in R
  BY Zenon DEF OpToRel
<1> HIDE DEF R
<1>3. PICK m \in S : \A n \in S : <<n, m>> \notin R
  BY <1>1, WFMin
<1>4. ASSUME NEW n \in S PROVE m <= n
  <2>1. m \in Nat /\ n \in Nat /\ ~(n < m)
    BY <1>2, <1>3
  <2> QED
    BY <2>1
<1> QED
  BY <1>4

LEMMA PrefixFacts ==
  ASSUME NEW n \in Nat, NEW path \in [1..n -> Word], NEW d \in 0..n
  PROVE  /\ Prefix(path, d) \in Seq(Word)
         /\ Len(Prefix(path, d)) = d
         /\ Prefix(path, d) \in [1..d -> Word]
         /\ \A i \in 1..d : Prefix(path, d)[i] = path[i]
BY DEF Prefix

LEMMA PrefixAppend ==
  ASSUME NEW n \in Nat, NEW path \in [1..n -> Word], NEW d \in 1..n
  PROVE  Prefix(path, d) = Append(Prefix(path, d - 1), path[d])
<1> DEFINE s == Prefix(path, d)
           p == Prefix(path, d - 1)
<1>1. s \in Seq(Word) /\ Len(s) = d /\ \A i \in 1..d : s[i] = path[i]
  BY PrefixFacts
<1>2. p \in Seq(Word) /\ Len(p) = d - 1 /\ \A i \in 1..(d - 1) : p[i] = path[i]
  BY PrefixFacts
<1>3. path[d] \in Word
  OBVIOUS
<1> HIDE DEF s, p
<1>4. /\ Append(p, path[d]) \in Seq(Word)
      /\ Len(Append(p, path[d])) = d
      /\ \A i \in 1..(d - 1) : Append(p, path[d])[i] = path[i]
      /\ Append(p, path[d])[d] = path[d]
  BY <1>2, <1>3, AppendProperties
<1>5. \A i \in 1..d : Append(p, path[d])[i] = s[i]
  BY <1>1, <1>4
<1>6. s = Append(p, path[d])
  BY <1>1, <1>4, <1>5, SeqEqual
<1> QED
  BY <1>6 DEF s, p

LEMMA NodeInjective ==
  ASSUME NEW s \in Seq(Word), NEW t \in Seq(Word), NEW x \in Word, NEW y \in Word,
         Append(s, x) = Append(t, y)
  PROVE  s = t /\ x = y
<1>1. Len(s) + 1 = Len(Append(s, x)) /\ Len(t) + 1 = Len(Append(t, y))
  BY AppendProperties
<1>2. Len(s) = Len(t) /\ Len(s) \in Nat
  BY <1>1, LenProperties
<1>3. \A i \in 1..Len(s) : s[i] = t[i]
  BY <1>2, AppendProperties
<1>4. x = y
  BY <1>2, AppendProperties
<1> QED
  BY <1>2, <1>3, <1>4, SeqEqual

-----------------------------------------------------------------------------
(* The route of a line.                                                    *)
LEMMA DepthType ==
  ASSUME NEW words \in Seq(Word)
  PROVE  Depth(words) \in Nat /\ Depth(words) <= Len(words)
BY DrainAssumption, LenProperties DEF Depth

(* A line has at most one route: two would part at some first depth, where *)
(* both take the child of one and the same node.                           *)
LEMMA RouteUnique ==
  ASSUME NEW root, NEW words \in Seq(Word),
         NEW p \in [1..Depth(words) -> Word], RoutesTo(root, words, p),
         NEW q \in [1..Depth(words) -> Word], RoutesTo(root, words, q)
  PROVE  p = q
<1> DEFINE D == {d \in 1..Depth(words) : p[d] # q[d]}
<1>0. Depth(words) \in Nat
  BY DepthType
<1> SUFFICES ASSUME p # q PROVE FALSE
  OBVIOUS
<1>1. D # {} /\ D \subseteq Nat
  BY <1>0
<1>2. PICK d \in D : \A e \in D : d <= e
  BY <1>1, NatMin
<1>3. d \in 1..Depth(words) /\ p[d] # q[d]
  OBVIOUS
<1>4. \A e \in 1..(d - 1) : p[e] = q[e]
  BY <1>0, <1>2
<1>5. Prefix(p, d - 1) = Prefix(q, d - 1)
  BY <1>4 DEF Prefix
<1> QED
  BY <1>3, <1>5 DEF RoutesTo

(* And it has one: if it had none, the shortest piece of it that is        *)
(* missing would extend the piece before by the child that is taken there. *)
PartRoute(root, words, p, d) ==
  \A e \in 1..d : p[e] = ChildKey(root, Len(words), Prefix(p, e - 1), words[e])

LEMMA RouteExists ==
  ASSUME NEW root, NEW words \in Seq(Word)
  PROVE  \E p \in [1..Depth(words) -> Word] : RoutesTo(root, words, p)
<1> DEFINE Has(d) == \E p \in [1..d -> Word] : PartRoute(root, words, p, d)
           D == {d \in 0..Depth(words) : ~Has(d)}
<1>0. Depth(words) \in Nat /\ Depth(words) <= Len(words)
  BY DepthType
<1>1. Has(0)
  <2> DEFINE none == [i \in 1..0 |-> Wildcard]
  <2>1. none \in [1..0 -> Word]
    BY DEF Word
  <2>2. PartRoute(root, words, none, 0)
    <3>1. 1..0 = {}
      OBVIOUS
    <3> QED
      BY <3>1 DEF PartRoute
  <2> QED
    BY <2>1, <2>2
<1> HIDE DEF Has
<1>2. D = {}
  <2> SUFFICES ASSUME D # {} PROVE FALSE
    OBVIOUS
  <2>0. D \subseteq Nat
    BY <1>0
  <2>1. PICK d \in D : \A e \in D : d <= e
    BY <2>0, NatMin
  <2>2. d \in 1..Depth(words)
    BY <1>0, <1>1
  <2>3. Has(d - 1)
    BY <1>0, <2>1, <2>2
  <2> USE DEF Has
  <2>4. PICK p \in [1..(d - 1) -> Word] : PartRoute(root, words, p, d - 1)
    BY <2>3
  <2> DEFINE next == ChildKey(root, Len(words), Prefix(p, d - 1), words[d])
             q == [i \in 1..d |-> IF i = d THEN next ELSE p[i]]
  <2>5. words[d] \in Word
    BY <1>0, <2>2, ElementOfSeq
  <2>6. next \in Word
    BY <2>5 DEF ChildKey, Word
  <2>7. q \in [1..d -> Word]
    BY <2>2, <2>6
  <2>8. \A e \in 1..d : Prefix(q, e - 1) = Prefix(p, e - 1)
    BY <2>2 DEF Prefix
  <2>9. ASSUME NEW e \in 1..d
        PROVE  q[e] = ChildKey(root, Len(words), Prefix(q, e - 1), words[e])
    <3>1. CASE e = d
      BY <2>8, <3>1
    <3>2. CASE e # d
      <4>1. e \in 1..(d - 1) /\ q[e] = p[e]
        BY <2>2, <3>2
      <4> QED
        BY <2>4, <2>8, <4>1 DEF PartRoute
    <3> QED
      BY <3>1, <3>2
  <2>10. Has(d)
    BY <2>7, <2>9 DEF PartRoute
  <2> QED
    BY <2>10
<1>3. Has(Depth(words))
  BY <1>0, <1>2
<1> QED
  BY <1>3 DEF Has, PartRoute, RoutesTo

LEMMA DescendFacts ==
  ASSUME NEW root, NEW words \in Seq(Word)
  PROVE  /\ descend(root, words) \in [1..Depth(words) -> Word]
         /\ RoutesTo(root, words, descend(root, words))
BY RouteExists DEF descend

LEMMA DescendIs ==
  ASSUME NEW root, NEW words \in Seq(Word),
         NEW p \in [1..Depth(words) -> Word], RoutesTo(root, words, p)
  PROVE  descend(root, words) = p
BY DescendFacts, RouteUnique

-----------------------------------------------------------------------------
(* How a line's descent changes the tree.                                  *)
LEMMA ChildrenFinite ==
  ASSUME NEW root, IsFiniteSet(root), NEW n \in Nat, NEW path \in Seq(Word)
  PROVE  IsFiniteSet(Children(root, n, path))
<1> DEFINE C == Children(root, n, path)
           f == [t \in C |-> Child(n, path, t)]
<1>1. C \subseteq Word
  BY DEF Children
<1>2. f \in [C -> root]
  BY DEF Children
<1>3. ASSUME NEW x \in C, NEW y \in C, f[x] = f[y] PROVE x = y
  <2>1. Append(path, x) = Append(path, y)
    BY <1>3 DEF Child
  <2> QED
    BY <1>1, <2>1, NodeInjective
<1>4. f \in Injection(C, root)
  BY <1>2, <1>3 DEF Injection, IsInjective
<1> QED
  BY <1>4, FS_Injection

LEMMA MoreChildren ==
  ASSUME NEW root, NEW more, IsFiniteSet(more), root \subseteq more,
         NEW n \in Nat, NEW path \in Seq(Word),
         ~(Cardinality(Children(root, n, path)) < MaxChildren)
  PROVE  ~(Cardinality(Children(more, n, path)) < MaxChildren)
<1> DEFINE C == Children(root, n, path)
           E == Children(more, n, path)
<1>1. C \subseteq E
  BY DEF Children
<1>2. IsFiniteSet(E)
  BY ChildrenFinite
<1>3. IsFiniteSet(C) /\ Cardinality(C) <= Cardinality(E)
  BY <1>1, <1>2, FS_Subset
<1>4. Cardinality(C) \in Nat /\ Cardinality(E) \in Nat
  BY <1>2, <1>3, FS_CardinalityType
<1> QED
  BY <1>3, <1>4, DrainAssumption

LEMMA NodesFinite ==
  ASSUME NEW words \in Seq(Word), NEW path \in [1..Depth(words) -> Word]
  PROVE  IsFiniteSet(NodesTo(words, path))
<1> DEFINE f == [d \in 0..Depth(words) |-> <<Len(words), Prefix(path, d)>>]
<1>1. IsFiniteSet(0..Depth(words))
  BY DepthType, FS_Interval
<1>2. f \in [0..Depth(words) -> NodesTo(words, path)]
  BY DEF NodesTo
<1>3. \A x \in NodesTo(words, path) : \E d \in 0..Depth(words) : f[d] = x
  BY DEF NodesTo
<1>4. f \in Surjection(0..Depth(words), NodesTo(words, path))
  BY <1>2, <1>3 DEF Surjection
<1> QED
  BY <1>1, <1>4, FS_Surjection

(* A node of the descent is the child it took at its parent.               *)
TakenAt(words, path, n, P, t) ==
  /\ n = Len(words)
  /\ \E d \in 1..Depth(words) : d = Len(P) + 1 /\ P = Prefix(path, d - 1) /\ t = path[d]

LEMMA NewChild ==
  ASSUME NEW words \in Seq(Word), NEW path \in [1..Depth(words) -> Word],
         NEW n, NEW P \in Seq(Word), NEW t \in Word,
         Child(n, P, t) \in NodesTo(words, path)
  PROVE  TakenAt(words, path, n, P, t)
<1>1. PICK e \in 0..Depth(words) : Child(n, P, t) = <<Len(words), Prefix(path, e)>>
  BY DEF NodesTo
<1>2. n = Len(words) /\ Append(P, t) = Prefix(path, e)
  BY <1>1 DEF Child
<1>3. Depth(words) \in Nat /\ Len(P) \in Nat
  BY DepthType, LenProperties
<1>4. e = Len(P) + 1 /\ e \in 1..Depth(words) /\ e - 1 \in 0..Depth(words)
  <2>1. Len(Append(P, t)) = Len(P) + 1
    BY AppendProperties
  <2>2. Prefix(path, e) \in [1..e -> Word] /\ e \in Nat
    BY <1>3 DEF Prefix
  <2>3. Len(Prefix(path, e)) = e
    BY <2>2
  <2> QED
    BY <1>2, <1>3, <2>1, <2>3
<1>5. Prefix(path, e) = Append(Prefix(path, e - 1), path[e])
  BY <1>3, <1>4, PrefixAppend
<1>6. Prefix(path, e - 1) \in Seq(Word) /\ path[e] \in Word
  BY <1>3, <1>4, PrefixFacts
<1>7. P = Prefix(path, e - 1) /\ t = path[e]
  <2> DEFINE Q == Prefix(path, e - 1)
             x == path[e]
  <2>1. Append(P, t) = Append(Q, x) /\ Q \in Seq(Word) /\ x \in Word
    BY <1>2, <1>5, <1>6
  <2> HIDE DEF Q, x
  <2>2. P = Q /\ t = x
    BY <2>1, NodeInjective
  <2> QED
    BY <2>2 DEF Q, x
<1> QED
  BY <1>2, <1>4, <1>7 DEF TakenAt

(* A descent keeps every route whose nodes are all there after it.  Where  *)
(* the route shares the wildcard child of a full node, the descent makes   *)
(* no child at that node that the route would rather take.                 *)
LEMMA RouteStable ==
  ASSUME NEW root, IsFiniteSet(root),
         NEW words \in Seq(Word), NEW path \in [1..Depth(words) -> Word],
         RoutesTo(root, words, path),
         NEW more, more = root \cup NodesTo(words, path),
         NEW w \in Seq(Word), NEW p \in [1..Depth(w) -> Word],
         RoutesTo(root, w, p),
         NodesTo(w, p) \subseteq more
  PROVE  RoutesTo(more, w, p)
<1>1. IsFiniteSet(more) /\ root \subseteq more
  BY NodesFinite, FS_Union
<1>2. SUFFICES ASSUME NEW d \in 1..Depth(w)
               PROVE  p[d] = ChildKey(more, Len(w), Prefix(p, d - 1), w[d])
  BY DEF RoutesTo
<1> DEFINE n == Len(w)
           P == Prefix(p, d - 1)
<1>3. /\ Depth(w) \in Nat /\ Depth(w) <= n /\ n \in Nat
      /\ d \in Nat /\ d - 1 \in 0..Depth(w) /\ d \in 0..Depth(w) /\ d \in 1..n
  BY DepthType, LenProperties
<1>4. P \in Seq(Word) /\ Len(P) = d - 1
  BY <1>3, PrefixFacts
<1>5. w[d] \in Word /\ p[d] \in Word
  BY <1>3, ElementOfSeq
<1>6. Child(n, P, p[d]) \in more
  <2>1. Child(n, P, p[d]) = <<n, Prefix(p, d)>>
    BY <1>3, PrefixAppend DEF Child
  <2> QED
    BY <1>3, <2>1 DEF NodesTo
<1>7. p[d] = ChildKey(root, n, P, w[d])
  BY <1>2 DEF RoutesTo
<1>8. CASE Child(n, P, w[d]) \in root
  BY <1>1, <1>7, <1>8 DEF ChildKey
<1>9. CASE Child(n, P, w[d]) \notin root /\ Cardinality(Children(root, n, P)) < MaxChildren
  BY <1>6, <1>7, <1>9 DEF ChildKey
<1>10. CASE Child(n, P, w[d]) \notin root /\ ~(Cardinality(Children(root, n, P)) < MaxChildren)
  <2>1. p[d] = Wildcard
    BY <1>7, <1>10 DEF ChildKey
  <2>2. CASE Child(n, P, w[d]) \notin more
    <3>1. ~(Cardinality(Children(more, n, P)) < MaxChildren)
      BY <1>1, <1>3, <1>4, <1>10, MoreChildren
    <3> QED
      BY <2>1, <2>2, <3>1 DEF ChildKey
  <2>3. CASE Child(n, P, w[d]) \in more
    <3>1. Child(n, P, w[d]) \in NodesTo(words, path)
      BY <1>10, <2>3
    <3>2. Len(P) + 1 = d
      BY <1>3, <1>4
    <3>3. /\ n = Len(words) /\ d \in 1..Depth(words)
          /\ P = Prefix(path, d - 1) /\ w[d] = path[d]
      <4> HIDE DEF n, P
      <4>1. TakenAt(words, path, n, P, w[d])
        BY <1>4, <1>5, <3>1, NewChild
      <4> QED
        BY <3>2, <4>1 DEF TakenAt
    <3>4. path[d] = ChildKey(root, n, P, words[d])
      BY <3>3 DEF RoutesTo
    <3>5. w[d] = Wildcard
      <4>1. CASE Child(n, P, words[d]) \in root
        BY <1>10, <3>3, <3>4, <4>1 DEF ChildKey
      <4>2. CASE Child(n, P, words[d]) \notin root
        BY <1>10, <3>3, <3>4, <4>2 DEF ChildKey
      <4> QED
        BY <4>1, <4>2
    <3> QED
      BY <2>1, <2>3, <3>5 DEF ChildKey
  <2> QED
    BY <2>2, <2>3
<1> QED
  BY <1>8, <1>9, <1>10

-----------------------------------------------------------------------------
(* Why the tree is bounded: no node has more than MaxChildren children     *)
(* besides the wildcard's, for a descent makes at most one new child of a  *)
(* node, and of a full one only the wildcard's.                            *)
OwnChildren(root, n, path) == Children(root, n, path) \ {Wildcard}

FewChildren(m) ==
  \A n \in Nat, path \in Seq(Word) :
    Cardinality(OwnChildren(m.root, n, path)) <= MaxChildren

LEMMA OwnChildrenAfter ==
  ASSUME NEW root, IsFiniteSet(root),
         NEW words \in Seq(Word), NEW path \in [1..Depth(words) -> Word],
         RoutesTo(root, words, path),
         NEW n \in Nat, NEW P \in Seq(Word),
         Cardinality(OwnChildren(root, n, P)) <= MaxChildren
  PROVE  Cardinality(OwnChildren(root \cup NodesTo(words, path), n, P)) <= MaxChildren
<1> DEFINE more == root \cup NodesTo(words, path)
           C == Children(root, n, P)
           own == OwnChildren(root, n, P)
           new == OwnChildren(more, n, P)
           d == Len(P) + 1
<1>1. CASE own = new
  BY <1>1
<1>2. CASE own # new
  <2>1. own \subseteq new
    BY DEF OwnChildren, Children
  <2>2. PICK t \in new : t \notin own
    BY <1>2, <2>1
  <2>3. ASSUME NEW u \in new, u \notin own
        PROVE  /\ u \in Word \ {Wildcard}
               /\ Child(n, P, u) \notin root
               /\ n = Len(words) /\ d \in 1..Depth(words)
               /\ P = Prefix(path, d - 1) /\ u = path[d]
    <3>1. /\ u \in Word \ {Wildcard}
          /\ Child(n, P, u) \notin root
          /\ Child(n, P, u) \in NodesTo(words, path)
      BY <2>3 DEF OwnChildren, Children
    <3>2. d \in Nat /\ d = Len(P) + 1
      BY LenProperties
    <3>3. TakenAt(words, path, n, P, u)
      BY <3>1, NewChild
    <3> QED
      BY <3>1, <3>2, <3>3 DEF TakenAt
  <2>4. t = ChildKey(root, n, P, words[d])
    BY <2>2, <2>3 DEF RoutesTo
  <2>5. Cardinality(C) < MaxChildren
    BY <2>2, <2>3, <2>4 DEF ChildKey
  <2>6. IsFiniteSet(C) /\ own \subseteq C
    BY ChildrenFinite DEF OwnChildren
  <2>7. new \subseteq own \cup {t}
    BY <2>2, <2>3
  <2> HIDE DEF C, own, new
  <2>8. IsFiniteSet(own) /\ Cardinality(own) <= Cardinality(C)
    BY <2>6, FS_Subset
  <2>9. Cardinality(own) \in Nat /\ Cardinality(C) \in Nat
    BY <2>6, <2>8, FS_CardinalityType
  <2>10. IsFiniteSet(own \cup {t}) /\ Cardinality(own \cup {t}) <= Cardinality(own) + 1
    <3>1. /\ IsFiniteSet(own \cup {t})
          /\ Cardinality(own \cup {t}) = IF t \in own THEN Cardinality(own) ELSE Cardinality(own) + 1
      BY <2>8, FS_AddElement
    <3> QED
      BY <2>9, <3>1
  <2>11. Cardinality(own \cup {t}) \in Nat
    BY <2>10, FS_CardinalityType
  <2>12. IsFiniteSet(new) /\ Cardinality(new) <= Cardinality(own \cup {t})
    BY <2>7, <2>10, FS_Subset
  <2>13. Cardinality(new) \in Nat
    BY <2>12, FS_CardinalityType
  <2>14. Cardinality(new) <= MaxChildren
    BY <2>5, <2>8, <2>9, <2>10, <2>11, <2>12, <2>13, DrainAssumption
  <2> QED
    BY <2>14 DEF new
<1> QED
  BY <1>1, <1>2

-----------------------------------------------------------------------------
(* The clusters.                                                           *)
LEMMA TokenizeType ==
  ASSUME NEW line \in Seq(Token)
  PROVE  tokenize(line) \in Seq(Word) /\ Len(tokenize(line)) = Len(line)
<1>1. Len(line) \in Nat /\ DOMAIN line = 1..Len(line) /\ \A i \in 1..Len(line) : line[i] \in Token
  BY LenProperties
<1>2. tokenize(line) \in [1..Len(line) -> Word]
  BY <1>1 DEF tokenize, Word
<1> QED
  BY <1>1, <1>2

LEMMA SimilarityType ==
  ASSUME NEW template, NEW words \in Seq(Word)
  PROVE  similarity(template, words) \in 0..Len(words)
<1> DEFINE S == {i \in DOMAIN words : Agree(template[i], words[i])}
<1>1. Len(words) \in Nat /\ DOMAIN words = 1..Len(words)
  BY LenProperties
<1>2. IsFiniteSet(1..Len(words)) /\ Cardinality(1..Len(words)) = Len(words)
  BY <1>1, FS_Interval
<1>3. S \subseteq 1..Len(words)
  BY <1>1
<1> HIDE DEF S
<1>4. IsFiniteSet(S) /\ Cardinality(S) <= Len(words)
  BY <1>2, <1>3, FS_Subset
<1>5. Cardinality(S) \in Nat
  BY <1>4, FS_CardinalityType
<1>6. Cardinality(S) \in 0..Len(words)
  BY <1>1, <1>4, <1>5
<1> QED
  BY <1>6 DEF similarity, S

LEMMA BestMatchMatches ==
  ASSUME NEW clusters \in Seq(Cluster), NEW leaf, NEW words \in Seq(Word),
         Matching(clusters, leaf, words) # {}
  PROVE  bestMatch(clusters, leaf, words) \in Matching(clusters, leaf, words)
<1> DEFINE M == Matching(clusters, leaf, words)
           score(i) == similarity(clusters[i].template, words)
           short(i) == Len(words) - score(i)
           Shorts == {short(i) : i \in M}
<1>1. Len(words) \in Nat
  BY LenProperties
<1>2. \A i \in M : score(i) \in 0..Len(words)
  BY SimilarityType
<1>3. M \subseteq Nat
  BY LenProperties DEF Matching, AtLeaf
<1> HIDE DEF M, score
<1>4. Shorts \subseteq Nat /\ Shorts # {}
  BY <1>1, <1>2 DEF M
<1>5. PICK least \in Shorts : \A x \in Shorts : least <= x
  BY <1>4, NatMin
<1> DEFINE Best == {i \in M : short(i) = least}
<1>6. Best \subseteq Nat /\ Best # {}
  BY <1>3
<1>7. PICK i \in Best : \A j \in Best : i <= j
  BY <1>6, NatMin
<1>8. i \in M /\ short(i) = least
  OBVIOUS
<1>9. ASSUME NEW j \in M
      PROVE  score(j) < score(i) \/ (score(j) = score(i) /\ i <= j)
  <2>1. least <= short(j)
    BY <1>5
  <2>2. score(i) \in Int /\ score(j) \in Int
    BY <1>2, <1>8
  <2>3. score(j) <= score(i)
    BY <1>1, <1>8, <2>1, <2>2
  <2>4. CASE score(j) = score(i)
    <3>1. j \in Best
      BY <1>8, <2>4
    <3> QED
      BY <1>7, <2>4, <3>1
  <2> QED
    BY <2>2, <2>3, <2>4
<1> QED
  BY <1>8, <1>9 DEF bestMatch, M, score

(* Why a seen line stays known.  Templates have as many tokens as the      *)
(* lines of their leaf, and each line added still has its route, with all  *)
(* the route's nodes there and a cluster that covers it at the end.        *)
LeafLengths(m) ==
  \A i \in DOMAIN m.clusters :
    Len(m.clusters[i].template) = m.clusters[i].leaf[1]

Known(m, words) ==
  \E p \in [1..Depth(words) -> Word] :
    /\ RoutesTo(m.root, words, p)
    /\ NodesTo(words, p) \subseteq m.root
    /\ \E i \in AtLeaf(m.clusters, <<Len(words), p>>) :
         Covers(m.clusters[i].template, words)

MinerType(m) == m.root \subseteq Nat \X Seq(Word) /\ m.clusters \in Seq(Cluster)

GoodMiner(m, lines) ==
  /\ MinerType(m)
  /\ IsFiniteSet(m.root)
  /\ LeafLengths(m)
  /\ FewChildren(m)
  /\ lines \subseteq Seq(Word)
  /\ \A words \in lines : Known(m, words)

LEMMA CoversTransitive ==
  ASSUME NEW t, NEW u \in Seq(Word), NEW w \in Seq(Word), Len(w) = Len(u),
         Covers(t, u), Covers(u, w)
  PROVE  Covers(t, w)
<1>1. DOMAIN w = DOMAIN u
  BY LenProperties
<1> QED
  BY <1>1 DEF Covers

LEMMA ClusterFacts ==
  ASSUME NEW m, MinerType(m), LeafLengths(m), NEW i \in 1..Len(m.clusters)
  PROVE  LET c == m.clusters[i] IN
         /\ c \in Cluster
         /\ c.leaf \in Nat \X Seq(Word) /\ c.template \in Seq(Word) /\ c.size \in Nat
         /\ Len(c.template) = c.leaf[1]
<1>1. m.clusters \in Seq(Cluster)
  BY DEF MinerType
<1>2. m.clusters[i] \in Cluster
  BY <1>1, ElementOfSeq
<1>3. i \in DOMAIN m.clusters
  BY <1>1, LenProperties
<1> QED
  BY <1>2, <1>3 DEF Cluster, LeafLengths

LEMMA LeafType ==
  ASSUME NEW m, NEW words \in Seq(Word)
  PROVE  LeafOf(m, words) \in Nat \X Seq(Word)
<1>1. descend(m.root, words) \in [1..Depth(words) -> Word]
  BY DescendFacts
<1>2. Depth(words) \in Nat /\ Len(words) \in Nat
  BY DepthType, LenProperties
<1> QED
  BY <1>1, <1>2 DEF LeafOf

(* What adding a line does to the clusters.                                *)
Grown(old, new) ==
  /\ Len(old) <= Len(new)
  /\ \A i \in 1..Len(new) : Len(new[i].template) = new[i].leaf[1]
  /\ \A i \in 1..Len(old) : /\ new[i].leaf = old[i].leaf
                            /\ Covers(new[i].template, old[i].template)

LEMMA GrownByNew ==
  ASSUME NEW m, MinerType(m), LeafLengths(m), NEW line \in Seq(Token), IsNew(m, line)
  PROVE  LET old == m.clusters
             new == Add(m, line).clusters
             words == tokenize(line)
         IN /\ new \in Seq(Cluster) /\ Grown(old, new)
            /\ \A i \in 1..Len(old) : new[i] = old[i]
            /\ \E i \in 1..Len(new) : /\ new[i].leaf = LeafOf(m, words)
                                      /\ Covers(new[i].template, words)
<1> DEFINE old == m.clusters
           new == Add(m, line).clusters
           words == tokenize(line)
           leaf == LeafOf(m, words)
           c == [leaf |-> leaf, template |-> words, size |-> 1]
<1>1. words \in Seq(Word) /\ leaf \in Nat \X Seq(Word) /\ leaf[1] = Len(words)
  BY TokenizeType, LeafType DEF LeafOf
<1>2. c \in Cluster
  BY <1>1 DEF Cluster
<1>3. old \in Seq(Cluster) /\ new = Append(old, c)
  BY DEF MinerType, Add
<1>4. \A i \in 1..Len(old) : Len(old[i].template) = old[i].leaf[1]
  BY ClusterFacts
<1>5. /\ c.leaf = leaf /\ c.template = words
      /\ Len(c.template) = c.leaf[1]
  BY <1>1
<1> HIDE DEF old, new, words, c
<1>6. /\ new \in Seq(Cluster) /\ Len(new) = Len(old) + 1 /\ Len(old) \in Nat
      /\ \A i \in 1..Len(old) : new[i] = old[i]
      /\ new[Len(old) + 1] = c
  BY <1>2, <1>3, AppendProperties, LenProperties
<1>7. Covers(c.template, words)
  BY <1>5 DEF Covers
<1>8. Grown(old, new)
  BY <1>4, <1>5, <1>6 DEF Grown, Covers
<1>9. \E i \in 1..Len(new) : new[i].leaf = leaf /\ Covers(new[i].template, words)
  BY <1>5, <1>6, <1>7
<1> QED
  BY <1>6, <1>8, <1>9 DEF old, new, words

LEMMA UpdatedCluster ==
  ASSUME NEW r \in Cluster, NEW u \in Seq(Word)
  PROVE  LET c == [r EXCEPT !.template = u, !.size = @ + 1] IN
         c \in Cluster /\ c.leaf = r.leaf /\ c.template = u
<1>1. r.size + 1 \in Nat
  BY DEF Cluster
<1> QED
  BY <1>1 DEF Cluster

LEMMA MergedCluster ==
  ASSUME NEW m, MinerType(m), LeafLengths(m), NEW line \in Seq(Token), ~IsNew(m, line)
  PROVE  LET old == m.clusters
             new == Add(m, line).clusters
             words == tokenize(line)
         IN /\ new \in Seq(Cluster) /\ Grown(old, new) /\ Len(new) = Len(old)
            /\ \A i \in 1..Len(old) : i # AddID(m, line) => new[i] = old[i]
            /\ \E i \in 1..Len(new) : /\ new[i].leaf = LeafOf(m, words)
                                      /\ Covers(new[i].template, words)
<1> DEFINE old == m.clusters
           new == Add(m, line).clusters
           words == tokenize(line)
           leaf == LeafOf(m, words)
           id == AddID(m, line)
           t == old[id].template
           c == [old[id] EXCEPT !.template = update(t, words), !.size = @ + 1]
<1>1. words \in Seq(Word) /\ leaf[1] = Len(words)
  BY TokenizeType DEF LeafOf
<1>2. old \in Seq(Cluster)
  BY DEF MinerType
<1>3. id \in Matching(old, leaf, words)
  BY <1>1, <1>2, BestMatchMatches DEF IsNew, AddID
<1>4. id \in 1..Len(old) /\ old[id].leaf = leaf
  BY <1>2, <1>3, LenProperties DEF Matching, AtLeaf
<1>5. old[id] \in Cluster /\ t \in Seq(Word) /\ Len(t) = Len(words)
  BY <1>1, <1>4, ClusterFacts
<1>6. new = [old EXCEPT ![id] = c]
  BY <1>2, <1>4, <1>5 DEF Add
<1>7. DOMAIN t = 1..Len(t) /\ DOMAIN words = 1..Len(t) /\ Len(t) \in Nat
  BY <1>1, <1>5, LenProperties
<1>8. update(t, words) \in Seq(Word) /\ Len(update(t, words)) = Len(t)
  <2>1. update(t, words) \in [1..Len(t) -> Word]
    BY <1>5, <1>7 DEF update, Word
  <2> QED
    BY <1>7, <2>1
<1>9. Covers(update(t, words), t) /\ Covers(update(t, words), words)
  BY <1>7 DEF update, Covers
<1>10. /\ c \in Cluster /\ c.leaf = leaf /\ c.template = update(t, words)
       /\ Len(c.template) = c.leaf[1]
  BY <1>1, <1>4, <1>5, <1>8, UpdatedCluster
<1>11. \A i \in 1..Len(old) : Len(old[i].template) = old[i].leaf[1]
  BY ClusterFacts
<1> HIDE DEF old, new, words, leaf, id, c
<1>12. /\ new \in Seq(Cluster) /\ Len(new) = Len(old)
       /\ \A i \in 1..Len(old) : new[i] = IF i = id THEN c ELSE old[i]
  BY <1>2, <1>4, <1>6, <1>10, ExceptSeq
<1>13. Grown(old, new)
  BY <1>2, <1>4, <1>9, <1>10, <1>11, <1>12, LenProperties DEF Grown, Covers
<1>14. \E i \in 1..Len(new) : new[i].leaf = leaf /\ Covers(new[i].template, words)
  BY <1>4, <1>9, <1>10, <1>12
<1> QED
  BY <1>12, <1>13, <1>14 DEF old, new, words, leaf, id

-----------------------------------------------------------------------------
LEMMA NewMinerGood == GoodMiner(newMiner, {})
<1> DEFINE m == newMiner
<1>1. m.root = {} /\ m.clusters = <<>>
  BY DEF newMiner
<1> HIDE DEF m
<1>2. MinerType(m) /\ LeafLengths(m)
  BY <1>1 DEF MinerType, LeafLengths
<1>3. IsFiniteSet(m.root)
  BY <1>1, FS_EmptySet
<1>4. ASSUME NEW n \in Nat, NEW path \in Seq(Word)
      PROVE  Cardinality(OwnChildren(m.root, n, path)) <= MaxChildren
  <2>1. OwnChildren(m.root, n, path) = {}
    BY <1>1 DEF OwnChildren, Children
  <2> QED
    BY <2>1, FS_EmptySet, DrainAssumption
<1>5. GoodMiner(m, {})
  BY <1>2, <1>3, <1>4 DEF GoodMiner, FewChildren
<1> QED
  BY <1>5 DEF m

(* The tree and the clusters after a line.                                 *)
LEMMA AddFacts ==
  ASSUME NEW m, NEW lines, GoodMiner(m, lines), NEW line \in Seq(Token),
         NEW next, next = Add(m, line)
  PROVE  LET words == tokenize(line)
             path == descend(m.root, words)
         IN /\ words \in Seq(Word) /\ path \in [1..Depth(words) -> Word]
            /\ RoutesTo(m.root, words, path)
            /\ next.root = m.root \cup NodesTo(words, path)
            /\ next.clusters \in Seq(Cluster)
            /\ Grown(m.clusters, next.clusters)
            /\ \E i \in 1..Len(next.clusters) :
                 /\ next.clusters[i].leaf = <<Len(words), path>>
                 /\ Covers(next.clusters[i].template, words)
<1>1. MinerType(m) /\ LeafLengths(m) /\ next = Add(m, line)
  BY DEF GoodMiner
<1>2. tokenize(line) \in Seq(Word)
  BY TokenizeType
<1>3. next.root = m.root \cup NodesTo(tokenize(line), descend(m.root, tokenize(line)))
  BY <1>1 DEF Add, LeafOf
<1>4. /\ next.clusters \in Seq(Cluster)
      /\ Grown(m.clusters, next.clusters)
      /\ \E i \in 1..Len(next.clusters) :
           /\ next.clusters[i].leaf = LeafOf(m, tokenize(line))
           /\ Covers(next.clusters[i].template, tokenize(line))
  BY <1>1, GrownByNew, MergedCluster
<1> QED
  BY <1>2, <1>3, <1>4, DescendFacts DEF LeafOf

LEMMA AddKeepsTypes ==
  ASSUME NEW m, NEW lines, GoodMiner(m, lines), NEW line \in Seq(Token),
         NEW next, next = Add(m, line)
  PROVE  MinerType(next) /\ LeafLengths(next) /\ IsFiniteSet(next.root) /\ FewChildren(next)
<1> DEFINE words == tokenize(line)
           path == descend(m.root, words)
           new == NodesTo(words, path)
<1>1. /\ words \in Seq(Word) /\ path \in [1..Depth(words) -> Word]
      /\ RoutesTo(m.root, words, path)
      /\ next.root = m.root \cup new
      /\ next.clusters \in Seq(Cluster)
      /\ Grown(m.clusters, next.clusters)
  BY AddFacts
<1>2. IsFiniteSet(m.root) /\ MinerType(m) /\ FewChildren(m)
  BY DEF GoodMiner
<1> HIDE DEF words, path
<1>3. IsFiniteSet(next.root)
  BY <1>1, <1>2, NodesFinite, FS_Union
<1>4. new \subseteq Nat \X Seq(Word)
  <2>1. Len(words) \in Nat /\ Depth(words) \in Nat
    BY <1>1, DepthType, LenProperties
  <2>2. \A d \in 0..Depth(words) : Prefix(path, d) \in Seq(Word)
    BY <1>1, <2>1, PrefixFacts
  <2> QED
    BY <2>1, <2>2 DEF NodesTo
<1>5. MinerType(next)
  BY <1>1, <1>2, <1>4 DEF MinerType
<1>6. LeafLengths(next)
  BY <1>1, LenProperties DEF LeafLengths, Grown
<1>7. FewChildren(next)
  BY <1>1, <1>2, OwnChildrenAfter DEF FewChildren
<1> QED
  BY <1>3, <1>5, <1>6, <1>7

(* A line known before is known after another line was added, and the      *)
(* added one is known.                                                     *)
LEMMA AddKeepsKnown ==
  ASSUME NEW m, NEW lines, GoodMiner(m, lines), NEW line \in Seq(Token),
         NEW next, next = Add(m, line),
         NEW w \in lines \cup {tokenize(line)}
  PROVE  Known(next, w)
<1> DEFINE words == tokenize(line)
           path == descend(m.root, words)
           old == m.clusters
           new == next.clusters
<1>1. /\ words \in Seq(Word) /\ path \in [1..Depth(words) -> Word]
      /\ RoutesTo(m.root, words, path)
      /\ next.root = m.root \cup NodesTo(words, path)
      /\ new \in Seq(Cluster) /\ old \in Seq(Cluster)
      /\ Grown(old, new)
      /\ \E i \in 1..Len(new) : /\ new[i].leaf = <<Len(words), path>>
                                /\ Covers(new[i].template, words)
  BY AddFacts DEF GoodMiner, MinerType
<1>2. IsFiniteSet(m.root) /\ MinerType(m) /\ LeafLengths(m)
  BY DEF GoodMiner
<1>4. DOMAIN new = 1..Len(new) /\ DOMAIN old = 1..Len(old) /\ Len(old) \in Nat /\ Len(new) \in Nat
  BY <1>1, LenProperties
<1> HIDE DEF words, path, old, new
<1>5. CASE w = words
  <2>1. RoutesTo(next.root, words, path)
    BY <1>1, <1>2, RouteStable
  <2>2. \E i \in AtLeaf(new, <<Len(words), path>>) : Covers(new[i].template, words)
    BY <1>1, <1>4 DEF AtLeaf
  <2> QED
    BY <1>1, <1>5, <2>1, <2>2 DEF Known, new
<1>6. CASE w \in lines
  <2>1. w \in Seq(Word) /\ Known(m, w)
    BY <1>6 DEF GoodMiner
  <2>2. PICK p \in [1..Depth(w) -> Word] :
          /\ RoutesTo(m.root, w, p)
          /\ NodesTo(w, p) \subseteq m.root
          /\ \E i \in AtLeaf(old, <<Len(w), p>>) : Covers(old[i].template, w)
    BY <2>1 DEF Known, old
  <2>3. PICK i \in AtLeaf(old, <<Len(w), p>>) : Covers(old[i].template, w)
    BY <2>2
  <2>4. i \in 1..Len(old) /\ old[i].leaf = <<Len(w), p>>
    BY <1>4, <2>3 DEF AtLeaf
  <2>5. old[i].template \in Seq(Word) /\ Len(old[i].template) = Len(w)
    <3>1. i \in 1..Len(m.clusters)
      BY <2>4 DEF old
    <3>2. /\ m.clusters[i].template \in Seq(Word)
          /\ Len(m.clusters[i].template) = m.clusters[i].leaf[1]
      BY <1>2, <3>1, ClusterFacts
    <3>3. m.clusters[i].leaf[1] = Len(w)
      BY <2>4 DEF old
    <3> QED
      BY <3>2, <3>3 DEF old
  <2>6. /\ i \in 1..Len(new) /\ new[i].leaf = <<Len(w), p>>
        /\ Covers(new[i].template, old[i].template)
    BY <1>1, <1>4, <2>4 DEF Grown
  <2>7. Covers(new[i].template, w)
    BY <2>1, <2>3, <2>5, <2>6, CoversTransitive
  <2>8. RoutesTo(next.root, w, p)
    BY <1>1, <1>2, <2>1, <2>2, RouteStable
  <2>9. \E j \in AtLeaf(new, <<Len(w), p>>) : Covers(new[j].template, w)
    BY <1>4, <2>6, <2>7 DEF AtLeaf
  <2> QED
    BY <1>1, <2>2, <2>8, <2>9 DEF Known, new
<1> QED
  BY <1>5, <1>6 DEF words

LEMMA AddGood ==
  ASSUME NEW m, NEW lines, GoodMiner(m, lines), NEW line \in Seq(Token)
  PROVE  GoodMiner(Add(m, line), lines \cup {tokenize(line)})
<1> DEFINE next == Add(m, line)
           more == lines \cup {tokenize(line)}
<1>1. /\ MinerType(next) /\ LeafLengths(next)
      /\ IsFiniteSet(next.root) /\ FewChildren(next)
  BY AddKeepsTypes
<1>2. more \subseteq Seq(Word)
  BY TokenizeType DEF GoodMiner
<1>3. \A w \in more : Known(next, w)
  BY AddKeepsKnown
<1> HIDE DEF next, more
<1>4. GoodMiner(next, more)
  BY <1>1, <1>2, <1>3 DEF GoodMiner
<1> QED
  BY <1>4 DEF next, more

-----------------------------------------------------------------------------
(* What a good miner promises.                                             *)
LEMMA KnownAtLeaf ==
  ASSUME NEW m, NEW lines, GoodMiner(m, lines), NEW w \in lines
  PROVE  \E i \in AtLeaf(m.clusters, LeafOf(m, w)) : Covers(m.clusters[i].template, w)
<1>1. w \in Seq(Word) /\ Known(m, w)
  BY DEF GoodMiner
<1>2. PICK p \in [1..Depth(w) -> Word] :
        /\ RoutesTo(m.root, w, p)
        /\ \E i \in AtLeaf(m.clusters, <<Len(w), p>>) : Covers(m.clusters[i].template, w)
  BY <1>1 DEF Known
<1>3. LeafOf(m, w) = <<Len(w), p>>
  BY <1>1, <1>2, DescendIs DEF LeafOf
<1> QED
  BY <1>2, <1>3

(* Add never takes a line it knows for a new cluster: the cluster that     *)
(* covers it reaches any similarity threshold.                             *)
LEMMA NoSecondCluster ==
  ASSUME NEW m, NEW lines, GoodMiner(m, lines),
         NEW line \in Seq(Token), tokenize(line) \in lines
  PROVE  ~IsNew(m, line)
<1> DEFINE w == tokenize(line)
<1>1. w \in Seq(Word)
  BY TokenizeType
<1>2. PICK i \in AtLeaf(m.clusters, LeafOf(m, w)) : Covers(m.clusters[i].template, w)
  BY KnownAtLeaf
<1> HIDE DEF w
<1>3. DOMAIN w = 1..Len(w) /\ Len(w) \in Nat
  BY <1>1, LenProperties
<1>4. similarity(m.clusters[i].template, w) = Len(w)
  <2>1. {j \in DOMAIN w : Agree(m.clusters[i].template[j], w[j])} = 1..Len(w)
    BY <1>2, <1>3 DEF Covers, Agree
  <2>2. \A n \in Nat : Cardinality(1..n) = n
    BY FS_Interval
  <2> QED
    BY <1>3, <2>1, <2>2 DEF similarity
<1>5. Len(w) * SimDen >= SimNum * Len(w)
  BY <1>3, DrainAssumption
<1>6. i \in Matching(m.clusters, LeafOf(m, w), w)
  BY <1>2, <1>4, <1>5 DEF Matching
<1> QED
  BY <1>6 DEF IsNew, w

LEMMA GoodBounded ==
  ASSUME NEW m, NEW lines, GoodMiner(m, lines), NEW node \in m.root
  PROVE  Cardinality(Children(m.root, node[1], node[2])) <= MaxChildren + 1
<1> DEFINE C == Children(m.root, node[1], node[2])
           own == OwnChildren(m.root, node[1], node[2])
<1>1. node[1] \in Nat /\ node[2] \in Seq(Word) /\ IsFiniteSet(m.root)
  BY DEF GoodMiner, MinerType
<1>2. IsFiniteSet(C) /\ own = C \ {Wildcard} /\ Cardinality(own) <= MaxChildren
  BY <1>1, ChildrenFinite DEF OwnChildren, GoodMiner, FewChildren
<1> HIDE DEF C, own
<1>3. Cardinality(own) = IF Wildcard \in C THEN Cardinality(C) - 1 ELSE Cardinality(C)
  BY <1>2, FS_RemoveElement
<1>4. Cardinality(C) \in Nat
  BY <1>2, FS_CardinalityType
<1>5. Cardinality(C) <= MaxChildren + 1
  BY <1>2, <1>3, <1>4, DrainAssumption
<1> QED
  BY <1>5 DEF C

(* The cluster Add gives the line to, and the template of a new one.       *)
LEMMA AddIDFacts ==
  ASSUME NEW m, NEW lines, GoodMiner(m, lines), NEW line \in Seq(Token)
  PROVE  /\ AddID(m, line) \in Nat \ {0}
         /\ IsNew(m, line) =>
              Add(m, line).clusters[AddID(m, line)].template = tokenize(line)
<1> DEFINE words == tokenize(line)
           c == [leaf |-> LeafOf(m, words), template |-> words, size |-> 1]
<1>1. words \in Seq(Word) /\ m.clusters \in Seq(Cluster)
  BY TokenizeType DEF GoodMiner, MinerType
<1>2. Len(m.clusters) \in Nat /\ DOMAIN m.clusters = 1..Len(m.clusters)
  BY <1>1, LenProperties
<1>3. CASE IsNew(m, line)
  <2>1. AddID(m, line) = Len(m.clusters) + 1 /\ Add(m, line).clusters = Append(m.clusters, c)
    BY <1>3 DEF AddID, Add
  <2>2. c \in Cluster /\ c.template = words
    BY <1>1, LeafType DEF Cluster
  <2> HIDE DEF c
  <2>3. Append(m.clusters, c)[Len(m.clusters) + 1] = c
    BY <1>1, <2>2, AppendProperties
  <2> QED
    BY <1>2, <2>1, <2>2, <2>3
<1>4. CASE ~IsNew(m, line)
  <2> DEFINE leaf == LeafOf(m, words)
  <2>1. Matching(m.clusters, leaf, words) # {} /\ AddID(m, line) = bestMatch(m.clusters, leaf, words)
    BY <1>4 DEF IsNew, AddID
  <2>2. AddID(m, line) \in Matching(m.clusters, leaf, words)
    BY <1>1, <2>1, BestMatchMatches
  <2>3. AddID(m, line) \in 1..Len(m.clusters)
    BY <1>2, <2>2 DEF Matching, AtLeaf
  <2> QED
    BY <1>2, <1>4, <2>3
<1> QED
  BY <1>3, <1>4

(* Add changes at most one template, and none when it makes a cluster.     *)
LEMMA AddGeneralises ==
  ASSUME NEW m, NEW lines, GoodMiner(m, lines), NEW line \in Seq(Token)
  PROVE  Generalised(m.clusters, Add(m, line).clusters)
<1> DEFINE old == m.clusters
           new == Add(m, line).clusters
<1>1. MinerType(m) /\ LeafLengths(m) /\ DOMAIN old = 1..Len(old)
  BY LenProperties DEF GoodMiner, MinerType
<1>2. Grown(old, new)
  BY <1>1, GrownByNew, MergedCluster
<1> SUFFICES Generalised(old, new)
  OBVIOUS
<1> HIDE DEF old, new
<1>3. CASE IsNew(m, line)
  <2>1. \A i \in 1..Len(old) : new[i] = old[i]
    BY <1>1, <1>3, GrownByNew DEF old, new
  <2>2. Changed(old, new) = {}
    BY <1>1, <2>1 DEF Changed
  <2>3. Cardinality(Changed(old, new)) <= 1
    BY <2>2, FS_EmptySet
  <2> QED
    BY <1>1, <1>2, <2>2, <2>3 DEF Grown, Generalised
<1>4. CASE ~IsNew(m, line)
  <2> DEFINE id == AddID(m, line)
  <2>1. Len(new) = Len(old) /\ \A i \in 1..Len(old) : i # id => new[i] = old[i]
    BY <1>1, <1>4, MergedCluster DEF old, new
  <2> HIDE DEF id
  <2>2. Changed(old, new) \subseteq {id}
    BY <1>1, <2>1 DEF Changed
  <2>3. IsFiniteSet({id}) /\ Cardinality({id}) = 1
    BY FS_Singleton
  <2>4. Cardinality(Changed(old, new)) <= 1
    BY <2>2, <2>3, FS_Subset
  <2> QED
    BY <1>1, <1>2, <2>1, <2>4 DEF Grown, Generalised
<1> QED
  BY <1>3, <1>4

-----------------------------------------------------------------------------
(* One miner.                                                              *)
MinerInv == GoodMiner(miner, mined) /\ adds \in 0..MaxAdds

LEMMA MinerInvInit == MinerInit => MinerInv
BY NewMinerGood, MinerAssumption DEF MinerInit, MinerInv

LEMMA MinerLineType ==
  ASSUME NEW line \in MinerLine
  PROVE  line \in Seq(Token)
BY MinerAssumption

LEMMA MinerInvStep == MinerInv /\ [MinerNext]_minerVars => MinerInv'
<1> SUFFICES ASSUME MinerInv, [MinerNext]_minerVars PROVE MinerInv'
  OBVIOUS
<1>1. ASSUME NEW line \in MinerLine, AddLine(line) PROVE MinerInv'
  <2>1. GoodMiner(Add(miner, line), mined \cup {tokenize(line)})
    BY MinerLineType, AddGood DEF MinerInv
  <2>2. adds' \in 0..MaxAdds
    BY <1>1, MinerAssumption DEF AddLine, MinerInv
  <2> QED
    BY <1>1, <2>1, <2>2 DEF AddLine, MinerInv
<1>2. CASE UNCHANGED minerVars
  BY <1>2 DEF minerVars, MinerInv
<1> QED
  BY <1>1, <1>2 DEF MinerNext

LEMMA SpecMiner == MinerSpec => []MinerInv
BY MinerInvInit, MinerInvStep, PTL DEF MinerSpec

-----------------------------------------------------------------------------
(* Type correctness.                                                       *)
THEOREM MinerTypes == MinerSpec => []MinerTypeOK
<1>1. MinerInv => MinerTypeOK
  BY DEF MinerInv, GoodMiner, MinerType, MinerTypeOK
<1> QED
  BY SpecMiner, <1>1, PTL

(* A line that was mined once is recognised for ever, whatever lines came  *)
(* before and after it: Add takes it to a leaf with a cluster that covers  *)
(* it.                                                                     *)
THEOREM SeenLinesAreKnown == MinerSpec => []SeenLinesStayKnown
<1>1. MinerInv => SeenLinesStayKnown
  BY KnownAtLeaf DEF MinerInv, SeenLinesStayKnown
<1> QED
  BY SpecMiner, <1>1, PTL

(* "keep the tree bounded": no node ever has more than maxChildren         *)
(* children and the one shared wildcard child.                             *)
THEOREM TreeStaysBounded == MinerSpec => []TreeBounded
<1>1. MinerInv => TreeBounded
  BY GoodBounded DEF MinerInv, TreeBounded
<1> QED
  BY SpecMiner, <1>1, PTL

(* Templates only generalise: a line changes at most one of them, by       *)
(* turning tokens into wildcards, and none when it makes a new one.        *)
THEOREM TemplatesGeneralise == MinerSpec => TemplatesOnlyGeneralise
<1>1. ASSUME MinerInv, NEW line \in MinerLine, AddLine(line)
      PROVE  Generalised(miner.clusters, miner'.clusters)
  BY <1>1, MinerLineType, AddGeneralises DEF MinerInv, AddLine
<1>2. MinerInv /\ [MinerNext]_minerVars => [Generalised(miner.clusters, miner'.clusters)]_minerVars
  BY <1>1 DEF MinerNext
<1> QED
  BY SpecMiner, <1>2, PTL DEF MinerSpec, TemplatesOnlyGeneralise

-----------------------------------------------------------------------------
(* The detector.                                                           *)
(* The lines of a workload: all of them, and the masked ones that were     *)
(* given to its miner.                                                     *)
SeenOf(w) == {n \in DOMAIN seen : seen[n].line.workload = w}

Mined(line) == Templated(line.msg.sev) /\ line.msg.words # <<>>

MinedOf(w) == {tokenize(seen[n].line.msg.words) : n \in {m \in SeenOf(w) : Mined(seen[m].line)}}

(* Why a template fires once: the miner of a workload is good for all the  *)
(* lines given to it, and what has fired was one of them.                  *)
MinersGood ==
  \A w \in Workload :
    /\ w \in DOMAIN baselines => GoodMiner(baselines[w].miner, MinedOf(w))
    /\ w \notin DOMAIN baselines => MinedOf(w) = {}

FiredMined ==
  \A i \in DOMAIN fired :
    /\ fired[i].anomaly.workload \in Workload
    /\ fired[i].anomaly.template \in MinedOf(fired[i].anomaly.workload)

(* Why the gates hold: a baseline counts no more lines than there were,    *)
(* and was created by one of them.                                         *)
LinesCounted ==
  \A w \in DOMAIN baselines :
    /\ baselines[w].lines \in Nat
    /\ baselines[w].lines <= Cardinality(SeenOf(w))
    /\ \E n \in SeenOf(w) : seen[n].at = baselines[w].firstSeen

IsBaseline(b) ==
  b = [miner |-> b.miner, firstSeen |-> b.firstSeen, lines |-> b.lines,
       known |-> b.known, digestSeen |-> b.digestSeen]

Logged ==
  /\ now \in Nat
  /\ \A w \in DOMAIN baselines : IsBaseline(baselines[w])
  /\ DOMAIN baselines \subseteq Workload
  /\ seen \in Seq([line : LogLine, at : Nat, cluster : Nat])
  /\ \E S : fired \in Seq(S)
  /\ \A i \in DOMAIN fired : fired[i].nth \in 1..Len(seen)

DetectorInv ==
  /\ Logged /\ MinersGood /\ FiredMined /\ FireOnce
  /\ LinesCounted /\ ColdStartQuiet

-----------------------------------------------------------------------------
LEMMA DetectorInit == Init => DetectorInv
<1> SUFFICES ASSUME Init PROVE DetectorInv
  OBVIOUS
<1>1. /\ now = 0 /\ baselines = Empty /\ DOMAIN baselines = {}
      /\ seen = <<>> /\ fired = <<>>
  BY DEF Init, Empty
<1>2. Logged
  BY <1>1 DEF Logged
<1>3. MinersGood
  BY <1>1 DEF MinersGood, MinedOf, SeenOf
<1> QED
  BY <1>1, <1>2, <1>3 DEF DetectorInv, FiredMined, FireOnce, LinesCounted, ColdStartQuiet

LEMMA DetectorTick ==
  ASSUME DetectorInv, now' \in Nat, UNCHANGED detectorVars
  PROVE  DetectorInv'
<1>1. /\ now' \in Nat /\ baselines' = baselines /\ seen' = seen /\ fired' = fired
      /\ Logged /\ MinersGood /\ FiredMined /\ FireOnce /\ LinesCounted /\ ColdStartQuiet
  BY DEF DetectorInv, detectorVars
<1>2. \A w : SeenOf(w)' = SeenOf(w) /\ MinedOf(w)' = MinedOf(w)
  BY <1>1 DEF SeenOf, MinedOf, Mined, tokenize, isVariable
<1>3. Logged' /\ MinersGood'
  BY <1>1, <1>2 DEF Logged, MinersGood
<1>4. FiredMined' /\ LinesCounted'
  BY <1>1, <1>2 DEF FiredMined, LinesCounted
<1>5. FireOnce' /\ ColdStartQuiet'
  BY <1>1 DEF FireOnce, ColdStartQuiet
<1> QED
  BY <1>3, <1>4, <1>5 DEF DetectorInv

(* A line that is observed is appended to seen.                            *)
LEMMA SawFacts ==
  ASSUME DetectorInv, NEW line \in Line, NEW id \in Nat, Saw(line, id)
  PROVE  /\ line \in LogLine /\ line.workload \in Workload
         /\ line.msg.words \in Seq(Token) /\ Len(seen) \in Nat
         /\ seen' \in Seq([line : LogLine, at : Nat, cluster : Nat])
         /\ DOMAIN seen = 1..Len(seen) /\ DOMAIN seen' = 1..(Len(seen) + 1)
         /\ \A n \in 1..Len(seen) : seen'[n] = seen[n]
         /\ seen'[Len(seen) + 1].line = line /\ seen'[Len(seen) + 1].at = now
         /\ seen'[Len(seen) + 1].cluster = id /\ Len(seen') = Len(seen) + 1
<1> DEFINE Rec == [line : LogLine, at : Nat, cluster : Nat]
           r == [line |-> line, at |-> now, cluster |-> id]
<1>1. seen \in Seq(Rec) /\ now \in Nat
  BY DEF DetectorInv, Logged
<1>2. line \in LogLine /\ line.workload \in Workload /\ line.msg \in Message
  BY DetectorAssumption DEF LogLine
<1>3. line.msg.words \in Seq(Token)
  BY <1>2, DetectorAssumption
<1>4. r \in Rec /\ r.line = line /\ r.at = now /\ r.cluster = id
  BY <1>1, <1>2
<1> HIDE DEF Rec, r
<1>5. seen' = Append(seen, r)
  BY DEF Saw, r
<1>6. /\ seen' \in Seq(Rec) /\ Len(seen') = Len(seen) + 1
      /\ \A n \in 1..Len(seen) : seen'[n] = seen[n]
      /\ seen'[Len(seen) + 1] = r
  BY <1>1, <1>4, <1>5, AppendProperties
<1>7. DOMAIN seen = 1..Len(seen) /\ DOMAIN seen' = 1..Len(seen') /\ Len(seen) \in Nat
  BY <1>1, <1>6, LenProperties
<1> QED
  BY <1>2, <1>3, <1>4, <1>6, <1>7 DEF Rec

LEMMA SeenAfter ==
  ASSUME DetectorInv, NEW line \in Line, NEW id \in Nat, Saw(line, id), NEW w \in Workload
  PROVE  /\ w # line.workload => SeenOf(w)' = SeenOf(w) /\ MinedOf(w)' = MinedOf(w)
         /\ w = line.workload =>
              /\ SeenOf(w)' = SeenOf(w) \cup {Len(seen) + 1}
              /\ MinedOf(w)' = MinedOf(w) \cup
                   (IF Mined(line) THEN {tokenize(line.msg.words)} ELSE {})
         /\ IsFiniteSet(SeenOf(w)) /\ Len(seen) + 1 \notin SeenOf(w)
<1>1. /\ DOMAIN seen = 1..Len(seen) /\ DOMAIN seen' = 1..(Len(seen) + 1) /\ Len(seen) \in Nat
      /\ \A n \in 1..Len(seen) : seen'[n] = seen[n]
      /\ seen'[Len(seen) + 1].line = line
  BY SawFacts
<1>2. SeenOf(w)' = SeenOf(w) \cup (IF w = line.workload THEN {Len(seen) + 1} ELSE {})
  BY <1>1 DEF SeenOf
<1>3. SeenOf(w) \subseteq 1..Len(seen)
  BY <1>1 DEF SeenOf
<1>4. MinedOf(w)' = {tokenize(seen'[n].line.msg.words) : n \in {m \in SeenOf(w)' : Mined(seen'[m].line)}}
  BY DEF MinedOf, SeenOf, Mined, tokenize, isVariable
<1>5. IsFiniteSet(1..Len(seen))
  <2>1. 1 \in Int /\ Len(seen) \in Int
    BY <1>1
  <2> QED
    BY ONLY <2>1, FS_Interval
<1>6. IsFiniteSet(SeenOf(w))
  BY <1>3, <1>5, FS_Subset
<1>7. CASE w # line.workload
  BY <1>1, <1>2, <1>3, <1>4, <1>6, <1>7 DEF MinedOf
<1>8. CASE w = line.workload
  BY <1>1, <1>2, <1>3, <1>4, <1>6, <1>8 DEF MinedOf
<1> QED
  BY <1>7, <1>8

(* What the observed line's baseline is before it.                         *)
LEMMA BaselineFacts ==
  ASSUME DetectorInv, NEW w \in Workload, NEW b, b = BaselineOf(w)
  PROVE  /\ IsBaseline(b)
         /\ GoodMiner(b.miner, MinedOf(w))
         /\ b.lines \in Nat /\ b.lines <= Cardinality(SeenOf(w))
         /\ b.firstSeen = now \/ \E n \in SeenOf(w) : seen[n].at = b.firstSeen
<1>1. Logged /\ MinersGood /\ LinesCounted
  BY DEF DetectorInv
<1>2. CASE w \in DOMAIN baselines
  <2>1. b = baselines[w]
    BY <1>2 DEF BaselineOf, Lookup
  <2> QED
    BY <1>1, <1>2, <2>1 DEF Logged, MinersGood, LinesCounted
<1>3. CASE w \notin DOMAIN baselines
  <2>1. b = [miner |-> newMiner, firstSeen |-> now, lines |-> 0,
             known |-> {}, digestSeen |-> Empty]
    BY <1>3 DEF BaselineOf, Lookup
  <2>2. MinedOf(w) = {}
    BY <1>1, <1>3 DEF MinersGood
  <2>3. IsFiniteSet(SeenOf(w))
    <3>1. SeenOf(w) \subseteq 1..Len(seen) /\ Len(seen) \in Nat
      BY <1>1, LenProperties DEF SeenOf, Logged
    <3>2. IsFiniteSet(1..Len(seen))
      BY <3>1, FS_Interval
    <3> QED
      BY <3>1, <3>2, FS_Subset
  <2>4. Cardinality(SeenOf(w)) \in Nat
    BY <2>3, FS_CardinalityType
  <2> QED
    BY <2>1, <2>2, <2>4, NewMinerGood DEF IsBaseline
<1> QED
  BY <1>2, <1>3

(* Whatever else a line does, it is enough that its workload's baseline is *)
(* put in place with a good miner, counting at most this line more.        *)
LEMMA BaselinesKept ==
  ASSUME DetectorInv, NEW line \in Line, NEW id \in Nat, Saw(line, id),
         NEW w, w = line.workload, NEW b, baselines' = Put(baselines, w, b),
         IsBaseline(b), GoodMiner(b.miner, MinedOf(w)'),
         b.lines \in Nat, b.lines <= BaselineOf(w).lines + 1,
         b.firstSeen = BaselineOf(w).firstSeen
  PROVE  /\ MinersGood' /\ LinesCounted'
         /\ DOMAIN baselines' \subseteq Workload
         /\ \A v \in DOMAIN baselines' : IsBaseline(baselines'[v])
<1>1. Logged /\ MinersGood /\ LinesCounted /\ w \in Workload
  BY SawFacts DEF DetectorInv
<1>2. /\ DOMAIN baselines' = DOMAIN baselines \cup {w}
      /\ baselines'[w] = b
      /\ \A v \in DOMAIN baselines \ {w} : baselines'[v] = baselines[v]
  BY DEF Put
<1>3. \A v \in Workload \ {w} : SeenOf(v)' = SeenOf(v) /\ MinedOf(v)' = MinedOf(v)
  BY SeenAfter
<1>4. MinersGood'
  BY <1>1, <1>2, <1>3 DEF MinersGood
<1>5. /\ \A n \in DOMAIN seen : seen'[n] = seen[n]
      /\ seen'[Len(seen) + 1].at = now
  BY SawFacts
<1>6. ASSUME NEW v \in DOMAIN baselines'
      PROVE  /\ baselines'[v].lines \in Nat
             /\ baselines'[v].lines <= Cardinality(SeenOf(v)')
             /\ \E n \in SeenOf(v)' : seen'[n].at = baselines'[v].firstSeen
  <2>1. CASE v # w
    <3>1. v \in DOMAIN baselines /\ v \in Workload /\ baselines'[v] = baselines[v]
      BY <1>1, <1>2, <2>1 DEF Logged
    <3>2. SeenOf(v)' = SeenOf(v) /\ SeenOf(v) \subseteq DOMAIN seen
      BY <1>3, <2>1, <3>1 DEF SeenOf
    <3>3. /\ baselines[v].lines \in Nat /\ baselines[v].lines <= Cardinality(SeenOf(v))
          /\ \E n \in SeenOf(v) : seen[n].at = baselines[v].firstSeen
      BY <1>1, <3>1 DEF LinesCounted
    <3> QED
      BY <1>5, <3>1, <3>2, <3>3
  <2>2. CASE v = w
    <3>1. /\ SeenOf(w)' = SeenOf(w) \cup {Len(seen) + 1}
          /\ IsFiniteSet(SeenOf(w)) /\ Len(seen) + 1 \notin SeenOf(w)
      BY <1>1, SeenAfter
    <3>2. /\ BaselineOf(w).lines \in Nat /\ BaselineOf(w).lines <= Cardinality(SeenOf(w))
          /\ \/ BaselineOf(w).firstSeen = now
             \/ \E n \in SeenOf(w) : seen[n].at = BaselineOf(w).firstSeen
      BY <1>1, BaselineFacts
    <3>3. Cardinality(SeenOf(w)') = Cardinality(SeenOf(w)) + 1 /\ Cardinality(SeenOf(w)) \in Nat
      BY <3>1, FS_AddElement, FS_CardinalityType
    <3>4. b.lines <= Cardinality(SeenOf(w)')
      BY <3>2, <3>3
    <3>5. \E n \in SeenOf(w)' : seen'[n].at = b.firstSeen
      BY <1>5, <3>1, <3>2 DEF SeenOf
    <3> QED
      BY <1>2, <2>2, <3>4, <3>5
  <2> QED
    BY <2>1, <2>2
<1>7. LinesCounted'
  BY <1>6 DEF LinesCounted
<1>8. DOMAIN baselines' \subseteq Workload /\ \A v \in DOMAIN baselines' : IsBaseline(baselines'[v])
  BY <1>1, <1>2 DEF Logged
<1> QED
  BY <1>4, <1>7, <1>8

LEMMA CountLineBaselines ==
  ASSUME DetectorInv, NEW line \in Line, CountLine(line)
  PROVE  /\ MinersGood' /\ LinesCounted'
         /\ DOMAIN baselines' \subseteq Workload
         /\ \A v \in DOMAIN baselines' : IsBaseline(baselines'[v])
<1> DEFINE w == line.workload
           b == [baselines[w] EXCEPT !.lines = @ + 1]
<1>1. Saw(line, 0) /\ ~Mined(line) /\ w \in Workload /\ 0 \in Nat
  BY SawFacts DEF CountLine, Mined
<1>2. MinedOf(w)' = MinedOf(w)
  BY <1>1, SeenAfter
<1>3. Logged /\ MinersGood /\ LinesCounted
  BY DEF DetectorInv
<1>4. CASE w \in DOMAIN baselines
  <2>1. baselines' = Put(baselines, w, b)
    BY <1>4 DEF CountLine, Put
  <2>2. IsBaseline(baselines[w]) /\ BaselineOf(w) = baselines[w]
    BY <1>3, <1>4 DEF Logged, BaselineOf, Lookup
  <2>3. GoodMiner(baselines[w].miner, MinedOf(w)) /\ baselines[w].lines \in Nat
    BY <1>1, <1>3, <1>4 DEF MinersGood, LinesCounted
  <2>4. /\ IsBaseline(b) /\ b.miner = baselines[w].miner
        /\ b.lines = baselines[w].lines + 1 /\ b.firstSeen = baselines[w].firstSeen
    BY <2>2 DEF IsBaseline
  <2> HIDE DEF w, b
  <2> QED
    BY <1>1, <1>2, <2>1, <2>2, <2>3, <2>4, BaselinesKept DEF w
<1>5. CASE w \notin DOMAIN baselines
  <2>1. baselines' = baselines
    BY <1>5 DEF CountLine
  <2>2. \A v \in Workload : MinedOf(v)' = MinedOf(v)
    BY <1>1, <1>2, SeenAfter
  <2>3. MinersGood'
    BY <1>3, <2>1, <2>2 DEF MinersGood
  <2>4. \A v \in DOMAIN baselines : SeenOf(v)' = SeenOf(v)
    BY <1>1, <1>3, <1>5, SeenAfter DEF Logged
  <2>5. \A n \in DOMAIN seen : seen'[n] = seen[n]
    BY <1>1, SawFacts
  <2>6. ASSUME NEW v \in DOMAIN baselines
        PROVE  \E n \in SeenOf(v)' : seen'[n].at = baselines[v].firstSeen
    <3>1. PICK n \in SeenOf(v) : seen[n].at = baselines[v].firstSeen
      BY <1>3 DEF LinesCounted
    <3>2. n \in DOMAIN seen /\ n \in SeenOf(v)'
      BY <2>4 DEF SeenOf
    <3> QED
      BY <2>5, <3>1, <3>2
  <2>7. LinesCounted'
    BY <1>3, <2>1, <2>4, <2>6 DEF LinesCounted
  <2> QED
    BY <1>3, <2>1, <2>3, <2>7 DEF Logged
<1> QED
  BY <1>4, <1>5

LEMMA BlankLineBaselines ==
  ASSUME DetectorInv, NEW line \in Line, BlankLine(line)
  PROVE  /\ MinersGood' /\ LinesCounted'
         /\ DOMAIN baselines' \subseteq Workload
         /\ \A v \in DOMAIN baselines' : IsBaseline(baselines'[v])
<1> DEFINE w == line.workload
           b == BaselineOf(w)
<1>1. /\ Saw(line, 0) /\ ~Mined(line) /\ w \in Workload /\ 0 \in Nat
      /\ baselines' = Put(baselines, w, b)
  BY SawFacts DEF BlankLine, Mined
<1> HIDE DEF w
<1>2. MinedOf(w)' = MinedOf(w)
  BY <1>1, SeenAfter DEF w
<1>3. IsBaseline(b) /\ GoodMiner(b.miner, MinedOf(w)) /\ b.lines \in Nat
  BY <1>1, BaselineFacts
<1> HIDE DEF b
<1>4. b = BaselineOf(w) /\ w = line.workload
  BY DEF b, w
<1> QED
  BY <1>1, <1>2, <1>3, <1>4, BaselinesKept

(* A line for the miner: what it makes of the baseline.                    *)
LEMMA TemplateLineFacts ==
  ASSUME DetectorInv, NEW line \in Line, TemplateLine(line),
         NEW w, w = line.workload
  PROVE  /\ ClusterOf(line) \in Nat /\ Saw(line, ClusterOf(line))
         /\ w \in Workload /\ Mined(line) /\ line.msg.words \in Seq(Token)
         /\ baselines' = Put(baselines, w, NextBaseline(line))
         /\ IsBaseline(NextBaseline(line))
         /\ NextBaseline(line).miner = Add(BaselineOf(w).miner, line.msg.words)
         /\ NextBaseline(line).lines = BaselineOf(w).lines + 1
         /\ NextBaseline(line).firstSeen = BaselineOf(w).firstSeen
         /\ MinedOf(w)' = MinedOf(w) \cup {tokenize(line.msg.words)}
<1>1. /\ w \in Workload /\ line.msg.words \in Seq(Token)
  BY DetectorAssumption DEF LogLine
<1>2. IsBaseline(BaselineOf(w)) /\ GoodMiner(BaselineOf(w).miner, MinedOf(w))
  BY <1>1, BaselineFacts
<1>3. ClusterOf(line) \in Nat
  BY <1>1, <1>2, AddIDFacts DEF ClusterOf
<1>4. /\ Saw(line, ClusterOf(line)) /\ Mined(line)
      /\ baselines' = Put(baselines, w, NextBaseline(line))
  BY DEF TemplateLine, Mined
<1>5. MinedOf(w)' = MinedOf(w) \cup {tokenize(line.msg.words)}
  BY <1>1, <1>3, <1>4, SeenAfter
<1>6. /\ IsBaseline(NextBaseline(line))
      /\ NextBaseline(line).miner = Add(BaselineOf(w).miner, line.msg.words)
      /\ NextBaseline(line).lines = BaselineOf(w).lines + 1
      /\ NextBaseline(line).firstSeen = BaselineOf(w).firstSeen
  <2> DEFINE b == BaselineOf(w)
             next == NextBaseline(line)
  <2>1. /\ next = [b EXCEPT !.miner = Add(b.miner, line.msg.words),
                            !.lines = @ + 1,
                            !.known = next.known,
                            !.digestSeen = next.digestSeen]
        /\ IsBaseline(b)
    <3> DEFINE known == IF NewCluster(line) THEN b.known \cup {ClusterOf(line)} ELSE b.known
               digests == Put(b.digestSeen, ClusterOf(line),
                              Lookup(b.digestSeen, ClusterOf(line), {})
                                \cup ({line.digest} \ {None}))
               added == Add(b.miner, line.msg.words)
    <3>1. /\ next = [b EXCEPT !.miner = added, !.lines = @ + 1,
                              !.known = known, !.digestSeen = digests]
          /\ IsBaseline(b)
      BY <1>2 DEF NextBaseline
    <3> HIDE DEF b, known, digests, added, next
    <3>2. next.known = known /\ next.digestSeen = digests
      BY <3>1 DEF IsBaseline
    <3> QED
      BY <3>1, <3>2 DEF added
  <2> HIDE DEF b, next
  <2>2. /\ IsBaseline(next) /\ next.miner = Add(b.miner, line.msg.words)
        /\ next.lines = b.lines + 1 /\ next.firstSeen = b.firstSeen
    BY <2>1 DEF IsBaseline
  <2> QED
    BY <2>2 DEF b, next
<1> QED
  BY <1>1, <1>3, <1>4, <1>5, <1>6

LEMMA TemplateLineBaselines ==
  ASSUME DetectorInv, NEW line \in Line, TemplateLine(line)
  PROVE  /\ MinersGood' /\ LinesCounted'
         /\ DOMAIN baselines' \subseteq Workload
         /\ \A v \in DOMAIN baselines' : IsBaseline(baselines'[v])
<1> DEFINE w == line.workload
           b == NextBaseline(line)
           id == ClusterOf(line)
<1>1. /\ id \in Nat /\ Saw(line, id) /\ w \in Workload
      /\ line.msg.words \in Seq(Token)
      /\ baselines' = Put(baselines, w, b) /\ IsBaseline(b)
      /\ b.miner = Add(BaselineOf(w).miner, line.msg.words)
      /\ b.lines = BaselineOf(w).lines + 1
      /\ b.firstSeen = BaselineOf(w).firstSeen
      /\ MinedOf(w)' = MinedOf(w) \cup {tokenize(line.msg.words)}
  BY TemplateLineFacts
<1>2. GoodMiner(BaselineOf(w).miner, MinedOf(w)) /\ BaselineOf(w).lines \in Nat
  BY <1>1, BaselineFacts
<1>3. GoodMiner(b.miner, MinedOf(w)')
  BY <1>1, <1>2, AddGood
<1>4. w = line.workload
  OBVIOUS
<1> HIDE DEF w, b, id
<1>5. b.lines \in Nat /\ b.lines <= BaselineOf(w).lines + 1
  BY <1>1, <1>2
<1> QED
  BY <1>1, <1>3, <1>4, <1>5, BaselinesKept

-----------------------------------------------------------------------------
(* What fired before stays as it was, and so does all that is said of it.  *)
LEMMA OldFired ==
  ASSUME DetectorInv, NEW line \in Line, NEW id \in Nat, Saw(line, id),
         NEW i \in DOMAIN fired, NEW f, f = fired[i]
  PROVE  /\ f.nth \in 1..Len(seen) /\ f.nth \in 1..Len(seen')
         /\ f.anomaly.workload \in Workload
         /\ f.anomaly.template \in MinedOf(f.anomaly.workload)
         /\ f.anomaly.template \in MinedOf(f.anomaly.workload)'
         /\ LET earlier == {n \in 1..f.nth : seen'[n].line.workload = f.anomaly.workload}
            IN /\ Cardinality(earlier) >= MinLines
               /\ \E n \in earlier : seen'[n].at <= f.anomaly.firedAt - MinHistory
<1> DEFINE v == f.anomaly.workload
           earlier(s) == {n \in 1..f.nth : s[n].line.workload = v}
<1>1. /\ f.nth \in 1..Len(seen) /\ v \in Workload /\ f.anomaly.template \in MinedOf(v)
      /\ Cardinality(earlier(seen)) >= MinLines
      /\ \E n \in earlier(seen) : seen[n].at <= f.anomaly.firedAt - MinHistory
  BY DEF DetectorInv, Logged, FiredMined, ColdStartQuiet
<1>2. /\ Len(seen) \in Nat /\ Len(seen') = Len(seen) + 1
      /\ \A n \in 1..Len(seen) : seen'[n] = seen[n]
  <2>1. /\ Len(seen) \in Nat /\ DOMAIN seen' = 1..(Len(seen) + 1)
        /\ \A n \in 1..Len(seen) : seen'[n] = seen[n]
        /\ seen' \in Seq([line : LogLine, at : Nat, cluster : Nat])
    BY SawFacts
  <2>2. DOMAIN seen' = 1..Len(seen') /\ Len(seen') \in Nat
    BY <2>1, LenProperties
  <2> QED
    BY <2>1, <2>2
<1>3. f.anomaly.template \in MinedOf(v)'
  <2> DEFINE u == v
  <2>1. u \in Workload
    BY <1>1
  <2> HIDE DEF u
  <2>2. MinedOf(u) \subseteq MinedOf(u)'
    BY <2>1, SeenAfter
  <2> QED
    BY <1>1, <2>2 DEF u
<1>4. \A n \in 1..f.nth : seen'[n] = seen[n]
  BY <1>1, <1>2
<1>5. earlier(seen') = earlier(seen)
  BY <1>4
<1>6. \E n \in earlier(seen') : seen'[n].at <= f.anomaly.firedAt - MinHistory
  BY <1>1, <1>4, <1>5
<1>7. f.nth \in 1..Len(seen')
  BY <1>1, <1>2
<1> QED
  BY <1>1, <1>3, <1>5, <1>6, <1>7

(* All that is left to say of a step is what it adds to fired.             *)
FiredInv ==
  /\ \E S : fired \in Seq(S)
  /\ \A i \in DOMAIN fired : fired[i].nth \in 1..Len(seen)
  /\ FiredMined /\ FireOnce /\ ColdStartQuiet

LEMMA NothingFired ==
  ASSUME DetectorInv, NEW line \in Line, NEW id \in Nat, Saw(line, id), fired' = fired
  PROVE  FiredInv'
<1>1. (\E S : fired \in Seq(S)) /\ FireOnce
  BY DEF DetectorInv, Logged
<1>2. /\ \E S : fired' \in Seq(S)
      /\ FireOnce'
  BY <1>1 DEF FireOnce
<1>4. \A i \in DOMAIN fired' : fired'[i].nth \in 1..Len(seen')
  BY OldFired
<1>5. FiredMined'
  BY OldFired DEF FiredMined
<1>6. ColdStartQuiet'
  BY OldFired DEF ColdStartQuiet
<1> QED
  BY <1>2, <1>4, <1>5, <1>6 DEF FiredInv

(* What fires is a new cluster, so its template is none of the lines the   *)
(* miner was given before.                                                 *)
LEMMA FiredIsNew ==
  ASSUME DetectorInv, NEW line \in Line, TemplateLine(line), Fires(line),
         NEW w, w = line.workload, NEW a, a = Anomaly(line)
  PROVE  /\ a.workload = w /\ a.firedAt = now
         /\ a.template = tokenize(line.msg.words)
         /\ a.template \notin MinedOf(w)
<1> DEFINE b == BaselineOf(w)
           words == line.msg.words
<1>1. /\ w \in Workload /\ words \in Seq(Token)
      /\ NextBaseline(line).miner = Add(b.miner, words)
  BY TemplateLineFacts
<1>2. GoodMiner(b.miner, MinedOf(w))
  BY <1>1, BaselineFacts
<1>3. IsNew(b.miner, words) /\ ClusterOf(line) = AddID(b.miner, words)
  BY DEF Fires, NewCluster, ClusterOf
<1>4. a.workload = w /\ a.firedAt = now /\ a.template = TemplateText(line)
  BY DEF Anomaly
<1> HIDE DEF b, words
<1>5. Add(b.miner, words).clusters[AddID(b.miner, words)].template = tokenize(words)
  BY <1>1, <1>2, <1>3, AddIDFacts
<1>6. a.template = tokenize(words)
  BY <1>1, <1>3, <1>4, <1>5 DEF TemplateText
<1>7. tokenize(words) \notin MinedOf(w)
  BY <1>1, <1>2, <1>3, NoSecondCluster
<1> QED
  BY <1>4, <1>6, <1>7 DEF words

(* It fires past the gates, which count lines that were really seen.       *)
LEMMA FiredPastGates ==
  ASSUME DetectorInv, NEW line \in Line, TemplateLine(line), Fires(line),
         NEW w, w = line.workload
  PROVE  LET earlier == {n \in 1..(Len(seen) + 1) : seen'[n].line.workload = w}
         IN /\ Cardinality(earlier) >= MinLines
            /\ \E n \in earlier : seen'[n].at <= now - MinHistory
<1> DEFINE b == BaselineOf(w)
           earlier == {n \in 1..(Len(seen) + 1) : seen'[n].line.workload = w}
           id == ClusterOf(line)
<1>1. /\ w \in Workload /\ id \in Nat /\ Saw(line, id)
      /\ NextBaseline(line).lines = b.lines + 1
  BY TemplateLineFacts
<1>2. /\ now - b.firstSeen >= MinHistory
      /\ NextBaseline(line).lines >= MinLines
  BY DEF Fires
<1> HIDE DEF id
<1>3. /\ Len(seen) \in Nat /\ DOMAIN seen = 1..Len(seen)
      /\ DOMAIN seen' = 1..(Len(seen) + 1)
      /\ \A n \in 1..Len(seen) : seen'[n] = seen[n]
      /\ seen'[Len(seen) + 1].line = line /\ seen'[Len(seen) + 1].at = now
  BY <1>1, SawFacts
<1>4. /\ b.lines \in Nat /\ b.lines <= Cardinality(SeenOf(w))
      /\ b.firstSeen = now \/ \E n \in SeenOf(w) : seen[n].at = b.firstSeen
  BY <1>1, BaselineFacts
<1> HIDE DEF b
<1>5. IsFiniteSet(SeenOf(w)) /\ Len(seen) + 1 \notin SeenOf(w)
  BY <1>1, SeenAfter
<1>6. Cardinality(SeenOf(w) \cup {Len(seen) + 1}) = Cardinality(SeenOf(w)) + 1
      /\ Cardinality(SeenOf(w)) \in Nat
  BY <1>5, FS_AddElement, FS_CardinalityType
<1>7. earlier = SeenOf(w) \cup {Len(seen) + 1}
  BY <1>3 DEF SeenOf
<1> HIDE DEF earlier
<1>8. Cardinality(earlier) >= MinLines
  BY <1>1, <1>2, <1>4, <1>6, <1>7, DetectorAssumption
<1>9. now \in Nat /\ \A n \in DOMAIN seen : seen[n].at \in Nat
  <2>1. now \in Nat /\ seen \in Seq([line : LogLine, at : Nat, cluster : Nat])
    BY DEF DetectorInv, Logged
  <2>2. \A n \in DOMAIN seen : seen[n] \in [line : LogLine, at : Nat, cluster : Nat]
    BY <2>1, ElementOfSeq, LenProperties
  <2> QED
    BY <2>1, <2>2
<1>10. \E n \in earlier : seen'[n].at <= now - MinHistory
  <2>1. CASE b.firstSeen = now
    BY <1>2, <1>3, <1>7, <1>9, <2>1, DetectorAssumption
  <2>2. ASSUME NEW n \in SeenOf(w), seen[n].at = b.firstSeen
        PROVE  n \in earlier /\ seen'[n].at <= now - MinHistory
    <3>1. n \in 1..Len(seen)
      BY <1>3 DEF SeenOf
    <3>2. seen'[n].at = b.firstSeen /\ b.firstSeen \in Nat
      BY <1>3, <1>9, <2>2, <3>1
    <3> QED
      BY <1>2, <1>7, <1>9, <3>2, DetectorAssumption
  <2> QED
    BY <1>4, <2>1, <2>2
<1> QED
  BY <1>8, <1>10 DEF earlier

LEMMA NewFired ==
  ASSUME DetectorInv, NEW line \in Line, TemplateLine(line), Fires(line)
  PROVE  FiredInv'
<1> DEFINE w == line.workload
           a == Anomaly(line)
           r == [anomaly |-> a, nth |-> Len(seen) + 1]
           id == ClusterOf(line)
           k == Len(fired) + 1
<1>1. /\ w \in Workload /\ id \in Nat /\ Saw(line, id)
      /\ MinedOf(w)' = MinedOf(w) \cup {tokenize(line.msg.words)}
  BY TemplateLineFacts
<1>2. /\ a.workload = w /\ a.firedAt = now
      /\ a.template \notin MinedOf(w) /\ a.template \in MinedOf(w)'
  BY <1>1, FiredIsNew
<1>3. LET earlier == {n \in 1..(Len(seen) + 1) : seen'[n].line.workload = w}
      IN /\ Cardinality(earlier) >= MinLines
         /\ \E n \in earlier : seen'[n].at <= now - MinHistory
  BY FiredPastGates
<1>4. r.anomaly = a /\ r.nth = Len(seen) + 1 /\ fired' = Append(fired, r)
  BY DEF TemplateLine
<1>5. Len(seen') = Len(seen) + 1 /\ Len(seen) \in Nat
  <2> HIDE DEF id
  <2>1. /\ Len(seen) \in Nat /\ DOMAIN seen' = 1..(Len(seen) + 1)
        /\ seen' \in Seq([line : LogLine, at : Nat, cluster : Nat])
    BY <1>1, SawFacts
  <2>2. DOMAIN seen' = 1..Len(seen') /\ Len(seen') \in Nat
    BY <2>1, LenProperties
  <2> QED
    BY <2>1, <2>2
<1> HIDE DEF w, a, r, id
<1>6. PICK S : fired \in Seq(S)
  BY DEF DetectorInv, Logged
<1>7. fired \in Seq(S \cup {r}) /\ r \in S \cup {r}
  BY <1>6, SeqMonotonic
<1>8. /\ fired' \in Seq(S \cup {r}) /\ Len(fired') = k
      /\ \A i \in 1..Len(fired) : fired'[i] = fired[i]
      /\ fired'[k] = r
  BY <1>4, <1>7, AppendProperties
<1>9. DOMAIN fired = 1..Len(fired) /\ DOMAIN fired' = 1..k /\ Len(fired) \in Nat
  BY <1>7, <1>8, LenProperties
<1>10. ASSUME NEW i \in DOMAIN fired' PROVE i = k \/ (i \in DOMAIN fired /\ fired'[i] = fired[i])
  BY <1>8, <1>9
<1>11. \A i \in DOMAIN fired' : fired'[i].nth \in 1..Len(seen')
  <2>1. \A i \in DOMAIN fired : fired[i].nth \in 1..Len(seen')
    BY <1>1, OldFired
  <2>2. r.nth \in 1..Len(seen')
    BY <1>4, <1>5
  <2> QED
    BY <1>8, <1>10, <2>1, <2>2
<1>12. FiredMined'
  BY <1>1, <1>2, <1>4, <1>8, <1>10, OldFired DEF FiredMined
<1>13. ColdStartQuiet'
  <2> DEFINE early(f) == {n \in 1..f.nth : seen'[n].line.workload = f.anomaly.workload}
             Quiet(f) == /\ Cardinality(early(f)) >= MinLines
                         /\ \E n \in early(f) : seen'[n].at <= f.anomaly.firedAt - MinHistory
  <2>1. \A i \in DOMAIN fired : Quiet(fired[i])
    BY <1>1, OldFired
  <2>2. Quiet(r)
    BY <1>2, <1>3, <1>4
  <2> HIDE DEF Quiet
  <2>3. \A i \in DOMAIN fired' : Quiet(fired'[i])
    BY <1>8, <1>10, <2>1, <2>2
  <2> QED
    BY <2>3 DEF ColdStartQuiet, Quiet
<1>14. FireOnce'
  <2>1. \A i \in DOMAIN fired :
          fired[i].anomaly.workload = a.workload => fired[i].anomaly.template # a.template
    BY <1>2 DEF DetectorInv, FiredMined
  <2>2. FireOnce
    BY DEF DetectorInv
  <2> QED
    BY <1>4, <1>8, <1>10, <2>1, <2>2 DEF FireOnce
<1> QED
  BY <1>8, <1>11, <1>12, <1>13, <1>14 DEF FiredInv

-----------------------------------------------------------------------------
LEMMA DetectorObserve ==
  ASSUME DetectorInv, NEW line \in Line, Observe(line), now' = now
  PROVE  DetectorInv'
<1> DEFINE id == IF TemplateLine(line) THEN ClusterOf(line) ELSE 0
<1>1. /\ MinersGood' /\ LinesCounted' /\ DOMAIN baselines' \subseteq Workload
      /\ \A v \in DOMAIN baselines' : IsBaseline(baselines'[v])
  BY CountLineBaselines, BlankLineBaselines, TemplateLineBaselines DEF Observe
<1>2. id \in Nat /\ Saw(line, id)
  BY TemplateLineFacts DEF Observe, CountLine, BlankLine
<1>3. FiredInv'
  <2>1. CASE TemplateLine(line) /\ Fires(line)
    BY <2>1, NewFired
  <2>2. CASE ~(TemplateLine(line) /\ Fires(line))
    <3>1. fired' = fired
      BY <2>2 DEF Observe, CountLine, BlankLine, TemplateLine
    <3> HIDE DEF id
    <3> QED
      BY <1>2, <3>1, NothingFired
  <2> QED
    BY <2>1, <2>2
<1> HIDE DEF id
<1>4. seen' \in Seq([line : LogLine, at : Nat, cluster : Nat])
  BY <1>2, SawFacts
<1>5. now' \in Nat
  BY DEF DetectorInv, Logged
<1>6. Logged'
  BY <1>1, <1>3, <1>4, <1>5 DEF Logged, FiredInv
<1> QED
  BY <1>1, <1>3, <1>6 DEF DetectorInv, FiredInv

LEMMA DetectorStep == DetectorInv /\ [Next]_<<now, detectorVars>> => DetectorInv'
<1> SUFFICES ASSUME DetectorInv, [Next]_<<now, detectorVars>> PROVE DetectorInv'
  OBVIOUS
<1>1. CASE ObserveSome
  BY <1>1, DetectorObserve DEF ObserveSome
<1>2. CASE Tick
  <2>1. now' \in Nat /\ UNCHANGED detectorVars
    BY <1>2 DEF Tick, DetectorInv, Logged
  <2> QED
    BY <2>1, DetectorTick
<1>3. CASE UNCHANGED <<now, detectorVars>>
  <2>1. now' \in Nat /\ UNCHANGED detectorVars
    BY <1>3 DEF DetectorInv, Logged
  <2> QED
    BY <2>1, DetectorTick
<1> QED
  BY <1>1, <1>2, <1>3 DEF Next

LEMMA SpecDetectorInv == Spec => []DetectorInv
BY DetectorInit, DetectorStep, PTL DEF Spec

(* A template text alerts at most once in a workload's life, for any lines *)
(* in any order at any times.                                              *)
THEOREM FiresOnce == Spec => []FireOnce
<1>1. DetectorInv => FireOnce
  BY DEF DetectorInv
<1> QED
  BY SpecDetectorInv, <1>1, PTL

(* Nothing fires before the workload has been watched for MinHistory and   *)
(* has emitted MinLines lines.                                             *)
THEOREM ColdStartHolds == Spec => []ColdStartQuiet
<1>1. DetectorInv => ColdStartQuiet
  BY DEF DetectorInv
<1> QED
  BY SpecDetectorInv, <1>1, PTL
-----------------------------------------------------------------------------
(* Why the pods and the hits of a cluster are exact: each is the record of *)
(* lines that went to it, and a line that is missing is past its time.     *)
AtsPast == \A n \in DOMAIN seen : seen[n].at \in Nat /\ seen[n].at <= now

(* The pods of a cluster, with the last time of each.                      *)
PodsOf(k, ps) ==
  /\ DOMAIN ps \subseteq Pod
  /\ \A p \in DOMAIN ps : \E n \in LinesOf(k) : seen[n].line.pod = p /\ seen[n].at = ps[p]
  /\ \A n \in LinesOf(k) :
       seen[n].line.pod # None =>
         IF seen[n].line.pod \in DOMAIN ps
         THEN seen[n].at <= ps[seen[n].line.pod]
         ELSE seen[n].at < now - PodRetention
  /\ (Len(seen) \in LinesOf(k) /\ seen[Len(seen)].at = now)
       => \A p \in DOMAIN ps : ps[p] >= now - PodRetention

(* Its hits are lines of it, no line twice, and all that are recent.       *)
HitsAre(k, ts, f) ==
  /\ f \in [DOMAIN ts -> LinesOf(k)]
  /\ \A i, j \in DOMAIN ts : f[i] = f[j] => i = j
  /\ \A i \in DOMAIN ts : seen[f[i]].at = ts[i]
  /\ \A n \in LinesOf(k) : seen[n].at >= now - HitRetention => \E i \in DOMAIN ts : f[i] = n

HitsOf(k, ts) == ts \in Seq(Nat) /\ \E f : HitsAre(k, ts, f)

TracksTrue ==
  /\ AtsPast
  /\ DOMAIN pods \subseteq Key /\ DOMAIN hits \subseteq Key
  /\ \A k \in Key : PodsOf(k, Lookup(pods, k, Empty)) /\ HitsOf(k, Lookup(hits, k, <<>>))

LEMMA LinesAfter ==
  ASSUME DetectorInv, NEW line \in Line, NEW id \in Nat, Saw(line, id), NEW k
  PROVE  /\ k = <<line.workload, id>> => LinesOf(k)' = LinesOf(k) \cup {Len(seen) + 1}
         /\ k # <<line.workload, id>> => LinesOf(k)' = LinesOf(k)
         /\ LinesOf(k) \subseteq DOMAIN seen
         /\ Len(seen) + 1 \notin LinesOf(k) /\ Len(seen') = Len(seen) + 1
         /\ \A n \in DOMAIN seen : seen'[n] = seen[n]
<1>1. /\ DOMAIN seen = 1..Len(seen) /\ DOMAIN seen' = 1..(Len(seen) + 1)
      /\ Len(seen) \in Nat /\ Len(seen') = Len(seen) + 1
      /\ \A n \in 1..Len(seen) : seen'[n] = seen[n]
      /\ seen'[Len(seen) + 1].line = line /\ seen'[Len(seen) + 1].cluster = id
  BY SawFacts
<1>2. LinesOf(k)' = LinesOf(k) \cup (IF k = <<line.workload, id>> THEN {Len(seen) + 1} ELSE {})
  BY <1>1 DEF LinesOf
<1> QED
  BY <1>1, <1>2 DEF LinesOf

LEMMA AtsKept ==
  ASSUME DetectorInv, AtsPast, NEW line \in Line, NEW id \in Nat, Saw(line, id), now' = now
  PROVE  AtsPast'
<1>1. /\ DOMAIN seen = 1..Len(seen) /\ DOMAIN seen' = 1..(Len(seen) + 1)
      /\ \A n \in 1..Len(seen) : seen'[n] = seen[n]
      /\ seen'[Len(seen) + 1].at = now /\ now \in Nat /\ Len(seen) \in Nat
  BY SawFacts DEF DetectorInv, Logged
<1> QED
  BY <1>1 DEF AtsPast

(* The clusters the line does not go to keep what they have.               *)
LEMMA OthersKeep ==
  ASSUME DetectorInv, AtsPast, NEW line \in Line, NEW id \in Nat, Saw(line, id), now' = now,
         NEW k, k # <<line.workload, id>>, NEW ps, NEW ts
  PROVE  /\ PodsOf(k, ps) => PodsOf(k, ps)'
         /\ HitsOf(k, ts) => HitsOf(k, ts)'
<1>1. /\ LinesOf(k)' = LinesOf(k) /\ LinesOf(k) \subseteq DOMAIN seen
      /\ Len(seen) + 1 \notin LinesOf(k) /\ Len(seen') = Len(seen) + 1
      /\ \A n \in DOMAIN seen : seen'[n] = seen[n]
  BY LinesAfter
<1>2. \A n \in LinesOf(k)' : n \in LinesOf(k) /\ seen'[n] = seen[n]
  BY <1>1
<1>3. Len(seen') \notin LinesOf(k)'
  BY <1>1
<1>4. PodsOf(k, ps) => PodsOf(k, ps)'
  BY <1>1, <1>2, <1>3 DEF PodsOf
<1>5. ASSUME NEW f, HitsAre(k, ts, f) PROVE HitsAre(k, ts, f)'
  BY <1>1, <1>2, <1>5 DEF HitsAre
<1>6. HitsOf(k, ts) => HitsOf(k, ts)'
  BY <1>5 DEF HitsOf
<1> QED
  BY <1>4, <1>6

(* The pods of the cluster it goes to.                                     *)
LEMMA PodsAfter ==
  ASSUME DetectorInv, AtsPast, NEW line \in Line, NEW id \in Nat, Saw(line, id), now' = now,
         NEW k, k = <<line.workload, id>>, NEW ps, PodsOf(k, ps),
         NEW put, put = IF line.pod = None THEN ps ELSE Put(ps, line.pod, now),
         NEW kept, kept = gcPods(put, now - PodRetention)
  PROVE  PodsOf(k, kept)'
<1> DEFINE new == Len(seen) + 1
<1>1. /\ LinesOf(k)' = LinesOf(k) \cup {new} /\ LinesOf(k) \subseteq DOMAIN seen
      /\ Len(seen') = new
      /\ \A n \in LinesOf(k) : seen'[n] = seen[n]
  BY LinesAfter
<1>2. /\ seen'[new].line = line /\ seen'[new].at = now /\ line.pod \in Pod \cup {None}
      /\ now \in Nat /\ PodRetention \in Nat
  BY SawFacts, DetectorAssumption DEF DetectorInv, Logged, LogLine
<1>3. \A n \in LinesOf(k) : seen[n].at \in Nat /\ seen[n].at <= now
  BY <1>1 DEF AtsPast
<1>4. /\ DOMAIN put = IF line.pod = None THEN DOMAIN ps ELSE DOMAIN ps \cup {line.pod}
      /\ \A p \in DOMAIN put : put[p] = IF p = line.pod /\ line.pod # None THEN now ELSE ps[p]
  BY DEF Put
<1>5. line.pod = None => line.pod \notin DOMAIN ps
  BY DetectorAssumption DEF PodsOf
<1> HIDE DEF new
<1>6. DOMAIN put \subseteq Pod
  BY <1>2, <1>4 DEF PodsOf
<1>7. \A p \in DOMAIN put : \E n \in LinesOf(k)' : seen'[n].line.pod = p /\ seen'[n].at = put[p]
  BY <1>1, <1>2, <1>4, <1>5 DEF PodsOf
<1>8. \A p \in DOMAIN put : put[p] \in Nat
  BY <1>1, <1>2, <1>3, <1>7
<1>9. ASSUME NEW n \in LinesOf(k)', seen'[n].line.pod # None
      PROVE  IF seen'[n].line.pod \in DOMAIN put
             THEN seen'[n].at <= put[seen'[n].line.pod]
             ELSE seen'[n].at < now - PodRetention
  <2>1. CASE n = new
    BY <1>2, <1>4, <1>9, <2>1
  <2>2. CASE n \in LinesOf(k)
    <3>1. /\ seen'[n] = seen[n] /\ seen[n].at \in Nat /\ seen[n].at <= now
          /\ IF seen[n].line.pod \in DOMAIN ps
             THEN seen[n].at <= ps[seen[n].line.pod]
             ELSE seen[n].at < now - PodRetention
      BY <1>1, <1>3, <1>9, <2>2 DEF PodsOf
    <3>2. \A q : q = seen[n].line.pod => q # None
      BY <1>9, <3>1
    <3> QED
      BY <1>4, <3>1, <3>2
  <2> QED
    BY <1>1, <2>1, <2>2
<1>10. /\ DOMAIN kept = {p \in DOMAIN put : put[p] >= now - PodRetention}
       /\ \A p \in DOMAIN kept : kept[p] = put[p]
  BY DEF gcPods
<1>11. ASSUME NEW n \in LinesOf(k)', seen'[n].line.pod # None
       PROVE  IF seen'[n].line.pod \in DOMAIN kept
              THEN seen'[n].at <= kept[seen'[n].line.pod]
              ELSE seen'[n].at < now - PodRetention
  <2>1. seen'[n].at \in Nat
    BY <1>1, <1>2, <1>3
  <2> QED
    BY <1>2, <1>8, <1>9, <1>10, <1>11, <2>1
<1>12. ASSUME Len(seen') \in LinesOf(k)'
       PROVE  \A p \in DOMAIN kept : kept[p] >= now - PodRetention
  BY <1>10
<1> QED
  BY <1>6, <1>7, <1>10, <1>11, <1>12 DEF PodsOf
(* trimHits drops hits from the front, and only hits before the cutoff.    *)
LEMMA TrimFacts ==
  ASSUME NEW ts \in Seq(Nat), NEW cutoff \in Int
  PROVE  \E d \in 1..(Len(ts) + 1) :
           /\ \A j \in 1..(d - 1) : ts[j] < cutoff
           /\ trimHits(ts, cutoff) \in Seq(Nat)
           /\ DOMAIN trimHits(ts, cutoff) = 1..(Len(ts) - d + 1)
           /\ \A i \in 1..(Len(ts) - d + 1) : trimHits(ts, cutoff)[i] = ts[i + d - 1]
<1> DEFINE Stops == {i \in 1..(Len(ts) + 1) : i \in DOMAIN ts => ts[i] >= cutoff}
           Good(i) == /\ \A j \in 1..(i - 1) : ts[j] < cutoff
                      /\ i \in DOMAIN ts => ts[i] >= cutoff
           d == FirstKept(ts, cutoff)
           kept == trimHits(ts, cutoff)
<1>1. /\ Len(ts) \in Nat /\ DOMAIN ts = 1..Len(ts)
      /\ \A i \in 1..Len(ts) : ts[i] \in Nat
  BY ElementOfSeq, LenProperties
<1>2. Len(ts) + 1 \in Stops /\ Stops \subseteq Nat
  BY <1>1
<1>3. PICK m \in Stops : \A n \in Stops : m <= n
  BY <1>2, NatMin
<1>4. ASSUME NEW j \in 1..(m - 1) PROVE ts[j] < cutoff
  <2>1. j \in 1..Len(ts) /\ j < m /\ j \in Nat /\ m \in Nat
    BY <1>1, <1>2, <1>3
  <2>2. j \notin Stops
    BY <1>2, <1>3, <2>1
  <2> QED
    BY <1>1, <2>1, <2>2
<1>5. m \in 1..(Len(ts) + 1) /\ Good(m)
  BY <1>3, <1>4
<1>6. d = CHOOSE i \in 1..(Len(ts) + 1) : Good(i)
  BY DEF FirstKept
<1> HIDE DEF Good, d, Stops
<1>7. d \in 1..(Len(ts) + 1) /\ Good(d)
  BY <1>5, <1>6
<1>8. kept = SubSeq(ts, d, Len(ts))
  BY DEF trimHits, d
<1> HIDE DEF kept
<1>9. \A i \in d..Len(ts) : ts[i] \in Nat
  BY <1>1, <1>7
<1>10. d \in Int /\ Len(ts) \in Int
  BY <1>1, <1>7
<1>11. /\ kept \in Seq(Nat)
       /\ Len(kept) = IF d <= Len(ts) THEN Len(ts) - d + 1 ELSE 0
       /\ \A i \in 1..(Len(ts) - d + 1) : kept[i] = ts[i + d - 1]
  <2>1. \A i \in 1..(Len(ts) - d + 1) : kept[i] = ts[d + i - 1]
    BY <1>8, <1>9, <1>10, SubSeqProperties
  <2>2. \A i \in 1..(Len(ts) - d + 1) : d + i - 1 = i + d - 1
    BY <1>10
  <2> QED
    BY <1>8, <1>9, <1>10, <2>1, <2>2, SubSeqProperties
<1>12. DOMAIN kept = 1..Len(kept) /\ Len(kept) = Len(ts) - d + 1
  BY <1>1, <1>7, <1>11, LenProperties
<1> QED
  BY <1>7, <1>11, <1>12 DEF kept, Good

(* The hits of the cluster a line goes to.                                 *)
LEMMA HitsAfter ==
  ASSUME DetectorInv, AtsPast, NEW line \in Line, NEW id \in Nat, Saw(line, id), now' = now,
         NEW k, k = <<line.workload, id>>, NEW ts, HitsOf(k, ts),
         NEW kept, kept = trimHits(Append(ts, now), now - HitRetention)
  PROVE  HitsOf(k, kept)'
<1> DEFINE new == Len(seen) + 1
           more == Append(ts, now)
           cut == now - HitRetention
           last == Len(more)
<1>1. /\ LinesOf(k)' = LinesOf(k) \cup {new} /\ LinesOf(k) \subseteq DOMAIN seen
      /\ new \notin LinesOf(k)
      /\ \A n \in LinesOf(k) : seen'[n] = seen[n]
  BY LinesAfter
<1>2. seen'[new].at = now /\ now \in Nat /\ HitRetention \in Nat
  BY SawFacts, DetectorAssumption DEF DetectorInv, Logged
<1>3. ts \in Seq(Nat)
  BY DEF HitsOf
<1>4. PICK f : HitsAre(k, ts, f)
  BY DEF HitsOf
<1>5. /\ DOMAIN ts = 1..Len(ts) /\ Len(ts) \in Nat
      /\ more \in Seq(Nat) /\ last = Len(ts) + 1 /\ last \in Nat
      /\ \A i \in 1..Len(ts) : more[i] = ts[i]
      /\ more[last] = now /\ cut \in Int /\ now >= cut
      /\ kept = trimHits(more, cut)
  BY <1>2, <1>3, AppendProperties, LenProperties
<1> HIDE DEF new, more, cut
<1>6. PICK d \in 1..(last + 1) :
        /\ \A j \in 1..(d - 1) : more[j] < cut
        /\ kept \in Seq(Nat)
        /\ DOMAIN kept = 1..(last - d + 1)
        /\ \A i \in 1..(last - d + 1) : kept[i] = more[i + d - 1]
  <2>1. more \in Seq(Nat) /\ cut \in Int
    BY <1>5
  <2>2. \E d \in 1..(Len(more) + 1) :
          /\ \A j \in 1..(d - 1) : more[j] < cut
          /\ trimHits(more, cut) \in Seq(Nat)
          /\ DOMAIN trimHits(more, cut) = 1..(Len(more) - d + 1)
          /\ \A i \in 1..(Len(more) - d + 1) : trimHits(more, cut)[i] = more[i + d - 1]
    BY <2>1, TrimFacts
  <2>3. kept = trimHits(more, cut)
    BY <1>5
  <2> HIDE DEF last
  <2>4. Len(more) = last
    BY DEF last
  <2> QED
    BY <2>2, <2>3, <2>4
<1> HIDE DEF last
<1> PICK g : g = [i \in DOMAIN kept |-> IF i + d - 1 = last THEN new ELSE f[i + d - 1]]
  OBVIOUS
<1>7. ASSUME NEW i \in DOMAIN kept
      PROVE  /\ i + d - 1 \in 1..last /\ i \in Nat /\ d \in Nat
             /\ i + d - 1 # last => i + d - 1 \in DOMAIN ts
             /\ kept[i] = more[i + d - 1]
  <2>1. last \in Nat /\ Len(ts) \in Nat /\ last = Len(ts) + 1 /\ DOMAIN ts = 1..Len(ts)
    BY <1>5
  <2>2. i \in 1..(last - d + 1) /\ kept[i] = more[i + d - 1]
    BY <1>6
  <2>3. d \in Nat /\ 1 <= d /\ d <= last + 1
    BY <2>1
  <2>4. i \in Nat /\ 1 <= i /\ i <= last - d + 1
    BY <2>1, <2>2, <2>3
  <2> QED
    BY <2>1, <2>2, <2>3, <2>4
<1>8. /\ \A j \in DOMAIN ts : f[j] \in LinesOf(k) /\ seen[f[j]].at = ts[j]
      /\ \A i, j \in DOMAIN ts : f[i] = f[j] => i = j
      /\ \A n \in LinesOf(k) : seen[n].at >= now - HitRetention => \E i \in DOMAIN ts : f[i] = n
  BY <1>4 DEF HitsAre
<1>9. \A i \in DOMAIN kept : g[i] = IF i + d - 1 = last THEN new ELSE f[i + d - 1]
  OBVIOUS
<1>10. g \in [DOMAIN kept -> LinesOf(k)']
  BY <1>1, <1>7, <1>8
<1>11. ASSUME NEW i \in DOMAIN kept, NEW j \in DOMAIN kept, g[i] = g[j] PROVE i = j
  <2>1. i + d - 1 = j + d - 1
    BY <1>1, <1>7, <1>8, <1>9, <1>11
  <2> QED
    BY <1>7, <2>1
<1>12. ASSUME NEW i \in DOMAIN kept PROVE seen'[g[i]].at = kept[i]
  <2>1. CASE i + d - 1 = last
    BY <1>2, <1>5, <1>7, <1>9, <2>1
  <2>2. CASE i + d - 1 # last
    <3> PICK j \in DOMAIN ts : j = i + d - 1
      BY <1>7, <2>2
    <3>1. g[i] = f[j] /\ kept[i] = more[j] /\ more[j] = ts[j]
      BY <1>5, <1>7, <1>9, <2>2
    <3> QED
      BY <1>1, <1>8, <3>1
  <2> QED
    BY <2>1, <2>2
<1>13. ASSUME NEW n \in LinesOf(k)', seen'[n].at >= now - HitRetention
       PROVE  \E i \in DOMAIN kept : g[i] = n
  <2> seen'[n].at >= cut
    BY <1>13 DEF cut
  <2>1. ASSUME NEW j \in 1..last, more[j] >= cut
        PROVE  \E i \in DOMAIN kept : j = i + d - 1
    <3> j \in Nat /\ 1 <= j /\ j <= last /\ last \in Nat /\ cut \in Int
      BY <1>5
    <3> d \in Nat /\ 1 <= d /\ d <= last + 1
      OBVIOUS
    <3>0. more[j] \in Nat
      <4>1. Len(more) = last /\ more \in Seq(Nat)
        BY <1>5 DEF last
      <4> QED
        BY <4>1, ElementOfSeq
    <3>1. ~(j \in 1..(d - 1))
      BY <1>6, <2>1, <3>0
    <3>2. j - d + 1 \in DOMAIN kept /\ j = (j - d + 1) + d - 1
      BY <1>6, <3>1
    <3> QED
      BY <3>2
  <2>2. CASE n = new
    <3>1. last \in 1..last /\ more[last] >= cut
      BY <1>2, <1>5
    <3>2. PICK i \in DOMAIN kept : last = i + d - 1
      BY <2>1, <3>1
    <3> QED
      BY <1>9, <2>2, <3>2
  <2>3. CASE n \in LinesOf(k)
    <3>1. seen[n].at >= now - HitRetention /\ seen[n].at >= cut
      BY <1>1, <1>13, <2>3 DEF cut
    <3>2. PICK j \in DOMAIN ts : f[j] = n
      BY <1>8, <2>3, <3>1
    <3>3. j \in 1..last /\ more[j] = ts[j] /\ ts[j] = seen[n].at /\ j # last
      BY <1>5, <1>8, <3>2
    <3>4. PICK i \in DOMAIN kept : j = i + d - 1
      BY <2>1, <3>1, <3>3
    <3> QED
      BY <1>9, <3>2, <3>3, <3>4
  <2> QED
    BY <1>1, <2>2, <2>3
<1>14. HitsAre(k, kept, g)'
  BY <1>10, <1>11, <1>12, <1>13 DEF HitsAre
<1> QED
  BY <1>6, <1>14 DEF HitsOf
LEMMA TracksInit == Init => TracksTrue
<1> SUFFICES ASSUME Init PROVE TracksTrue
  OBVIOUS
<1>1. seen = <<>> /\ DOMAIN pods = {} /\ DOMAIN hits = {} /\ DOMAIN seen = {}
  BY DEF Init, Empty
<1>2. ASSUME NEW k \in Key
      PROVE  PodsOf(k, Lookup(pods, k, Empty)) /\ HitsOf(k, Lookup(hits, k, <<>>))
  <2>1. LinesOf(k) = {} /\ Lookup(pods, k, Empty) = Empty /\ Lookup(hits, k, <<>>) = <<>>
    BY <1>1 DEF LinesOf, Lookup
  <2>2. PodsOf(k, Empty)
    BY <2>1 DEF PodsOf, Empty
  <2>3. <<>> \in Seq(Nat) /\ DOMAIN <<>> = {}
    OBVIOUS
  <2>4. HitsAre(k, <<>>, <<>>)
    BY <2>1, <2>3 DEF HitsAre
  <2> QED
    BY <2>1, <2>2, <2>3, <2>4 DEF HitsOf
<1> QED
  BY <1>1, <1>2 DEF TracksTrue, AtsPast

(* Time passing only makes more lines old.                                 *)
LEMMA TracksTick ==
  ASSUME TracksTrue, now \in Nat, now' \in Nat, now' >= now, UNCHANGED detectorVars
  PROVE  TracksTrue'
<1>1. seen' = seen /\ pods' = pods /\ hits' = hits /\ AtsPast
  BY DEF detectorVars, TracksTrue
<1>2. /\ AtsPast' /\ PodRetention \in Nat /\ HitRetention \in Nat
      /\ \A k : LinesOf(k)' = LinesOf(k) /\ LinesOf(k) \subseteq DOMAIN seen
  BY <1>1, DetectorAssumption DEF AtsPast, LinesOf
<1>3. ASSUME NEW k, NEW ps, PodsOf(k, ps) PROVE PodsOf(k, ps)'
  <2>1. \A n \in LinesOf(k) : seen[n].at \in Nat /\ seen[n].at <= now
    BY <1>1, <1>2 DEF AtsPast
  <2>2. \A n \in LinesOf(k) : seen[n].at < now - PodRetention => seen[n].at < now' - PodRetention
    BY <1>2, <2>1
  <2>3. Len(seen) \in LinesOf(k) /\ seen[Len(seen)].at = now' => now' = now
    BY <2>1
  <2> QED
    BY <1>1, <1>2, <1>3, <2>2, <2>3 DEF PodsOf
<1>4. ASSUME NEW k, NEW ts, HitsOf(k, ts) PROVE HitsOf(k, ts)'
  <2>1. PICK f : HitsAre(k, ts, f)
    BY <1>4 DEF HitsOf
  <2>2. \A n \in LinesOf(k) : seen[n].at >= now' - HitRetention => seen[n].at >= now - HitRetention
    BY <1>1, <1>2 DEF AtsPast
  <2>3. HitsAre(k, ts, f)'
    BY <1>1, <1>2, <2>1, <2>2 DEF HitsAre
  <2> QED
    BY <1>4, <2>3 DEF HitsOf
<1>5. ASSUME NEW k \in Key, NEW ps, ps = Lookup(pods', k, Empty),
             NEW ts, ts = Lookup(hits', k, <<>>)
      PROVE  PodsOf(k, ps)' /\ HitsOf(k, ts)'
  <2>1. ps = Lookup(pods, k, Empty) /\ ts = Lookup(hits, k, <<>>)
    BY <1>1, <1>5
  <2>2. PodsOf(k, ps) /\ HitsOf(k, ts)
    BY <2>1 DEF TracksTrue
  <2> QED
    BY <1>3, <1>4, <2>2
<1> QED
  BY <1>1, <1>2, <1>5 DEF TracksTrue

(* A line no cluster gets.                                                 *)
LEMMA TracksPassed ==
  ASSUME DetectorInv, TracksTrue, NEW line \in Line, Saw(line, 0),
         UNCHANGED <<now, pods, hits>>
  PROVE  TracksTrue'
<1>1. AtsPast' /\ AtsPast
  BY AtsKept DEF TracksTrue
<1>2. ASSUME NEW k \in Key, NEW ps, ps = Lookup(pods', k, Empty),
             NEW ts, ts = Lookup(hits', k, <<>>)
      PROVE  PodsOf(k, ps)' /\ HitsOf(k, ts)'
  <2>1. ps = Lookup(pods, k, Empty) /\ ts = Lookup(hits, k, <<>>)
    BY <1>2
  <2>2. PodsOf(k, ps) /\ HitsOf(k, ts)
    BY <2>1 DEF TracksTrue
  <2>3. k # <<line.workload, 0>>
    BY DEF Key
  <2> QED
    BY <1>1, <2>2, <2>3, OthersKeep
<1> QED
  BY <1>1, <1>2 DEF TracksTrue

(* A line a cluster gets.                                                  *)
LEMMA TracksTaken ==
  ASSUME DetectorInv, TracksTrue, NEW line \in Line, TemplateLine(line), now' = now
  PROVE  TracksTrue'
<1> DEFINE id == ClusterOf(line)
           key == <<line.workload, id>>
<1>1. id \in Nat /\ Saw(line, id) /\ line.workload \in Workload
  BY TemplateLineFacts
<1>2. id \in Nat \ {0}
  <2>1. GoodMiner(BaselineOf(line.workload).miner, MinedOf(line.workload))
    BY <1>1, BaselineFacts
  <2>2. line.msg.words \in Seq(Token)
    BY TemplateLineFacts
  <2> QED
    BY <2>1, <2>2, AddIDFacts DEF ClusterOf
<1>3. pods' = Put(pods, key, NextPods(line)) /\ hits' = Put(hits, key, NextHits(line))
  BY DEF TemplateLine
<1>4. key \in Key
  BY <1>1, <1>2 DEF Key
<1>5. AtsPast' /\ AtsPast
  <2> HIDE DEF id
  <2> QED
    BY <1>1, AtsKept DEF TracksTrue
<1>6. NextPods(line) =
        gcPods(IF line.pod = None THEN Lookup(pods, key, Empty)
               ELSE Put(Lookup(pods, key, Empty), line.pod, now), now - PodRetention)
  BY DEF NextPods
<1>7. NextHits(line) = trimHits(Append(Lookup(hits, key, <<>>), now), now - HitRetention)
  BY DEF NextHits
<1> HIDE DEF id
<1>8. ASSUME NEW k \in Key, NEW ps, ps = Lookup(pods', k, Empty),
             NEW ts, ts = Lookup(hits', k, <<>>)
      PROVE  PodsOf(k, ps)' /\ HitsOf(k, ts)'
  <2>1. CASE k # key
    <3>1. ps = Lookup(pods, k, Empty) /\ ts = Lookup(hits, k, <<>>)
      BY <1>3, <1>8, <2>1 DEF Lookup, Put
    <3>2. PodsOf(k, ps) /\ HitsOf(k, ts)
      BY <3>1 DEF TracksTrue
    <3> QED
      BY <1>1, <1>5, <2>1, <3>2, OthersKeep
  <2>2. CASE k = key
    <3>1. PICK qs : qs = Lookup(pods, key, Empty)
      OBVIOUS
    <3>2. PICK us : us = Lookup(hits, key, <<>>)
      OBVIOUS
    <3>3. PodsOf(k, qs) /\ HitsOf(k, us)
      BY <2>2, <3>1, <3>2 DEF TracksTrue
    <3>4. PICK put : put = IF line.pod = None THEN qs ELSE Put(qs, line.pod, now)
      OBVIOUS
    <3>5. ps = gcPods(put, now - PodRetention)
      BY <1>3, <1>6, <1>8, <2>2, <3>1, <3>4 DEF Lookup, Put
    <3>6. ts = trimHits(Append(us, now), now - HitRetention)
      BY <1>3, <1>7, <1>8, <2>2, <3>2 DEF Lookup, Put
    <3>7. k = <<line.workload, id>>
      BY <2>2
    <3>8. PodsOf(k, ps)'
      BY <1>1, <1>5, <3>3, <3>4, <3>5, <3>7, PodsAfter
    <3>9. HitsOf(k, ts)'
      BY <1>1, <1>5, <3>3, <3>6, <3>7, HitsAfter
    <3> QED
      BY <3>8, <3>9
  <2> QED
    BY <2>1, <2>2
<1>9. DOMAIN pods' \subseteq Key /\ DOMAIN hits' \subseteq Key
  BY <1>3, <1>4 DEF TracksTrue, Put
<1> QED
  BY <1>5, <1>8, <1>9 DEF TracksTrue

LEMMA TracksStep ==
  DetectorInv /\ TracksTrue /\ [Next]_<<now, detectorVars>> => TracksTrue'
<1> SUFFICES ASSUME DetectorInv, TracksTrue, [Next]_<<now, detectorVars>> PROVE TracksTrue'
  OBVIOUS
<1>1. now \in Nat
  BY DEF DetectorInv, Logged
<1>2. ASSUME NEW line \in Line, Observe(line), now' = now PROVE TracksTrue'
  <2>1. CASE CountLine(line)
    BY <1>2, <2>1, TracksPassed DEF CountLine
  <2>2. CASE BlankLine(line)
    BY <1>2, <2>2, TracksPassed DEF BlankLine
  <2>3. CASE TemplateLine(line)
    BY <1>2, <2>3, TracksTaken
  <2> QED
    BY <1>2, <2>1, <2>2, <2>3 DEF Observe
<1>3. CASE Tick
  <2>1. now' \in Nat /\ now' >= now /\ UNCHANGED detectorVars
    BY <1>1, <1>3 DEF Tick
  <2> QED
    BY <1>1, <2>1, TracksTick
<1>4. CASE UNCHANGED <<now, detectorVars>>
  <2>1. now' \in Nat /\ now' >= now /\ UNCHANGED detectorVars
    BY <1>1, <1>4
  <2> QED
    BY <1>1, <2>1, TracksTick
<1> QED
  BY <1>2, <1>3, <1>4 DEF Next, ObserveSome

(* Why the look-up by text misses no cluster: every cluster of a workload  *)
(* has its hits from the line that created it on.                          *)
Followed ==
  \A w \in Workload, i \in Nat :
    <<w, i>> \in DOMAIN hits <=>
      (w \in DOMAIN baselines /\ i \in DOMAIN baselines[w].miner.clusters)

LEMMA AddedCluster ==
  ASSUME NEW m, NEW lines, GoodMiner(m, lines), NEW line \in Seq(Token)
  PROVE  DOMAIN Add(m, line).clusters = DOMAIN m.clusters \cup {AddID(m, line)}
<1> DEFINE words == tokenize(line)
           c == [leaf |-> LeafOf(m, words), template |-> words, size |-> 1]
<1>1. words \in Seq(Word) /\ m.clusters \in Seq(Cluster)
  BY TokenizeType DEF GoodMiner, MinerType
<1>2. Len(m.clusters) \in Nat /\ DOMAIN m.clusters = 1..Len(m.clusters)
  BY <1>1, LenProperties
<1>3. CASE IsNew(m, line)
  <2>1. AddID(m, line) = Len(m.clusters) + 1 /\ Add(m, line).clusters = Append(m.clusters, c)
    BY <1>3 DEF AddID, Add
  <2>2. c \in Cluster
    BY <1>1, LeafType DEF Cluster
  <2> HIDE DEF c
  <2>3. DOMAIN Append(m.clusters, c) = 1..(Len(m.clusters) + 1)
    BY <1>1, <2>2, AppendProperties, LenProperties
  <2> QED
    BY <1>2, <2>1, <2>3
<1>4. CASE ~IsNew(m, line)
  <2> DEFINE leaf == LeafOf(m, words)
             id == AddID(m, line)
  <2>1. Matching(m.clusters, leaf, words) # {} /\ id = bestMatch(m.clusters, leaf, words)
    BY <1>4 DEF IsNew, AddID
  <2>2. id \in Matching(m.clusters, leaf, words)
    BY <1>1, <2>1, BestMatchMatches
  <2>3. id \in DOMAIN m.clusters
    BY <2>2 DEF Matching, AtLeaf
  <2>4. DOMAIN Add(m, line).clusters = DOMAIN m.clusters
    BY <1>4 DEF Add
  <2> QED
    BY <2>3, <2>4
<1> QED
  BY <1>3, <1>4

(* A baseline that is created or counted further gets no cluster.          *)
LEMMA FollowedPassed ==
  ASSUME DetectorInv, Followed, UNCHANGED hits, NEW line \in Line,
         CountLine(line) \/ BlankLine(line)
  PROVE  Followed'
<1> DEFINE v == line.workload
<1>1. /\ \A w \in DOMAIN baselines : IsBaseline(baselines[w])
      /\ DOMAIN baselines \subseteq Workload
  BY DEF DetectorInv, Logged
<1>2. CASE CountLine(line)
  <2>1. DOMAIN baselines' = DOMAIN baselines
    BY <1>2 DEF CountLine
  <2>2. ASSUME NEW w \in DOMAIN baselines PROVE baselines'[w].miner = baselines[w].miner
    <3>1. IsBaseline(baselines[w])
      BY <1>1
    <3>2. baselines'[w] = baselines[w] \/ baselines'[w] = [baselines[w] EXCEPT !.lines = @ + 1]
      BY <1>2, <2>2 DEF CountLine
    <3> QED
      BY <3>1, <3>2 DEF IsBaseline
  <2>3. ASSUME NEW w \in Workload, NEW i \in Nat
        PROVE  <<w, i>> \in DOMAIN hits' <=>
                 (w \in DOMAIN baselines' /\ i \in DOMAIN baselines'[w].miner.clusters)
    <3>1. <<w, i>> \in DOMAIN hits <=>
            (w \in DOMAIN baselines /\ i \in DOMAIN baselines[w].miner.clusters)
      BY DEF Followed
    <3> QED
      BY <2>1, <2>2, <3>1
  <2> QED
    BY <2>3 DEF Followed
<1>3. CASE BlankLine(line)
  <2>1. baselines' = Put(baselines, v, BaselineOf(v))
    BY <1>3 DEF BlankLine
  <2>2. CASE v \in DOMAIN baselines
    <3>1. baselines' = Put(baselines, v, baselines[v])
      BY <2>1, <2>2 DEF BaselineOf, Lookup
    <3>2. DOMAIN baselines' = DOMAIN baselines /\ \A w \in DOMAIN baselines : baselines'[w] = baselines[w]
      BY <2>2, <3>1 DEF Put
    <3> QED
      BY <3>2 DEF Followed
  <2>3. CASE v \notin DOMAIN baselines
    <3>1. BaselineOf(v).miner = newMiner
      BY <2>3 DEF BaselineOf, Lookup
    <3>2. DOMAIN newMiner.clusters = {}
      BY DEF newMiner
    <3>3. /\ DOMAIN baselines' = DOMAIN baselines \cup {v}
          /\ \A w \in DOMAIN baselines : baselines'[w] = baselines[w]
          /\ DOMAIN baselines'[v].miner.clusters = {}
      BY <2>1, <2>3, <3>1, <3>2 DEF Put
    <3> QED
      BY <2>3, <3>3 DEF Followed
  <2> QED
    BY <2>2, <2>3
<1> QED
  BY <1>2, <1>3

(* A line a cluster gets follows that cluster, the only one that may be new. *)
LEMMA FollowedTaken ==
  ASSUME DetectorInv, Followed, NEW line \in Line, TemplateLine(line)
  PROVE  Followed'
<1> DEFINE v == line.workload
           id == ClusterOf(line)
           b == BaselineOf(v)
           next == NextBaseline(line)
<1>1. /\ v \in Workload /\ line.msg.words \in Seq(Token) /\ id \in Nat
      /\ baselines' = Put(baselines, v, next)
      /\ next.miner = Add(b.miner, line.msg.words)
  BY TemplateLineFacts
<1>2. GoodMiner(b.miner, MinedOf(v))
  BY <1>1, BaselineFacts
<1>3. DOMAIN next.miner.clusters = DOMAIN b.miner.clusters \cup {id}
  BY <1>1, <1>2, AddedCluster DEF ClusterOf
<1>4. DOMAIN hits' = DOMAIN hits \cup {<<v, id>>}
  BY DEF TemplateLine, Put
<1>5. \A i \in Nat : <<v, i>> \in DOMAIN hits <=> i \in DOMAIN b.miner.clusters
  <2>1. CASE v \in DOMAIN baselines
    <3>1. b = baselines[v]
      BY <2>1 DEF BaselineOf, Lookup
    <3> QED
      BY <1>1, <2>1, <3>1 DEF Followed
  <2>2. CASE v \notin DOMAIN baselines
    <3>1. b.miner = newMiner
      BY <2>2 DEF BaselineOf, Lookup
    <3>2. DOMAIN b.miner.clusters = {}
      BY <3>1 DEF newMiner
    <3> QED
      BY <1>1, <2>2, <3>2 DEF Followed
  <2> QED
    BY <2>1, <2>2
<1> HIDE DEF b, next, id
<1>6. /\ DOMAIN baselines' = DOMAIN baselines \cup {v}
      /\ baselines'[v] = next
      /\ \A w \in DOMAIN baselines \ {v} : baselines'[w] = baselines[w]
  BY <1>1 DEF Put
<1>7. ASSUME NEW w \in Workload, NEW i \in Nat
      PROVE  <<w, i>> \in DOMAIN hits' <=>
               (w \in DOMAIN baselines' /\ i \in DOMAIN baselines'[w].miner.clusters)
  <2>1. CASE w = v
    <3>1. <<w, i>> \in DOMAIN hits' <=> (<<v, i>> \in DOMAIN hits \/ i = id)
      BY <1>4, <2>1
    <3> QED
      BY <1>3, <1>5, <1>6, <2>1, <3>1
  <2>2. CASE w # v
    <3>1. <<w, i>> \in DOMAIN hits' <=> <<w, i>> \in DOMAIN hits
      BY <1>4, <2>2
    <3>2. w \in DOMAIN baselines' <=> w \in DOMAIN baselines
      BY <1>6, <2>2
    <3> QED
      BY <1>6, <2>2, <3>1, <3>2 DEF Followed
  <2> QED
    BY <2>1, <2>2
<1> QED
  BY <1>7 DEF Followed

LEMMA FollowedInit == Init => Followed
BY DEF Init, Empty, Followed

LEMMA FollowedStep ==
  DetectorInv /\ Followed /\ [Next]_<<now, detectorVars>> => Followed'
<1> SUFFICES ASSUME DetectorInv, Followed, [Next]_<<now, detectorVars>> PROVE Followed'
  OBVIOUS
<1>1. ASSUME NEW line \in Line, Observe(line) PROVE Followed'
  <2>1. CASE CountLine(line)
    BY <1>1, <2>1, FollowedPassed DEF CountLine
  <2>2. CASE BlankLine(line)
    BY <1>1, <2>2, FollowedPassed DEF BlankLine
  <2>3. CASE TemplateLine(line)
    BY <1>1, <2>3, FollowedTaken
  <2> QED
    BY <1>1, <2>1, <2>2, <2>3 DEF Observe
<1>2. CASE UNCHANGED detectorVars
  BY <1>2 DEF detectorVars, Followed
<1> QED
  BY <1>1, <1>2 DEF Next, ObserveSome, Tick

LEMMA SpecTracks == Spec => [](DetectorInv /\ TracksTrue /\ Followed)
BY DetectorInit, DetectorStep, TracksInit, TracksStep, FollowedInit, FollowedStep, PTL
DEF Spec

-----------------------------------------------------------------------------
LEMMA TracksPods == DetectorInv /\ TracksTrue => PodsExact
<1> SUFFICES ASSUME DetectorInv, TracksTrue PROVE PodsExact
  OBVIOUS
<1>0. now \in Nat /\ PodRetention \in Nat
  BY DetectorAssumption DEF DetectorInv, Logged
<1>1. ASSUME NEW k \in DOMAIN pods
      PROVE  LET recent == {seen[n].line.pod : n \in {m \in LinesOf(k) : seen[m].at >= now - PodRetention}}
                             \ {None}
             IN /\ recent \subseteq DOMAIN pods[k]
                /\ (seen # <<>> /\ Len(seen) \in LinesOf(k) /\ seen[Len(seen)].at = now)
                     => DOMAIN pods[k] = recent
  <2> DEFINE recent == {seen[n].line.pod : n \in {m \in LinesOf(k) : seen[m].at >= now - PodRetention}}
                         \ {None}
             ps == pods[k]
  <2>1. PodsOf(k, ps)
    BY <1>1 DEF TracksTrue, Lookup
  <2> HIDE DEF ps
  <2>2. recent \subseteq DOMAIN ps
    <3>1. ASSUME NEW n \in LinesOf(k), seen[n].at >= now - PodRetention, seen[n].line.pod # None
          PROVE  seen[n].line.pod \in DOMAIN ps
      <4>1. seen[n].at \in Nat /\ seen[n].at <= now
        BY DEF LinesOf, TracksTrue, AtsPast
      <4>2. seen[n].line.pod \notin DOMAIN ps => seen[n].at < now - PodRetention
        BY <2>1, <3>1 DEF PodsOf
      <4> QED
        BY <1>0, <3>1, <4>1, <4>2
    <3> QED
      BY <3>1
  <2>3. ASSUME Len(seen) \in LinesOf(k), seen[Len(seen)].at = now
        PROVE  DOMAIN ps \subseteq recent
    <3>1. ASSUME NEW p \in DOMAIN ps PROVE p \in recent
      <4>1. PICK n \in LinesOf(k) : seen[n].line.pod = p /\ seen[n].at = ps[p]
        BY <2>1 DEF PodsOf
      <4>2. ps[p] >= now - PodRetention /\ p # None
        BY <2>1, <2>3, DetectorAssumption DEF PodsOf
      <4> QED
        BY <4>1, <4>2
    <3> QED
      BY <3>1
  <2> QED
    BY <2>2, <2>3 DEF ps
<1> QED
  BY <1>1 DEF PodsExact

HitsIn(ts, lo, hi) == {i \in DOMAIN ts : ts[i] \in lo..hi}
LinesIn(k, lo, hi) == {n \in LinesOf(k) : seen[n].at \in lo..hi}

(* The hits in a range of recent times are as many as the lines then.      *)
LEMMA CountHits ==
  ASSUME NEW k, NEW ts, HitsOf(k, ts), AtsPast, now \in Nat,
         NEW lo \in Int, NEW hi \in Int, lo >= now - HitRetention
  PROVE  Cardinality(HitsIn(ts, lo, hi)) = Cardinality(LinesIn(k, lo, hi))
<1> PICK A : A = HitsIn(ts, lo, hi)
  OBVIOUS
<1> PICK B : B = LinesIn(k, lo, hi)
  OBVIOUS
<1> USE DEF HitsIn, LinesIn
<1> ts \in Seq(Nat)
  BY DEF HitsOf
<1> PICK f : HitsAre(k, ts, f)
  BY DEF HitsOf
<1> PICK g : g = [i \in A |-> f[i]]
  OBVIOUS
<1>0. A \subseteq DOMAIN ts /\ DOMAIN g = A /\ \A i \in A : g[i] = f[i]
  OBVIOUS
<1>1. \A i \in DOMAIN ts : f[i] \in LinesOf(k) /\ seen[f[i]].at = ts[i]
  BY DEF HitsAre
<1>2. g \in [A -> B]
  BY <1>1
<1>3. \A i, j \in A : g[i] = g[j] => i = j
  BY <1>0 DEF HitsAre
<1>4. \A n \in B : \E i \in A : g[i] = n
  <2>1. \A n \in B : n \in LinesOf(k) /\ seen[n].at >= now - HitRetention
    BY DetectorAssumption
  <2> QED
    BY <1>0, <1>1, <2>1 DEF HitsAre
<1>5. IsFiniteSet(A)
  <2>1. A \subseteq 1..Len(ts) /\ Len(ts) \in Nat
    BY LenProperties
  <2> QED
    BY <2>1, FS_Interval, FS_Subset
<1>6. g \in Bijection(A, B)
  <2>1. ASSUME NEW S, S = A, NEW T, T = B PROVE g \in Bijection(S, T)
    <3>1. g \in [S -> T] /\ (\A i, j \in S : g[i] = g[j] => i = j)
          /\ \A n \in T : \E i \in S : g[i] = n
      BY <1>2, <1>3, <1>4, <2>1
    <3> QED
      BY ONLY <3>1, Fun_IsBij
  <2> QED
    BY <2>1
<1>7. ExistsBijection(A, B)
  BY <1>6 DEF ExistsBijection
<1> QED
  BY <1>5, <1>7, FS_Bijection

(* The hits of one cluster are counted as its lines were.                  *)
LEMMA AroundLines ==
  ASSUME DetectorInv, TracksTrue, NEW k \in DOMAIN hits,
         NEW window \in 1..HitRetention, NEW pivot \in 0..now,
         pivot - window >= now - HitRetention
  PROVE  Around(hits[k], pivot, window) = LinesAround(k, pivot, window)
<1> PICK ts : ts = hits[k]
  OBVIOUS
<1>1. /\ now \in Nat /\ HitRetention \in Nat /\ window \in Nat /\ pivot \in Nat
  BY DetectorAssumption DEF DetectorInv, Logged
<1>2. k \in Key /\ HitsOf(k, ts)
  BY DEF TracksTrue, Lookup
<1>3. \A i \in DOMAIN ts : ts[i] \in Nat
  BY <1>2 DEF HitsOf
<1>4. Around(hits[k], pivot, window) =
        << Cardinality({i \in DOMAIN ts : ts[i] >= pivot - window /\ ts[i] < pivot}),
           Cardinality({i \in DOMAIN ts : ts[i] >= pivot /\ ts[i] <= pivot + window}) >>
  BY DEF Around
<1>5. /\ {i \in DOMAIN ts : ts[i] >= pivot - window /\ ts[i] < pivot}
             = HitsIn(ts, pivot - window, pivot - 1)
      /\ {i \in DOMAIN ts : ts[i] >= pivot /\ ts[i] <= pivot + window}
             = HitsIn(ts, pivot, pivot + window)
  BY <1>1, <1>3 DEF HitsIn
<1>6. AtsPast /\ pivot - window \in Int /\ pivot - 1 \in Int /\ pivot \in Int
      /\ pivot + window \in Int /\ pivot >= now - HitRetention
  BY <1>1 DEF TracksTrue
<1>7. Cardinality(HitsIn(ts, pivot - window, pivot - 1)) = Cardinality(LinesIn(k, pivot - window, pivot - 1))
  BY <1>1, <1>2, <1>6, CountHits
<1>8. Cardinality(HitsIn(ts, pivot, pivot + window)) = Cardinality(LinesIn(k, pivot, pivot + window))
  BY <1>1, <1>2, <1>6, CountHits
<1> QED
  BY <1>4, <1>5, <1>7, <1>8 DEF LinesIn, LinesAround

(* The look-up by text in hits finds the clusters of that text, all of     *)
(* them: none is missing among the hits.                                   *)
LEMMA NamedClusters ==
  ASSUME DetectorInv, TracksTrue, Followed, NEW w \in DOMAIN baselines, NEW template
  PROVE  ClustersNamed(hits, w, template) =
           {j \in DOMAIN baselines[w].miner.clusters :
              baselines[w].miner.clusters[j].template = template}
<1> DEFINE clusters == baselines[w].miner.clusters
<1>1. w \in Workload
  BY DEF DetectorInv, Logged
<1>2. DOMAIN clusters \subseteq Nat
  <2>1. clusters \in Seq(Cluster)
    BY <1>1 DEF DetectorInv, MinersGood, GoodMiner, MinerType
  <2>2. DOMAIN clusters = 1..Len(clusters)
    BY <2>1, LenProperties
  <2> QED
    BY <2>2
<1>3. \A j \in DOMAIN clusters : <<w, j>> \in DOMAIN hits
  BY <1>1, <1>2 DEF Followed
<1>4. ASSUME NEW j \in DOMAIN clusters
      PROVE  j \in {k[2] : k \in {key \in DOMAIN hits : key[1] = w}}
  <2>1. <<w, j>> \in {key \in DOMAIN hits : key[1] = w} /\ <<w, j>>[2] = j
    BY <1>3
  <2> QED
    BY <2>1
<1> QED
  BY <1>4 DEF ClustersNamed

LEMMA TracksHits == DetectorInv /\ TracksTrue /\ Followed => BeforeAfterExact
<1> SUFFICES ASSUME DetectorInv, TracksTrue, Followed, NEW w \in DOMAIN baselines,
                    NEW window \in 1..HitRetention, NEW pivot \in 0..now,
                    pivot - window >= now - HitRetention,
                    NEW id \in DOMAIN baselines[w].miner.clusters
             PROVE  LET clusters == baselines[w].miner.clusters IN
                    HitsAround(w, clusters[id].template, pivot, window) =
                      {LinesAround(<<w, i>>, pivot, window) :
                         i \in {j \in DOMAIN clusters : clusters[j].template = clusters[id].template}}
  BY DEF BeforeAfterExact
<1> DEFINE clusters == baselines[w].miner.clusters
           template == clusters[id].template
           same == {j \in DOMAIN clusters : clusters[j].template = template}
<1>1. ClustersNamed(hits, w, template) = same /\ same # {}
  BY NamedClusters
<1>2. \A i \in same : <<w, i>> \in DOMAIN hits
  BY <1>1 DEF ClustersNamed, TracksTrue, Key
<1>3. \A i \in same : Around(hits[<<w, i>>], pivot, window) = LinesAround(<<w, i>>, pivot, window)
  BY <1>2, AroundLines
<1>4. HitsAround(w, template, pivot, window) =
        {Around(hits[<<w, i>>], pivot, window) : i \in same}
  BY <1>1 DEF HitsAround
<1> HIDE DEF same
<1>5. {Around(hits[<<w, i>>], pivot, window) : i \in same} = {LinesAround(<<w, i>>, pivot, window) : i \in same}
  BY <1>3
<1> QED
  BY <1>4, <1>5 DEF same

(* The affected pods of a cluster are those that emitted it: none of the   *)
(* last PodRetention is missing, and right after a line for it there are   *)
(* no others.                                                              *)
THEOREM PodsAreExact == Spec => []PodsExact
BY SpecTracks, TracksPods, PTL

(* Asked for the text of a cluster, around any rollout whose window lies   *)
(* in the retained hour, HitsAround returns the exact counts of a cluster  *)
(* of that text, whatever was merged and trimmed.                          *)
THEOREM BeforeAfterIsExact == Spec => []BeforeAfterExact
BY SpecTracks, TracksHits, PTL
=============================================================================
