-------------------------- MODULE BPlusTreeProofs --------------------------
(***************************************************************************)
(* Proofs about BPlusTree, for any node size of two keys or more, any ids  *)
(* and offsets and any number of inserts.                                  *)
(*                                                                         *)
(* The functions over heights first, then what the pieces of an insert do  *)
(* to arrays, then the promise of insert_into_node (InsertPost): for a     *)
(* leaf, for an inner node whose child keeps it, and so by induction over  *)
(* the height for every subtree; last the tree and its invariant.          *)
(***************************************************************************)
EXTENDS BPlusTree, NumberFacts, SequenceTheorems, TLAPS

-----------------------------------------------------------------------------
(* The functions over heights. *)

NodesAt(h, below) == IF h = 0 THEN LeafNodes ELSE InnerNodes(below)

\* A prefix of Nodes up to n.
IsNodes(f, n) == f = [h \in 0 .. n |-> NodesAt(h, f[h - 1])]

\* There is a function that does what its recursive definition says.
LEMMA NodesExists ==
  \E g : g = [h \in Nat |-> NodesAt(h, g[h - 1])]
<1>1. \A x, y : NodesAt(0, x) = NodesAt(0, y)
  BY DEF NodesAt
<1>2. ASSUME NEW n \in Nat, NEW m \in Nat, n <= m,
             NEW f, IsNodes(f, n), NEW g, IsNodes(g, m)
      PROVE  \A i \in 0 .. n : f[i] = g[i]
  <2> DEFINE T == {i \in 0 .. n : f[i] = g[i]}
  <2>0. /\ \A i \in 0 .. n : f[i] = NodesAt(i, f[i - 1])
        /\ \A i \in 0 .. n : g[i] = NodesAt(i, g[i - 1])
    BY <1>2 DEF IsNodes
  <2>1. 0 \in T
    BY <1>1, <2>0
  <2>2. ASSUME NEW i \in 1 .. n, i - 1 \in T
        PROVE  i \in T
    BY <2>0, <2>2
  <2> HIDE DEF T
  <2>3. \A i \in 0 .. n : i \in T
    BY <2>1, <2>2, InductionTo
  <2> QED
    BY <2>3 DEF T
<1>3. ASSUME NEW n \in Nat
      PROVE  \E f : IsNodes(f, n)
  <2> DEFINE T == {i \in 0 .. n : \E f : IsNodes(f, i)}
  <2>1. 0 \in T
    <3> DEFINE f == [h \in 0 .. 0 |-> NodesAt(0, 0)]
    <3>1. \A h \in 0 .. 0 : NodesAt(0, 0) = NodesAt(h, f[h - 1])
      BY <1>1
    <3>2. IsNodes(f, 0)
      BY <3>1 DEF IsNodes
    <3> QED
      BY <3>2
  <2>2. ASSUME NEW i \in 1 .. n, i - 1 \in T
        PROVE  i \in T
    <3>1. PICK f : IsNodes(f, i - 1)
      BY <2>2
    <3> DEFINE last == NodesAt(i, f[i - 1])
               g == [h \in 0 .. i |-> IF h = i THEN last ELSE f[h]]
    <3>2. \A h \in 0 .. i - 1 : f[h] = NodesAt(h, f[h - 1])
      BY <3>1 DEF IsNodes
    <3>3. \A h \in 0 .. i - 1 : g[h] = f[h]
      OBVIOUS
    <3>4. ASSUME NEW h \in 0 .. i
          PROVE  (IF h = i THEN last ELSE f[h]) = NodesAt(h, g[h - 1])
      <4>1. CASE h = 0
        BY <1>1, <3>2, <4>1
      <4>2. CASE h \in 1 .. i - 1
        BY <3>2, <3>3, <4>2
      <4>3. CASE h = i
        <5>1. g[h - 1] = f[i - 1]
          BY <3>3, <4>3
        <5> QED
          BY <4>3, <5>1
      <4> QED
        BY <4>1, <4>2, <4>3
    <3>5. IsNodes(g, i)
      BY <3>4 DEF IsNodes
    <3> QED
      BY <3>5
  <2> HIDE DEF T
  <2>3. n \in T
    BY <2>1, <2>2, InductionTo
  <2> QED
    BY <2>3 DEF T
<1> DEFINE F(n) == CHOOSE f : IsNodes(f, n)
           g == [n \in Nat |-> F(n)[n]]
<1>4. \A n \in Nat : IsNodes(F(n), n)
  BY <1>3
<1> HIDE DEF F
<1>5. ASSUME NEW h \in Nat
      PROVE  F(h)[h] = NodesAt(h, g[h - 1])
  <2>1. F(h)[h] = NodesAt(h, F(h)[h - 1])
    BY <1>4 DEF IsNodes
  <2>2. CASE h = 0
    BY <1>1, <2>1, <2>2
  <2>3. CASE h # 0
    <3>1. h - 1 \in Nat /\ h - 1 <= h /\ h - 1 \in 0 .. h - 1
      BY <2>3
    <3>2. F(h - 1)[h - 1] = F(h)[h - 1]
      BY <1>2, <1>4, <3>1
    <3>3. g[h - 1] = F(h)[h - 1]
      BY <3>1, <3>2
    <3> QED
      BY <2>1, <3>3
  <2> QED
    BY <2>2, <2>3
<1>6. g = [h \in Nat |-> NodesAt(h, g[h - 1])]
  BY <1>5
<1> QED
  BY <1>6

\* The nodes of each height.
LEMMA NodesByHeight ==
  /\ Nodes[0] = LeafNodes
  /\ \A h \in Nat : Nodes[h + 1] = InnerNodes(Nodes[h])
<1> DEFINE g == CHOOSE f : f = [h \in Nat |-> NodesAt(h, f[h - 1])]
<1>1. g = [h \in Nat |-> NodesAt(h, g[h - 1])]
  BY NodesExists
<1>2. Nodes = g
  BY DEF Nodes, NodesAt
<1> HIDE DEF g
<1>3. \A h \in Nat : Nodes[h] = NodesAt(h, Nodes[h - 1])
  BY <1>1, <1>2
<1>4. Nodes[0] = LeafNodes
  BY <1>3 DEF NodesAt
<1>5. ASSUME NEW h \in Nat
      PROVE  Nodes[h + 1] = InnerNodes(Nodes[h])
  <2>1. h + 1 \in Nat /\ h + 1 # 0 /\ (h + 1) - 1 = h
    OBVIOUS
  <2> QED
    BY <1>3, <2>1 DEF NodesAt
<1> QED
  BY <1>4, <1>5

\* What a node of each height is made of.
LEMMA LeafFields ==
  /\ \A node \in Nodes[0] :
       /\ node.isLeaf = TRUE /\ node.children = <<>>
       /\ node.keys \in Seq(Int) /\ node.values \in Seq(Int)
       /\ Len(node.keys) <= MaxKeys + 1 /\ Len(node.values) = Len(node.keys)
       /\ node = Leaf(node.keys, node.values)
  /\ \A keys, values \in Seq(Int) :
       Len(keys) <= MaxKeys + 1 /\ Len(values) = Len(keys) =>
         Leaf(keys, values) \in Nodes[0]
<1>1. ASSUME NEW node \in Nodes[0]
      PROVE  /\ node \in [isLeaf : {TRUE}, keys : Seq(Int), values : Seq(Int), children : {<<>>}]
             /\ Len(node.keys) <= MaxKeys + 1 /\ Len(node.values) = Len(node.keys)
  BY NodesByHeight DEF LeafNodes
<1>2. ASSUME NEW node \in Nodes[0]
      PROVE  node = Leaf(node.keys, node.values)
  BY <1>1 DEF Leaf
<1>3. ASSUME NEW keys \in Seq(Int), NEW values \in Seq(Int),
             Len(keys) <= MaxKeys + 1, Len(values) = Len(keys)
      PROVE  Leaf(keys, values) \in Nodes[0]
  <2>1. Leaf(keys, values) \in
          [isLeaf : {TRUE}, keys : Seq(Int), values : Seq(Int), children : {<<>>}]
    BY DEF Leaf
  <2>2. Leaf(keys, values).keys = keys /\ Leaf(keys, values).values = values
    BY DEF Leaf
  <2> QED
    BY <1>3, <2>1, <2>2, NodesByHeight DEF LeafNodes
<1> QED
  BY <1>1, <1>2, <1>3

\* ... and an inner node, over the nodes one level below.
LEMMA InnerFields ==
  ASSUME NEW h \in Nat
  PROVE
  /\ \A node \in Nodes[h + 1] :
       /\ node.isLeaf = FALSE
       /\ node.keys \in Seq(Int) /\ node.children \in Seq(Nodes[h])
       /\ Len(node.keys) <= MaxKeys + 1 /\ Len(node.children) = Len(node.keys) + 1
       /\ node = Inner(node.keys, node.children)
  /\ \A keys \in Seq(Int), children \in Seq(Nodes[h]) :
       Len(keys) <= MaxKeys + 1 /\ Len(children) = Len(keys) + 1 =>
         Inner(keys, children) \in Nodes[h + 1]
<1> DEFINE Records == [isLeaf : {FALSE}, keys : Seq(Int), values : {<<>>},
                       children : Seq(Nodes[h])]
<1>1. ASSUME NEW node \in Nodes[h + 1]
      PROVE  /\ node \in Records
             /\ Len(node.keys) <= MaxKeys + 1 /\ Len(node.children) = Len(node.keys) + 1
  BY NodesByHeight DEF InnerNodes
<1>2. ASSUME NEW node \in Nodes[h + 1]
      PROVE  node = Inner(node.keys, node.children)
  BY <1>1 DEF Inner
<1>3. ASSUME NEW keys \in Seq(Int), NEW children \in Seq(Nodes[h]),
             Len(keys) <= MaxKeys + 1, Len(children) = Len(keys) + 1
      PROVE  Inner(keys, children) \in Nodes[h + 1]
  <2>1. Inner(keys, children) \in Records
    BY DEF Inner
  <2>2. Inner(keys, children).keys = keys /\ Inner(keys, children).children = children
    BY DEF Inner
  <2> QED
    BY <1>3, <2>1, <2>2, NodesByHeight DEF InnerNodes
<1> QED
  BY <1>1, <1>2, <1>3

BalancedAt(h, below) ==
  [room \in SUBSET Int |->
     {node \in Nodes[h] :
        /\ InShape(node, room)
        /\ \A i \in DOMAIN node.children :
             node.children[i] \in below[Room(node, i, room)]}]

\* A prefix of Balanced up to n.
IsBalanced(f, n) == f = [h \in 0 .. n |-> BalancedAt(h, f[h - 1])]

\* There is a function that does what its recursive definition says.
LEMMA BalancedExists ==
  \E g : g = [h \in Nat |-> BalancedAt(h, g[h - 1])]
<1>1. \A x, y : BalancedAt(0, x) = BalancedAt(0, y)
  BY LeafFields DEF BalancedAt
<1>2. ASSUME NEW n \in Nat, NEW m \in Nat, n <= m,
             NEW f, IsBalanced(f, n), NEW g, IsBalanced(g, m)
      PROVE  \A i \in 0 .. n : f[i] = g[i]
  <2> DEFINE T == {i \in 0 .. n : f[i] = g[i]}
  <2>0. /\ \A i \in 0 .. n : f[i] = BalancedAt(i, f[i - 1])
        /\ \A i \in 0 .. n : g[i] = BalancedAt(i, g[i - 1])
    BY <1>2 DEF IsBalanced
  <2>1. 0 \in T
    BY <1>1, <2>0
  <2>2. ASSUME NEW i \in 1 .. n, i - 1 \in T
        PROVE  i \in T
    BY <2>0, <2>2
  <2> HIDE DEF T
  <2>3. \A i \in 0 .. n : i \in T
    BY <2>1, <2>2, InductionTo
  <2> QED
    BY <2>3 DEF T
<1>3. ASSUME NEW n \in Nat
      PROVE  \E f : IsBalanced(f, n)
  <2> DEFINE T == {i \in 0 .. n : \E f : IsBalanced(f, i)}
  <2>1. 0 \in T
    <3> DEFINE f == [h \in 0 .. 0 |-> BalancedAt(0, 0)]
    <3>1. \A h \in 0 .. 0 : BalancedAt(0, 0) = BalancedAt(h, f[h - 1])
      BY <1>1
    <3>2. IsBalanced(f, 0)
      BY <3>1 DEF IsBalanced
    <3> QED
      BY <3>2
  <2>2. ASSUME NEW i \in 1 .. n, i - 1 \in T
        PROVE  i \in T
    <3>1. PICK f : IsBalanced(f, i - 1)
      BY <2>2
    <3> DEFINE last == BalancedAt(i, f[i - 1])
               g == [h \in 0 .. i |-> IF h = i THEN last ELSE f[h]]
    <3>2. \A h \in 0 .. i - 1 : f[h] = BalancedAt(h, f[h - 1])
      BY <3>1 DEF IsBalanced
    <3>3. \A h \in 0 .. i - 1 : g[h] = f[h]
      OBVIOUS
    <3>4. ASSUME NEW h \in 0 .. i
          PROVE  (IF h = i THEN last ELSE f[h]) = BalancedAt(h, g[h - 1])
      <4>1. CASE h = 0
        BY <1>1, <3>2, <4>1
      <4>2. CASE h \in 1 .. i - 1
        BY <3>2, <3>3, <4>2
      <4>3. CASE h = i
        <5>1. g[h - 1] = f[i - 1]
          BY <3>3, <4>3
        <5> QED
          BY <4>3, <5>1
      <4> QED
        BY <4>1, <4>2, <4>3
    <3>5. IsBalanced(g, i)
      BY <3>4 DEF IsBalanced
    <3> QED
      BY <3>5
  <2> HIDE DEF T
  <2>3. n \in T
    BY <2>1, <2>2, InductionTo
  <2> QED
    BY <2>3 DEF T
<1> DEFINE F(n) == CHOOSE f : IsBalanced(f, n)
           g == [n \in Nat |-> F(n)[n]]
<1>4. \A n \in Nat : IsBalanced(F(n), n)
  BY <1>3
<1> HIDE DEF F
<1>5. ASSUME NEW h \in Nat
      PROVE  F(h)[h] = BalancedAt(h, g[h - 1])
  <2>1. F(h)[h] = BalancedAt(h, F(h)[h - 1])
    BY <1>4 DEF IsBalanced
  <2>2. CASE h = 0
    BY <1>1, <2>1, <2>2
  <2>3. CASE h # 0
    <3>1. h - 1 \in Nat /\ h - 1 <= h /\ h - 1 \in 0 .. h - 1
      BY <2>3
    <3>2. F(h - 1)[h - 1] = F(h)[h - 1]
      BY <1>2, <1>4, <3>1
    <3>3. g[h - 1] = F(h)[h - 1]
      BY <3>1, <3>2
    <3> QED
      BY <2>1, <3>3
  <2> QED
    BY <2>2, <2>3
<1>6. g = [h \in Nat |-> BalancedAt(h, g[h - 1])]
  BY <1>5
<1> QED
  BY <1>6

\* Which nodes of each height are balanced.
LEMMA BalancedByHeight ==
  ASSUME NEW room \in SUBSET Int
  PROVE  /\ Balanced[0][room] = {node \in Nodes[0] : InShape(node, room)}
         /\ \A h \in Nat : Balanced[h + 1][room] =
              {node \in Nodes[h + 1] :
                 /\ InShape(node, room)
                 /\ \A i \in DOMAIN node.children :
                      node.children[i] \in Balanced[h][Room(node, i, room)]}
<1> DEFINE g == CHOOSE f : f = [h \in Nat |-> BalancedAt(h, f[h - 1])]
<1>1. g = [h \in Nat |-> BalancedAt(h, g[h - 1])]
  BY BalancedExists
<1>2. Balanced = g
  BY DEF Balanced, BalancedAt
<1> HIDE DEF g
<1>3. \A h \in Nat : Balanced[h] = BalancedAt(h, Balanced[h - 1])
  BY <1>1, <1>2
<1>4. Balanced[0][room] = {node \in Nodes[0] : InShape(node, room)}
  <2>1. Balanced[0][room] =
          {node \in Nodes[0] :
             /\ InShape(node, room)
             /\ \A i \in DOMAIN node.children :
                  node.children[i] \in Balanced[0 - 1][Room(node, i, room)]}
    <3>1. Balanced[0] = BalancedAt(0, Balanced[0 - 1])
      BY <1>3
    <3> QED
      BY <3>1, Zenon DEF BalancedAt
  <2>2. \A node \in Nodes[0] : DOMAIN node.children = {}
    BY LeafFields
  <2> QED
    BY <2>1, <2>2
<1>5. ASSUME NEW h \in Nat
      PROVE  Balanced[h + 1] = BalancedAt(h + 1, Balanced[h])
  <2>1. h + 1 \in Nat /\ (h + 1) - 1 = h
    OBVIOUS
  <2> QED
    BY <1>3, <2>1
<1> QED
  BY <1>4, <1>5 DEF BalancedAt

SearchAt(key, h, below) ==
  [node \in Nodes[h] |->
     IF node.isLeaf THEN SearchLeaf(node, key)
     ELSE below[node.children[ChildIndex(node, key)]]]

\* A prefix of the function that is Search(key) up to n.
IsSearch(f, key, n) == f = [h \in 0 .. n |-> SearchAt(key, h, f[h - 1])]

\* There is a function that does what its recursive definition says.
LEMMA SearchExists ==
  ASSUME NEW key
  PROVE  \E g : g = [h \in Nat |-> SearchAt(key, h, g[h - 1])]
<1>1. \A x, y : SearchAt(key, 0, x) = SearchAt(key, 0, y)
  BY LeafFields DEF SearchAt
<1>2. ASSUME NEW n \in Nat, NEW m \in Nat, n <= m,
             NEW f, IsSearch(f, key, n), NEW g, IsSearch(g, key, m)
      PROVE  \A i \in 0 .. n : f[i] = g[i]
  <2> DEFINE T == {i \in 0 .. n : f[i] = g[i]}
  <2>0. /\ \A i \in 0 .. n : f[i] = SearchAt(key, i, f[i - 1])
        /\ \A i \in 0 .. n : g[i] = SearchAt(key, i, g[i - 1])
    BY <1>2 DEF IsSearch
  <2>1. 0 \in T
    BY <1>1, <2>0
  <2>2. ASSUME NEW i \in 1 .. n, i - 1 \in T
        PROVE  i \in T
    BY <2>0, <2>2
  <2> HIDE DEF T
  <2>3. \A i \in 0 .. n : i \in T
    BY <2>1, <2>2, InductionTo
  <2> QED
    BY <2>3 DEF T
<1>3. ASSUME NEW n \in Nat
      PROVE  \E f : IsSearch(f, key, n)
  <2> DEFINE T == {i \in 0 .. n : \E f : IsSearch(f, key, i)}
  <2>1. 0 \in T
    <3> DEFINE f == [h \in 0 .. 0 |-> SearchAt(key, 0, 0)]
    <3>1. \A h \in 0 .. 0 : SearchAt(key, 0, 0) = SearchAt(key, h, f[h - 1])
      BY <1>1
    <3>2. IsSearch(f, key, 0)
      BY <3>1 DEF IsSearch
    <3> QED
      BY <3>2
  <2>2. ASSUME NEW i \in 1 .. n, i - 1 \in T
        PROVE  i \in T
    <3>1. PICK f : IsSearch(f, key, i - 1)
      BY <2>2
    <3> DEFINE last == SearchAt(key, i, f[i - 1])
               g == [h \in 0 .. i |-> IF h = i THEN last ELSE f[h]]
    <3>2. \A h \in 0 .. i - 1 : f[h] = SearchAt(key, h, f[h - 1])
      BY <3>1 DEF IsSearch
    <3>3. \A h \in 0 .. i - 1 : g[h] = f[h]
      OBVIOUS
    <3>4. ASSUME NEW h \in 0 .. i
          PROVE  (IF h = i THEN last ELSE f[h]) = SearchAt(key, h, g[h - 1])
      <4>1. CASE h = 0
        BY <1>1, <3>2, <4>1
      <4>2. CASE h \in 1 .. i - 1
        BY <3>2, <3>3, <4>2
      <4>3. CASE h = i
        <5>1. g[h - 1] = f[i - 1]
          BY <3>3, <4>3
        <5> QED
          BY <4>3, <5>1
      <4> QED
        BY <4>1, <4>2, <4>3
    <3>5. IsSearch(g, key, i)
      BY <3>4 DEF IsSearch
    <3> QED
      BY <3>5
  <2> HIDE DEF T
  <2>3. n \in T
    BY <2>1, <2>2, InductionTo
  <2> QED
    BY <2>3 DEF T
<1> DEFINE F(n) == CHOOSE f : IsSearch(f, key, n)
           g == [n \in Nat |-> F(n)[n]]
<1>4. \A n \in Nat : IsSearch(F(n), key, n)
  BY <1>3
<1> HIDE DEF F
<1>5. ASSUME NEW h \in Nat
      PROVE  F(h)[h] = SearchAt(key, h, g[h - 1])
  <2>1. F(h)[h] = SearchAt(key, h, F(h)[h - 1])
    BY <1>4 DEF IsSearch
  <2>2. CASE h = 0
    BY <1>1, <2>1, <2>2
  <2>3. CASE h # 0
    <3>1. h - 1 \in Nat /\ h - 1 <= h /\ h - 1 \in 0 .. h - 1
      BY <2>3
    <3>2. F(h - 1)[h - 1] = F(h)[h - 1]
      BY <1>2, <1>4, <3>1
    <3>3. g[h - 1] = F(h)[h - 1]
      BY <3>1, <3>2
    <3> QED
      BY <2>1, <3>3
  <2> QED
    BY <2>2, <2>3
<1>6. g = [h \in Nat |-> SearchAt(key, h, g[h - 1])]
  BY <1>5
<1> QED
  BY <1>6

\* What the search in a node of each height finds.
LEMMA SearchByHeight ==
  ASSUME NEW key
  PROVE  /\ \A node \in Nodes[0] : Search(key)[0][node] = SearchLeaf(node, key)
         /\ \A h \in Nat : \A node \in Nodes[h + 1] :
              Search(key)[h + 1][node] =
                Search(key)[h][node.children[ChildIndex(node, key)]]
<1> DEFINE g == CHOOSE f : f = [h \in Nat |-> SearchAt(key, h, f[h - 1])]
<1>1. g = [h \in Nat |-> SearchAt(key, h, g[h - 1])]
  BY SearchExists
<1>2. Search(key) = g
  BY DEF Search, SearchAt
<1> HIDE DEF g
<1>3. \A h \in Nat : Search(key)[h] = SearchAt(key, h, Search(key)[h - 1])
  BY <1>1, <1>2
<1>4. \A node \in Nodes[0] : Search(key)[0][node] = SearchLeaf(node, key)
  BY <1>3, LeafFields DEF SearchAt
<1>5. ASSUME NEW h \in Nat
      PROVE  Search(key)[h + 1] = SearchAt(key, h + 1, Search(key)[h])
  <2>1. h + 1 \in Nat /\ (h + 1) - 1 = h
    OBVIOUS
  <2> QED
    BY <1>3, <2>1
<1> QED
  BY <1>4, <1>5, InnerFields DEF SearchAt

InsertAtHeight(key, value, spare, h, below) ==
  [node \in Nodes[h] |->
     IF node.isLeaf THEN InsertIntoLeaf(node, key, value, spare)
     ELSE LET at == ChildIndex(node, key)
          IN InsertIntoInner(node, at, below[node.children[at]])]

\* The function that is InsertIntoNode, and a prefix of it up to n.
IsWholeInsert(f, key, value, spare) ==
  f = [h \in Nat |-> InsertAtHeight(key, value, spare, h, f[h - 1])]
IsInsert(f, key, value, spare, n) ==
  f = [h \in 0 .. n |-> InsertAtHeight(key, value, spare, h, f[h - 1])]

\* There is a function that does what its recursive definition says.
LEMMA InsertExists ==
  ASSUME NEW key, NEW value, NEW spare
  PROVE  \E g : IsWholeInsert(g, key, value, spare)
<1>1. \A x, y : InsertAtHeight(key, value, spare, 0, x) = InsertAtHeight(key, value, spare, 0, y)
  BY LeafFields DEF InsertAtHeight
<1>2. ASSUME NEW n \in Nat, NEW m \in Nat, n <= m,
             NEW f, IsInsert(f, key, value, spare, n), NEW g, IsInsert(g, key, value, spare, m)
      PROVE  \A i \in 0 .. n : f[i] = g[i]
  <2> DEFINE T == {i \in 0 .. n : f[i] = g[i]}
  <2>0. /\ \A i \in 0 .. n : f[i] = InsertAtHeight(key, value, spare, i, f[i - 1])
        /\ \A i \in 0 .. n : g[i] = InsertAtHeight(key, value, spare, i, g[i - 1])
    BY <1>2 DEF IsInsert
  <2>1. 0 \in T
    BY <1>1, <2>0
  <2>2. ASSUME NEW i \in 1 .. n, i - 1 \in T
        PROVE  i \in T
    BY <2>0, <2>2
  <2> HIDE DEF T
  <2>3. \A i \in 0 .. n : i \in T
    BY <2>1, <2>2, InductionTo
  <2> QED
    BY <2>3 DEF T
<1>3. ASSUME NEW n \in Nat
      PROVE  \E f : IsInsert(f, key, value, spare, n)
  <2> DEFINE T == {i \in 0 .. n : \E f : IsInsert(f, key, value, spare, i)}
  <2>1. 0 \in T
    <3> DEFINE f == [h \in 0 .. 0 |-> InsertAtHeight(key, value, spare, 0, 0)]
    <3>1. \A h \in 0 .. 0 : InsertAtHeight(key, value, spare, 0, 0) =
                              InsertAtHeight(key, value, spare, h, f[h - 1])
      BY <1>1
    <3>2. IsInsert(f, key, value, spare, 0)
      BY <3>1 DEF IsInsert
    <3> QED
      BY <3>2
  <2>2. ASSUME NEW i \in 1 .. n, i - 1 \in T
        PROVE  i \in T
    <3>1. PICK f : IsInsert(f, key, value, spare, i - 1)
      BY <2>2
    <3> DEFINE last == InsertAtHeight(key, value, spare, i, f[i - 1])
               g == [h \in 0 .. i |-> IF h = i THEN last ELSE f[h]]
    <3>2. \A h \in 0 .. i - 1 : f[h] = InsertAtHeight(key, value, spare, h, f[h - 1])
      BY <3>1 DEF IsInsert
    <3>3. \A h \in 0 .. i - 1 : g[h] = f[h]
      OBVIOUS
    <3>4. ASSUME NEW h \in 0 .. i
          PROVE  (IF h = i THEN last ELSE f[h]) = InsertAtHeight(key, value, spare, h, g[h - 1])
      <4>1. CASE h = 0
        BY <1>1, <3>2, <4>1
      <4>2. CASE h \in 1 .. i - 1
        BY <3>2, <3>3, <4>2
      <4>3. CASE h = i
        <5>1. g[h - 1] = f[i - 1]
          BY <3>3, <4>3
        <5> QED
          BY <4>3, <5>1
      <4> QED
        BY <4>1, <4>2, <4>3
    <3>5. IsInsert(g, key, value, spare, i)
      BY <3>4 DEF IsInsert
    <3> QED
      BY <3>5
  <2> HIDE DEF T
  <2>3. n \in T
    BY <2>1, <2>2, InductionTo
  <2> QED
    BY <2>3 DEF T
<1> DEFINE F(n) == CHOOSE f : IsInsert(f, key, value, spare, n)
           g == [n \in Nat |-> F(n)[n]]
<1>4. \A n \in Nat : IsInsert(F(n), key, value, spare, n)
  BY <1>3
<1> HIDE DEF F
<1>5. ASSUME NEW h \in Nat
      PROVE  F(h)[h] = InsertAtHeight(key, value, spare, h, g[h - 1])
  <2>1. F(h)[h] = InsertAtHeight(key, value, spare, h, F(h)[h - 1])
    BY <1>4 DEF IsInsert
  <2>2. CASE h = 0
    BY <1>1, <2>1, <2>2
  <2>3. CASE h # 0
    <3>1. h - 1 \in Nat /\ h - 1 <= h /\ h - 1 \in 0 .. h - 1
      BY <2>3
    <3>2. F(h - 1)[h - 1] = F(h)[h - 1]
      BY <1>2, <1>4, <3>1
    <3>3. g[h - 1] = F(h)[h - 1]
      BY <3>1, <3>2
    <3> QED
      BY <2>1, <3>3
  <2> QED
    BY <2>2, <2>3
<1>6. g = [h \in Nat |-> InsertAtHeight(key, value, spare, h, g[h - 1])]
  BY <1>5
<1> QED
  BY <1>6 DEF IsWholeInsert

\* What the insert into a node of each height does.
LEMMA InsertByHeight ==
  ASSUME NEW key, NEW value, NEW spare
  PROVE  /\ \A node \in Nodes[0] : InsertIntoNode(key, value, spare)[0][node] =
              InsertIntoLeaf(node, key, value, spare)
         /\ \A h \in Nat : \A node \in Nodes[h + 1] :
              InsertIntoNode(key, value, spare)[h + 1][node] =
                InsertIntoInner(node, ChildIndex(node, key),
                  InsertIntoNode(key, value, spare)[h][node.children[ChildIndex(node, key)]])
<1> DEFINE I == InsertIntoNode(key, value, spare)
           g == CHOOSE f : IsWholeInsert(f, key, value, spare)
<1>1. IsWholeInsert(g, key, value, spare)
  BY InsertExists
<1>2. I = g
  BY DEF InsertIntoNode, InsertAtHeight, IsWholeInsert
<1> HIDE DEF g, I
<1>3. \A h \in Nat : I[h] = InsertAtHeight(key, value, spare, h, I[h - 1])
  BY <1>1, <1>2 DEF IsWholeInsert
<1>4. \A node \in Nodes[0] : I[0][node] = InsertIntoLeaf(node, key, value, spare)
  BY <1>3, LeafFields DEF InsertAtHeight
<1>5. ASSUME NEW h \in Nat
      PROVE  I[h + 1] = InsertAtHeight(key, value, spare, h + 1, I[h])
  <2>1. h + 1 \in Nat /\ (h + 1) - 1 = h
    OBVIOUS
  <2> QED
    BY <1>3, <2>1
<1> QED
  BY <1>4, <1>5, InnerFields DEF InsertAtHeight, I

-----------------------------------------------------------------------------
(* Positions and arrays. *)

\* The loop of find_child_index ends at the first separator above key.
LEMMA ChildIndexFound ==
  ASSUME NEW node, node.keys \in Seq(Int), NEW key \in Int
  PROVE  /\ ChildIndex(node, key) \in 1 .. Len(node.keys) + 1
         /\ \A j \in 1 .. ChildIndex(node, key) - 1 : node.keys[j] <= key
         /\ ChildIndex(node, key) <= Len(node.keys) => key < node.keys[ChildIndex(node, key)]
<1> DEFINE n == Len(node.keys)
           ends == {i \in 1 .. n + 1 : i <= n => key < node.keys[i]}
<1>1. n \in Nat /\ \A i \in 1 .. n : node.keys[i] \in Int
  OBVIOUS
<1>2. ends \in SUBSET Nat /\ n + 1 \in ends
  BY <1>1
<1>3. PICK i \in ends : \A j \in ends : i <= j
  <2> HIDE DEF ends, n
  <2> QED
    BY <1>2, LeastNumber
<1>4. \A j \in 1 .. i - 1 : node.keys[j] <= key
  BY <1>1, <1>3
<1>5. \E p \in 1 .. n + 1 : /\ \A j \in 1 .. p - 1 : node.keys[j] <= key
                            /\ p <= n => key < node.keys[p]
  BY <1>3, <1>4
<1> QED
  BY <1>5 DEF ChildIndex

\* ... and that of insert_into_leaf at the first key that is not below it.
LEMMA LeafIndexFound ==
  ASSUME NEW node, node.keys \in Seq(Int), NEW key \in Int
  PROVE  /\ LeafIndex(node, key) \in 1 .. Len(node.keys) + 1
         /\ \A j \in 1 .. LeafIndex(node, key) - 1 : node.keys[j] < key
         /\ LeafIndex(node, key) <= Len(node.keys) => key <= node.keys[LeafIndex(node, key)]
<1> DEFINE n == Len(node.keys)
           ends == {i \in 1 .. n + 1 : i <= n => key <= node.keys[i]}
<1>1. n \in Nat /\ \A i \in 1 .. n : node.keys[i] \in Int
  OBVIOUS
<1>2. ends \in SUBSET Nat /\ n + 1 \in ends
  BY <1>1
<1>3. PICK i \in ends : \A j \in ends : i <= j
  <2> HIDE DEF ends, n
  <2> QED
    BY <1>2, LeastNumber
<1>4. \A j \in 1 .. i - 1 : node.keys[j] < key
  BY <1>1, <1>3
<1>5. \E p \in 1 .. n + 1 : /\ \A j \in 1 .. p - 1 : node.keys[j] < key
                            /\ p <= n => key <= node.keys[p]
  BY <1>3, <1>4
<1> QED
  BY <1>5 DEF LeafIndex

\* Moving the rest of an array up by one and writing into the gap.
LEMMA InsertAtPositions ==
  ASSUME NEW S, NEW s \in Seq(S), NEW i \in 1 .. Len(s) + 1, NEW e \in S
  PROVE  /\ InsertAt(s, i, e) \in Seq(S)
         /\ Len(InsertAt(s, i, e)) = Len(s) + 1
         /\ \A j \in 1 .. i - 1 : InsertAt(s, i, e)[j] = s[j]
         /\ InsertAt(s, i, e)[i] = e
         /\ \A j \in i + 1 .. Len(s) + 1 : InsertAt(s, i, e)[j] = s[j - 1]
<1> DEFINE a == SubSeq(s, 1, i - 1)
           b == SubSeq(s, i, Len(s))
<1>1. /\ a \in Seq(S) /\ Len(a) = i - 1
      /\ \A j \in 1 .. i - 1 : a[j] = s[j]
  <2>1. \A j \in 1 .. i - 1 : s[j] \in S
    OBVIOUS
  <2>2. 1 \in Int /\ i - 1 \in Int /\ (i - 1) - 1 + 1 = i - 1
    OBVIOUS
  <2> HIDE DEF a
  <2>3. /\ a \in Seq(S) /\ Len(a) = IF 1 <= i - 1 THEN (i - 1) - 1 + 1 ELSE 0
        /\ \A j \in 1 .. (i - 1) - 1 + 1 : a[j] = s[1 + j - 1]
    BY <2>1, <2>2, SubSeqProperties DEF a
  <2> QED
    BY <2>2, <2>3
<1>2. /\ b \in Seq(S) /\ Len(b) = Len(s) - i + 1
      /\ \A j \in 1 .. Len(s) - i + 1 : b[j] = s[i + j - 1]
  <2>1. \A j \in i .. Len(s) : s[j] \in S
    OBVIOUS
  <2>2. i \in Int /\ Len(s) \in Int
    OBVIOUS
  <2> HIDE DEF b
  <2>3. /\ b \in Seq(S) /\ Len(b) = IF i <= Len(s) THEN Len(s) - i + 1 ELSE 0
        /\ \A j \in 1 .. Len(s) - i + 1 : b[j] = s[i + j - 1]
    BY <2>1, <2>2, SubSeqProperties DEF b
  <2> QED
    BY <2>2, <2>3
<1>3. InsertAt(s, i, e) = a \o <<e>> \o b
  BY DEF InsertAt
<1> HIDE DEF a, b
<1>4. /\ a \o <<e>> \in Seq(S) /\ Len(a \o <<e>>) = i
      /\ \A j \in 1 .. i - 1 : (a \o <<e>>)[j] = s[j]
      /\ (a \o <<e>>)[i] = e
  BY <1>1
<1> DEFINE c == a \o <<e>>
<1>5. c \in Seq(S) /\ Len(c) = i /\ InsertAt(s, i, e) = c \o b
  BY <1>3, <1>4
<1>6. /\ \A j \in 1 .. i - 1 : c[j] = s[j]
      /\ c[i] = e
  BY <1>4
<1> HIDE DEF c
<1>7. c \o b \in Seq(S) /\ Len(c \o b) = Len(s) + 1
  BY <1>2, <1>5
<1>8. \A j \in 1 .. i : (c \o b)[j] = c[j]
  BY <1>2, <1>5
<1>9. ASSUME NEW j \in i + 1 .. Len(s) + 1
      PROVE  (c \o b)[j] = s[j - 1]
  <2>1. (c \o b)[j] = b[j - i] /\ j - i \in 1 .. Len(s) - i + 1 /\ i + (j - i) - 1 = j - 1
    BY <1>2, <1>5
  <2> QED
    BY <1>2, <2>1
<1> QED
  BY <1>5, <1>6, <1>7, <1>8, <1>9

\* A piece of an array.
LEMMA PieceOfArray ==
  ASSUME NEW S, NEW s \in Seq(S), NEW m \in 1 .. Len(s) + 1, NEW n \in m - 1 .. Len(s)
  PROVE  /\ SubSeq(s, m, n) \in Seq(S)
         /\ Len(SubSeq(s, m, n)) = n - m + 1
         /\ \A i \in 1 .. n - m + 1 : SubSeq(s, m, n)[i] = s[m + i - 1]
<1>1. \A j \in m .. n : s[j] \in S
  OBVIOUS
<1>2. m \in Int /\ n \in Int /\ (m > n => n - m + 1 = 0)
  OBVIOUS
<1>3. /\ SubSeq(s, m, n) \in Seq(S)
      /\ Len(SubSeq(s, m, n)) = IF m <= n THEN n - m + 1 ELSE 0
      /\ \A i \in 1 .. n - m + 1 : SubSeq(s, m, n)[i] = s[m + i - 1]
  BY <1>1, <1>2, SubSeqProperties
<1> QED
  BY <1>2, <1>3

\* Replacing an entry of an array.
Replaced(old, i, e, new) ==
  /\ Len(new) = Len(old)
  /\ new[i] = e
  /\ \A j \in 1 .. Len(old) : j # i => new[j] = old[j]

\* EXCEPT makes such an array.
LEMMA PutInArray ==
  ASSUME NEW S, NEW s \in Seq(S), NEW i \in 1 .. Len(s), NEW e \in S
  PROVE  [s EXCEPT ![i] = e] \in Seq(S) /\ Replaced(s, i, e, [s EXCEPT ![i] = e])
BY DEF Replaced

-----------------------------------------------------------------------------
(* Inserting into a leaf. *)

\* Arrays of keys that are in order and within a room.
Ordered(keys, room) ==
  /\ keys \in Seq(Int)
  /\ \A i \in 1 .. Len(keys) : keys[i] \in room
  /\ \A i, j \in 1 .. Len(keys) : i < j => keys[i] < keys[j]

\* What a search for k has to find after an insert of key.
Wanted(h, node, key, value, k) == IF k = key THEN {value} ELSE Search(k)[h][node]

(* What insert_into_node promises of a balanced subtree with h levels of   *)
(* inner nodes: a key it has is refused and changes nothing; with memory   *)
(* for a node on each level and no such key it succeeds; a failure leaves  *)
(* arrays within their sizes; success leaves one balanced subtree or two   *)
(* that share the room at the promoted key, in which searches find what    *)
(* they should.                                                            *)
InsertPost(h, node, room, key, value, spare, r) ==
  /\ r.ok \in BOOLEAN /\ r.split \in BOOLEAN /\ r.spare \in Nat
  /\ Search(key)[h][node] # {} => ~r.ok /\ r.node = node
  /\ Search(key)[h][node] = {} /\ spare > h =>
       r.ok /\ (r.split => r.spare + h + 1 >= spare)
  /\ ~r.ok => r.node \in Nodes[h]
  /\ r.ok /\ ~r.split =>
       /\ r.node \in Balanced[h][room]
       /\ \A k \in room : Search(k)[h][r.node] = Wanted(h, node, key, value, k)
  /\ r.ok /\ r.split =>
       LET below == {k \in room : k < r.promoted}
           above == {k \in room : r.promoted <= k}
       IN  /\ r.promoted \in room /\ below # {}
           /\ r.node \in Balanced[h][below] /\ r.right \in Balanced[h][above]
           /\ \A k \in below : Search(k)[h][r.node] = Wanted(h, node, key, value, k)
           /\ \A k \in above : Search(k)[h][r.right] = Wanted(h, node, key, value, k)

\* A leaf is balanced if its keys are in order, not too many, and in the room.
LEMMA BalancedLeaf ==
  ASSUME NEW room \in SUBSET Int
  PROVE  /\ \A node \in Balanced[0][room] :
              /\ node \in Nodes[0] /\ Ordered(node.keys, room)
              /\ Len(node.keys) \in 1 .. MaxKeys /\ Len(node.values) = Len(node.keys)
              /\ node.values \in Seq(Int)
         /\ \A keys, values \in Seq(Int) :
              /\ Ordered(keys, room) /\ Len(keys) \in 1 .. MaxKeys
              /\ Len(values) = Len(keys)
              => Leaf(keys, values) \in Balanced[0][room]
<1>1. ASSUME NEW node \in Balanced[0][room]
      PROVE  /\ node \in Nodes[0] /\ Ordered(node.keys, room)
             /\ Len(node.keys) \in 1 .. MaxKeys /\ Len(node.values) = Len(node.keys)
             /\ node.values \in Seq(Int)
  <2>1. node \in Nodes[0] /\ InShape(node, room)
    BY BalancedByHeight
  <2>2. node.keys \in Seq(Int) /\ node.values \in Seq(Int) /\ Len(node.values) = Len(node.keys)
    BY <2>1, LeafFields
  <2>3. DOMAIN node.keys = 1 .. Len(node.keys)
    BY <2>2
  <2> QED
    BY <2>1, <2>2, <2>3 DEF InShape, Ordered
<1>2. ASSUME NEW keys \in Seq(Int), NEW values \in Seq(Int),
             Ordered(keys, room), Len(keys) \in 1 .. MaxKeys, Len(values) = Len(keys)
      PROVE  Leaf(keys, values) \in Balanced[0][room]
  <2>1. Len(keys) <= MaxKeys + 1
    BY <1>2, TreeAssumption
  <2>2. Leaf(keys, values) \in Nodes[0]
    BY <1>2, <2>1, LeafFields
  <2>3. Leaf(keys, values).keys = keys
    BY DEF Leaf
  <2>4. DOMAIN keys = 1 .. Len(keys)
    OBVIOUS
  <2>5. InShape(Leaf(keys, values), room)
    BY <1>2, <2>3, <2>4 DEF InShape, Ordered
  <2> QED
    BY <2>2, <2>5, BalancedByHeight
<1> QED
  BY <1>1, <1>2

\* An array with one entry more.
Grown(old, at, e, new) ==
  /\ Len(new) = Len(old) + 1
  /\ \A j \in 1 .. at - 1 : new[j] = old[j]
  /\ new[at] = e
  /\ \A j \in at + 1 .. Len(old) + 1 : new[j] = old[j - 1]

\* InsertAt makes such an array.
LEMMA InsertAtGrows ==
  ASSUME NEW S, NEW s \in Seq(S), NEW i \in 1 .. Len(s) + 1, NEW e \in S
  PROVE  InsertAt(s, i, e) \in Seq(S) /\ Grown(s, i, e, InsertAt(s, i, e))
BY InsertAtPositions DEF Grown

\* A key put between the smaller and the larger ones leaves the keys in order.
LEMMA KeysGrow ==
  ASSUME NEW room \in SUBSET Int, NEW ks \in Seq(Int), Ordered(ks, room), NEW key \in room,
         NEW at \in 1 .. Len(ks) + 1,
         \A j \in 1 .. at - 1 : ks[j] < key, \A j \in at .. Len(ks) : key < ks[j],
         NEW K \in Seq(Int), Grown(ks, at, key, K)
  PROVE  Ordered(K, room)
<1> DEFINE n == Len(ks)
<1>1. n \in Nat /\ at \in Nat /\ at <= n + 1 /\ 1 <= at /\ key \in Int
  OBVIOUS
<1>2. /\ Len(K) = n + 1 /\ K[at] = key
      /\ \A j \in 1 .. at - 1 : K[j] = ks[j]
      /\ \A j \in at + 1 .. n + 1 : K[j] = ks[j - 1]
  BY DEF Grown
<1>3. /\ \A j \in 1 .. n : ks[j] \in room /\ ks[j] \in Int
      /\ \A x, y \in 1 .. n : x < y => ks[x] < ks[y]
  BY DEF Ordered
<1>4. (\A j \in 1 .. at - 1 : ks[j] < key) /\ (\A j \in at .. n : key < ks[j])
  OBVIOUS
<1> HIDE DEF n
<1>5. ASSUME NEW i \in 1 .. n + 1 PROVE K[i] \in room
  <2>1. i \in 1 .. at - 1 \/ i = at \/ i \in at + 1 .. n + 1
    BY <1>1
  <2>2. CASE i \in 1 .. at - 1
    <3>1. i \in 1 .. n
      BY <1>1, <2>2
    <3> QED
      BY <1>2, <1>3, <2>2, <3>1
  <2>3. CASE i \in at + 1 .. n + 1
    <3>1. i - 1 \in 1 .. n
      BY <1>1, <2>3
    <3> QED
      BY <1>2, <1>3, <2>3, <3>1
  <2> QED
    BY <1>2, <2>1, <2>2, <2>3
<1>6. ASSUME NEW i \in 1 .. n + 1, NEW j \in 1 .. n + 1, i < j PROVE K[i] < K[j]
  <2>1. CASE j < at
    <3>1. i \in 1 .. at - 1 /\ j \in 1 .. at - 1 /\ i \in 1 .. n /\ j \in 1 .. n
      BY <1>1, <1>6, <2>1
    <3> QED
      BY <1>2, <1>3, <1>6, <3>1
  <2>2. CASE j = at
    <3>1. i \in 1 .. at - 1
      BY <1>1, <1>6, <2>2
    <3> QED
      BY <1>2, <1>4, <2>2, <3>1
  <2>3. CASE i < at /\ j > at
    <3>1. i \in 1 .. at - 1 /\ j \in at + 1 .. n + 1 /\ j - 1 \in at .. n
          /\ i \in 1 .. n /\ j - 1 \in 1 .. n /\ i < j - 1
      BY <1>1, <2>3
    <3> QED
      BY <1>2, <1>3, <3>1
  <2>4. CASE i = at
    <3>1. j \in at + 1 .. n + 1 /\ j - 1 \in at .. n
      BY <1>1, <1>6, <2>4
    <3> QED
      BY <1>2, <1>4, <2>4, <3>1
  <2>5. CASE i > at
    <3>1. i \in at + 1 .. n + 1 /\ j \in at + 1 .. n + 1
      BY <1>1, <1>6, <2>5
    <3>2. i - 1 \in 1 .. n /\ j - 1 \in 1 .. n /\ i - 1 < j - 1
      BY <1>1, <1>6, <2>5
    <3> QED
      BY <1>2, <1>3, <3>1, <3>2
  <2> QED
    BY <1>1, <1>6, <2>1, <2>2, <2>3, <2>4, <2>5
<1> QED
  BY <1>2, <1>5, <1>6 DEF Ordered

\* Two sets of values of arrays are the same.
LEMMA SameImages ==
  ASSUME NEW A, NEW B, NEW f, NEW g,
         \A i \in A : \E j \in B : g[j] = f[i], \A j \in B : \E i \in A : f[i] = g[j]
  PROVE  {f[i] : i \in A} = {g[j] : j \in B}
<1>1. ASSUME NEW x \in {f[i] : i \in A} PROVE x \in {g[j] : j \in B}
  <2>1. PICK i \in A : x = f[i]
    OBVIOUS
  <2>2. PICK j \in B : g[j] = f[i]
    OBVIOUS
  <2> QED
    BY <2>1, <2>2
<1>2. ASSUME NEW x \in {g[j] : j \in B} PROVE x \in {f[i] : i \in A}
  <2>1. PICK j \in B : x = g[j]
    OBVIOUS
  <2>2. PICK i \in A : f[i] = g[j]
    OBVIOUS
  <2> QED
    BY <2>1, <2>2
<1> QED
  BY <1>1, <1>2

\* The values that stand at the positions of a key.
At(ks, vs, k) == {vs[i] : i \in {j \in 1 .. Len(ks) : ks[j] = k}}

\* Larger arrays with one pair more.
PairAdded(ks, vs, key, value, K, V) ==
  \A k \in Int : At(K, V, k) = IF k = key THEN {value} ELSE At(ks, vs, k)

\* ... and values stay with their keys.
LEMMA ValuesGrow ==
  ASSUME NEW ks \in Seq(Int), NEW vs \in Seq(Int), Len(vs) = Len(ks), NEW key \in Int,
         NEW value \in Int, NEW at \in 1 .. Len(ks) + 1,
         \A j \in 1 .. Len(ks) : ks[j] # key,
         NEW K \in Seq(Int), Grown(ks, at, key, K), NEW V \in Seq(Int), Grown(vs, at, value, V)
  PROVE  PairAdded(ks, vs, key, value, K, V)
<1> SUFFICES ASSUME NEW k \in Int
             PROVE  At(K, V, k) = IF k = key THEN {value} ELSE At(ks, vs, k)
  BY DEF PairAdded
<1> DEFINE n == Len(ks)
           old == {j \in 1 .. n : ks[j] = k}
           new == {j \in 1 .. n + 1 : K[j] = k}
<1>1. n \in Nat /\ at \in Nat /\ at <= n + 1 /\ 1 <= at
  OBVIOUS
<1>2. /\ Len(K) = n + 1 /\ K[at] = key /\ V[at] = value
      /\ \A j \in 1 .. at - 1 : K[j] = ks[j] /\ V[j] = vs[j]
      /\ \A j \in at + 1 .. n + 1 : K[j] = ks[j - 1] /\ V[j] = vs[j - 1]
  BY DEF Grown
<1>3. \A j \in 1 .. n : ks[j] # key
  OBVIOUS
<1>4. At(K, V, k) = {V[i] : i \in new} /\ At(ks, vs, k) = {vs[i] : i \in old}
  BY <1>2 DEF At
<1>5. CASE k = key
  <2>1. ASSUME NEW i \in 1 .. n + 1, i # at PROVE K[i] # key
    <3>1. CASE i < at
      <4>1. i \in 1 .. at - 1 /\ i \in 1 .. n
        BY <1>1, <3>1
      <4> QED
        BY <1>2, <1>3, <4>1
    <3>2. CASE i > at
      <4>1. i \in at + 1 .. n + 1 /\ i - 1 \in 1 .. n
        BY <1>1, <3>2
      <4> QED
        BY <1>2, <1>3, <4>1
    <3> QED
      BY <1>1, <2>1, <3>1, <3>2
  <2>2. at \in new /\ \A i \in new : i = at
    BY <1>1, <1>2, <1>5, <2>1
  <2> HIDE DEF new
  <2>3. {V[i] : i \in new} = {value}
    BY <1>2, <2>2
  <2> QED
    BY <1>4, <1>5, <2>3
<1>6. CASE k # key
  <2>1. ASSUME NEW j \in old
        PROVE  \E i \in new : V[i] = vs[j]
    <3>1. CASE j < at
      <4>1. j \in 1 .. at - 1 /\ j \in 1 .. n + 1
        BY <1>1, <3>1
      <4> QED
        BY <1>2, <4>1
    <3>2. CASE j >= at
      <4>1. j + 1 \in at + 1 .. n + 1 /\ (j + 1) - 1 = j /\ j + 1 \in 1 .. n + 1
        BY <1>1, <3>2
      <4>2. K[j + 1] = ks[j] /\ V[j + 1] = vs[j]
        BY <1>2, <4>1
      <4> QED
        BY <4>1, <4>2
    <3> QED
      BY <1>1, <3>1, <3>2
  <2>2. ASSUME NEW i \in new
        PROVE  \E j \in old : vs[j] = V[i]
    <3>1. CASE i < at
      <4>1. i \in 1 .. at - 1 /\ i \in 1 .. n
        BY <1>1, <3>1
      <4> QED
        BY <1>2, <4>1
    <3>2. CASE i > at
      <4>1. i \in at + 1 .. n + 1 /\ i - 1 \in 1 .. n
        BY <1>1, <3>2
      <4> QED
        BY <1>2, <4>1
    <3>3. i # at
      BY <1>2, <1>6
    <3> QED
      BY <1>1, <3>1, <3>2, <3>3
  <2> HIDE DEF old, new
  <2>3. {V[i] : i \in new} = {vs[j] : j \in old}
    <3>1. ASSUME NEW x \in {V[i] : i \in new} PROVE x \in {vs[j] : j \in old}
      <4>1. PICK i \in new : x = V[i]
        OBVIOUS
      <4>2. PICK j \in old : vs[j] = V[i]
        BY <2>2
      <4> QED
        BY <4>1, <4>2
    <3>2. ASSUME NEW x \in {vs[j] : j \in old} PROVE x \in {V[i] : i \in new}
      <4>1. PICK j \in old : x = vs[j]
        OBVIOUS
      <4>2. PICK i \in new : V[i] = vs[j]
        BY <2>1
      <4> QED
        BY <4>1, <4>2
    <3> QED
      BY <3>1, <3>2
  <2> QED
    BY <1>4, <1>6, <2>3
<1> QED
  BY <1>5, <1>6

\* A search in a leaf finds what stands at the positions of the key.
LEMMA SearchInLeaf ==
  ASSUME NEW ks \in Seq(Int), NEW vs, NEW k
  PROVE  SearchLeaf(Leaf(ks, vs), k) = At(ks, vs, k)
<1>1. DOMAIN ks = 1 .. Len(ks)
  OBVIOUS
<1>2. Leaf(ks, vs).keys = ks /\ Leaf(ks, vs).values = vs
  BY DEF Leaf
<1> QED
  BY <1>1, <1>2 DEF SearchLeaf, At

\* What the two halves of a leaf hold, with the first key of the upper one between them.
Halved(room, K, V, half) ==
  LET n == Len(K)
      p == K[half + 1]
      below == {k \in room : k < p}
      above == {k \in room : p <= k}
      LK == SubSeq(K, 1, half)
      LV == SubSeq(V, 1, half)
      RK == SubSeq(K, half + 1, n)
      RV == SubSeq(V, half + 1, n)
  IN  /\ p \in room /\ below # {}
      /\ Ordered(LK, below) /\ Len(LK) = half /\ LV \in Seq(Int) /\ Len(LV) = half
      /\ Ordered(RK, above) /\ Len(RK) = n - half /\ RV \in Seq(Int) /\ Len(RV) = n - half
      /\ \A k \in below : At(LK, LV, k) = At(K, V, k)
      /\ \A k \in above : At(RK, RV, k) = At(K, V, k)

\* A leaf is cut in two at a key.
LEMMA LeafHalves ==
  ASSUME NEW room \in SUBSET Int, NEW K, Ordered(K, room), NEW V \in Seq(Int),
         Len(V) = Len(K), NEW half \in 1 .. Len(K) - 1
  PROVE  Halved(room, K, V, half)
<1> DEFINE n == Len(K)
           p == K[half + 1]
           below == {k \in room : k < p}
           above == {k \in room : p <= k}
           LK == SubSeq(K, 1, half)
           LV == SubSeq(V, 1, half)
           RK == SubSeq(K, half + 1, n)
           RV == SubSeq(V, half + 1, n)
<1>1. /\ K \in Seq(Int) /\ n \in Nat /\ half \in Nat /\ 1 <= half /\ half + 1 <= n
      /\ half + 1 \in 1 .. n
  BY DEF Ordered
<1>2. /\ \A i \in 1 .. n : K[i] \in room /\ K[i] \in Int
      /\ \A i, j \in 1 .. n : i < j => K[i] < K[j]
  BY DEF Ordered
<1>3. /\ LK \in Seq(Int) /\ Len(LK) = half
      /\ \A i \in 1 .. half : LK[i] = K[i]
  <2>1. 1 \in 1 .. Len(K) + 1 /\ half \in 1 - 1 .. Len(K) /\ half - 1 + 1 = half
    BY <1>1
  <2>2. /\ LK \in Seq(Int) /\ Len(LK) = half - 1 + 1
        /\ \A i \in 1 .. half - 1 + 1 : LK[i] = K[1 + i - 1]
    BY <1>1, <2>1, PieceOfArray
  <2> HIDE DEF LK
  <2> QED
    BY <2>1, <2>2
<1>4. /\ LV \in Seq(Int) /\ Len(LV) = half
      /\ \A i \in 1 .. half : LV[i] = V[i]
  <2>1. 1 \in 1 .. Len(V) + 1 /\ half \in 1 - 1 .. Len(V) /\ half - 1 + 1 = half
    BY <1>1
  <2>2. /\ LV \in Seq(Int) /\ Len(LV) = half - 1 + 1
        /\ \A i \in 1 .. half - 1 + 1 : LV[i] = V[1 + i - 1]
    BY <1>1, <2>1, PieceOfArray
  <2> HIDE DEF LV
  <2> QED
    BY <2>1, <2>2
<1>5. /\ RK \in Seq(Int) /\ Len(RK) = n - half
      /\ \A i \in 1 .. n - half : RK[i] = K[half + i]
  <2>1. half + 1 \in 1 .. Len(K) + 1 /\ n \in (half + 1) - 1 .. Len(K)
        /\ n - (half + 1) + 1 = n - half /\ \A i \in Int : half + 1 + i - 1 = half + i
    BY <1>1
  <2>2. /\ RK \in Seq(Int) /\ Len(RK) = n - (half + 1) + 1
        /\ \A i \in 1 .. n - (half + 1) + 1 : RK[i] = K[half + 1 + i - 1]
    BY <1>1, <2>1, PieceOfArray
  <2> HIDE DEF RK, n
  <2> QED
    BY <2>1, <2>2
<1>6. /\ RV \in Seq(Int) /\ Len(RV) = n - half
      /\ \A i \in 1 .. n - half : RV[i] = V[half + i]
  <2>1. half + 1 \in 1 .. Len(V) + 1 /\ n \in (half + 1) - 1 .. Len(V)
        /\ n - (half + 1) + 1 = n - half /\ \A i \in Int : half + 1 + i - 1 = half + i
    BY <1>1
  <2>2. /\ RV \in Seq(Int) /\ Len(RV) = n - (half + 1) + 1
        /\ \A i \in 1 .. n - (half + 1) + 1 : RV[i] = V[half + 1 + i - 1]
    BY <1>1, <2>1, PieceOfArray
  <2> HIDE DEF RV, n
  <2> QED
    BY <2>1, <2>2
<1> HIDE DEF n, LK, LV, RK, RV
<1>7. p \in room /\ p \in Int /\ K[half] \in below
  <2>1. half \in 1 .. n /\ half < half + 1
    BY <1>1
  <2> QED
    BY <1>1, <1>2, <2>1
<1>8. Ordered(LK, below)
  <2>1. ASSUME NEW i \in 1 .. half PROVE LK[i] \in below
    <3>1. i \in 1 .. n /\ i < half + 1
      BY <1>1
    <3> QED
      BY <1>1, <1>2, <1>3, <3>1
  <2>2. ASSUME NEW i \in 1 .. half, NEW j \in 1 .. half, i < j PROVE LK[i] < LK[j]
    <3>1. i \in 1 .. n /\ j \in 1 .. n
      BY <1>1
    <3> QED
      BY <1>2, <1>3, <2>2, <3>1
  <2> QED
    BY <1>3, <2>1, <2>2 DEF Ordered
<1>9. Ordered(RK, above)
  <2>1. ASSUME NEW i \in 1 .. n - half PROVE RK[i] \in above
    <3>1. half + i \in 1 .. n /\ (half + 1 < half + i \/ half + 1 = half + i)
      BY <1>1
    <3>2. RK[i] = K[half + i] /\ K[half + i] \in room /\ K[half + i] \in Int
      BY <1>2, <1>5, <3>1
    <3>3. p <= K[half + i]
      <4>1. CASE half + 1 < half + i
        BY <1>1, <1>2, <1>7, <3>1, <3>2, <4>1
      <4>2. CASE half + 1 = half + i
        <5>1. p = K[half + i]
          BY <4>2
        <5> QED
          BY <1>7, <5>1
      <4> QED
        BY <3>1, <4>1, <4>2
    <3> QED
      BY <3>2, <3>3
  <2>2. ASSUME NEW i \in 1 .. n - half, NEW j \in 1 .. n - half, i < j PROVE RK[i] < RK[j]
    <3>1. half + i \in 1 .. n /\ half + j \in 1 .. n /\ half + i < half + j
      BY <1>1, <2>2
    <3> QED
      BY <1>2, <1>5, <3>1
  <2> QED
    BY <1>5, <2>1, <2>2 DEF Ordered
<1>10. ASSUME NEW k \in below
       PROVE  At(LK, LV, k) = At(K, V, k)
  <2> DEFINE left == {j \in 1 .. half : LK[j] = k}
             all == {j \in 1 .. n : K[j] = k}
  <2>1. At(LK, LV, k) = {LV[i] : i \in left} /\ At(K, V, k) = {V[i] : i \in all}
    BY <1>3 DEF At, n
  <2>2. ASSUME NEW i \in left PROVE i \in all /\ LV[i] = V[i]
    <3>1. i \in 1 .. n
      BY <1>1
    <3> QED
      BY <1>3, <1>4, <3>1
  <2>3. ASSUME NEW i \in all PROVE i \in left
    <3>1. ~(half + 1 <= i)
      <4>1. ASSUME half + 1 <= i PROVE FALSE
        <5>1. half + 1 = i \/ half + 1 < i
          BY <1>1, <4>1
        <5> QED
          BY <1>1, <1>2, <5>1
      <4> QED
        BY <4>1
    <3>2. i \in 1 .. half
      BY <1>1, <3>1
    <3> QED
      BY <1>3, <3>2
  <2> HIDE DEF left, all
  <2>4. {LV[i] : i \in left} = {V[i] : i \in all}
    BY <2>2, <2>3, SameImages
  <2> QED
    BY <2>1, <2>4
<1>11. ASSUME NEW k \in above
       PROVE  At(RK, RV, k) = At(K, V, k)
  <2> DEFINE right == {j \in 1 .. n - half : RK[j] = k}
             all == {j \in 1 .. n : K[j] = k}
  <2>1. At(RK, RV, k) = {RV[i] : i \in right} /\ At(K, V, k) = {V[i] : i \in all}
    BY <1>5 DEF At, n
  <2>2. ASSUME NEW i \in right PROVE \E j \in all : V[j] = RV[i]
    <3>1. half + i \in 1 .. n
      BY <1>1
    <3> QED
      BY <1>5, <1>6, <3>1
  <2>3. ASSUME NEW j \in all PROVE \E i \in right : RV[i] = V[j]
    <3>1. ~(j < half + 1)
      <4>1. j \in 1 .. n /\ K[j] = k /\ k \in Int /\ p <= k
        OBVIOUS
      <4>2. j < half + 1 => K[j] < p
        BY <1>1, <1>2, <4>1
      <4> QED
        BY <1>7, <4>1, <4>2
    <3>2. j - half \in 1 .. n - half /\ half + (j - half) = j
      BY <1>1, <3>1
    <3> QED
      BY <1>5, <1>6, <3>2
  <2> HIDE DEF right, all
  <2>4. {RV[i] : i \in right} = {V[i] : i \in all}
    BY <2>2, <2>3, SameImages
  <2> QED
    BY <2>1, <2>4
<1> QED
  BY <1>3, <1>4, <1>5, <1>6, <1>7, <1>8, <1>9, <1>10, <1>11 DEF Halved, n, LK, LV, RK, RV

\* What the three kinds of InsertState say.
LEMMA StateFields ==
  /\ \A node, spare : LET r == Done(node, spare)
                      IN r.ok = TRUE /\ r.split = FALSE /\ r.node = node /\ r.spare = spare
  /\ \A left, key, right, spare :
       LET r == Split(left, key, right, spare)
       IN /\ r.ok = TRUE /\ r.split = TRUE /\ r.node = left /\ r.promoted = key
          /\ r.right = right /\ r.spare = spare
  /\ \A node : LET r == Error(node)
               IN r.ok = FALSE /\ r.split = FALSE /\ r.node = node /\ r.spare = 0
BY DEF Done, Split, Error

\* A failure keeps the promise if it has a reason and leaves arrays behind.
LEMMA ErrorPost ==
  ASSUME NEW h \in Nat, NEW node, NEW room, NEW key, NEW value, NEW spare \in Nat, NEW left,
         left \in Nodes[h], Search(key)[h][node] # {} => left = node,
         Search(key)[h][node] = {} => ~(spare > h)
  PROVE  InsertPost(h, node, room, key, value, spare, Error(left))
<1> DEFINE r == Error(left)
<1>1. r.ok = FALSE /\ r.split = FALSE /\ r.node = left /\ r.spare = 0
  BY StateFields
<1> HIDE DEF r
<1>2. ~r.ok /\ r.ok \in BOOLEAN /\ r.split \in BOOLEAN
  BY <1>1
<1>3. r.spare \in Nat /\ r.node = left
  BY <1>1
<1>4. InsertPost(h, node, room, key, value, spare, r)
  BY <1>2, <1>3, Zenon DEF InsertPost
<1> QED
  BY <1>4 DEF r

\* A node is split only when it has one key too many: each half gets some.
LEMMA HalfOf ==
  ASSUME NEW n \in Nat, n = MaxKeys + 1
  PROVE  /\ n \div 2 \in 1 .. n - 1 /\ n - (n \div 2) \in 1 .. MaxKeys
         /\ n \div 2 \in 1 .. MaxKeys
         /\ (n \div 2) + 1 \in 2 .. n - 1
BY TreeAssumption

\* insert_into_leaf keeps the promise.
LEMMA LeafKeepsPromise ==
  ASSUME NEW room \in SUBSET Int, NEW node \in Balanced[0][room],
         NEW key \in room, NEW value \in Int, NEW spare \in Nat
  PROVE  InsertPost(0, node, room, key, value, spare, InsertIntoLeaf(node, key, value, spare))
<1> DEFINE at == LeafIndex(node, key)
           ks == node.keys
           vs == node.values
           K == InsertAt(ks, at, key)
           V == InsertAt(vs, at, value)
           grown == Leaf(K, V)
           r == InsertIntoLeaf(node, key, value, spare)
<1>1. /\ Ordered(ks, room) /\ Len(ks) \in 1 .. MaxKeys /\ vs \in Seq(Int)
      /\ Len(vs) = Len(ks) /\ node \in Nodes[0]
  BY BalancedLeaf
<1>2. ks \in Seq(Int) /\ key \in Int /\ node = Leaf(ks, vs) /\ Len(ks) \in Nat
  BY <1>1, LeafFields DEF Ordered
<1>3. /\ at \in 1 .. Len(ks) + 1
      /\ \A j \in 1 .. at - 1 : ks[j] < key
      /\ at <= Len(ks) => key <= ks[at]
  BY <1>2, LeafIndexFound
<1>4. \A k : Search(k)[0][node] = At(ks, vs, k)
  <2>1. \A k : Search(k)[0][node] = SearchLeaf(node, k)
    BY <1>1, SearchByHeight
  <2>2. \A k : SearchLeaf(Leaf(ks, vs), k) = At(ks, vs, k)
    BY <1>2, SearchInLeaf
  <2> QED
    BY <1>2, <2>1, <2>2
<1> HIDE DEF at, ks, vs
<1>5. r = IF at <= Len(ks) /\ ks[at] = key THEN Error(node)
          ELSE IF LeafHasRoom(grown) THEN Done(grown, spare)
          ELSE IF spare = 0 THEN Error(grown)
          ELSE SplitLeaf(grown, spare)
  BY DEF InsertIntoLeaf, at, ks, vs
<1> SUFFICES InsertPost(0, node, room, key, value, spare, r)
  OBVIOUS
<1> HIDE DEF r
<1>6. CASE at <= Len(ks) /\ ks[at] = key
  <2>1. r = Error(node)
    BY <1>5, <1>6
  <2>2. Search(key)[0][node] # {}
    <3>1. at \in {j \in 1 .. Len(ks) : ks[j] = key}
      BY <1>2, <1>3, <1>6
    <3>2. vs[at] \in At(ks, vs, key)
      BY <3>1 DEF At
    <3> QED
      BY <1>4, <3>2
  <2> QED
    BY <1>1, <2>1, <2>2, ErrorPost
<1>7. CASE ~(at <= Len(ks) /\ ks[at] = key)
  <2>1. /\ K \in Seq(Int) /\ Grown(ks, at, key, K)
    BY <1>2, <1>3, InsertAtGrows
  <2>2. /\ V \in Seq(Int) /\ Grown(vs, at, value, V)
    <3>1. at \in 1 .. Len(vs) + 1
      BY <1>1, <1>3
    <3> QED
      BY <1>1, <3>1, InsertAtGrows
  <2> HIDE DEF K, V
  <2>3. \A j \in at .. Len(ks) : key < ks[j]
    <3>1. ASSUME NEW j \in at .. Len(ks) PROVE key < ks[j]
      <4>1. at \in 1 .. Len(ks) /\ j \in 1 .. Len(ks) /\ (j = at \/ at < j)
        BY <1>2, <1>3
      <4>2. key < ks[at] /\ ks[at] \in Int /\ ks[j] \in Int
        BY <1>2, <1>3, <1>7, <4>1
      <4>3. at < j => ks[at] < ks[j]
        BY <1>1, <4>1 DEF Ordered
      <4> QED
        BY <1>2, <4>1, <4>2, <4>3
    <3> QED
      BY <3>1
  <2>4. Ordered(K, room)
    BY <1>1, <1>2, <1>3, <2>1, <2>3, KeysGrow
  <2>5. \A j \in 1 .. Len(ks) : ks[j] # key
    <3>1. ASSUME NEW j \in 1 .. Len(ks) PROVE ks[j] # key
      <4>1. ks[j] \in Int /\ (j \in 1 .. at - 1 \/ j \in at .. Len(ks))
        BY <1>2, <1>3
      <4> QED
        BY <1>2, <1>3, <2>3, <4>1
    <3> QED
      BY <3>1
  <2>6. Search(key)[0][node] = {}
    BY <1>4, <2>5 DEF At
  <2>p. PairAdded(ks, vs, key, value, K, V)
    BY <1>1, <1>2, <1>3, <2>1, <2>2, <2>5, ValuesGrow
  <2>7. \A k \in room : At(K, V, k) = Wanted(0, node, key, value, k)
    <3>1. ASSUME NEW k \in room PROVE At(K, V, k) = Wanted(0, node, key, value, k)
      <4>1. k \in Int
        OBVIOUS
      <4> QED
        BY <1>4, <2>p, <4>1 DEF Wanted, PairAdded
    <3> QED
      BY <3>1
  <2>8. Len(K) = Len(ks) + 1 /\ Len(V) = Len(K) /\ grown.keys = K /\ grown.values = V
    BY <1>1, <2>1, <2>2 DEF Grown, Leaf
  <2>9. CASE LeafHasRoom(grown)
    <3>1. r = Done(grown, spare)
      BY <1>5, <1>7, <2>9
    <3>2. r.ok = TRUE /\ r.split = FALSE /\ r.node = grown /\ r.spare = spare
      BY <3>1, StateFields
    <3>3. grown \in Balanced[0][room]
      <4>1. Len(K) \in 1 .. MaxKeys
        BY <1>1, <2>8, <2>9, TreeAssumption DEF LeafHasRoom
      <4> QED
        BY <2>1, <2>2, <2>4, <2>8, <4>1, BalancedLeaf
    <3>4. ASSUME NEW k \in room
          PROVE  Search(k)[0][grown] = Wanted(0, node, key, value, k)
      <4>1. Search(k)[0][grown] = SearchLeaf(grown, k)
        BY <3>3, BalancedLeaf, SearchByHeight
      <4>2. SearchLeaf(grown, k) = At(K, V, k)
        BY <2>1, SearchInLeaf
      <4> QED
        BY <2>7, <4>1, <4>2
    <3> HIDE DEF grown
    <3> QED
      BY <2>6, <3>2, <3>3, <3>4 DEF InsertPost
  <2>10. CASE ~LeafHasRoom(grown) /\ spare = 0
    <3>1. r = Error(grown)
      BY <1>5, <1>7, <2>10
    <3>2. grown \in Nodes[0]
      <4>1. Len(K) <= MaxKeys + 1
        BY <1>1, <2>8, TreeAssumption
      <4> QED
        BY <2>1, <2>2, <2>8, <4>1, LeafFields
    <3> HIDE DEF grown
    <3> QED
      <4>1. ~(spare > 0)
        BY <2>10
      <4> QED
        BY <2>6, <3>1, <3>2, <4>1, ErrorPost
  <2>11. CASE ~LeafHasRoom(grown) /\ spare # 0
    <3> DEFINE n == Len(K)
               half == n \div 2
               p == K[half + 1]
               left == Leaf(SubSeq(K, 1, half), SubSeq(V, 1, half))
               right == Leaf(SubSeq(K, half + 1, n), SubSeq(V, half + 1, n))
               below == {k \in room : k < p}
               above == {k \in room : p <= k}
    <3>1. r = SplitLeaf(grown, spare)
      BY <1>5, <1>7, <2>11
    <3>2. r = Split(left, p, right, spare - 1)
      BY <2>8, <3>1 DEF SplitLeaf
    <3>3. n \in Nat /\ n = MaxKeys + 1
      BY <1>1, <2>1, <2>8, <2>11, TreeAssumption DEF LeafHasRoom
    <3>4. half \in 1 .. n - 1 /\ half \in 1 .. MaxKeys /\ n - half \in 1 .. MaxKeys
      BY <3>3, HalfOf
    <3> HIDE DEF grown, n, half
    <3>5. /\ p \in room /\ below # {}
          /\ Ordered(SubSeq(K, 1, half), below) /\ Len(SubSeq(K, 1, half)) = half
          /\ SubSeq(V, 1, half) \in Seq(Int) /\ Len(SubSeq(V, 1, half)) = half
          /\ Ordered(SubSeq(K, half + 1, n), above) /\ Len(SubSeq(K, half + 1, n)) = n - half
          /\ SubSeq(V, half + 1, n) \in Seq(Int) /\ Len(SubSeq(V, half + 1, n)) = n - half
          /\ \A k \in below : At(SubSeq(K, 1, half), SubSeq(V, 1, half), k) = At(K, V, k)
          /\ \A k \in above : At(SubSeq(K, half + 1, n), SubSeq(V, half + 1, n), k) = At(K, V, k)
      <4>1. Halved(room, K, V, half)
        BY <2>2, <2>4, <2>8, <3>4, LeafHalves DEF n
      <4> QED
        BY <4>1 DEF Halved, n
    <3> DEFINE LK == SubSeq(K, 1, half)
               LV == SubSeq(V, 1, half)
               RK == SubSeq(K, half + 1, n)
               RV == SubSeq(V, half + 1, n)
    <3>6. below \in SUBSET Int /\ above \in SUBSET Int /\ LK \in Seq(Int) /\ RK \in Seq(Int)
      BY <3>5 DEF Ordered
    <3>7. left \in Balanced[0][below] /\ right \in Balanced[0][above]
      <4> HIDE DEF LK, LV, RK, RV, below, above
      <4>1. left = Leaf(LK, LV) /\ right = Leaf(RK, RV)
        BY DEF LK, LV, RK, RV
      <4>2. /\ Ordered(LK, below) /\ Len(LK) = half /\ LV \in Seq(Int) /\ Len(LV) = half
            /\ Ordered(RK, above) /\ Len(RK) = n - half /\ RV \in Seq(Int) /\ Len(RV) = n - half
        BY <3>5 DEF LK, LV, RK, RV
      <4> HIDE DEF left, right
      <4> QED
        BY <3>4, <3>6, <4>1, <4>2, BalancedLeaf
    <3>8. ASSUME NEW k \in below
          PROVE  Search(k)[0][left] = Wanted(0, node, key, value, k)
      <4>1. Search(k)[0][left] = SearchLeaf(left, k)
        <5> HIDE DEF left, below
        <5> QED
          BY <3>6, <3>7, BalancedLeaf, SearchByHeight
      <4>2. SearchLeaf(left, k) = At(LK, LV, k)
        BY <3>6, SearchInLeaf
      <4> QED
        BY <2>7, <3>5, <4>1, <4>2
    <3>9. ASSUME NEW k \in above
          PROVE  Search(k)[0][right] = Wanted(0, node, key, value, k)
      <4>1. Search(k)[0][right] = SearchLeaf(right, k)
        <5> HIDE DEF right, above
        <5> QED
          BY <3>6, <3>7, BalancedLeaf, SearchByHeight
      <4>2. SearchLeaf(right, k) = At(RK, RV, k)
        BY <3>6, SearchInLeaf
      <4> QED
        BY <2>7, <3>5, <4>1, <4>2
    <3>10. p \in room /\ below # {}
      BY <3>5
    <3> HIDE DEF left, right, p, LK, LV, RK, RV
    <3>11. /\ r.ok = TRUE /\ r.split = TRUE /\ r.node = left /\ r.promoted = p
           /\ r.right = right /\ r.spare = spare - 1
      BY <3>2, StateFields
    <3>12. r.spare \in Nat /\ r.spare + 0 + 1 >= spare
      BY <2>11, <3>11
    <3> QED
      BY <2>6, <3>7, <3>8, <3>9, <3>10, <3>11, <3>12 DEF InsertPost
  <2> QED
    BY <2>9, <2>10, <2>11
<1> QED
  BY <1>6, <1>7

-----------------------------------------------------------------------------
(* Inserting into an inner node. *)

\* The ids of a room between the separators around child i.
Slot(keys, i, room) ==
  {k \in room : /\ i > 1 => keys[i - 1] <= k
                /\ i <= Len(keys) => k < keys[i]}

\* A balanced subtree in which the search for each id of a room finds want[id].
Part(h, node, room, want) ==
  /\ node \in Balanced[h][room]
  /\ \A k \in room : Search(k)[h][node] = want[k]

\* The arrays of an inner node, whose children are such subtrees.
Parts(h, keys, children, room, want) ==
  /\ Ordered(keys, room)
  /\ children \in Seq(Nodes[h]) /\ Len(children) = Len(keys) + 1
  /\ \A i \in 1 .. Len(keys) + 1 : Part(h, children[i], Slot(keys, i, room), want)

\* Every id of the room is in one slot, that of the child it is looked for in.
LEMMA SlotOfKey ==
  ASSUME NEW room \in SUBSET Int, NEW node, Ordered(node.keys, room), NEW k \in room
  PROVE  /\ ChildIndex(node, k) \in 1 .. Len(node.keys) + 1
         /\ k \in Slot(node.keys, ChildIndex(node, k), room)
         /\ \A i \in 1 .. Len(node.keys) + 1 :
              k \in Slot(node.keys, i, room) => i = ChildIndex(node, k)
<1> DEFINE c == ChildIndex(node, k)
           ks == node.keys
           n == Len(ks)
<1>1. ks \in Seq(Int) /\ n \in Nat /\ k \in Int
  BY DEF Ordered
<1>2. /\ c \in 1 .. n + 1
      /\ \A j \in 1 .. c - 1 : ks[j] <= k
      /\ c <= n => k < ks[c]
  BY <1>1, ChildIndexFound
<1>3. /\ \A i \in 1 .. n : ks[i] \in Int
      /\ \A i, j \in 1 .. n : i < j => ks[i] < ks[j]
  BY DEF Ordered
<1> HIDE DEF c, ks, n
<1>4. k \in Slot(ks, c, room)
  <2>1. c > 1 => c - 1 \in 1 .. c - 1
    BY <1>2
  <2> QED
    BY <1>2, <2>1 DEF Slot, n
<1>5. ASSUME NEW i \in 1 .. n + 1, k \in Slot(ks, i, room)
      PROVE  i = c
  <2>1. (i > 1 => ks[i - 1] <= k) /\ (i <= n => k < ks[i])
    BY <1>5 DEF Slot, n
  <2>2. ~(i < c)
    <3>1. ASSUME i < c PROVE FALSE
      <4>1. i \in 1 .. c - 1 /\ i \in 1 .. n /\ i <= n
        BY <1>1, <1>2, <3>1
      <4> QED
        BY <1>1, <1>2, <1>3, <2>1, <4>1
    <3> QED
      BY <3>1
  <2>3. ~(i > c)
    <3>1. ASSUME i > c PROVE FALSE
      <4>1. i > 1 /\ c \in 1 .. n /\ c <= n /\ i - 1 \in 1 .. n /\ (c = i - 1 \/ c < i - 1)
        BY <1>1, <1>2, <3>1
      <4>2. k < ks[c] /\ ks[i - 1] <= k /\ ks[c] \in Int /\ ks[i - 1] \in Int
        BY <1>2, <1>3, <2>1, <4>1
      <4>3. c = i - 1 \/ ks[c] < ks[i - 1]
        BY <1>3, <4>1
      <4> QED
        BY <1>1, <4>2, <4>3
    <3> QED
      BY <3>1
  <2> QED
    BY <1>1, <1>2, <2>2, <2>3
<1> QED
  BY <1>2, <1>4, <1>5 DEF c, ks, n

\* Arrays of parts make a part, if there are not too many.
LEMMA PartsMakePart ==
  ASSUME NEW h \in Nat, NEW room \in SUBSET Int, NEW keys, NEW children, NEW want,
         Parts(h, keys, children, room, want)
  PROVE  /\ keys \in Seq(Int) /\ Len(keys) \in Nat
         /\ Len(keys) <= MaxKeys + 1 => Inner(keys, children) \in Nodes[h + 1]
         /\ Len(keys) \in 1 .. MaxKeys => Part(h + 1, Inner(keys, children), room, want)
<1> DEFINE node == Inner(keys, children)
<1>1. /\ Ordered(keys, room) /\ keys \in Seq(Int) /\ Len(keys) \in Nat
      /\ children \in Seq(Nodes[h]) /\ Len(children) = Len(keys) + 1
      /\ \A i \in 1 .. Len(keys) + 1 : Part(h, children[i], Slot(keys, i, room), want)
  BY DEF Parts, Ordered
<1>2. node.keys = keys /\ node.children = children
  BY DEF Inner
<1>3. Len(keys) <= MaxKeys + 1 => node \in Nodes[h + 1]
  BY <1>1, InnerFields
<1> HIDE DEF node
<1>4. ASSUME Len(keys) \in 1 .. MaxKeys
      PROVE  Part(h + 1, node, room, want)
  <2>1. node \in Nodes[h + 1]
    BY <1>3, <1>4, TreeAssumption
  <2>2. DOMAIN keys = 1 .. Len(keys) /\ DOMAIN children = 1 .. Len(keys) + 1
    BY <1>1
  <2>3. InShape(node, room)
    BY <1>1, <1>2, <1>4, <2>2 DEF InShape, Ordered
  <2>4. ASSUME NEW i \in DOMAIN node.children
        PROVE  node.children[i] \in Balanced[h][Room(node, i, room)]
    <3>1. Room(node, i, room) = Slot(keys, i, room)
      BY <1>2 DEF Room, Slot
    <3> QED
      BY <1>1, <1>2, <2>2, <3>1 DEF Part
  <2>5. node \in Balanced[h + 1][room]
    BY <2>1, <2>3, <2>4, BalancedByHeight
  <2>6. ASSUME NEW k \in room
        PROVE  Search(k)[h + 1][node] = want[k]
    <3> DEFINE c == ChildIndex(node, k)
    <3>1. c \in 1 .. Len(keys) + 1 /\ k \in Slot(keys, c, room)
      BY <1>1, <1>2, SlotOfKey
    <3> HIDE DEF c
    <3>2. Search(k)[h][children[c]] = want[k]
      BY <1>1, <3>1 DEF Part
    <3>3. Search(k)[h + 1][node] = Search(k)[h][node.children[c]]
      BY <2>1, SearchByHeight DEF c
    <3> QED
      BY <1>2, <3>2, <3>3
  <2> QED
    BY <2>5, <2>6 DEF Part
<1> QED
  BY <1>1, <1>3, <1>4 DEF node

\* A balanced inner node has such arrays, for what its search finds.
LEMMA PartHasParts ==
  ASSUME NEW h \in Nat, NEW room \in SUBSET Int, NEW node \in Balanced[h + 1][room], NEW want,
         \A k \in room : want[k] = Search(k)[h + 1][node]
  PROVE  /\ Parts(h, node.keys, node.children, room, want)
         /\ Len(node.keys) \in 1 .. MaxKeys
         /\ node \in Nodes[h + 1] /\ node = Inner(node.keys, node.children)
<1> DEFINE keys == node.keys
           children == node.children
<1>1. /\ node \in Nodes[h + 1] /\ InShape(node, room)
      /\ \A i \in DOMAIN children : children[i] \in Balanced[h][Room(node, i, room)]
  BY BalancedByHeight
<1>2. /\ keys \in Seq(Int) /\ children \in Seq(Nodes[h]) /\ Len(children) = Len(keys) + 1
      /\ node = Inner(keys, children)
  BY <1>1, InnerFields
<1>3. DOMAIN keys = 1 .. Len(keys) /\ DOMAIN children = 1 .. Len(keys) + 1
  BY <1>2
<1>4. Ordered(keys, room) /\ Len(keys) \in 1 .. MaxKeys
  BY <1>1, <1>2, <1>3 DEF InShape, Ordered
<1>5. ASSUME NEW i \in 1 .. Len(keys) + 1
      PROVE  Part(h, children[i], Slot(keys, i, room), want)
  <2>1. Room(node, i, room) = Slot(keys, i, room)
    BY DEF Room, Slot
  <2>2. children[i] \in Balanced[h][Slot(keys, i, room)]
    BY <1>1, <1>3, <2>1
  <2>3. ASSUME NEW k \in Slot(keys, i, room)
        PROVE  Search(k)[h][children[i]] = want[k]
    <3>1. k \in room
      BY DEF Slot
    <3>2. i = ChildIndex(node, k)
      BY <1>4, <3>1, SlotOfKey
    <3>3. Search(k)[h + 1][node] = Search(k)[h][children[ChildIndex(node, k)]]
      BY <1>1, SearchByHeight
    <3> QED
      BY <3>1, <3>2, <3>3
  <2> QED
    BY <2>2, <2>3 DEF Part
<1> HIDE DEF keys, children
<1>6. Parts(h, keys, children, room, want)
  BY <1>2, <1>4, <1>5 DEF Parts
<1> QED
  BY <1>1, <1>2, <1>4, <1>6 DEF keys, children

\* Balanced nodes are nodes.
LEMMA BalancedNodes ==
  ASSUME NEW h \in Nat, NEW room \in SUBSET Int, NEW node \in Balanced[h][room]
  PROVE  node \in Nodes[h]
<1>1. CASE h = 0
  BY <1>1, BalancedByHeight
<1>2. CASE h # 0
  <2>1. h - 1 \in Nat /\ (h - 1) + 1 = h
    BY <1>2
  <2>2. node \in Balanced[(h - 1) + 1][room]
    BY <2>1
  <2>3. node \in Nodes[(h - 1) + 1]
    BY <2>1, <2>2, BalancedByHeight
  <2> QED
    BY <2>1, <2>3
<1> QED
  BY <1>1, <1>2

\* A child may be replaced by another part for the same slot.
LEMMA PartReplaced ==
  ASSUME NEW h \in Nat, NEW room \in SUBSET Int, NEW keys, NEW children, NEW want,
         Ordered(keys, room), children \in Seq(Nodes[h]), Len(children) = Len(keys) + 1,
         NEW at \in 1 .. Len(keys) + 1,
         \A i \in 1 .. Len(keys) + 1 :
           i # at => Part(h, children[i], Slot(keys, i, room), want),
         NEW new, Part(h, new, Slot(keys, at, room), want)
  PROVE  Parts(h, keys, [children EXCEPT ![at] = new], room, want)
<1> DEFINE kept == [children EXCEPT ![at] = new]
<1>1. new \in Nodes[h]
  <2>1. Slot(keys, at, room) \in SUBSET Int /\ new \in Balanced[h][Slot(keys, at, room)]
    BY DEF Slot, Part
  <2> QED
    BY <2>1, BalancedNodes
<1>2. at \in 1 .. Len(children)
  OBVIOUS
<1>3. /\ kept \in Seq(Nodes[h]) /\ Len(kept) = Len(children) /\ kept[at] = new
      /\ \A j \in 1 .. Len(children) : j # at => kept[j] = children[j]
  <2>1. kept \in Seq(Nodes[h]) /\ Replaced(children, at, new, kept)
    BY <1>1, <1>2, PutInArray
  <2> HIDE DEF kept
  <2> QED
    BY <2>1 DEF Replaced
<1> HIDE DEF kept
<1>4. ASSUME NEW i \in 1 .. Len(keys) + 1
      PROVE  Part(h, kept[i], Slot(keys, i, room), want)
  <2>1. CASE i = at
    BY <1>3, <2>1
  <2>2. CASE i # at
    BY <1>3, <2>2
  <2> QED
    BY <2>1, <2>2
<1>5. Parts(h, keys, kept, room, want)
  BY <1>3, <1>4 DEF Parts
<1> QED
  BY <1>5 DEF kept

\* The slots after a new separator has been put in its place.
LEMMA SlotsGrow ==
  ASSUME NEW room \in SUBSET Int, NEW ks \in Seq(Int), Ordered(ks, room),
         NEW at \in 1 .. Len(ks) + 1, NEW p \in Slot(ks, at, room),
         NEW K \in Seq(Int), Grown(ks, at, p, K)
  PROVE  /\ \A i \in 1 .. at - 1 : Slot(K, i, room) = Slot(ks, i, room)
         /\ Slot(K, at, room) = {k \in Slot(ks, at, room) : k < p}
         /\ Slot(K, at + 1, room) = {k \in Slot(ks, at, room) : p <= k}
         /\ \A i \in at + 2 .. Len(ks) + 2 : Slot(K, i, room) = Slot(ks, i - 1, room)
<1> DEFINE n == Len(ks)
<1>1. n \in Nat /\ at \in Nat /\ 1 <= at /\ at <= n + 1
  OBVIOUS
<1>2. /\ Len(K) = n + 1 /\ K[at] = p
      /\ \A j \in 1 .. at - 1 : K[j] = ks[j]
      /\ \A j \in at + 1 .. n + 1 : K[j] = ks[j - 1]
  BY DEF Grown
<1>3. \A i \in 1 .. n : ks[i] \in Int
  OBVIOUS
<1>4. p \in Int /\ p \in room /\ (at > 1 => ks[at - 1] <= p) /\ (at <= n => p < ks[at])
  BY DEF Slot
<1>5. \A i : Slot(ks, i, room) = {k \in room : (i > 1 => ks[i - 1] <= k) /\ (i <= n => k < ks[i])}
  BY DEF Slot
<1>6. \A i : Slot(K, i, room) = {k \in room : (i > 1 => K[i - 1] <= k) /\ (i <= n + 1 => k < K[i])}
  BY <1>2 DEF Slot
<1> HIDE DEF n
<1>7. ASSUME NEW i \in 1 .. at - 1
      PROVE  Slot(K, i, room) = Slot(ks, i, room)
  <2>1. K[i] = ks[i] /\ i <= n /\ i <= n + 1 /\ (i > 1 => K[i - 1] = ks[i - 1])
    <3>1. i > 1 => i - 1 \in 1 .. at - 1
      BY <1>1
    <3>2. i <= n /\ i <= n + 1
      BY <1>1
    <3> QED
      BY <1>2, <3>1, <3>2
  <2> QED
    BY <1>5, <1>6, <2>1
<1>8. Slot(K, at, room) = {k \in Slot(ks, at, room) : k < p}
  <2>1. K[at] = p /\ at <= n + 1 /\ (at > 1 => K[at - 1] = ks[at - 1])
    <3>1. at > 1 => at - 1 \in 1 .. at - 1
      BY <1>1
    <3> QED
      BY <1>1, <1>2, <3>1
  <2>2. \A k \in room : k < p => (at <= n => k < ks[at])
    <3>1. at <= n => ks[at] \in Int
      BY <1>1, <1>3
    <3> QED
      BY <1>4, <3>1
  <2> QED
    BY <1>5, <1>6, <2>1, <2>2
<1>9. Slot(K, at + 1, room) = {k \in Slot(ks, at, room) : p <= k}
  <2>1. at + 1 > 1 /\ (at + 1) - 1 = at /\ (at + 1 <= n + 1 <=> at <= n)
        /\ (at <= n => K[at + 1] = ks[at])
    <3>1. at <= n => at + 1 \in at + 1 .. n + 1 /\ (at + 1) - 1 = at
      BY <1>1
    <3> QED
      BY <1>1, <1>2, <3>1
  <2>2. \A k \in room : p <= k => (at > 1 => ks[at - 1] <= k)
    <3>1. at > 1 => ks[at - 1] \in Int
      BY <1>1, <1>3
    <3> QED
      BY <1>4, <3>1
  <2>3. Slot(K, at + 1, room) = {k \in room : p <= k /\ (at <= n => k < ks[at])}
    BY <1>2, <1>6, <2>1
  <2> QED
    BY <1>5, <2>2, <2>3
<1>10. ASSUME NEW i \in at + 2 .. n + 2
       PROVE  Slot(K, i, room) = Slot(ks, i - 1, room)
  <2>1. i > 1 /\ i - 1 > 1 /\ K[i - 1] = ks[(i - 1) - 1]
    <3>1. i - 1 \in at + 1 .. n + 1 /\ i > 1 /\ i - 1 > 1
      BY <1>1
    <3>2. K[i - 1] = ks[(i - 1) - 1]
      BY <1>2, <3>1
    <3> QED
      BY <3>1, <3>2
  <2>2. (i <= n + 1 <=> i - 1 <= n) /\ (i <= n + 1 => K[i] = ks[i - 1])
    <3>1. i <= n + 1 => i \in at + 1 .. n + 1
      BY <1>1
    <3> QED
      BY <1>1, <1>2, <3>1
  <2> QED
    BY <1>5, <1>6, <2>1, <2>2
<1> QED
  BY <1>7, <1>8, <1>9, <1>10 DEF n

\* A child may be replaced by two parts that share its slot at a new separator.
LEMMA PartSplit ==
  ASSUME NEW h \in Nat, NEW room \in SUBSET Int, NEW ks, NEW cs, NEW want,
         Ordered(ks, room), cs \in Seq(Nodes[h]), Len(cs) = Len(ks) + 1,
         NEW at \in 1 .. Len(ks) + 1,
         \A i \in 1 .. Len(ks) + 1 : i # at => Part(h, cs[i], Slot(ks, i, room), want),
         NEW p \in Slot(ks, at, room), {k \in Slot(ks, at, room) : k < p} # {},
         NEW left, Part(h, left, {k \in Slot(ks, at, room) : k < p}, want),
         NEW right, Part(h, right, {k \in Slot(ks, at, room) : p <= k}, want)
  PROVE  LET K == InsertAt(ks, at, p)
             C == InsertAt([cs EXCEPT ![at] = left], at + 1, right)
         IN  Parts(h, K, C, room, want) /\ Len(K) = Len(ks) + 1
<1> DEFINE slot == Slot(ks, at, room)
           below == {k \in slot : k < p}
           above == {k \in slot : p <= k}
           kept == [cs EXCEPT ![at] = left]
           K == InsertAt(ks, at, p)
           C == InsertAt(kept, at + 1, right)
           n == Len(ks)
<1>1. n \in Nat /\ ks \in Seq(Int) /\ at \in Nat /\ 1 <= at /\ at <= n + 1 /\ at \in 1 .. Len(cs)
  BY DEF Ordered
<1>2. /\ slot \in SUBSET room /\ below \in SUBSET Int /\ above \in SUBSET Int
      /\ p \in Int /\ p \in room
  BY DEF Slot
<1>3. left \in Nodes[h] /\ right \in Nodes[h]
  <2>1. left \in Balanced[h][below] /\ right \in Balanced[h][above]
    BY DEF Part
  <2> HIDE DEF below, above
  <2> QED
    BY <1>2, <2>1, BalancedNodes
<1>4. /\ kept \in Seq(Nodes[h]) /\ Len(kept) = n + 1 /\ kept[at] = left
      /\ \A j \in 1 .. n + 1 : j # at => kept[j] = cs[j]
  <2>1. kept \in Seq(Nodes[h]) /\ Replaced(cs, at, left, kept)
    BY <1>1, <1>3, PutInArray
  <2> HIDE DEF kept
  <2> QED
    BY <2>1 DEF Replaced
<1>5. K \in Seq(Int) /\ Grown(ks, at, p, K)
  BY <1>1, <1>2, InsertAtGrows
<1> HIDE DEF kept
<1>6. C \in Seq(Nodes[h]) /\ Grown(kept, at + 1, right, C)
  <2>1. at + 1 \in 1 .. Len(kept) + 1
    BY <1>1, <1>4
  <2> QED
    BY <1>3, <1>4, <2>1, InsertAtGrows
<1>7. /\ Len(C) = n + 2 /\ C[at] = left /\ C[at + 1] = right
      /\ \A j \in 1 .. at - 1 : C[j] = cs[j]
      /\ \A j \in at + 2 .. n + 2 : C[j] = cs[j - 1]
  <2>1. /\ Len(C) = (n + 1) + 1 /\ C[at + 1] = right
        /\ \A j \in 1 .. (at + 1) - 1 : C[j] = kept[j]
        /\ \A j \in (at + 1) + 1 .. (n + 1) + 1 : C[j] = kept[j - 1]
    BY <1>4, <1>6 DEF Grown
  <2> HIDE DEF C, n
  <2>2. at \in 1 .. (at + 1) - 1 /\ (n + 1) + 1 = n + 2
    BY <1>1
  <2>3. ASSUME NEW j \in 1 .. at - 1 PROVE C[j] = cs[j]
    <3>1. j \in 1 .. (at + 1) - 1 /\ j \in 1 .. n + 1 /\ j # at
      BY <1>1
    <3> QED
      BY <1>4, <2>1, <3>1
  <2>4. ASSUME NEW j \in at + 2 .. n + 2 PROVE C[j] = cs[j - 1]
    <3>1. j \in (at + 1) + 1 .. (n + 1) + 1 /\ j - 1 \in 1 .. n + 1 /\ j - 1 # at
      BY <1>1
    <3> QED
      BY <1>4, <2>1, <3>1
  <2> QED
    BY <1>4, <2>1, <2>2, <2>3, <2>4
<1> HIDE DEF C, K, n
<1>8. /\ \A i \in 1 .. at - 1 : Slot(K, i, room) = Slot(ks, i, room)
      /\ Slot(K, at, room) = below
      /\ Slot(K, at + 1, room) = above
      /\ \A i \in at + 2 .. n + 2 : Slot(K, i, room) = Slot(ks, i - 1, room)
  BY <1>1, <1>5, SlotsGrow DEF n
<1>9. Ordered(K, room)
  <2>1. /\ \A j \in 1 .. n : ks[j] \in Int
        /\ \A i, j \in 1 .. n : i < j => ks[i] < ks[j]
    BY <1>1 DEF n, Ordered
  <2>2. PICK k \in slot : k < p
    OBVIOUS
  <2>3. /\ k \in Int /\ (at > 1 => ks[at - 1] <= k) /\ (at <= n => p < ks[at])
    BY <1>2 DEF Slot, n
  <2>4. ASSUME NEW j \in 1 .. at - 1 PROVE ks[j] < p
    <3>1. j \in 1 .. n /\ at - 1 \in 1 .. n /\ at > 1 /\ (j = at - 1 \/ j < at - 1)
      BY <1>1
    <3>2. ks[j] \in Int /\ ks[at - 1] \in Int /\ (j = at - 1 \/ ks[j] < ks[at - 1])
      BY <2>1, <3>1
    <3>3. ks[at - 1] <= k
      BY <2>3, <3>1
    <3>4. ks[at - 1] < p
      BY <1>2, <2>2, <2>3, <3>2, <3>3
    <3> QED
      BY <1>2, <3>2, <3>4
  <2>5. ASSUME NEW j \in at .. n PROVE p < ks[j]
    <3>1. j \in 1 .. n /\ at \in 1 .. n /\ at <= n /\ (j = at \/ at < j)
      BY <1>1
    <3>2. ks[j] \in Int /\ ks[at] \in Int /\ (j = at \/ ks[at] < ks[j])
      BY <2>1, <3>1
    <3>3. p < ks[at]
      BY <2>3, <3>1
    <3> QED
      BY <1>2, <3>2, <3>3
  <2> QED
    BY <1>1, <1>2, <1>5, <2>4, <2>5, KeysGrow DEF n
<1>10. Len(K) = n + 1
  BY <1>5 DEF Grown, n
<1>11. ASSUME NEW i \in 1 .. n + 2
       PROVE  Part(h, C[i], Slot(K, i, room), want)
  <2>1. CASE i \in 1 .. at - 1
    <3>1. i \in 1 .. Len(ks) + 1 /\ i # at
      BY <1>1, <2>1 DEF n
    <3> QED
      BY <1>7, <1>8, <2>1, <3>1
  <2>2. CASE i = at
    BY <1>7, <1>8, <2>2
  <2>3. CASE i = at + 1
    BY <1>7, <1>8, <2>3
  <2>4. CASE i \in at + 2 .. n + 2
    <3>1. i - 1 \in 1 .. Len(ks) + 1 /\ i - 1 # at
      BY <1>1, <2>4 DEF n
    <3> QED
      BY <1>7, <1>8, <2>4, <3>1
  <2> QED
    BY <1>1, <2>1, <2>2, <2>3, <2>4
<1>12. Parts(h, K, C, room, want)
  <2>1. (n + 1) + 1 = n + 2
    BY <1>1
  <2> QED
    BY <1>6, <1>7, <1>9, <1>10, <1>11, <2>1 DEF Parts
<1> QED
  BY <1>10, <1>12 DEF K, C, kept, n

\* The two halves of an inner node, with the key that goes up between them.
InnerHalved(h, K, C, room, want, mid) ==
  LET n == Len(K)
      p == K[mid]
      below == {k \in room : k < p}
      above == {k \in room : p <= k}
  IN  /\ p \in room /\ below # {}
      /\ Parts(h, SubSeq(K, 1, mid - 1), SubSeq(C, 1, mid), below, want)
      /\ Len(SubSeq(K, 1, mid - 1)) = mid - 1
      /\ Parts(h, SubSeq(K, mid + 1, n), SubSeq(C, mid + 1, n + 1), above, want)
      /\ Len(SubSeq(K, mid + 1, n)) = n - mid

\* An inner node is cut in two around a key.
LEMMA InnerHalves ==
  ASSUME NEW h \in Nat, NEW room \in SUBSET Int, NEW K, NEW C, NEW want,
         Parts(h, K, C, room, want), NEW mid \in 2 .. Len(K) - 1
  PROVE  InnerHalved(h, K, C, room, want, mid)
<1> DEFINE n == Len(K)
           p == K[mid]
           below == {k \in room : k < p}
           above == {k \in room : p <= k}
           LK == SubSeq(K, 1, mid - 1)
           LC == SubSeq(C, 1, mid)
           RK == SubSeq(K, mid + 1, n)
           RC == SubSeq(C, mid + 1, n + 1)
<1>1. /\ K \in Seq(Int) /\ n \in Nat /\ mid \in Nat /\ 2 <= mid /\ mid + 1 <= n
      /\ mid \in 1 .. n /\ C \in Seq(Nodes[h]) /\ Len(C) = n + 1
  BY DEF Parts, Ordered
<1>2. /\ \A i \in 1 .. n : K[i] \in room /\ K[i] \in Int
      /\ \A i, j \in 1 .. n : i < j => K[i] < K[j]
      /\ \A i \in 1 .. n + 1 : Part(h, C[i], Slot(K, i, room), want)
  BY DEF Parts, Ordered
<1>3. /\ LK \in Seq(Int) /\ Len(LK) = mid - 1
      /\ \A i \in 1 .. mid - 1 : LK[i] = K[i]
  <2>1. 1 \in 1 .. Len(K) + 1 /\ mid - 1 \in 1 - 1 .. Len(K) /\ (mid - 1) - 1 + 1 = mid - 1
    BY <1>1
  <2>2. /\ LK \in Seq(Int) /\ Len(LK) = (mid - 1) - 1 + 1
        /\ \A i \in 1 .. (mid - 1) - 1 + 1 : LK[i] = K[1 + i - 1]
    BY <1>1, <2>1, PieceOfArray
  <2> HIDE DEF LK
  <2> QED
    BY <2>1, <2>2
<1>4. /\ LC \in Seq(Nodes[h]) /\ Len(LC) = mid
      /\ \A i \in 1 .. mid : LC[i] = C[i]
  <2>1. 1 \in 1 .. Len(C) + 1 /\ mid \in 1 - 1 .. Len(C) /\ mid - 1 + 1 = mid
    BY <1>1
  <2>2. /\ LC \in Seq(Nodes[h]) /\ Len(LC) = mid - 1 + 1
        /\ \A i \in 1 .. mid - 1 + 1 : LC[i] = C[1 + i - 1]
    BY <1>1, <2>1, PieceOfArray
  <2> HIDE DEF LC
  <2> QED
    BY <2>1, <2>2
<1>5. /\ RK \in Seq(Int) /\ Len(RK) = n - mid
      /\ \A i \in 1 .. n - mid : RK[i] = K[mid + i]
  <2>1. mid + 1 \in 1 .. Len(K) + 1 /\ n \in (mid + 1) - 1 .. Len(K)
        /\ n - (mid + 1) + 1 = n - mid /\ \A i \in Int : mid + 1 + i - 1 = mid + i
    BY <1>1
  <2>2. /\ RK \in Seq(Int) /\ Len(RK) = n - (mid + 1) + 1
        /\ \A i \in 1 .. n - (mid + 1) + 1 : RK[i] = K[mid + 1 + i - 1]
    BY <1>1, <2>1, PieceOfArray
  <2> HIDE DEF RK, n
  <2> QED
    BY <2>1, <2>2
<1>6. /\ RC \in Seq(Nodes[h]) /\ Len(RC) = (n - mid) + 1
      /\ \A i \in 1 .. (n - mid) + 1 : RC[i] = C[mid + i]
  <2> DEFINE m == mid + 1
             e == n + 1
  <2>1. /\ m \in 1 .. Len(C) + 1 /\ e \in m - 1 .. Len(C)
        /\ e - m + 1 = (n - mid) + 1 /\ \A i \in Int : m + i - 1 = mid + i
    BY <1>1
  <2>2. C \in Seq(Nodes[h]) /\ RC = SubSeq(C, m, e)
    BY <1>1
  <2> HIDE DEF RC, n, m, e
  <2>3. /\ SubSeq(C, m, e) \in Seq(Nodes[h]) /\ Len(SubSeq(C, m, e)) = e - m + 1
        /\ \A i \in 1 .. e - m + 1 : SubSeq(C, m, e)[i] = C[m + i - 1]
    BY <2>1, <2>2, PieceOfArray
  <2> QED
    BY <2>1, <2>2, <2>3
<1> HIDE DEF n, LK, LC, RK, RC
<1>7. p \in room /\ p \in Int /\ K[1] \in below
  <2>1. 1 \in 1 .. n /\ 1 < mid
    BY <1>1
  <2> QED
    BY <1>1, <1>2, <2>1
<1>8. \A i : Slot(K, i, room) = {k \in room : (i > 1 => K[i - 1] <= k) /\ (i <= n => k < K[i])}
  BY DEF Slot, n
<1>9. Parts(h, LK, LC, below, want)
  <2>1. ASSUME NEW i \in 1 .. mid - 1 PROVE LK[i] \in below
    <3>1. i \in 1 .. n /\ i < mid
      BY <1>1
    <3> QED
      BY <1>1, <1>2, <1>3, <3>1
  <2>2. ASSUME NEW i \in 1 .. mid - 1, NEW j \in 1 .. mid - 1, i < j PROVE LK[i] < LK[j]
    <3>1. i \in 1 .. n /\ j \in 1 .. n
      BY <1>1
    <3> QED
      BY <1>2, <1>3, <2>2, <3>1
  <2>3. Ordered(LK, below)
    BY <1>3, <2>1, <2>2 DEF Ordered
  <2>4. ASSUME NEW i \in 1 .. mid
        PROVE  Slot(LK, i, below) = Slot(K, i, room)
    <3>1. Slot(LK, i, below) =
            {k \in below : (i > 1 => LK[i - 1] <= k) /\ (i <= mid - 1 => k < LK[i])}
      BY <1>3 DEF Slot
    <3>2. i <= n /\ (i > 1 => LK[i - 1] = K[i - 1]) /\ (i <= mid - 1 => LK[i] = K[i])
      <4>1. (i > 1 => i - 1 \in 1 .. mid - 1) /\ (i <= mid - 1 => i \in 1 .. mid - 1) /\ i <= n
        BY <1>1
      <4> QED
        BY <1>3, <4>1
    <3>3. \A k \in room : k < K[i] <=> (k < p /\ (i <= mid - 1 => k < K[i]))
      <4>1. CASE i = mid
        BY <1>1, <4>1
      <4>2. CASE i < mid
        <5>1. i \in 1 .. n /\ i <= mid - 1
          BY <1>1, <4>2
        <5>2. K[i] < p /\ K[i] \in Int
          BY <1>1, <1>2, <4>2, <5>1
        <5> QED
          BY <1>7, <5>1, <5>2
      <4> QED
        BY <1>1, <4>1, <4>2
    <3>4. Slot(LK, i, below) =
            {k \in room : k < p /\ (i > 1 => K[i - 1] <= k) /\ (i <= mid - 1 => k < K[i])}
      BY <3>1, <3>2
    <3>5. Slot(K, i, room) = {k \in room : (i > 1 => K[i - 1] <= k) /\ k < K[i]}
      BY <1>8, <3>2
    <3> QED
      BY <3>3, <3>4, <3>5
  <2>5. ASSUME NEW i \in 1 .. mid
        PROVE  Part(h, LC[i], Slot(LK, i, below), want)
    <3>1. i \in 1 .. n + 1
      BY <1>1
    <3> QED
      BY <1>2, <1>4, <2>4, <3>1
  <2>6. (mid - 1) + 1 = mid
    BY <1>1
  <2> HIDE DEF below
  <2> QED
    BY <1>3, <1>4, <2>3, <2>5, <2>6 DEF Parts
<1>10. Parts(h, RK, RC, above, want)
  <2>1. ASSUME NEW i \in 1 .. n - mid PROVE RK[i] \in above
    <3>1. mid + i \in 1 .. n /\ mid < mid + i
      BY <1>1
    <3>2. p < K[mid + i] /\ K[mid + i] \in room /\ K[mid + i] \in Int /\ RK[i] = K[mid + i]
      BY <1>1, <1>2, <1>5, <3>1
    <3> QED
      BY <1>7, <3>2
  <2>2. ASSUME NEW i \in 1 .. n - mid, NEW j \in 1 .. n - mid, i < j PROVE RK[i] < RK[j]
    <3>1. mid + i \in 1 .. n /\ mid + j \in 1 .. n /\ mid + i < mid + j
      BY <1>1, <2>2
    <3> QED
      BY <1>2, <1>5, <3>1
  <2>3. Ordered(RK, above)
    BY <1>5, <2>1, <2>2 DEF Ordered
  <2>4. ASSUME NEW i \in 1 .. (n - mid) + 1
        PROVE  Slot(RK, i, above) = Slot(K, mid + i, room)
    <3>1. Slot(RK, i, above) =
            {k \in above : (i > 1 => RK[i - 1] <= k) /\ (i <= n - mid => k < RK[i])}
      BY <1>5 DEF Slot
    <3>2. /\ mid + i > 1 /\ (mid + i <= n <=> i <= n - mid)
          /\ (i > 1 => RK[i - 1] = K[(mid + i) - 1]) /\ (i <= n - mid => RK[i] = K[mid + i])
      <4>1. /\ i > 1 => i - 1 \in 1 .. n - mid /\ mid + (i - 1) = (mid + i) - 1
            /\ i <= n - mid => i \in 1 .. n - mid
            /\ mid + i > 1 /\ (mid + i <= n <=> i <= n - mid)
        BY <1>1
      <4> QED
        BY <1>5, <4>1
    <3>3. \A k \in room : K[(mid + i) - 1] <= k <=> (p <= k /\ (i > 1 => K[(mid + i) - 1] <= k))
      <4>1. CASE i = 1
        <5>1. (mid + i) - 1 = mid
          BY <1>1, <4>1
        <5> QED
          BY <4>1, <5>1
      <4>2. CASE i > 1
        <5>1. (mid + i) - 1 \in 1 .. n /\ mid < (mid + i) - 1
          BY <1>1, <4>2
        <5>2. p < K[(mid + i) - 1] /\ K[(mid + i) - 1] \in Int
          BY <1>1, <1>2, <5>1
        <5> QED
          BY <1>7, <4>2, <5>2
      <4> QED
        BY <1>1, <4>1, <4>2
    <3>4. Slot(RK, i, above) =
            {k \in room : /\ p <= k /\ (i > 1 => K[(mid + i) - 1] <= k)
                          /\ (mid + i <= n => k < K[mid + i])}
      BY <3>1, <3>2
    <3>5. Slot(K, mid + i, room) =
            {k \in room : K[(mid + i) - 1] <= k /\ (mid + i <= n => k < K[mid + i])}
      BY <1>8, <3>2
    <3> QED
      BY <3>3, <3>4, <3>5
  <2>5. ASSUME NEW i \in 1 .. (n - mid) + 1
        PROVE  Part(h, RC[i], Slot(RK, i, above), want)
    <3>1. mid + i \in 1 .. n + 1
      BY <1>1
    <3> QED
      BY <1>2, <1>6, <2>4, <3>1
  <2> HIDE DEF above
  <2> QED
    BY <1>5, <1>6, <2>3, <2>5 DEF Parts
<1> QED
  BY <1>3, <1>5, <1>7, <1>9, <1>10 DEF InnerHalved, n, LK, LC, RK, RC

\* What an insert finds at an inner node: the child at position at is the one to
\* go on with, the others need not change.
OnPath(h, node, room, key, value, at, want) ==
  /\ node \in Nodes[h + 1] /\ node = Inner(node.keys, node.children)
  /\ Ordered(node.keys, room) /\ Len(node.keys) \in 1 .. MaxKeys
  /\ node.children \in Seq(Nodes[h]) /\ Len(node.children) = Len(node.keys) + 1
  /\ at \in 1 .. Len(node.keys) + 1
  /\ \A i \in 1 .. Len(node.keys) + 1 :
       i # at => Part(h, node.children[i], Slot(node.keys, i, room), want)
  /\ \A k \in room : want[k] = Wanted(h + 1, node, key, value, k)
  /\ \A k \in Slot(node.keys, at, room) :
       Wanted(h, node.children[at], key, value, k) = want[k]
  /\ Search(key)[h + 1][node] = Search(key)[h][node.children[at]]

\* find_child_index leads an insert down such a path.
LEMMA InsertPath ==
  ASSUME NEW h \in Nat, NEW room \in SUBSET Int, NEW node \in Balanced[h + 1][room],
         NEW key \in room, NEW value
  PROVE  OnPath(h, node, room, key, value, ChildIndex(node, key),
                [k \in room |-> Wanted(h + 1, node, key, value, k)])
<1> DEFINE ks == node.keys
           cs == node.children
           at == ChildIndex(node, key)
           found == [k \in room |-> Search(k)[h + 1][node]]
           want == [k \in room |-> Wanted(h + 1, node, key, value, k)]
<1>1. \A k \in room : found[k] = Search(k)[h + 1][node]
  OBVIOUS
<1>2. \A k \in room : want[k] = IF k = key THEN {value} ELSE found[k]
  BY DEF Wanted
<1>3. \A k \in room : want[k] = Wanted(h + 1, node, key, value, k)
  OBVIOUS
<1> HIDE DEF found, want
<1>4. /\ Parts(h, ks, cs, room, found) /\ Len(ks) \in 1 .. MaxKeys
      /\ node \in Nodes[h + 1] /\ node = Inner(ks, cs)
  BY <1>1, PartHasParts
<1>5. /\ Ordered(ks, room) /\ cs \in Seq(Nodes[h]) /\ Len(cs) = Len(ks) + 1
      /\ \A i \in 1 .. Len(ks) + 1 : Part(h, cs[i], Slot(ks, i, room), found)
  BY <1>4 DEF Parts
<1>6. /\ at \in 1 .. Len(ks) + 1
      /\ \A i \in 1 .. Len(ks) + 1 : key \in Slot(ks, i, room) => i = at
  BY <1>5, SlotOfKey
<1>7. Search(key)[h + 1][node] = Search(key)[h][cs[at]]
  BY <1>4, SearchByHeight
<1> HIDE DEF at
<1>8. ASSUME NEW i \in 1 .. Len(ks) + 1, i # at
      PROVE  Part(h, cs[i], Slot(ks, i, room), want)
  <2>1. cs[i] \in Balanced[h][Slot(ks, i, room)]
    BY <1>5 DEF Part
  <2>2. ASSUME NEW k \in Slot(ks, i, room)
        PROVE  Search(k)[h][cs[i]] = want[k]
    <3>1. k # key /\ k \in room
      BY <1>6, <1>8 DEF Slot
    <3>2. Search(k)[h][cs[i]] = found[k]
      BY <1>5 DEF Part
    <3> QED
      BY <1>2, <3>1, <3>2
  <2> QED
    BY <2>1, <2>2 DEF Part
<1>9. ASSUME NEW k \in Slot(ks, at, room)
      PROVE  Wanted(h, cs[at], key, value, k) = want[k]
  <2>1. k \in room
    BY DEF Slot
  <2>2. Search(k)[h][cs[at]] = found[k]
    BY <1>5, <1>6 DEF Part
  <2> QED
    BY <1>2, <2>1, <2>2 DEF Wanted
<1>10. OnPath(h, node, room, key, value, at, want)
  BY <1>3, <1>4, <1>5, <1>6, <1>7, <1>8, <1>9 DEF OnPath
<1> QED
  BY <1>10 DEF at, want

\* One subtree keeps the promise if it is the part that is wanted.
LEMMA DonePost ==
  ASSUME NEW h \in Nat, NEW node, NEW room, NEW key, NEW value, NEW spare, NEW want,
         NEW new, NEW left \in Nat,
         \A k \in room : want[k] = Wanted(h, node, key, value, k),
         Search(key)[h][node] = {}, Part(h, new, room, want)
  PROVE  InsertPost(h, node, room, key, value, spare, Done(new, left))
<1> DEFINE r == Done(new, left)
<1>1. r.ok = TRUE /\ r.split = FALSE /\ r.node = new /\ r.spare = left
  BY StateFields
<1> HIDE DEF r
<1>2. r.ok /\ ~r.split /\ r.ok \in BOOLEAN /\ r.split \in BOOLEAN
  BY <1>1
<1>3. new \in Balanced[h][room]
  BY DEF Part
<1>4. \A k \in room : Search(k)[h][new] = Wanted(h, node, key, value, k)
  BY DEF Part
<1>5. InsertPost(h, node, room, key, value, spare, r)
  BY <1>1, <1>2, <1>3, <1>4 DEF InsertPost
<1> QED
  BY <1>5 DEF r

\* Two subtrees do if they are the parts that are wanted on each side.
LEMMA SplitPost ==
  ASSUME NEW h \in Nat, NEW node, NEW room, NEW key, NEW value, NEW spare \in Nat, NEW want,
         NEW left, NEW p \in room, NEW right, NEW rest \in Nat,
         \A k \in room : want[k] = Wanted(h, node, key, value, k),
         Search(key)[h][node] = {}, spare > h => rest + h + 1 >= spare,
         {k \in room : k < p} # {},
         Part(h, left, {k \in room : k < p}, want), Part(h, right, {k \in room : p <= k}, want)
  PROVE  InsertPost(h, node, room, key, value, spare, Split(left, p, right, rest))
<1> DEFINE r == Split(left, p, right, rest)
           below == {k \in room : k < p}
           above == {k \in room : p <= k}
<1>1. /\ r.ok = TRUE /\ r.split = TRUE /\ r.node = left /\ r.promoted = p
      /\ r.right = right /\ r.spare = rest
  BY StateFields
<1>2. /\ left \in Balanced[h][below] /\ right \in Balanced[h][above]
      /\ \A k \in below : Search(k)[h][left] = want[k]
      /\ \A k \in above : Search(k)[h][right] = want[k]
  BY DEF Part
<1>3. /\ \A k \in below : Search(k)[h][left] = Wanted(h, node, key, value, k)
      /\ \A k \in above : Search(k)[h][right] = Wanted(h, node, key, value, k)
  BY <1>2
<1> HIDE DEF r
<1>4. r.ok /\ r.split /\ r.ok \in BOOLEAN /\ r.split \in BOOLEAN
  BY <1>1
<1>5. InsertPost(h, node, room, key, value, spare, r)
  <2>1. below = {k \in room : k < r.promoted} /\ above = {k \in room : r.promoted <= k}
    BY <1>1
  <2>2. r.promoted \in room /\ below # {} /\ r.spare \in Nat
    BY <1>1
  <2>3. r.node \in Balanced[h][below] /\ r.right \in Balanced[h][above]
    BY <1>1, <1>2
  <2>4. /\ \A k \in below : Search(k)[h][r.node] = Wanted(h, node, key, value, k)
        /\ \A k \in above : Search(k)[h][r.right] = Wanted(h, node, key, value, k)
    BY <1>1, <1>3
  <2>5. spare > h => r.spare + h + 1 >= spare
    BY <1>1
  <2> HIDE DEF below, above
  <2> QED
    BY <1>4, <2>1, <2>2, <2>3, <2>4, <2>5 DEF InsertPost
<1> QED
  BY <1>5 DEF r

\* insert_into_internal keeps the promise, if the insert into the child does.
LEMMA InnerKeepsPromise ==
  ASSUME NEW h \in Nat, NEW room \in SUBSET Int, NEW node, NEW key \in room, NEW value,
         NEW spare \in Nat, NEW at, NEW want, NEW child,
         OnPath(h, node, room, key, value, at, want),
         InsertPost(h, node.children[at], Slot(node.keys, at, room), key, value, spare, child)
  PROVE  InsertPost(h + 1, node, room, key, value, spare, InsertIntoInner(node, at, child))
<1> DEFINE ks == node.keys
           cs == node.children
           slot == Slot(ks, at, room)
           kept == [cs EXCEPT ![at] = child.node]
           K == InsertAt(ks, at, child.promoted)
           C == InsertAt(kept, at + 1, child.right)
           grown == Inner(K, C)
           r == InsertIntoInner(node, at, child)
<1>1. /\ node \in Nodes[h + 1] /\ node = Inner(ks, cs)
      /\ Ordered(ks, room) /\ Len(ks) \in 1 .. MaxKeys
      /\ cs \in Seq(Nodes[h]) /\ Len(cs) = Len(ks) + 1
      /\ at \in 1 .. Len(ks) + 1
      /\ \A i \in 1 .. Len(ks) + 1 : i # at => Part(h, cs[i], Slot(ks, i, room), want)
      /\ \A k \in room : want[k] = Wanted(h + 1, node, key, value, k)
      /\ \A k \in slot : Wanted(h, cs[at], key, value, k) = want[k]
      /\ Search(key)[h + 1][node] = Search(key)[h][cs[at]]
  BY DEF OnPath
<1>2. /\ child.ok \in BOOLEAN /\ child.split \in BOOLEAN /\ child.spare \in Nat
      /\ Search(key)[h][cs[at]] # {} => ~child.ok /\ child.node = cs[at]
      /\ Search(key)[h][cs[at]] = {} /\ spare > h =>
           child.ok /\ (child.split => child.spare + h + 1 >= spare)
      /\ ~child.ok => child.node \in Nodes[h]
      /\ child.ok /\ ~child.split =>
           /\ child.node \in Balanced[h][slot]
           /\ \A k \in slot : Search(k)[h][child.node] = Wanted(h, cs[at], key, value, k)
  BY DEF InsertPost
<1>3. child.ok /\ child.split =>
        LET below == {k \in slot : k < child.promoted}
            above == {k \in slot : child.promoted <= k}
        IN  /\ child.promoted \in slot /\ below # {}
            /\ child.node \in Balanced[h][below] /\ child.right \in Balanced[h][above]
            /\ \A k \in below : Search(k)[h][child.node] = Wanted(h, cs[at], key, value, k)
            /\ \A k \in above : Search(k)[h][child.right] = Wanted(h, cs[at], key, value, k)
  BY DEF InsertPost
<1>4. r = IF ~child.ok THEN Error(Inner(ks, kept))
          ELSE IF ~child.split THEN Done(Inner(ks, kept), child.spare)
          ELSE IF Len(grown.keys) <= MaxKeys THEN Done(grown, child.spare)
          ELSE IF child.spare = 0 THEN Error(grown)
          ELSE SplitInner(grown, child.spare)
  BY DEF InsertIntoInner
<1>5. h + 1 \in Nat /\ ks \in Seq(Int) /\ Len(ks) \in Nat
  BY <1>1 DEF Ordered
<1> SUFFICES InsertPost(h + 1, node, room, key, value, spare, r)
  OBVIOUS
<1> HIDE DEF r, ks, cs, slot
<1>6. CASE ~child.ok
  <2>1. r = Error(Inner(ks, kept))
    BY <1>4, <1>6
  <2>2. child.node \in Nodes[h] /\ at \in 1 .. Len(cs)
    BY <1>1, <1>2, <1>6
  <2>3. kept \in Seq(Nodes[h]) /\ Replaced(cs, at, child.node, kept)
    BY <1>1, <2>2, PutInArray
  <2>4. Search(key)[h + 1][node] # {} => Inner(ks, kept) = node
    <3>1. ASSUME Search(key)[h + 1][node] # {} PROVE kept = cs
      <4>1. child.node = cs[at]
        BY <1>1, <1>2, <3>1
      <4> QED
        BY <1>1, <4>1
    <3> QED
      BY <1>1, <3>1
  <2>5. Inner(ks, kept) \in Nodes[h + 1]
    <3>1. Len(kept) = Len(ks) + 1 /\ Len(ks) <= MaxKeys + 1
      BY <1>1, <1>5, <2>3, TreeAssumption DEF Replaced
    <3> QED
      BY <1>5, <2>3, <3>1, InnerFields
  <2>6. Search(key)[h + 1][node] = {} => ~(spare > h + 1)
    <3>1. spare > h + 1 => spare > h
      OBVIOUS
    <3> QED
      BY <1>1, <1>2, <1>6, <3>1
  <2> HIDE DEF kept
  <2> QED
    BY <1>5, <2>1, <2>4, <2>5, <2>6, ErrorPost
<1>7. CASE child.ok /\ ~child.split
  <2>1. r = Done(Inner(ks, kept), child.spare)
    BY <1>4, <1>7
  <2>2. Part(h, child.node, slot, want)
    BY <1>1, <1>2, <1>7 DEF Part
  <2>3. Parts(h, ks, kept, room, want)
    BY <1>1, <2>2, PartReplaced DEF slot
  <2> HIDE DEF kept
  <2>4. Part(h + 1, Inner(ks, kept), room, want)
    BY <1>1, <2>3, PartsMakePart
  <2>5. Search(key)[h + 1][node] = {}
    BY <1>1, <1>2, <1>7
  <2> QED
    BY <1>1, <1>2, <1>5, <2>1, <2>4, <2>5, DonePost
<1>8. CASE child.ok /\ child.split
  <2> DEFINE p == child.promoted
             below == {k \in slot : k < p}
             above == {k \in slot : p <= k}
  <2>1. Search(key)[h + 1][node] = {}
    BY <1>1, <1>2, <1>8
  <2>2. spare > h => child.spare + h + 1 >= spare
    BY <1>1, <1>2, <1>8, <2>1
  <2>3. p \in slot /\ below # {}
    BY <1>3, <1>8
  <2>4. Part(h, child.node, below, want) /\ Part(h, child.right, above, want)
    <3>1. /\ child.node \in Balanced[h][below] /\ child.right \in Balanced[h][above]
          /\ \A k \in below : Search(k)[h][child.node] = Wanted(h, cs[at], key, value, k)
          /\ \A k \in above : Search(k)[h][child.right] = Wanted(h, cs[at], key, value, k)
      BY <1>3, <1>8
    <3>2. (\A k \in below : k \in slot) /\ (\A k \in above : k \in slot)
      OBVIOUS
    <3> HIDE DEF below, above
    <3>3. /\ \A k \in below : Search(k)[h][child.node] = want[k]
          /\ \A k \in above : Search(k)[h][child.right] = want[k]
      BY <1>1, <3>1, <3>2
    <3> QED
      BY <3>1, <3>3 DEF Part
  <2>5. Parts(h, K, C, room, want) /\ Len(K) = Len(ks) + 1
    BY <1>1, <2>3, <2>4, PartSplit DEF slot
  <2> HIDE DEF p, below, above, kept, K, C
  <2>6. Len(grown.keys) = Len(K) /\ grown.keys = K /\ grown.children = C
    BY DEF Inner
  <2>7. /\ K \in Seq(Int) /\ Len(K) \in Nat
        /\ Len(K) <= MaxKeys + 1 => grown \in Nodes[h + 1]
        /\ Len(K) \in 1 .. MaxKeys => Part(h + 1, grown, room, want)
    BY <2>5, PartsMakePart
  <2>8. Len(K) <= MaxKeys + 1 /\ 1 <= Len(K)
    BY <1>1, <1>5, <2>5, TreeAssumption
  <2> HIDE DEF grown
  <2>9. CASE Len(K) <= MaxKeys
    <3>1. r = Done(grown, child.spare)
      BY <1>4, <1>8, <2>6, <2>9
    <3>2. Part(h + 1, grown, room, want)
      BY <2>7, <2>8, <2>9, TreeAssumption
    <3> QED
      BY <1>1, <1>2, <1>5, <2>1, <3>1, <3>2, DonePost
  <2>10. CASE Len(K) > MaxKeys /\ child.spare = 0
    <3>1. r = Error(grown)
      <4>1. ~(Len(K) <= MaxKeys)
        BY <2>7, <2>10, TreeAssumption
      <4> QED
        BY <1>4, <1>8, <2>6, <2>10, <4>1
    <3>2. ~(spare > h + 1)
      BY <2>2, <2>10
    <3>3. grown \in Nodes[h + 1]
      BY <2>7, <2>8
    <3> QED
      BY <1>5, <2>1, <3>1, <3>2, <3>3, ErrorPost
  <2>11. CASE Len(K) > MaxKeys /\ child.spare # 0
    <3> DEFINE n == Len(K)
               mid == n \div 2 + 1
               q == K[mid]
               LK == SubSeq(K, 1, mid - 1)
               LC == SubSeq(C, 1, mid)
               RK == SubSeq(K, mid + 1, n)
               RC == SubSeq(C, mid + 1, n + 1)
               lower == {k \in room : k < q}
               upper == {k \in room : q <= k}
    <3>1. r = Split(Inner(LK, LC), q, Inner(RK, RC), child.spare - 1)
      <4>1. r = SplitInner(grown, child.spare)
        <5>1. ~(Len(K) <= MaxKeys)
          BY <2>7, <2>11, TreeAssumption
        <5> QED
          BY <1>4, <1>8, <2>6, <2>11, <5>1
      <4> QED
        BY <2>6, <4>1 DEF SplitInner
    <3>2. n = MaxKeys + 1 /\ n \in Nat
      BY <2>7, <2>8, <2>11, TreeAssumption
    <3>3. mid \in 2 .. n - 1 /\ mid - 1 \in 1 .. MaxKeys /\ n - mid \in 1 .. MaxKeys
      BY <3>2, TreeAssumption
    <3> HIDE DEF n, mid
    <3>4. InnerHalved(h, K, C, room, want, mid)
      BY <2>5, <3>3, InnerHalves DEF n
    <3>5. /\ q \in room /\ lower # {}
          /\ Parts(h, LK, LC, lower, want) /\ Len(LK) = mid - 1
          /\ Parts(h, RK, RC, upper, want) /\ Len(RK) = n - mid
      BY <3>4 DEF InnerHalved, n
    <3>6. lower \in SUBSET Int /\ upper \in SUBSET Int
      OBVIOUS
    <3> HIDE DEF LK, LC, RK, RC
    <3>7. Part(h + 1, Inner(LK, LC), lower, want) /\ Part(h + 1, Inner(RK, RC), upper, want)
      <4> HIDE DEF lower, upper
      <4>1. Part(h + 1, Inner(LK, LC), lower, want)
        BY <3>3, <3>5, <3>6, PartsMakePart
      <4>2. Part(h + 1, Inner(RK, RC), upper, want)
        BY <3>3, <3>5, <3>6, PartsMakePart
      <4> QED
        BY <4>1, <4>2
    <3>8. child.spare - 1 \in Nat /\ (spare > h + 1 => (child.spare - 1) + (h + 1) + 1 >= spare)
      BY <1>2, <2>2, <2>11
    <3> DEFINE left == Inner(LK, LC)
               right == Inner(RK, RC)
               rest == child.spare - 1
    <3> HIDE DEF left, right, rest
    <3>9. r = Split(left, q, right, rest)
      BY <3>1 DEF left, right, rest
    <3>10. Part(h + 1, left, lower, want) /\ Part(h + 1, right, upper, want)
      BY <3>7 DEF left, right
    <3>11. rest \in Nat /\ (spare > h + 1 => rest + (h + 1) + 1 >= spare)
      BY <3>8 DEF rest
    <3> DEFINE top == h + 1
    <3>12. /\ \A k \in room : want[k] = Wanted(top, node, key, value, k)
           /\ Search(key)[top][node] = {} /\ top \in Nat
      BY <1>1, <1>5, <2>1
    <3>13. /\ Part(top, left, lower, want) /\ Part(top, right, upper, want)
           /\ (spare > top => rest + top + 1 >= spare) /\ q \in room /\ lower # {}
      BY <3>5, <3>10, <3>11
    <3> HIDE DEF q, top
    <3>14. InsertPost(top, node, room, key, value, spare, Split(left, q, right, rest))
      BY <3>11, <3>12, <3>13, SplitPost
    <3> QED
      BY <3>9, <3>14 DEF top
  <2> QED
    BY <2>7, <2>9, <2>10, <2>11, TreeAssumption
<1> QED
  BY <1>2, <1>6, <1>7, <1>8

\* insert_into_node keeps the promise at every height.
LEMMA InsertKeepsPromise ==
  ASSUME NEW key, NEW value \in Int, NEW spare \in Nat, NEW n \in Nat,
         NEW room \in SUBSET Int, key \in room, NEW node \in Balanced[n][room]
  PROVE  InsertPost(n, node, room, key, value, spare, InsertIntoNode(key, value, spare)[n][node])
<1> DEFINE I == InsertIntoNode(key, value, spare)
<1>0. \A h \in Nat : \A nd \in Nodes[h + 1] :
        I[h + 1][nd] = InsertIntoInner(nd, ChildIndex(nd, key),
                                       I[h][nd.children[ChildIndex(nd, key)]])
  BY InsertByHeight
<1> DEFINE T == {h \in 0 .. n : \A rm \in SUBSET Int : key \in rm =>
                   \A nd \in Balanced[h][rm] :
                     InsertPost(h, nd, rm, key, value, spare, I[h][nd])}
<1>1. 0 \in T
  <2>1. ASSUME NEW rm \in SUBSET Int, key \in rm, NEW nd \in Balanced[0][rm]
        PROVE  InsertPost(0, nd, rm, key, value, spare, I[0][nd])
    <3>1. I[0][nd] = InsertIntoLeaf(nd, key, value, spare)
      BY BalancedLeaf, InsertByHeight
    <3>2. InsertPost(0, nd, rm, key, value, spare, InsertIntoLeaf(nd, key, value, spare))
      BY <2>1, LeafKeepsPromise
    <3> QED
      BY <3>1, <3>2
  <2> HIDE DEF I
  <2> QED
    BY <2>1
<1>2. ASSUME NEW i \in 1 .. n, i - 1 \in T
      PROVE  i \in T
  <2> DEFINE h == i - 1
  <2>1. h \in Nat /\ h + 1 = i
    OBVIOUS
  <2>2. \A rm \in SUBSET Int : key \in rm =>
          \A nd \in Balanced[h][rm] : InsertPost(h, nd, rm, key, value, spare, I[h][nd])
    BY <1>2
  <2> HIDE DEF h
  <2>3. ASSUME NEW rm \in SUBSET Int, key \in rm, NEW nd \in Balanced[h + 1][rm]
        PROVE  InsertPost(h + 1, nd, rm, key, value, spare, I[h + 1][nd])
    <3> DEFINE at == ChildIndex(nd, key)
               want == [k \in rm |-> Wanted(h + 1, nd, key, value, k)]
               slot == Slot(nd.keys, at, rm)
               child == I[h][nd.children[at]]
    <3>1. OnPath(h, nd, rm, key, value, at, want)
      BY <2>1, <2>3, InsertPath
    <3>2. /\ nd \in Nodes[h + 1] /\ Ordered(nd.keys, rm) /\ at \in 1 .. Len(nd.keys) + 1
          /\ nd.children \in Seq(Nodes[h]) /\ Len(nd.children) = Len(nd.keys) + 1
      BY <3>1 DEF OnPath
    <3>3. key \in slot /\ slot \in SUBSET Int
      BY <2>3, <3>2, SlotOfKey DEF Slot
    <3>4. nd.children[at] \in Balanced[h][slot]
      <4>1. \A j \in DOMAIN nd.children : nd.children[j] \in Balanced[h][Room(nd, j, rm)]
        BY <2>1, BalancedByHeight
      <4>2. at \in DOMAIN nd.children /\ Room(nd, at, rm) = slot
        BY <3>2 DEF Room, Slot
      <4> QED
        BY <4>1, <4>2
    <3>5. I[h + 1][nd] = InsertIntoInner(nd, at, child)
      <4> HIDE DEF I
      <4> QED
        BY <1>0, <2>1, <3>2
    <3> HIDE DEF I, want, at
    <3>6. InsertPost(h, nd.children[at], slot, key, value, spare, child)
      BY <2>2, <3>3, <3>4
    <3> HIDE DEF child
    <3>7. InsertPost(h + 1, nd, rm, key, value, spare, InsertIntoInner(nd, at, child))
      BY <2>1, <2>3, <3>1, <3>6, InnerKeepsPromise
    <3> QED
      BY <3>5, <3>7
  <2> HIDE DEF I
  <2> QED
    BY <2>1, <2>3
<1> HIDE DEF T
<1>3. n \in T
  BY <1>1, <1>2, InductionTo
<1> QED
  BY <1>3 DEF T

-----------------------------------------------------------------------------
(* The tree. *)

\* What a search for k finds in a tree that holds the ids of held.
Answer(held, k) == IF k \in held THEN {Offset[k]} ELSE {}

\* A tree of h levels of inner nodes that holds the ids of held.
Holds(node, h, held) ==
  /\ node \in Balanced[h][Ids]
  /\ \A k \in Ids : Search(k)[h][node] = Answer(held, k)

(* The inductive invariant: the arrays are within their sizes; a tree no   *)
(* insert has damaged is empty, or balanced with just the ids inserted.    *)
TreeInv ==
  /\ height \in Nat /\ damaged \in BOOLEAN /\ content \in SUBSET Keys
  /\ root \in Nodes[height]
  /\ ~damaged /\ root = NoNode => height = 0 /\ content = {}
  /\ ~damaged /\ root # NoNode => Holds(root, height, content)

\* What bptree_insert promises of such a tree.
TreePost(key, spare, done) ==
  /\ done.ok \in BOOLEAN /\ done.height \in Nat
  /\ done.root \in Nodes[done.height]
  /\ done.ok => done.root # NoNode /\ Holds(done.root, done.height, content \cup {key})
  /\ ~done.ok /\ key \in content => done.root = root /\ done.height = height
  /\ ~done.ok /\ key \notin content => spare < height + 2

\* The ids asked for are numbers, those inserted among them.
LEMMA IdsAreNumbers ==
  Ids \in SUBSET Int /\ Keys \in SUBSET Ids /\ \A k \in Keys : Offset[k] \in Int
<1>1. Keys \in SUBSET Int /\ \A k \in Keys : Offset[k] \in Int
  BY TreeAssumption
<1>2. {k - 1 : k \in Keys} \in SUBSET Int /\ {k + 1 : k \in Keys} \in SUBSET Int
  BY <1>1
<1>3. Ids \in SUBSET Int /\ Keys \in SUBSET Ids
  BY <1>1, <1>2, Zenon DEF Ids
<1> QED
  BY <1>1, <1>3

\* The empty tree.
LEMMA EmptyTree ==
  NoNode \in Nodes[0] /\ \A k : Search(k)[0][NoNode] = {}
<1>1. <<>> \in Seq(Int) /\ Len(<<>>) = 0 /\ 0 <= MaxKeys + 1
  BY TreeAssumption
<1>2. NoNode \in Nodes[0]
  <2>1. Len(<<>>) <= MaxKeys + 1
    BY <1>1
  <2> QED
    BY <1>1, <2>1, LeafFields DEF NoNode
<1>3. ASSUME NEW k PROVE Search(k)[0][NoNode] = {}
  <2>1. Search(k)[0][NoNode] = SearchLeaf(NoNode, k)
    BY <1>2, SearchByHeight
  <2>2. SearchLeaf(Leaf(<<>>, <<>>), k) = At(<<>>, <<>>, k)
    BY <1>1, SearchInLeaf
  <2>3. At(<<>>, <<>>, k) = {}
    BY <1>1 DEF At
  <2> QED
    BY <2>1, <2>2, <2>3 DEF NoNode
<1> QED
  BY <1>2, <1>3

\* A balanced tree is not the empty one.
LEMMA BalancedHasKeys ==
  ASSUME NEW h \in Nat, NEW room \in SUBSET Int, NEW node \in Balanced[h][room]
  PROVE  node # NoNode
<1>1. InShape(node, room)
  <2>1. CASE h = 0
    BY <2>1, BalancedByHeight
  <2>2. CASE h # 0
    <3>1. h - 1 \in Nat /\ (h - 1) + 1 = h
      BY <2>2
    <3>2. node \in Balanced[(h - 1) + 1][room]
      BY <3>1
    <3> QED
      BY <3>1, <3>2, BalancedByHeight
  <2> QED
    BY <2>1, <2>2
<1>2. NoNode.keys = <<>> /\ Len(<<>>) = 0
  BY DEF NoNode, Leaf
<1> QED
  BY <1>1, <1>2, TreeAssumption DEF InShape

\* The first key makes a leaf.
LEMMA FirstLeaf ==
  ASSUME NEW key \in Keys
  PROVE  Holds(Leaf(<<key>>, <<Offset[key]>>), 0, {key})
<1> DEFINE value == Offset[key]
           node == Leaf(<<key>>, <<value>>)
<1>1. key \in Ids /\ key \in Int /\ value \in Int /\ Ids \in SUBSET Int
  BY IdsAreNumbers
<1> HIDE DEF value
<1>2. /\ <<key>> \in Seq(Int) /\ <<value>> \in Seq(Int)
      /\ Len(<<key>>) = 1 /\ Len(<<value>>) = 1 /\ <<key>>[1] = key /\ <<value>>[1] = value
  BY <1>1
<1>3. Ordered(<<key>>, Ids)
  BY <1>1, <1>2 DEF Ordered
<1>4. Len(<<key>>) \in 1 .. MaxKeys /\ Len(<<value>>) = Len(<<key>>)
  BY <1>2, TreeAssumption
<1>5. node \in Balanced[0][Ids]
  BY <1>1, <1>2, <1>3, <1>4, BalancedLeaf
<1>6. ASSUME NEW k \in Ids PROVE Search(k)[0][node] = Answer({key}, k)
  <2>1. Search(k)[0][node] = SearchLeaf(node, k)
    BY <1>1, <1>5, BalancedLeaf, SearchByHeight
  <2>2. SearchLeaf(node, k) = At(<<key>>, <<value>>, k)
    BY <1>2, SearchInLeaf
  <2>3. At(<<key>>, <<value>>, k) = IF k = key THEN {value} ELSE {}
    <3> DEFINE places == {j \in 1 .. 1 : <<key>>[j] = k}
    <3>1. At(<<key>>, <<value>>, k) = {<<value>>[i] : i \in places}
      BY <1>2 DEF At
    <3>2. (k = key => places = {1}) /\ (k # key => places = {})
      BY <1>2
    <3> HIDE DEF places
    <3> QED
      BY <1>2, <3>1, <3>2
  <2> QED
    BY <2>1, <2>2, <2>3 DEF Answer, value
<1> QED
  BY <1>5, <1>6 DEF Holds, value

\* Two trees that share the ids at a key make a tree under a new root.
LEMMA NewRoot ==
  ASSUME NEW h \in Nat, NEW room \in SUBSET Int, NEW p \in room, NEW want,
         NEW left, NEW right,
         Part(h, left, {k \in room : k < p}, want), Part(h, right, {k \in room : p <= k}, want)
  PROVE  Part(h + 1, Inner(<<p>>, <<left, right>>), room, want)
<1> DEFINE below == {k \in room : k < p}
           above == {k \in room : p <= k}
           K == <<p>>
           C == <<left, right>>
<1>1. left \in Nodes[h] /\ right \in Nodes[h]
  <2>1. /\ left \in Balanced[h][below] /\ right \in Balanced[h][above]
        /\ below \in SUBSET Int /\ above \in SUBSET Int
    BY DEF Part
  <2> HIDE DEF below, above
  <2> QED
    BY <2>1, BalancedNodes
<1>2. K \in Seq(Int) /\ Len(K) = 1 /\ K[1] = p /\ p \in Int
  OBVIOUS
<1>3. C \in Seq(Nodes[h]) /\ Len(C) = 2 /\ C[1] = left /\ C[2] = right
  <2> DEFINE S == Nodes[h]
  <2>1. left \in S /\ right \in S
    BY <1>1
  <2> HIDE DEF S
  <2>2. <<left, right>> \in Seq(S)
    BY <2>1
  <2> QED
    BY <2>2 DEF S
<1> HIDE DEF K, C
<1>4. Ordered(K, room)
  BY <1>2 DEF Ordered
<1>5. Slot(K, 1, room) = below /\ Slot(K, 2, room) = above
  BY <1>2 DEF Slot
<1>6. ASSUME NEW i \in 1 .. Len(K) + 1
      PROVE  Part(h, C[i], Slot(K, i, room), want)
  <2>1. i = 1 \/ i = 2
    BY <1>2
  <2>2. CASE i = 1
    BY <1>3, <1>5, <2>2
  <2>3. CASE i = 2
    BY <1>3, <1>5, <2>3
  <2> QED
    BY <2>1, <2>2, <2>3
<1>7. Parts(h, K, C, room, want)
  <2>1. Len(C) = Len(K) + 1
    BY <1>2, <1>3
  <2> QED
    BY <1>3, <1>4, <1>6, <2>1 DEF Parts
<1>8. Len(K) \in 1 .. MaxKeys
  BY <1>2, TreeAssumption
<1>9. Part(h + 1, Inner(K, C), room, want)
  BY <1>7, <1>8, PartsMakePart
<1> QED
  BY <1>9 DEF K, C

\* bptree_insert keeps its promise.
LEMMA TreeKeepsPromise ==
  ASSUME TreeInv, ~damaged, NEW key \in Keys, NEW spare \in Nat
  PROVE  TreePost(key, spare, InsertIntoTree(key, Offset[key], spare))
<1> DEFINE value == Offset[key]
           d == InsertIntoTree(key, value, spare)
           r == InsertIntoNode(key, value, spare)[height][root]
           After(ok, node, h) == [ok |-> ok, root |-> node, height |-> h]
           held == content \cup {key}
<1>1. key \in Ids /\ key \in Int /\ value \in Int /\ Ids \in SUBSET Int
  BY IdsAreNumbers
<1>2. /\ height \in Nat /\ root \in Nodes[height]
      /\ root = NoNode => height = 0 /\ content = {}
      /\ root # NoNode => Holds(root, height, content)
  BY DEF TreeInv
<1>3. d = IF root = NoNode
          THEN IF spare = 0 THEN After(FALSE, NoNode, 0)
               ELSE After(TRUE, Leaf(<<key>>, <<value>>), 0)
          ELSE IF ~r.ok \/ ~r.split THEN After(r.ok, r.node, height)
          ELSE IF r.spare = 0 THEN After(FALSE, r.node, height)
          ELSE After(TRUE, Inner(<<r.promoted>>, <<r.node, r.right>>), height + 1)
  BY DEF InsertIntoTree
<1> SUFFICES TreePost(key, spare, d)
  OBVIOUS
<1> HIDE DEF d, value, After
<1>5. CASE root = NoNode
  <2>1. height = 0 /\ content = {}
    BY <1>2, <1>5
  <2>2. CASE spare = 0
    <3>0. d = After(FALSE, NoNode, 0)
      BY <1>3, <1>5, <2>2
    <3>1. d.ok = FALSE /\ d.root = NoNode /\ d.height = 0
      BY <3>0 DEF After
    <3>2. ~d.ok /\ d.ok \in BOOLEAN
      BY <3>1
    <3>3. key \notin content /\ d.height \in Nat
      BY <2>1, <3>1
    <3>4. d.root \in Nodes[d.height] /\ spare < height + 2
      BY <2>1, <2>2, <3>1, EmptyTree
    <3> QED
      BY <3>2, <3>3, <3>4 DEF TreePost
  <2>3. CASE spare # 0
    <3> DEFINE first == Leaf(<<key>>, <<value>>)
    <3>0. d = After(TRUE, first, 0)
      BY <1>3, <1>5, <2>3
    <3>1. d.ok = TRUE /\ d.root = first /\ d.height = 0
      BY <3>0 DEF After
    <3>2. Holds(first, 0, {key}) /\ held = {key}
      BY <2>1, FirstLeaf DEF value
    <3> HIDE DEF first
    <3>3. first \in Balanced[0][Ids]
      BY <3>2 DEF Holds
    <3>4. first \in Nodes[0] /\ first # NoNode
      BY <1>1, <3>3, BalancedNodes, BalancedHasKeys
    <3>5. d.ok /\ d.ok \in BOOLEAN
      BY <3>1
    <3>6. d.height \in Nat
      BY <3>1
    <3> QED
      BY <3>1, <3>2, <3>4, <3>5, <3>6 DEF TreePost
  <2> QED
    BY <2>2, <2>3
<1>6. CASE root # NoNode
  <2>1. /\ root \in Balanced[height][Ids]
        /\ \A k \in Ids : Search(k)[height][root] = Answer(content, k)
    BY <1>2, <1>6 DEF Holds
  <2>2. InsertPost(height, root, Ids, key, value, spare, r)
    BY <1>1, <1>2, <2>1, InsertKeepsPromise
  <2>3. \A k \in Ids : Wanted(height, root, key, value, k) = Answer(held, k)
    <3>1. ASSUME NEW k \in Ids PROVE Wanted(height, root, key, value, k) = Answer(held, k)
      <4>1. CASE k = key
        BY <4>1 DEF Wanted, Answer, value
      <4>2. CASE k # key
        BY <2>1, <4>2 DEF Wanted, Answer
      <4> QED
        BY <4>1, <4>2
    <3> QED
      BY <3>1
  <2>4. /\ key \in content => Search(key)[height][root] # {}
        /\ key \notin content => Search(key)[height][root] = {}
    BY <1>1, <2>1 DEF Answer
  <2> HIDE DEF r, held
  <2>5. /\ r.ok \in BOOLEAN /\ r.split \in BOOLEAN /\ r.spare \in Nat
        /\ Search(key)[height][root] # {} => ~r.ok /\ r.node = root
        /\ Search(key)[height][root] = {} /\ spare > height =>
             r.ok /\ (r.split => r.spare + height + 1 >= spare)
        /\ ~r.ok => r.node \in Nodes[height]
        /\ r.ok /\ ~r.split =>
             /\ r.node \in Balanced[height][Ids]
             /\ \A k \in Ids : Search(k)[height][r.node] = Wanted(height, root, key, value, k)
    BY <2>2 DEF InsertPost
  <2>6. CASE ~r.ok
    <3>0. d = After(r.ok, r.node, height)
      BY <1>3, <1>6, <2>6
    <3>1. d.ok = r.ok /\ d.root = r.node /\ d.height = height
      BY <3>0 DEF After
    <3>2. ~d.ok /\ d.ok \in BOOLEAN /\ d.height \in Nat /\ d.root \in Nodes[d.height]
      BY <1>2, <2>5, <2>6, <3>1
    <3>3. key \in content => d.root = root
      BY <2>4, <2>5, <3>1
    <3>4. key \notin content => spare < height + 2
      <4>1. key \notin content => ~(spare > height)
        BY <2>4, <2>5, <2>6
      <4> QED
        BY <1>2, <4>1
    <3> QED
      BY <3>1, <3>2, <3>3, <3>4 DEF TreePost
  <2>7. CASE r.ok /\ ~r.split
    <3>0. d = After(r.ok, r.node, height)
      BY <1>3, <1>6, <2>7
    <3>1. d.ok = r.ok /\ d.root = r.node /\ d.height = height
      BY <3>0 DEF After
    <3>2. r.node \in Nodes[height] /\ r.node # NoNode
      BY <1>1, <1>2, <2>5, <2>7, BalancedNodes, BalancedHasKeys
    <3>3. Holds(r.node, height, held)
      BY <2>3, <2>5, <2>7 DEF Holds
    <3>4. d.ok /\ d.ok \in BOOLEAN /\ d.height \in Nat
      BY <1>2, <2>5, <2>7, <3>1
    <3> QED
      BY <3>1, <3>2, <3>3, <3>4 DEF TreePost, held
  <2>8. CASE r.ok /\ r.split
    <3> DEFINE p == r.promoted
               below == {k \in Ids : k < p}
               above == {k \in Ids : p <= k}
               want == [k \in Ids |-> Answer(held, k)]
    <3>1. /\ p \in Ids
          /\ r.node \in Balanced[height][below] /\ r.right \in Balanced[height][above]
          /\ \A k \in below : Search(k)[height][r.node] = Wanted(height, root, key, value, k)
          /\ \A k \in above : Search(k)[height][r.right] = Wanted(height, root, key, value, k)
      BY <2>2, <2>8 DEF InsertPost
    <3>2. key \notin content /\ (spare > height => r.spare + height + 1 >= spare)
      BY <2>4, <2>5, <2>8
    <3>3. CASE r.spare = 0
      <4>0. d = After(FALSE, r.node, height)
        BY <1>3, <1>6, <2>8, <3>3
      <4>1. d.ok = FALSE /\ d.root = r.node /\ d.height = height
        BY <4>0 DEF After
      <4>2. r.node \in Nodes[height]
        <5>1. below \in SUBSET Int
          BY <1>1
        <5> HIDE DEF below
        <5> QED
          BY <1>2, <3>1, <5>1, BalancedNodes
      <4>3. spare < height + 2
        BY <1>2, <3>2, <3>3
      <4>4. ~d.ok /\ d.ok \in BOOLEAN /\ d.height \in Nat
        BY <1>2, <4>1
      <4> QED
        BY <3>2, <4>1, <4>2, <4>3, <4>4 DEF TreePost
    <3>4. CASE r.spare # 0
      <4> DEFINE new == Inner(<<p>>, <<r.node, r.right>>)
                 top == height + 1
      <4>0. d = After(TRUE, new, top)
        BY <1>3, <1>6, <2>8, <3>4
      <4>1. d.ok = TRUE /\ d.root = new /\ d.height = top
        BY <4>0 DEF After
      <4>2. /\ \A k \in below : want[k] = Wanted(height, root, key, value, k)
            /\ \A k \in above : want[k] = Wanted(height, root, key, value, k)
            /\ \A k \in Ids : want[k] = Answer(held, k)
        BY <2>3
      <4> HIDE DEF want
      <4>3. Part(height, r.node, below, want) /\ Part(height, r.right, above, want)
        <5> HIDE DEF below, above
        <5> QED
          BY <3>1, <4>2 DEF Part
      <4> HIDE DEF p
      <4>4. Part(top, new, Ids, want)
        BY <1>1, <1>2, <3>1, <4>3, NewRoot
      <4>5. top \in Nat
        BY <1>2
      <4> HIDE DEF new, top
      <4>6. Holds(new, top, held)
        BY <4>2, <4>4 DEF Part, Holds
      <4>7. new \in Nodes[top] /\ new # NoNode
        <5>1. new \in Balanced[top][Ids]
          BY <4>4 DEF Part
        <5> QED
          BY <1>1, <4>5, <5>1, BalancedNodes, BalancedHasKeys
      <4>8. d.ok /\ d.ok \in BOOLEAN
        BY <4>1
      <4> QED
        BY <4>1, <4>5, <4>6, <4>7, <4>8 DEF TreePost, held
    <3> QED
      BY <3>3, <3>4
  <2> QED
    BY <2>5, <2>6, <2>7, <2>8
<1> QED
  BY <1>5, <1>6

\* The invariant holds of every reachable tree.
LEMMA TreeInvariant == Spec => []TreeInv
<1>1. Init => TreeInv
  <2> SUFFICES ASSUME Init PROVE TreeInv
    OBVIOUS
  <2>1. height = 0 /\ root = NoNode /\ content = {} /\ damaged = FALSE
    BY DEF Init
  <2>2. height \in Nat /\ root \in Nodes[height] /\ content \in SUBSET Keys
    BY <2>1, EmptyTree
  <2>3. damaged \in BOOLEAN
    BY <2>1
  <2> QED
    BY <2>1, <2>2, <2>3 DEF TreeInv
<1>2. TreeInv /\ [Next]_vars => TreeInv'
  <2> SUFFICES ASSUME TreeInv, [Next]_vars PROVE TreeInv'
    OBVIOUS
  <2> DEFINE d(key, spare) == InsertIntoTree(key, Offset[key], spare)
  <2>0. height \in Nat /\ Plenty \in Nat /\ content \in SUBSET Keys /\ damaged \in BOOLEAN
    BY DEF TreeInv, Plenty
  <2>1. ASSUME NEW key \in Keys, Insert(key) PROVE TreeInv'
    <3>1. /\ ~damaged /\ d(key, Plenty).ok /\ root' = d(key, Plenty).root
          /\ height' = d(key, Plenty).height /\ content' = content \cup {key}
          /\ damaged' = damaged
      BY <2>1 DEF Insert
    <3>2. TreePost(key, Plenty, d(key, Plenty))
      BY <2>0, <3>1, TreeKeepsPromise
    <3> HIDE DEF d
    <3>3. /\ height' \in Nat /\ root' \in Nodes[height'] /\ root' # NoNode
          /\ Holds(root', height', content')
      BY <3>1, <3>2 DEF TreePost
    <3>4. content' \in SUBSET Keys /\ damaged' \in BOOLEAN
      BY <2>0, <3>1
    <3> QED
      BY <3>3, <3>4 DEF TreeInv, Holds, Answer, NoNode, Leaf
  <2>2. ASSUME NEW key \in Keys, InsertDuplicate(key) PROVE TreeInv'
    <3>1. /\ ~damaged /\ ~d(key, Plenty).ok /\ root' = d(key, Plenty).root
          /\ height' = d(key, Plenty).height /\ content' = content
          /\ damaged' = damaged
      BY <2>2 DEF InsertDuplicate
    <3>2. TreePost(key, Plenty, d(key, Plenty))
      BY <2>0, <3>1, TreeKeepsPromise
    <3>3. ~(Plenty < height + 2)
      BY <2>0 DEF Plenty
    <3> HIDE DEF d
    <3>4. root' = root /\ height' = height
      BY <3>1, <3>2, <3>3 DEF TreePost
    <3> QED
      BY <3>1, <3>4 DEF TreeInv, Holds, Answer
  <2>3. ASSUME NEW key \in Keys, InsertOutOfMemory(key) PROVE TreeInv'
    <3>1. PICK spare \in 0 .. Plenty - 1 :
            /\ ~damaged /\ root' = d(key, spare).root /\ height' = d(key, spare).height
            /\ damaged' = TRUE /\ content' = content
      BY <2>3 DEF InsertOutOfMemory
    <3>2. spare \in Nat
      BY <2>0
    <3>3. TreePost(key, spare, d(key, spare))
      BY <3>1, <3>2, TreeKeepsPromise
    <3> HIDE DEF d
    <3>4. height' \in Nat /\ root' \in Nodes[height']
      BY <3>1, <3>3 DEF TreePost
    <3> QED
      BY <2>0, <3>1, <3>4 DEF TreeInv
  <2>4. ASSUME Free PROVE TreeInv'
    BY <2>4, EmptyTree DEF Free, TreeInv
  <2>5. CASE UNCHANGED vars
    BY <2>5 DEF vars, TreeInv, Holds, Answer
  <2> QED
    BY <2>1, <2>2, <2>3, <2>4, <2>5 DEF Next
<1> QED
  BY <1>1, <1>2, PTL DEF Spec

\* SearchMatchesContent: bptree_search finds exactly the ids inserted, each with
\* its offset, whatever the order of the inserts and however many splits.
THEOREM SearchExact == Spec => []SearchMatchesContent
<1>1. TreeInv => SearchMatchesContent
  <2> SUFFICES ASSUME TreeInv, ~damaged, NEW key \in Ids
               PROVE  Search(key)[height][root] = Answer(content, key)
    BY DEF SearchMatchesContent, Answer
  <2>1. CASE root = NoNode
    <3>1. height = 0 /\ content = {}
      BY <2>1 DEF TreeInv
    <3> QED
      BY <2>1, <3>1, EmptyTree DEF Answer
  <2>2. CASE root # NoNode
    BY <2>2 DEF TreeInv, Holds
  <2> QED
    BY <2>1, <2>2
<1> QED
  BY <1>1, TreeInvariant, PTL

\* TreeBalanced: every split leaves nodes within BPTREE_MAX_KEYS keys, all leaves
\* at one depth and each subtree within its separators.
THEOREM ShapeKept == Spec => []TreeBalanced
<1>1. TreeInv => TreeBalanced
  BY DEF TreeInv, TreeBalanced, Holds
<1> QED
  BY <1>1, TreeInvariant, PTL

\* DamageContained: the arrays of a node suffice, also for the insert that runs
\* out of memory in the middle of a split.
THEOREM ArraysSuffice == Spec => []DamageContained
<1>1. TreeInv => DamageContained
  BY DEF TreeInv, DamageContained
<1> QED
  BY <1>1, TreeInvariant, PTL
=============================================================================
