----------------------------- MODULE BPlusTree -----------------------------
(***************************************************************************)
(* index/bptree.c: the B+ tree that maps a row's id to its offset, against *)
(* the function it is meant to compute.  A node is a value, its children   *)
(* are inside it; the arrays keys, values and children are sequences, so   *)
(* key_count is a length and array index i is position i + 1.  The next    *)
(* pointers of the leaves, which nothing reads, are left out.  What the C  *)
(* code does by recursion is here a function of the height of a subtree.   *)
(***************************************************************************)
EXTENDS Integers, Sequences, SequencesExt

CONSTANTS
  MaxKeys,   \* BPTREE_MAX_KEYS
  Keys,      \* ids used in one behaviour
  Offset     \* Offset[id]: the value registered with an id

ASSUME TreeAssumption ==
  /\ MaxKeys \in Nat \ {0, 1}
  /\ Keys \subseteq Int
  /\ Offset \in [Keys -> Int]

VARIABLES
  root,      \* tree->root, NoNode if NULL
  height,    \* history: how many levels of inner nodes the tree has
  content,   \* history: the ids inserted since the tree was empty
  damaged    \* an insert ran out of memory half-way

vars == <<root, height, content, damaged>>

Leaf(keys, values) ==
  [isLeaf |-> TRUE, keys |-> keys, values |-> values, children |-> <<>>]
Inner(keys, children) ==
  [isLeaf |-> FALSE, keys |-> keys, values |-> <<>>, children |-> children]
NoNode == Leaf(<<>>, <<>>)

(* The nodes whose arrays are within their sizes: room for one key and one *)
(* child more than a node keeps after an insert.                           *)
LeafNodes ==
  {node \in [isLeaf : {TRUE}, keys : Seq(Int), values : Seq(Int), children : {<<>>}] :
     Len(node.keys) <= MaxKeys + 1 /\ Len(node.values) = Len(node.keys)}
InnerNodes(below) ==
  {node \in [isLeaf : {FALSE}, keys : Seq(Int), values : {<<>>}, children : Seq(below)] :
     Len(node.keys) <= MaxKeys + 1 /\ Len(node.children) = Len(node.keys) + 1}

\* The nodes with h levels of inner nodes.
Nodes[h \in Nat] == IF h = 0 THEN LeafNodes ELSE InnerNodes(Nodes[h - 1])

Init == root = NoNode /\ height = 0 /\ content = {} /\ damaged = FALSE

-----------------------------------------------------------------------------
\* Mutant of ChildIndex: a key equal to the separator goes left.
ChildIndexStrict(node, key) ==
  CHOOSE i \in 1 .. Len(node.keys) + 1 :
    /\ \A j \in 1 .. i - 1 : node.keys[j] < key
    /\ i <= Len(node.keys) => key <= node.keys[i]

\* find_child_index: the loop stops at the first separator above key.
ChildIndex(node, key) ==
  CHOOSE i \in 1 .. Len(node.keys) + 1 :
    /\ \A j \in 1 .. i - 1 : node.keys[j] <= key
    /\ i <= Len(node.keys) => key < node.keys[i]

\* insert_index: the first key of a leaf that is not below key.
LeafIndex(node, key) ==
  CHOOSE i \in 1 .. Len(node.keys) + 1 :
    /\ \A j \in 1 .. i - 1 : node.keys[j] < key
    /\ i <= Len(node.keys) => key <= node.keys[i]

(* InsertState with the node as the insert leaves it, and spare: how many  *)
(* more allocations will succeed.                                          *)
Done(node, spare) ==
  [ok |-> TRUE, split |-> FALSE, node |-> node, promoted |-> 0,
   right |-> NoNode, spare |-> spare]
Split(left, key, right, spare) ==
  [ok |-> TRUE, split |-> TRUE, node |-> left, promoted |-> key,
   right |-> right, spare |-> spare]
Error(node) ==
  [ok |-> FALSE, split |-> FALSE, node |-> node, promoted |-> 0,
   right |-> NoNode, spare |-> 0]

\* Mutant of SplitLeaf: the promoted key is the last one of the left leaf.
SplitLeafAtLeft(node, spare) ==
  LET half == Len(node.keys) \div 2
      n == Len(node.keys)
  IN Split(Leaf(SubSeq(node.keys, 1, half), SubSeq(node.values, 1, half)),
           node.keys[half],
           Leaf(SubSeq(node.keys, half + 1, n), SubSeq(node.values, half + 1, n)),
           spare - 1)

\* The second half of insert_into_leaf: the upper half moves to a new leaf,
\* whose first key goes up.
SplitLeaf(node, spare) ==
  LET half == Len(node.keys) \div 2
      n == Len(node.keys)
  IN Split(Leaf(SubSeq(node.keys, 1, half), SubSeq(node.values, 1, half)),
           node.keys[half + 1],
           Leaf(SubSeq(node.keys, half + 1, n), SubSeq(node.values, half + 1, n)),
           spare - 1)

\* Mutant of LeafHasRoom: a leaf is left with one key too many.
LeafHasRoomForOne(node) == Len(node.keys) <= MaxKeys + 1

LeafHasRoom(node) == Len(node.keys) <= MaxKeys

InsertIntoLeaf(node, key, value, spare) ==
  LET at == LeafIndex(node, key)
      grown == Leaf(InsertAt(node.keys, at, key), InsertAt(node.values, at, value))
  IN IF at <= Len(node.keys) /\ node.keys[at] = key THEN Error(node)
     ELSE IF LeafHasRoom(grown) THEN Done(grown, spare)
     ELSE IF spare = 0 THEN Error(grown)
     ELSE SplitLeaf(grown, spare)

\* The second half of insert_into_internal: the middle key goes up, what is to
\* its right moves to a new node.
SplitInner(node, spare) ==
  LET mid == Len(node.keys) \div 2 + 1
      n == Len(node.keys)
  IN Split(Inner(SubSeq(node.keys, 1, mid - 1), SubSeq(node.children, 1, mid)),
           node.keys[mid],
           Inner(SubSeq(node.keys, mid + 1, n), SubSeq(node.children, mid + 1, n + 1)),
           spare - 1)

\* insert_into_internal, after the insert into the child at position at.
InsertIntoInner(node, at, child) ==
  LET kept == [node.children EXCEPT ![at] = child.node]
      grown == Inner(InsertAt(node.keys, at, child.promoted),
                     InsertAt(kept, at + 1, child.right))
  IN IF ~child.ok THEN Error(Inner(node.keys, kept))
     ELSE IF ~child.split THEN Done(Inner(node.keys, kept), child.spare)
     ELSE IF Len(grown.keys) <= MaxKeys THEN Done(grown, child.spare)
     ELSE IF child.spare = 0 THEN Error(grown)
     ELSE SplitInner(grown, child.spare)

InsertIntoNode(key, value, spare) ==
  LET insert[h \in Nat] ==
        [node \in Nodes[h] |->
           IF node.isLeaf THEN InsertIntoLeaf(node, key, value, spare)
           ELSE LET at == ChildIndex(node, key)
                IN InsertIntoInner(node, at, insert[h - 1][node.children[at]])]
  IN insert

\* bptree_insert: what it returns and the tree it leaves.
InsertIntoTree(key, value, spare) ==
  LET done == InsertIntoNode(key, value, spare)[height][root]
      After(ok, node, h) == [ok |-> ok, root |-> node, height |-> h]
  IN IF root = NoNode
     THEN IF spare = 0 THEN After(FALSE, NoNode, 0)
          ELSE After(TRUE, Leaf(<<key>>, <<value>>), 0)
     ELSE IF ~done.ok \/ ~done.split THEN After(done.ok, done.node, height)
     ELSE IF done.spare = 0 THEN After(FALSE, done.node, height)
     ELSE After(TRUE, Inner(<<done.promoted>>, <<done.node, done.right>>), height + 1)

\* bptree_search: the values found, one or none.
SearchLeaf(node, key) ==
  {node.values[i] : i \in {j \in DOMAIN node.keys : node.keys[j] = key}}

Search(key) ==
  LET search[h \in Nat] ==
        [node \in Nodes[h] |->
           IF node.isLeaf THEN SearchLeaf(node, key)
           ELSE search[h - 1][node.children[ChildIndex(node, key)]]]
  IN search

-----------------------------------------------------------------------------
\* One allocation per level and one for a new root always suffice.
Plenty == height + 2

Insert(key) ==
  LET done == InsertIntoTree(key, Offset[key], Plenty)
  IN /\ ~damaged
     /\ done.ok
     /\ root' = done.root /\ height' = done.height
     /\ content' = content \cup {key}
     /\ UNCHANGED damaged

\* A key the tree has is refused.
InsertDuplicate(key) ==
  LET done == InsertIntoTree(key, Offset[key], Plenty)
  IN /\ ~damaged
     /\ ~done.ok
     /\ root' = done.root /\ height' = done.height
     /\ UNCHANGED <<content, damaged>>

\* An allocation fails: the insert stops where it is.
InsertOutOfMemory(key) ==
  \E spare \in 0 .. Plenty - 1 :
    LET done == InsertIntoTree(key, Offset[key], spare)
    IN /\ ~damaged
       /\ key \notin content
       /\ ~done.ok
       /\ root' = done.root /\ height' = done.height
       /\ damaged' = TRUE
       /\ UNCHANGED content

\* bptree_free and bptree_init, which every caller does after a failed insert.
Free ==
  /\ damaged
  /\ root' = NoNode /\ height' = 0 /\ content' = {} /\ damaged' = FALSE

Next ==
  \/ \E key \in Keys : Insert(key) \/ InsertDuplicate(key) \/ InsertOutOfMemory(key)
  \/ Free

Spec == Init /\ [][Next]_vars

-----------------------------------------------------------------------------
(* Properties. *)

\* The ids that may be asked for: those that are inserted, and their neighbours.
Ids == Keys \cup {k - 1 : k \in Keys} \cup {k + 1 : k \in Keys}

(* bptree_search finds exactly the ids inserted, each with the value it    *)
(* was inserted with, whatever the order of the inserts and wherever the   *)
(* splits fell; an id that was refused as a duplicate changed nothing.     *)
SearchMatchesContent ==
  ~damaged =>
    \A key \in Ids :
      Search(key)[height][root] = IF key \in content THEN {Offset[key]} ELSE {}

\* The ids of a room that find_child_index sends to child i.
Room(node, i, room) ==
  {k \in room : /\ i > 1 => node.keys[i - 1] <= k
                /\ i <= Len(node.keys) => k < node.keys[i]}

\* At most MaxKeys keys, in their order and within the room.
InShape(node, room) ==
  /\ Len(node.keys) \in 1 .. MaxKeys
  /\ \A i \in DOMAIN node.keys : node.keys[i] \in room
  /\ \A i, j \in DOMAIN node.keys : i < j => node.keys[i] < node.keys[j]

\* The subtrees with h levels of inner nodes whose ids lie in a room.
Balanced[h \in Nat] ==
  [room \in SUBSET Int |->
     {node \in Nodes[h] :
        /\ InShape(node, room)
        /\ \A i \in DOMAIN node.children :
             node.children[i] \in Balanced[h - 1][Room(node, i, room)]}]

(* The shape that makes search logarithmic and the arrays large enough: at *)
(* most MaxKeys keys in a node, all leaves at one depth, each subtree      *)
(* within its separators.                                                  *)
TreeBalanced == ~damaged /\ root # NoNode => root \in Balanced[height][Ids]

(* No insert writes beyond the arrays of a node (one key and one child     *)
(* more than MaxKeys allows), also when it runs out of memory in a split:  *)
(* the half-changed tree can be walked by the bptree_free that follows.    *)
DamageContained == root \in Nodes[height]
=============================================================================
