---------------------------- MODULE SparseMerkle ----------------------------
(***************************************************************************)
(* The sparse Merkle tree of smt.rs: SMTHelper and BatchedSMTHelper over   *)
(* the append-only lists.  The source computes a root in five places that  *)
(* are meant to agree; here they are operators over one store.  A hash is  *)
(* the node it is taken of, so equal roots are equal trees.  A caller puts *)
(* the values of a block and then has its root computed, as the module's   *)
(* usage notes do.                                                         *)
(***************************************************************************)
EXTENDS Integers, Sequences, FiniteSets, SequencesExt

CONSTANTS
  Keys, Values,
  NoValue,            \* None
  Empty,              \* EMPTY_NODE_HASH
  Bits,               \* the hash of each key, bit 0 first
  MaxHeight,          \* bound on the heights
  MaxPuts,            \* bound on the updates in the lists
  KeysPerBlock,       \* bound on the keys of a block
  MaxRollbacks,       \* bound on the rollbacks
  KeysPerBatch,       \* keys in one call of SMTHelper's batched version
  FirstIncremental,   \* is the incremental version called on an empty tree?
  CachedOverInternals \* is the caching version called over internal nodes?

ASSUME TreeAssumption ==
  /\ MaxHeight \in Nat /\ MaxPuts \in Nat /\ MaxRollbacks \in Nat /\ KeysPerBatch \in Nat
  /\ \A k \in Keys : Bits[k] \in Seq({0, 1})
  /\ FirstIncremental \in BOOLEAN /\ CachedOverInternals \in BOOLEAN

VARIABLES
  height,  \* the block whose values are put
  lists,   \* key/0, key/1, ...: heights and values
  nodes,   \* smt:node: records
  roots,   \* smt:root: records, Empty where there is none or an empty root
  cuts     \* how many more rollbacks there may be

treeVars == <<height, lists, nodes, roots, cuts>>

(***************************************************************************)
(* The append-only lists.                                                  *)
(***************************************************************************)
HeightsOf(k) == {lists[k][i].h : i \in DOMAIN lists[k]}

KeysAtHeight(h) == {k \in Keys : h \in HeightsOf(k)}

ValueAt(k, h) ==
  LET upTo == SelectSeq(lists[k], LAMBDA u : u.h <= h)
  IN  IF upTo = <<>> THEN NoValue ELSE upTo[Len(upTo)].v

(***************************************************************************)
(* Nodes.                                                                  *)
(***************************************************************************)
Leaf(k, v) == [key |-> k, val |-> v]

Internal(l, r) == [left |-> l, right |-> r]

IsLeaf(n) == "key" \in DOMAIN n

Bit(k, d) == Bits[k][d + 1]

Child(n, bit) == IF bit = 0 THEN n.left ELSE n.right

WithChild(n, bit, new) ==
  IF bit = 0 THEN Internal(new, n.right) ELSE Internal(n.left, new)

(* The roots by height: the closest record at or below. *)
RootAt(h) ==
  LET at == {x \in DOMAIN roots : x <= h /\ roots[x] # Empty}
  IN  IF at = {} THEN Empty ELSE roots[CHOOSE x \in at : \A y \in at : y <= x]

(* Where a walk for k ends: at a leaf, at a missing node, or at Empty, and *)
(* at which depth.                                                         *)
RECURSIVE End(_, _, _, _)
End(seen, n, d, k) ==
  IF n \notin seen \/ IsLeaf(n) THEN [node |-> n, depth |-> d]
  ELSE End(seen, Child(n, Bit(k, d)), d + 1, k)

(* get_smt_leaf: the leaf, if it is the key's own. *)
LeafOf(root, k) ==
  LET n == End(nodes, root, 0, k).node
  IN  IF n \in nodes /\ n.key = k THEN n ELSE Empty

(***************************************************************************)
(* Inserting a leaf: down to where the walk ends, then new nodes up again. *)
(***************************************************************************)

(* Mutant: the parents are made but not stored. *)
SeparateTopOnly(d, old, new) ==
  LET fork[e \in d .. Len(Bits[new.key]) - 1] ==
        IF Bit(old.key, e) # Bit(new.key, e)
        THEN WithChild(Internal(old, old), Bit(new.key, e), new)
        ELSE WithChild(Internal(Empty, Empty), Bit(new.key, e), fork[e + 1])
  IN  [top |-> fork[d], made |-> {fork[d]}]

(* Two leaves are told apart at the first bit in which their keys differ,  *)
(* below parents with an empty other side. *)
Separate(d, old, new) ==
  LET last == CHOOSE e \in d .. Len(Bits[new.key]) - 1 :
                /\ Bit(old.key, e) # Bit(new.key, e)
                /\ \A x \in d .. e - 1 : Bit(old.key, x) = Bit(new.key, x)
      fork[e \in d .. last] ==
        IF e = last THEN WithChild(Internal(old, old), Bit(new.key, e), new)
        ELSE WithChild(Internal(Empty, Empty), Bit(new.key, e), fork[e + 1])
  IN  [top |-> fork[d], made |-> {fork[e] : e \in d .. last}]

(* seen: the nodes that can be read; side[d]: on which side the node made  *)
(* at depth d gets its new child. *)
RECURSIVE Insert(_, _, _, _, _)
Insert(seen, n, d, leaf, side) ==
  IF n \notin seen THEN [top |-> leaf, made |-> {}]
  ELSE IF IsLeaf(n)
       THEN IF n.key = leaf.key THEN [top |-> leaf, made |-> {}] ELSE Separate(d, n, leaf)
       ELSE LET below == Insert(seen, Child(n, Bit(leaf.key, d)), d + 1, leaf, side)
                new   == WithChild(n, side[d], below.top)
            IN  [top |-> new, made |-> below.made \cup {new}]

Along(k) == [d \in 0 .. Len(Bits[k]) - 1 |-> Bit(k, d)]

(* The side that `depth` instead of `node_depth` gives: that of the bit    *)
(* where the walk ended. *)
AtTheEnd(seen, root, k) ==
  [d \in 0 .. Len(Bits[k]) - 1 |-> Bit(k, End(seen, root, 0, k).depth)]

(* One update: the leaf, the nodes above it, and the root so far. *)
Updated(acc, seen, leaf, side) ==
  LET new == Insert(seen, acc.top, 0, leaf, side)
  IN  [top |-> new.top, made |-> acc.made \cup new.made \cup {leaf}]

NewLeaf(k) == Leaf(k, ValueAt(k, height))

(* SMTHelper, one batch for all keys: nodes of the batch are not read. *)
StoredUpdate(acc, k) == Updated(acc, nodes, NewLeaf(k), Along(k))

(* BatchedSMTHelper: nodes of the batch are read from the cache. *)
CachedUpdate(acc, k) ==
  LET seen == nodes \cup acc.made
  IN  Updated(acc, seen, NewLeaf(k), AtTheEnd(seen, acc.top, k))

(* SMTHelper, one write for each key, but none for the first of a tree. *)
IncrementalUpdate(acc, k) ==
  IF acc.top = Empty THEN [acc EXCEPT !.top = NewLeaf(k)]
  ELSE Updated(acc, nodes \cup acc.made, NewLeaf(k), Along(k))

(* Mutant: the side of the end, here too. *)
MinimalRootAtTheEnd(root, leaf) ==
  Insert(nodes, root, 0, leaf, AtTheEnd(nodes, root, leaf.key)).top

(* compute_minimal_smt_root for one key: the root alone. *)
MinimalRoot(root, leaf) == Insert(nodes, root, 0, leaf, Along(leaf.key)).top

(* compute_new_root: whatever leaf the walk ends at is replaced. *)
RECURSIVE Replaced(_, _, _)
Replaced(n, d, leaf) ==
  IF n \notin nodes \/ IsLeaf(n) THEN leaf
  ELSE WithChild(n, Bit(leaf.key, d), Replaced(Child(n, Bit(leaf.key, d)), d + 1, leaf))

(***************************************************************************)
(* The caller.                                                             *)
(***************************************************************************)
TreeInit ==
  /\ height = 0 /\ lists = [k \in Keys |-> <<>>]
  /\ nodes = {} /\ roots = [h \in 0 .. MaxHeight |-> Empty] /\ cuts = MaxRollbacks

Puts == {<<k, i>> \in Keys \X (1 .. MaxPuts) : i \in DOMAIN lists[k]}

Put(k, v) ==
  /\ height <= MaxHeight /\ Cardinality(Puts) < MaxPuts
  /\ Cardinality(KeysAtHeight(height) \cup {k}) <= KeysPerBlock
  /\ lists' = [lists EXCEPT ![k] = Append(@, [h |-> height, v |-> v])]
  /\ UNCHANGED <<height, nodes, roots, cuts>>

(* Mutant: the root of the block before the last one. *)
PrevRootOff == RootAt(height - 2)

PrevRoot == RootAt(height - 1)

Start == [top |-> PrevRoot, made |-> {}]

(* The root of the block and the nodes under it, and on to the next block. *)
StoreRoot(acc) ==
  /\ nodes' = nodes \cup acc.made
  /\ roots' = [roots EXCEPT ![height] = acc.top]
  /\ height' = height + 1
  /\ UNCHANGED <<lists, cuts>>

Orders(keys) == {s \in [1 .. Cardinality(keys) -> keys] : {s[i] : i \in DOMAIN s} = keys}

(* A block without updates keeps the root. *)
KeepRoot ==
  /\ height <= MaxHeight /\ KeysAtHeight(height) = {}
  /\ StoreRoot(Start)

(* A caller that knows there are none may leave the root out, unless an    *)
(* abandoned branch has left one: a rollback removes none. *)
SkipRoot ==
  /\ height <= MaxHeight /\ KeysAtHeight(height) = {} /\ roots[height] = Empty
  /\ height' = height + 1
  /\ UNCHANGED <<lists, nodes, roots, cuts>>

RootStored ==
  /\ height <= MaxHeight
  /\ Cardinality(KeysAtHeight(height)) \in 1 .. KeysPerBatch
  /\ \E order \in Orders(KeysAtHeight(height)) :
       StoreRoot(FoldLeft(StoredUpdate, Start, order))

(* The order is that of a scan of the database. *)
RootIncremental ==
  /\ height <= MaxHeight /\ KeysAtHeight(height) # {}
  /\ FirstIncremental \/ PrevRoot # Empty
  /\ StoreRoot(FoldLeft(IncrementalUpdate, Start,
                        CHOOSE order \in Orders(KeysAtHeight(height)) : TRUE))

(* No walk of the block meets an internal node. *)
NoInternals(keys) ==
  IF PrevRoot = Empty THEN keys <= 2 ELSE IsLeaf(PrevRoot) /\ keys = 1

RootCached ==
  /\ height <= MaxHeight /\ KeysAtHeight(height) # {}
  /\ CachedOverInternals \/ NoInternals(Cardinality(KeysAtHeight(height)))
  /\ \E order \in Orders(KeysAtHeight(height)) :
       StoreRoot(FoldLeft(CachedUpdate, Start, order))

(* rollback_to_height trims the lists; nodes and roots stay. *)
Rollback(t) ==
  /\ cuts > 0 /\ t < height
  /\ lists' = [k \in Keys |-> SelectSeq(lists[k], LAMBDA u : u.h <= t)]
  /\ height' = t + 1 /\ cuts' = cuts - 1
  /\ UNCHANGED <<nodes, roots>>

TreeDone == height > MaxHeight /\ UNCHANGED treeVars

TreeNext ==
  \/ \E k \in Keys, v \in Values : Put(k, v)
  \/ KeepRoot \/ SkipRoot \/ RootStored \/ RootIncremental \/ RootCached
  \/ \E t \in 0 .. MaxHeight : Rollback(t)
  \/ TreeDone

TreeSpec == TreeInit /\ [][TreeNext]_treeVars

-----------------------------------------------------------------------------
(***************************************************************************)
(* Properties.                                                             *)
(***************************************************************************)
LeavesAt(h) == {Leaf(k, ValueAt(k, h)) : k \in {x \in Keys : ValueAt(x, h) # NoValue}}

(* The tree of a set of leaves: split by bits until one is left. *)
RECURSIVE Canonical(_, _)
Canonical(leaves, d) ==
  IF leaves = {} THEN Empty
  ELSE IF Cardinality(leaves) = 1 THEN CHOOSE l \in leaves : TRUE
  ELSE Internal(Canonical({l \in leaves : Bit(l.key, d) = 0}, d + 1),
                Canonical({l \in leaves : Bit(l.key, d) = 1}, d + 1))

(* "Same state always produces the same root hash": the root of every      *)
(* height is a function of the values at that height alone, in whatever    *)
(* order and by whichever of the versions they were inserted, replaced,    *)
(* rolled back and inserted again.                                         *)
RootCanonical == \A h \in 0 .. height - 1 : RootAt(h) = Canonical(LeavesAt(h), 0)

(* Historical roots stay usable: from the root of any height, get_smt_leaf *)
(* finds exactly the keys and values of that height, however many blocks   *)
(* and rollbacks have changed the tree since.  (Between two blocks: puts   *)
(* write no nodes.)                                                        *)
LeavesFound ==
  KeysAtHeight(height) = {} => \A h \in 0 .. height - 1, k \in Keys :
    LeafOf(RootAt(h), k) = IF ValueAt(k, h) = NoValue THEN Empty ELSE Leaf(k, ValueAt(k, h))

(* The versions that only compute a root predict the root that the block   *)
(* with one update would have; compute_new_root only if the walk does not  *)
(* end at the leaf of another key.                                         *)
RootsPredicted ==
  KeysAtHeight(height) = {} => \A k \in Keys, v \in Values :
    LET leaf == Leaf(k, v)
        next == Canonical({l \in LeavesAt(height - 1) : l.key # k} \cup {leaf}, 0)
        end  == End(nodes, PrevRoot, 0, k).node
    IN  /\ MinimalRoot(PrevRoot, leaf) = next
        /\ end \notin nodes \/ end.key = k => Replaced(PrevRoot, 0, leaf) = next
=============================================================================
