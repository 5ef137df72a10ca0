---------------------------- MODULE BTreeQuery ----------------------------
(***************************************************************************)
(* The operations of psudb::BTree that only read: search, counting,        *)
(* iteration and the weighted range_sample().  They descend one level per  *)
(* step of a fold; what they return is compared with the records of the    *)
(* tree in order.                                                          *)
(***************************************************************************)
EXTENDS BTree

(* The leaf that find(), exists(), count() and lower_bound() descend to,   *)
(* first with the comparison of find_upper(), and the one upper_bound()    *)
(* descends to.                                                            *)
UpperForLower(t, k) ==
  FoldLeft(LAMBDA n, i : At(t.node[n].childid, FindUpper(t.node[n], k)),
           t.root, Steps(t.node[t.root].level))
LowerLeaf(t, k) ==
  FoldLeft(LAMBDA n, i : At(t.node[n].childid, FindLower(t.node[n], k)),
           t.root, Steps(t.node[t.root].level))
UpperLeaf(t, k) ==
  FoldLeft(LAMBDA n, i : At(t.node[n].childid, FindUpper(t.node[n], k)),
           t.root, Steps(t.node[t.root].level))

(* Iterators: a leaf and a slot in it.                                     *)
Iter(leaf, slot) == [leaf |-> leaf, slot |-> slot]
Begin(t) == Iter(t.head_leaf, 0)
End(t)   == Iter(t.tail_leaf, IF t.tail_leaf = NULL THEN 0 ELSE slotuse(t.node[t.tail_leaf]))

Advance(t, it) ==
  LET leaf == t.node[it.leaf]
  IN  IF it.slot + 1 < slotuse(leaf) THEN Iter(it.leaf, it.slot + 1)
      ELSE IF leaf.next_leaf # NULL THEN Iter(leaf.next_leaf, 0)
      ELSE Iter(it.leaf, slotuse(leaf))
BackstepPast(t, it) ==
  LET leaf == t.node[it.leaf]
  IN  IF it.slot > 0 THEN Iter(it.leaf, it.slot - 1)
      ELSE IF leaf.prev_leaf # NULL
      THEN Iter(leaf.prev_leaf, slotuse(t.node[leaf.prev_leaf]))
      ELSE Iter(it.leaf, 0)
Backstep(t, it) ==
  LET leaf == t.node[it.leaf]
  IN  IF it.slot > 0 THEN Iter(it.leaf, it.slot - 1)
      ELSE IF leaf.prev_leaf # NULL
      THEN Iter(leaf.prev_leaf, slotuse(t.node[leaf.prev_leaf]) - 1)
      ELSE Iter(it.leaf, 0)

LowerBoundIter(t, k) ==
  IF t.root = NULL THEN End(t)
  ELSE Iter(LowerLeaf(t, k), FindLower(t.node[LowerLeaf(t, k)], k))
UpperBoundIter(t, k) ==
  IF t.root = NULL THEN End(t)
  ELSE Iter(UpperLeaf(t, k), FindUpper(t.node[UpperLeaf(t, k)], k))

Exists(t, k) ==
  /\ t.root # NULL
  /\ LET leaf == t.node[LowerLeaf(t, k)]
     IN  FindLower(leaf, k) < slotuse(leaf) /\ At(leaf.slotkey, FindLower(leaf, k)) = k
Find(t, k) == IF Exists(t, k) THEN LowerBoundIter(t, k) ELSE End(t)

(* count(): from lower_bound() on, over as many leaves as the run of equal *)
(* keys covers.                                                            *)
Count(t, k) ==
  LET run[n \in 0..MaxRecords] ==
        IF n = 0 THEN LowerBoundIter(t, k) ELSE Advance(t, run[n - 1])
      holds(it) == it.slot < slotuse(t.node[it.leaf])
                   /\ At(t.node[it.leaf].slotkey, it.slot) = k
  IN  IF ~Exists(t, k) THEN 0
      ELSE CHOOSE n \in 1..MaxRecords : /\ \A i \in 0..(n - 1) : holds(run[i])
                                        /\ n < MaxRecords => ~holds(run[n])

(* range_count(): into every child that may hold a key of lower..upper;    *)
(* first not into the later children of a run of keys equal to upper.      *)
RangeCountShort(t, lower, upper) ==
  LET into(n) == SubSeq(t.node[n].childid, FindLower(t.node[n], lower) + 1,
                                           FindLower(t.node[n], upper) + 1)
      leaves == FoldLeft(LAMBDA c, i : FlattenSeq([j \in DOMAIN c |-> into(c[j])]),
                         <<t.root>>, Steps(t.node[t.root].level))
      hits(n) == Cardinality({i \in DOMAIN t.node[n].slotkey :
                                t.node[n].slotkey[i] \in lower..upper})
  IN  IF t.root = NULL THEN 0
      ELSE SumFunction([i \in DOMAIN leaves |-> hits(leaves[i])])
RangeCount(t, lower, upper) ==
  LET into(n) == SubSeq(t.node[n].childid, FindLower(t.node[n], lower) + 1,
                                           FindUpper(t.node[n], upper) + 1)
      leaves == FoldLeft(LAMBDA c, i : FlattenSeq([j \in DOMAIN c |-> into(c[j])]),
                         <<t.root>>, Steps(t.node[t.root].level))
      hits(n) == Cardinality({i \in DOMAIN t.node[n].slotkey :
                                t.node[n].slotkey[i] \in lower..upper})
  IN  IF t.root = NULL THEN 0
      ELSE SumFunction([i \in DOMAIN leaves |-> hits(leaves[i])])

(* range_sample(), first part: the node where the paths to lower and upper *)
(* part.                                                                   *)
SampleRoot(t, lower, upper) ==
  FoldLeft(LAMBDA n, i :
             IF IsLeaf(t.node[n]) \/ FindLower(t.node[n], lower) # FindUpper(t.node[n], upper)
             THEN n ELSE At(t.node[n].childid, FindLower(t.node[n], lower)),
           t.root, Steps(t.node[t.root].level))

(* Second part, one walk down from there.  A draw uniform over the sum of  *)
(* the weights picks a slot whose weight is positive (a draw of exactly 0  *)
(* aside); the walk starts over in a subtree outside lower..upper.         *)
Drawn(n, s) == n.weight[s] > 0
EntersAfter(n, s, lower, upper) ==
  /\ Drawn(n, s)
  /\ s <= slotuse(n) => ~(n.slotkey[s] <= lower)
  /\ s > 1 => ~(upper < n.slotkey[s - 1])
Enters(n, s, lower, upper) ==
  /\ Drawn(n, s)
  /\ s <= slotuse(n) => ~(n.slotkey[s] < lower)
  /\ s > 1 => ~(upper < n.slotkey[s - 1])
SampledLeaves(t, lower, upper) ==
  LET from == SampleRoot(t, lower, upper)
      into(n) == {t.node[n].childid[s] :
                    s \in {x \in DOMAIN t.node[n].childid : Enters(t.node[n], x, lower, upper)}}
  IN  FoldLeft(LAMBDA S, i : UNION {into(n) : n \in S}, {from},
               Steps(t.node[from].level))
Samples(t, lower, upper) ==
  UNION {{Iter(n, s - 1) : s \in {x \in DOMAIN t.node[n].slotkey :
                                   /\ Drawn(t.node[n], x)
                                   /\ t.node[n].slotkey[x] \in lower..upper}} :
           n \in SampledLeaves(t, lower, upper)}
(* verify(): one assertion after another, node by node.  The keys minkey   *)
(* and maxkey hand up are those of the first and the last leaf below.      *)
MinKeyBelow(t, n) ==
  LET leaf == FoldLeft(LAMBDA m, i : t.node[m].childid[1], n, Steps(t.node[n].level))
  IN  t.node[leaf].slotkey[1]

InOrder(keys) == \A i \in 1..(Len(keys) - 1) : keys[i] <= keys[i + 1]
Linked(t, a, b) == t.node[a].next_leaf = b /\ t.node[b].prev_leaf = a

(* Leaves on both sides of a key are linked: children themselves, or the   *)
(* last and the first child of children.                                   *)
verify_links(t, n) ==
  \A i \in DOMAIN n.slotkey :
    LET a == n.childid[i]
        b == n.childid[i + 1]
    IN  /\ n.level = 1 => Linked(t, a, b)
        /\ n.level = 2 => Linked(t, Last(t.node[a].childid), t.node[b].childid[1])

verify_node(t, id) ==
  LET n == t.node[id]
  IN  /\ id # t.root => ~IsUnderflow(n)
      /\ slotuse(n) > 0 /\ InOrder(n.slotkey)
      /\ ~IsLeaf(n) =>
           /\ \A c \in DOMAIN n.childid :
                /\ t.node[n.childid[c]].level + 1 = n.level
                /\ c > 1 => MinKeyBelow(t, n.childid[c]) >= n.slotkey[c - 1]
                /\ c <= slotuse(n) => n.slotkey[c] = MaxKeyBelow(t, n.childid[c])
                /\ n.weight[c] = CalculateWeight(t.node[n.childid[c]])
           /\ verify_links(t, n)

verify_leaflinks(t) ==
  LET chain == LeafChain(t)
  IN  /\ t.node[t.head_leaf].prev_leaf = NULL /\ t.tail_leaf = Last(chain)
      /\ \A i \in 1..(Len(chain) - 1) : Linked(t, chain[i], chain[i + 1])
      /\ InOrder(FlattenSeq([i \in DOMAIN chain |-> t.node[chain[i]].slotkey]))
      /\ SumFunction([i \in DOMAIN chain |-> slotuse(t.node[chain[i]])]) = t.size

verify(t) ==
  t.root # NULL =>
    /\ \A id \in Below(t, t.root) : verify_node(t, id)
    /\ SumFunction([i \in DOMAIN LeavesInOrder(t) |->
                     slotuse(t.node[LeavesInOrder(t)[i]])]) = t.size
    /\ verify_leaflinks(t)

(* Copy constructor and assignment.  The nodes of the copy are numbered as *)
(* the nodes they are copies of: the two trees share no address.  Leaves   *)
(* are chained in the order of the recursion, first without prev_leaf.     *)
(* No weight is copied, and a fresh node has none but 0.                   *)
Before(seq, x) ==
  LET i == CHOOSE j \in DOMAIN seq : seq[j] = x IN IF i = 1 THEN NULL ELSE seq[i - 1]
After(seq, x) ==
  LET i == CHOOSE j \in DOMAIN seq : seq[j] = x
  IN  IF i = Len(seq) THEN NULL ELSE seq[i + 1]
ForwardOnly(t, n, id) == [n EXCEPT !.prev_leaf = NULL, !.next_leaf = After(LeavesInOrder(t), id)]
Chained(t, n, id) == [n EXCEPT !.prev_leaf = Before(LeavesInOrder(t), id),
                               !.next_leaf = After(LeavesInOrder(t), id)]

copy_recursive(t, id) ==
  LET n == [t.node[id] EXCEPT !.weight = [s \in DOMAIN @ |-> 0]]
  IN  IF IsLeaf(n) THEN Chained(t, n, id) ELSE n

Copied(t) ==
  IF t.size = 0 THEN EmptyTree
  ELSE LET leaves == LeavesInOrder(t)
       IN  [node |-> [id \in NodeId |-> IF id \in Below(t, t.root)
                                       THEN copy_recursive(t, id) ELSE Free],
            root |-> t.root, head_leaf |-> leaves[1], tail_leaf |-> Last(leaves),
            size |-> t.size]
-----------------------------------------------------------------------------
(* Positions of the records, and the iterator of each.                     *)
Positions(t) ==
  LET chain == LeafChain(t)
      slots(n) == [j \in 1..slotuse(t.node[n]) |-> Iter(n, j - 1)]
  IN  FlattenSeq([i \in DOMAIN chain |-> slots(chain[i])])
KeyAt(t, it) == At(t.node[it.leaf].slotkey, it.slot)

Probes == Key \cup {k + 1 : k \in Key} \cup {k - 1 : k \in Key}

(* Between calls lower_bound(), upper_bound(), find(), exists() and        *)
(* count() answer what the records in order say, for keys that are stored  *)
(* and keys that are not: no query ends in a leaf beside the one it needs, *)
(* also when a run of equal keys covers several leaves.                    *)
SearchesAgree ==
  Idle =>
    LET pos == Positions(tree)
        at(i) == IF i <= Len(pos) THEN pos[i] ELSE End(tree)
        below(k) == Cardinality({i \in DOMAIN pos : KeyAt(tree, pos[i]) < k})
        equal(k) == Cardinality({i \in DOMAIN pos : KeyAt(tree, pos[i]) = k})
    IN  \A k \in Probes :
          /\ LowerBoundIter(tree, k) = at(below(k) + 1)
          /\ UpperBoundIter(tree, k) = at(below(k) + equal(k) + 1)
          /\ Find(tree, k) = IF equal(k) > 0 THEN at(below(k) + 1) ELSE End(tree)
          /\ Count(tree, k) = equal(k)

(* Between calls range_count() counts every record with a key in the range *)
(* once, and none outside it.                                              *)
RangeCountExact ==
  Idle =>
    LET pos == Positions(tree)
    IN  \A lower, upper \in Probes : lower <= upper =>
          RangeCount(tree, lower, upper) =
            Cardinality({i \in DOMAIN pos : KeyAt(tree, pos[i]) \in lower..upper})

(* Between calls ++ from begin() visits every record once in order and     *)
(* then stays at end(), and -- goes the same way back.                     *)
IterationComplete ==
  Idle /\ tree.root # NULL =>
    LET pos == Positions(tree)
    IN  /\ pos[1] = Begin(tree)
        /\ \A i \in DOMAIN pos :
             Advance(tree, pos[i]) = IF i < Len(pos) THEN pos[i + 1] ELSE End(tree)
        /\ \A i \in 2..Len(pos) : Backstep(tree, pos[i]) = pos[i - 1]
        /\ Backstep(tree, End(tree)) = pos[Len(pos)]

(* operator== and operator<, from begin() to end().                        *)
KeysOf(t) == [i \in DOMAIN Positions(t) |-> KeyAt(t, Positions(t)[i])]
Equal(t, u) == t.size = u.size /\ KeysOf(t) = KeysOf(u)
Less(t, u) ==
  LET a == KeysOf(t)
      b == KeysOf(u)
  IN  \E i \in 1..Len(b) : /\ SubSeq(a, 1, i - 1) = SubSeq(b, 1, i - 1)
                           /\ i > Len(a) \/ a[i] < b[i]

(* Between calls the assertions of verify() hold of the tree, as they must *)
(* when self_verify has every call end with them, and of a copy of it; the *)
(* copy compares equal.  Its weights agree with each other but are all 0:  *)
(* it holds the records, and range_sample() finds none of them.            *)
CopyVerified ==
  Idle /\ tree.root # NULL =>
    /\ verify(tree) /\ verify(Copied(tree))
    /\ Equal(Copied(tree), tree)
    /\ ~Less(Copied(tree), tree) /\ ~Less(tree, Copied(tree))
    /\ \A k \in Key : Samples(Copied(tree), k, k) = {}

(* Between calls range_sample() can draw exactly the records of the range  *)
(* with a positive weight: its walk leaves none out, by starting too deep  *)
(* or by turning back from a subtree that holds one, and never returns a   *)
(* key outside the range.                                                  *)
SamplesExact ==
  Idle /\ tree.root # NULL =>
    LET stored == ToSet(Positions(tree))
    IN  \A lower, upper \in Probes : lower <= upper =>
          Samples(tree, lower, upper) =
            {it \in stored : /\ KeyAt(tree, it) \in lower..upper
                             /\ At(tree.node[it.leaf].weight, it.slot) > 0}
=============================================================================
