------------------------------- MODULE BTree -------------------------------
(***************************************************************************)
(* psudb::BTree (psu-ds/BTree.h): a B+ tree of key-sorted leaves, chained  *)
(* left to right, whose inner nodes carry for every child the sum of the   *)
(* weights below it, which range_sample() draws by.                        *)
(*                                                                         *)
(* insert(), erase_one() and erase(iterator) recurse.  Every activation of *)
(* insert_descend() / erase_*_descend() is one element of `stack`, with    *)
(* the arguments and locals it holds across the recursive call: the child  *)
(* slot it went into and pointers to the siblings and their parents, all   *)
(* read before nodes below were split, shifted, merged and freed.  One     *)
(* action runs an activation up to its recursive call, or from the return  *)
(* of that call to its own return.                                         *)
(*                                                                         *)
(* Slots are the code's, from 0.  A node's arrays are sequences as long as *)
(* the part in use, so slotuse is the number of keys; slotkey also stands  *)
(* for the keys of a leaf's slotdata.  Weights are integers, not doubles.  *)
(***************************************************************************)
EXTENDS Integers, Sequences, FiniteSets, SequencesExt

CONSTANTS Key,         (* the keys, ordered as integers                    *)
          Weight,      (* the weights a caller gives to insert()           *)
          LeafSlots,   (* traits::leaf_slots                               *)
          InnerSlots,  (* traits::inner_slots                              *)
          Duplicates,  (* the template parameter allow_duplicates          *)
          NodeId,      (* bound: the addresses the allocator gives out     *)
          Ranges,      (* bound: the sorted ranges given to bulk_load()    *)
          MaxRecords   (* bound: the most records a behaviour stores       *)

IsSortedRange(s) ==
  /\ s \in Seq(Key) /\ s # <<>> /\ Len(s) <= MaxRecords
  /\ \A i \in 1..(Len(s) - 1) : s[i] < s[i + 1] \/ (Duplicates /\ s[i] = s[i + 1])

(* With fewer than 4 leaf slots erasing the last record of a half-full     *)
(* leaf would read key(slotuse - 1) of an empty leaf; the default traits   *)
(* have 16 slots.                                                          *)
ASSUME BTreeAssumption == /\ Key \subseteq Int
                          /\ Weight \subseteq Int
                          /\ LeafSlots \in Nat /\ LeafSlots >= 4
                          /\ InnerSlots \in Nat /\ InnerSlots >= 2
                          /\ Duplicates \in BOOLEAN
                          /\ NodeId \subseteq Nat \ {0}
                          /\ MaxRecords \in Nat
                          /\ \A s \in Ranges : IsSortedRange(s)

VARIABLES tree,    (* the heap of nodes and the members of the object      *)
          pc,      (* what the running call does next; "idle": no call     *)
          call,    (* the running call and its arguments                   *)
          stack,   (* its activations, the innermost last                  *)
          result   (* what the activation that returned last handed back   *)

vars == <<tree, pc, call, stack, result>>

NULL == 0
Free == [level |-> -1, slotkey |-> <<>>, childid |-> <<>>, weight |-> <<>>,
         prev_leaf |-> NULL, next_leaf |-> NULL]

slotuse(n)    == Len(n.slotkey)
IsLeaf(n)     == n.level = 0
SlotMax(n)    == IF IsLeaf(n) THEN LeafSlots ELSE InnerSlots
SlotMin(n)    == SlotMax(n) \div 2
IsFull(n)     == slotuse(n) = SlotMax(n)
IsFew(n)      == slotuse(n) <= SlotMin(n)
UnderflowLate(n) == slotuse(n) + 1 < SlotMin(n)
IsUnderflow(n) == slotuse(n) < SlotMin(n)
CalculateWeight(n) == SumFunction(n.weight)

At(s, i)     == s[i + 1]
First(s, i)  == SubSeq(s, 1, i)
From(s, i)   == SubSeq(s, i + 1, Len(s))
LastKey(n)   == At(n.slotkey, slotuse(n) - 1)

(* The first slot whose key is greater than k, and the first whose key is  *)
(* not less.                                                               *)
FindUpper(n, k) ==
  CHOOSE i \in 0..slotuse(n) : /\ \A j \in 1..i : n.slotkey[j] <= k
                               /\ i < slotuse(n) => k < At(n.slotkey, i)
FindLower(n, k) ==
  CHOOSE i \in 0..slotuse(n) : /\ \A j \in 1..i : n.slotkey[j] < k
                               /\ i < slotuse(n) => k <= At(n.slotkey, i)

FreeIds(t)   == {id \in NodeId : t.node[id] = Free}
Allocated(t) == NodeId \ FreeIds(t)
Fresh(t)     == CHOOSE id \in FreeIds(t) : \A other \in FreeIds(t) : id <= other

NewLeaf == [Free EXCEPT !.level = 0]
EmptyTree == [node |-> [id \in NodeId |-> Free], root |-> NULL,
              head_leaf |-> NULL, tail_leaf |-> NULL, size |-> 0]
-----------------------------------------------------------------------------
(* Splitting a full node                                                   *)

SplitLeafNode(t, n) ==
  LET leaf == t.node[n]
      mid  == slotuse(leaf) \div 2
      new  == Fresh(t)
      right == [NewLeaf EXCEPT !.slotkey = From(leaf.slotkey, mid),
                               !.weight = From(leaf.weight, mid),
                               !.prev_leaf = n,
                               !.next_leaf = leaf.next_leaf]
      left  == [leaf EXCEPT !.slotkey = First(@, mid), !.weight = First(@, mid),
                            !.next_leaf = new]
  IN  [tree |-> [t EXCEPT
         !.node = [id \in NodeId |->
                     IF id = new THEN right
                     ELSE IF id = n THEN left
                     ELSE IF id = leaf.next_leaf THEN [@[id] EXCEPT !.prev_leaf = new]
                     ELSE @[id]],
         !.tail_leaf = IF leaf.next_leaf = NULL THEN new ELSE @],
       newkey |-> LastKey(left), newchild |-> new]

(* The key between the halves moves up; the split leaves room on the side  *)
(* that child addslot + 1 goes to.                                         *)
SplitInnerNode(t, n, addslot) ==
  LET inner == t.node[n]
      half  == slotuse(inner) \div 2
      mid   == IF addslot <= half /\ half > slotuse(inner) - (half + 1)
               THEN half - 1 ELSE half
      new   == Fresh(t)
  IN  [tree |-> [t EXCEPT
         !.node = [@ EXCEPT
            ![n] = [inner EXCEPT !.slotkey = First(@, mid),
                                 !.childid = First(@, mid + 1),
                                 !.weight = First(@, mid + 1)],
            ![new] = [inner EXCEPT !.slotkey = From(@, mid + 1),
                                   !.childid = From(@, mid + 1),
                                   !.weight = From(@, mid + 1)]]],
       newkey |-> At(inner.slotkey, mid), newchild |-> new]
-----------------------------------------------------------------------------
(* Insertion                                                               *)

(* insert_descend() at a leaf: what it returns, and the tree it leaves.    *)
InsertIntoLeaf(t, n, k, w) ==
  LET slot  == FindLower(t.node[n], k)
      split == IF IsFull(t.node[n]) THEN SplitLeafNode(t, n)
               ELSE [tree |-> t, newkey |-> k, newchild |-> NULL]
      left  == slotuse(split.tree.node[n])
      right == split.newchild # NULL /\ slot >= left
      leaf  == IF right THEN split.newchild ELSE n
      at    == IF right THEN slot - left ELSE slot
  IN  [tree |-> [split.tree EXCEPT
                   !.node[leaf].slotkey = InsertAt(@, at + 1, k),
                   !.node[leaf].weight = InsertAt(@, at + 1, w)],
       newchild |-> split.newchild,
       newkey |-> IF ~right /\ at = left THEN k ELSE split.newkey]

(* The child at `slot` of n was split: insert_descend() puts the new child *)
(* after it, splitting n first when n is full.                             *)
PutChild(t, n, slot, key, child) ==
  LET inner == t.node[n]
  IN  [t EXCEPT !.node[n] =
         [inner EXCEPT !.slotkey = InsertAt(@, slot + 1, key),
                       !.childid = InsertAt(@, slot + 2, child),
                       !.weight = [InsertAt(@, slot + 2, CalculateWeight(t.node[child]))
                                     EXCEPT ![slot + 1] =
                                       CalculateWeight(t.node[At(inner.childid, slot)])]]]

AddChild(t, n, slot, key, child) ==
  IF ~IsFull(t.node[n])
  THEN [tree |-> PutChild(t, n, slot, key, child), newkey |-> key, newchild |-> NULL]
  ELSE LET split == SplitInnerNode(t, n, slot)
           new   == split.newchild
           st    == split.tree
           left  == st.node[n]
           right == st.node[new]
           moved == At(right.childid, 0)
       IN  IF slot = slotuse(left) + 1 /\ slotuse(left) < slotuse(right)
           THEN \* the new key is the one that separates the two halves
                [tree |-> [st EXCEPT
                   !.node[n] = [left EXCEPT
                      !.slotkey = Append(@, split.newkey),
                      !.childid = Append(@, moved),
                      !.weight = Append(@, CalculateWeight(t.node[moved]))],
                   !.node[new] = [right EXCEPT
                      !.childid[1] = child,
                      !.weight[1] = CalculateWeight(t.node[child])]],
                 newkey |-> key, newchild |-> new]
           ELSE [split EXCEPT
                  !.tree = IF slot >= slotuse(left) + 1
                           THEN PutChild(st, new, slot - (slotuse(left) + 1), key, child)
                           ELSE PutChild(st, n, slot, key, child)]

(* insert_start() after a split of the root.                               *)
GrowRoot(t, key, child) ==
  LET new == Fresh(t)
  IN  [t EXCEPT
         !.node[new] = [Free EXCEPT
            !.level = t.node[t.root].level + 1,
            !.slotkey = <<key>>,
            !.childid = <<t.root, child>>,
            !.weight = <<CalculateWeight(t.node[t.root]),
                         CalculateWeight(t.node[child])>>],
         !.root = new]
-----------------------------------------------------------------------------
(* Erasure: the siblings passed down, and the repair of an underflow       *)

(* The arguments of the recursive call from activation f into child slot,  *)
(* first with a slip: the parent of a cousin taken for the child's own.    *)
(* The left cousin is not the last but the last-but-one child of the left  *)
(* sibling: childid[slotuse - 1].                                          *)
OwnParentArgs(t, f, slot) ==
  LET inner == t.node[f.n]
  IN  [n |-> At(inner.childid, slot), slot |-> 0,
       left |-> IF slot # 0 THEN At(inner.childid, slot - 1)
                ELSE IF f.left = NULL THEN NULL
                ELSE At(t.node[f.left].childid, slotuse(t.node[f.left]) - 1),
       left_parent |-> IF slot # 0 \/ f.left # NULL THEN f.n ELSE f.left_parent,
       right |-> IF slot # slotuse(inner) THEN At(inner.childid, slot + 1)
                 ELSE IF f.right = NULL THEN NULL
                 ELSE At(t.node[f.right].childid, 0),
       right_parent |-> IF slot # slotuse(inner) \/ f.right # NULL
                       THEN f.n ELSE f.right_parent,
       parent |-> f.n, parentslot |-> slot]
ChildArgs(t, f, slot) ==
  LET inner == t.node[f.n]
  IN  [n |-> At(inner.childid, slot), slot |-> 0,
       left |-> IF slot # 0 THEN At(inner.childid, slot - 1)
                ELSE IF f.left = NULL THEN NULL
                ELSE At(t.node[f.left].childid, slotuse(t.node[f.left]) - 1),
       left_parent |-> IF slot # 0 THEN f.n ELSE f.left_parent,
       right |-> IF slot # slotuse(inner) THEN At(inner.childid, slot + 1)
                 ELSE IF f.right = NULL THEN NULL
                 ELSE At(t.node[f.right].childid, 0),
       right_parent |-> IF slot # slotuse(inner) THEN f.n ELSE f.right_parent,
       parent |-> f.n, parentslot |-> slot]

RootArgs(t) == [n |-> t.root, slot |-> 0, left |-> NULL, left_parent |-> NULL,
                right |-> NULL, right_parent |-> NULL,
                parent |-> NULL, parentslot |-> 0]

(* The pairs of neighbours a repair may work on, with their common parent  *)
(* and the slot in it of the left one.                                     *)
WithLeft(f)  == [left |-> f.left, right |-> f.n,
                 parent |-> f.left_parent, slot |-> f.parentslot - 1]
WithRight(f) == [left |-> f.n, right |-> f.right,
                 parent |-> f.right_parent, slot |-> f.parentslot]

Few(t, n)    == n = NULL \/ IsFew(t.node[n])
HasMore(t, n) == n # NULL /\ ~IsFew(t.node[n])

Underflows(t, n) ==
  IsUnderflow(t.node[n]) /\ ~(n = t.root /\ slotuse(t.node[n]) >= 1)

(* The case analysis of both erase functions, for leaves and inner nodes:  *)
(* what is done about the underflow of f.n, and with which neighbour.      *)
Repair(t, f) ==
  CASE ~Underflows(t, f.n) -> "none"
    [] OTHER ->
  CASE f.left = NULL /\ f.right = NULL -> "drop_root"
    [] OTHER ->
  CASE Few(t, f.left) /\ Few(t, f.right) ->
         IF f.left_parent = f.parent THEN "merge_left" ELSE "merge_right"
    [] f.left # NULL /\ Few(t, f.left) /\ HasMore(t, f.right) ->
         IF f.right_parent = f.parent THEN "shift_left" ELSE "merge_left"
    [] HasMore(t, f.left) /\ f.right # NULL /\ Few(t, f.right) ->
         IF f.left_parent = f.parent THEN "shift_right" ELSE "merge_right"
    [] OTHER ->
  CASE f.left_parent = f.right_parent ->
         IF slotuse(t.node[f.left]) <= slotuse(t.node[f.right])
         THEN "shift_left" ELSE "shift_right"
    [] OTHER -> IF f.left_parent = f.parent THEN "shift_right" ELSE "shift_left"

MergeLeavesUnlinked(t, p) ==
  LET right == t.node[p.right]
  IN  [t EXCEPT
         !.node[p.left] = [@ EXCEPT !.slotkey = @ \o right.slotkey,
                                    !.weight = @ \o right.weight,
                                    !.next_leaf = right.next_leaf],
         !.node[p.right] = [@ EXCEPT !.slotkey = <<>>, !.weight = <<>>]]
MergeLeaves(t, p) ==
  LET left  == t.node[p.left]
      right == t.node[p.right]
  IN  [t EXCEPT
         !.node = [id \in NodeId |->
            IF id = p.left
            THEN [left EXCEPT !.slotkey = @ \o right.slotkey,
                              !.weight = @ \o right.weight,
                              !.next_leaf = right.next_leaf]
            ELSE IF id = p.right THEN [right EXCEPT !.slotkey = <<>>, !.weight = <<>>]
            ELSE IF id = right.next_leaf THEN [@[id] EXCEPT !.prev_leaf = p.left]
            ELSE @[id]],
         !.tail_leaf = IF right.next_leaf = NULL THEN p.left ELSE @]

MergeInner(t, p) ==
  LET left  == t.node[p.left]
      right == t.node[p.right]
      down  == At(t.node[p.parent].slotkey, p.slot)
  IN  [t EXCEPT
         !.node[p.left] = [left EXCEPT !.slotkey = (@ \o <<down>>) \o right.slotkey,
                                       !.childid = @ \o right.childid,
                                       !.weight = @ \o right.weight],
         !.node[p.right] = [right EXCEPT !.slotkey = <<>>, !.childid = <<>>,
                                         !.weight = <<>>]]

(* Put the rebalanced neighbours back under their parent, with the key     *)
(* that now separates them and both weights recomputed.                    *)
Rebalanced(t, p, left, right, separator) ==
  [t EXCEPT
     !.node[p.left] = left,
     !.node[p.right] = right,
     !.node[p.parent] = [t.node[p.parent] EXCEPT
        !.slotkey[p.slot + 1] = separator,
        !.weight[p.slot + 1] = CalculateWeight(left),
        !.weight[p.slot + 2] = CalculateWeight(right)]]

ShiftLeftLeaf(t, p) ==
  LET left  == t.node[p.left]
      right == t.node[p.right]
      num   == (slotuse(right) - slotuse(left)) \div 2
      newleft == [left EXCEPT !.slotkey = @ \o First(right.slotkey, num),
                              !.weight = @ \o First(right.weight, num)]
  IN  Rebalanced(t, p, newleft,
                 [right EXCEPT !.slotkey = From(@, num), !.weight = From(@, num)],
                 LastKey(newleft))

ShiftRightLeaf(t, p) ==
  LET left  == t.node[p.left]
      right == t.node[p.right]
      keep  == slotuse(left) - (slotuse(left) - slotuse(right)) \div 2
      newleft == [left EXCEPT !.slotkey = First(@, keep), !.weight = First(@, keep)]
  IN  Rebalanced(t, p, newleft,
                 [right EXCEPT !.slotkey = From(left.slotkey, keep) \o @,
                               !.weight = From(left.weight, keep) \o @],
                 LastKey(newleft))

(* The separator in the parent comes down with the first children moved,   *)
(* and the key after the last child moved goes up in its place.            *)
ShiftLeftInner(t, p) ==
  LET left  == t.node[p.left]
      right == t.node[p.right]
      down  == At(t.node[p.parent].slotkey, p.slot)
      num   == (slotuse(right) - slotuse(left)) \div 2
  IN  Rebalanced(t, p,
        [left EXCEPT !.slotkey = (@ \o <<down>>) \o First(right.slotkey, num - 1),
                     !.childid = @ \o First(right.childid, num),
                     !.weight = @ \o First(right.weight, num)],
        [right EXCEPT !.slotkey = From(@, num), !.childid = From(@, num),
                      !.weight = From(@, num)],
        At(right.slotkey, num - 1))

ShiftRightInner(t, p) ==
  LET left  == t.node[p.left]
      right == t.node[p.right]
      down  == At(t.node[p.parent].slotkey, p.slot)
      keep  == slotuse(left) - (slotuse(left) - slotuse(right)) \div 2
  IN  Rebalanced(t, p,
        [left EXCEPT !.slotkey = First(@, keep), !.childid = First(@, keep + 1),
                     !.weight = First(@, keep + 1)],
        [right EXCEPT !.slotkey = (From(left.slotkey, keep + 1) \o <<down>>) \o @,
                      !.childid = From(left.childid, keep + 1) \o @,
                      !.weight = From(left.weight, keep + 1) \o @],
        At(left.slotkey, keep))

KeepNode(t, n) == t
FreeNode(t, n) == [t EXCEPT !.node[n] = Free]

(* The empty root leaf is freed, or the only child of the root becomes     *)
(* the root.                                                               *)
DropRoot(t, n) ==
  IF IsLeaf(t.node[n])
  THEN [FreeNode(t, n) EXCEPT !.root = NULL, !.head_leaf = NULL, !.tail_leaf = NULL]
  ELSE [FreeNode(t, n) EXCEPT !.root = At(t.node[n].childid, 0)]

(* The tree after the repair, and the flags it adds to those of the        *)
(* activation; dropping the root returns btree_ok, without them.           *)
Repaired(t, f, flags) ==
  LET leaf == IsLeaf(t.node[f.n])
      what == Repair(t, f)
  IN  CASE what = "none" -> [tree |-> t, flags |-> flags]
        [] what = "drop_root" -> [tree |-> DropRoot(t, f.n), flags |-> {}]
        [] what = "merge_left" ->
             [tree |-> IF leaf THEN MergeLeaves(t, WithLeft(f))
                       ELSE MergeInner(t, WithLeft(f)),
              flags |-> flags \cup {"fixmerge"}]
        [] what = "merge_right" ->
             [tree |-> IF leaf THEN MergeLeaves(t, WithRight(f))
                       ELSE MergeInner(t, WithRight(f)),
              flags |-> flags \cup {"fixmerge"}]
        [] what = "shift_left" ->
             [tree |-> IF leaf THEN ShiftLeftLeaf(t, WithRight(f))
                       ELSE ShiftLeftInner(t, WithRight(f)),
              flags |-> flags \cup {"shift"}]
        [] what = "shift_right" ->
             [tree |-> IF leaf THEN ShiftRightLeaf(t, WithLeft(f))
                       ELSE ShiftRightInner(t, WithLeft(f)),
              flags |-> flags \cup {"shift"}]

(* A last key that changed goes into the parent's slot for this child, or  *)
(* further up when the child is the parent's last (first: not further up). *)
TellParentOnly(t, f, key) ==
  [tree |-> IF f.parent # NULL /\ f.parentslot < slotuse(t.node[f.parent])
            THEN [t EXCEPT !.node[f.parent].slotkey[f.parentslot + 1] = key]
            ELSE t,
   flags |-> {}]
TellParent(t, f, key) ==
  IF f.parent # NULL /\ f.parentslot < slotuse(t.node[f.parent])
  THEN [tree |-> [t EXCEPT !.node[f.parent].slotkey[f.parentslot + 1] = key],
        flags |-> {}]
  ELSE [tree |-> t, flags |-> {"update_lastkey"}]

(* Remove slot from the leaf of activation f.                              *)
Without(leaf, slot) == [leaf EXCEPT !.slotkey = RemoveAt(@, slot + 1),
                                    !.weight = RemoveAt(@, slot + 1)]

EraseFromLeaf(t, f, slot) ==
  LET cut  == [t EXCEPT !.node[f.n] = Without(@, slot)]
      leaf == cut.node[f.n]
      last == slot = slotuse(leaf) /\ slotuse(leaf) >= 1
      told == IF last THEN TellParent(cut, f, LastKey(leaf))
              ELSE [tree |-> cut, flags |-> {}]
  IN  Repaired(told.tree, f, told.flags)

(* Below slot two children were merged: free the emptied one and close the *)
(* gap in the parent.                                                      *)
FixMerge(t, n, slot) ==
  LET inner == t.node[n]
      empty == IF slotuse(t.node[At(inner.childid, slot)]) # 0 THEN slot + 1 ELSE slot
      freed == FreeNode(t, At(inner.childid, empty))
      keys  == RemoveAt(inner.slotkey, empty)
      childs == RemoveAt(inner.childid, empty + 1)
      merged == t.node[At(childs, empty - 1)]
  IN  [freed EXCEPT !.node[n] = [inner EXCEPT
         !.childid = childs,
         !.weight = [i \in 1..Len(childs) |->
                       IF i \in {empty, empty + 1}
                       THEN CalculateWeight(t.node[childs[i]])
                       ELSE RemoveAt(inner.weight, empty + 1)[i]],
         !.slotkey = IF inner.level = 1 /\ empty - 1 < Len(keys)
                     THEN [keys EXCEPT ![empty] = LastKey(merged)] ELSE keys]]

(* The inner activation f after its call into child f.slot returned r with *)
(* a record erased: the last key, the merge or the weight of that child,   *)
(* then its own underflow.  erase_one_descend() leaves the weight alone    *)
(* when a shift below has recomputed it; erase_iter_descend() does not     *)
(* ask.                                                                    *)
LoseNoWeight(t, n, slot, carry) == t
LoseWeight(t, n, slot, carry) == [t EXCEPT !.node[n].weight[slot + 1] = @ - carry]

EraseFromInner(t, f, op, r) ==
  LET told  == IF "update_lastkey" \in r.flags THEN TellParent(t, f, r.key)
               ELSE [tree |-> t, flags |-> {}]
      fixed == IF "fixmerge" \in r.flags THEN FixMerge(told.tree, f.n, f.slot)
               ELSE IF op = "erase_one" /\ "shift" \in r.flags THEN told.tree
               ELSE LoseWeight(told.tree, f.n, f.slot, r.carry)
  IN  Repaired(fixed, f, told.flags)
-----------------------------------------------------------------------------
(* The calls                                                               *)

NoCall   == [op |-> "none"]
NoResult == [flags |-> {}, key |-> 0, child |-> NULL, carry |-> 0]

Init == /\ tree = EmptyTree
        /\ pc = "idle" /\ call = NoCall /\ stack = <<>> /\ result = NoResult

Top    == Last(stack)
Node(n) == tree.node[n]
Erasing == call.op \in {"erase_one", "erase_iter"}

Return(t, r) ==
  /\ tree' = t
  /\ pc' = "return" /\ stack' = Front(stack) /\ result' = r
  /\ UNCHANGED call

Finish(t) ==
  /\ tree' = t
  /\ pc' = "idle" /\ call' = NoCall /\ stack' = <<>> /\ result' = NoResult

(* insert(): the first record brings the root leaf.                        *)
InsertStart(k, w) ==
  /\ pc = "idle" /\ tree.size < MaxRecords
  /\ call' = [op |-> "insert", key |-> k, weight |-> w]
  /\ IF tree.root = NULL
     THEN LET new == Fresh(tree)
          IN  tree' = [tree EXCEPT !.node[new] = NewLeaf, !.root = new,
                                   !.head_leaf = new, !.tail_leaf = new]
     ELSE tree' = tree
  /\ stack' = <<[n |-> tree'.root, slot |-> 0]>>
  /\ pc' = "descend" /\ UNCHANGED result

InsertDescend ==
  /\ pc = "descend" /\ call.op = "insert" /\ ~IsLeaf(Node(Top.n))
  /\ LET slot == FindLower(Node(Top.n), call.key)
     IN  stack' = Append(Front(stack), [Top EXCEPT !.slot = slot])
                  \o <<[n |-> At(Node(Top.n).childid, slot), slot |-> 0]>>
  /\ UNCHANGED <<tree, pc, call, result>>

InsertLeaf ==
  /\ pc = "descend" /\ call.op = "insert" /\ IsLeaf(Node(Top.n))
  /\ LET slot == FindLower(Node(Top.n), call.key)
         into == InsertIntoLeaf(tree, Top.n, call.key, call.weight)
     IN  IF /\ ~Duplicates
            /\ slot < slotuse(Node(Top.n)) /\ At(Node(Top.n).slotkey, slot) = call.key
         THEN Return(tree, NoResult)
         ELSE Return(into.tree, [NoResult EXCEPT !.flags = {"inserted"},
                                                 !.key = into.newkey,
                                                 !.child = into.newchild])

InsertReturn ==
  /\ pc = "return" /\ call.op = "insert" /\ stack # <<>>
  /\ IF result.child # NULL
     THEN LET put == AddChild(tree, Top.n, Top.slot, result.key, result.child)
          IN  Return(put.tree, [result EXCEPT !.key = put.newkey, !.child = put.newchild])
     ELSE IF "inserted" \in result.flags
     THEN Return([tree EXCEPT !.node[Top.n].weight[Top.slot + 1] = @ + call.weight], result)
     ELSE Return(tree, result)

InsertFinish ==
  /\ pc = "return" /\ call.op = "insert" /\ stack = <<>>
  /\ LET grown == IF result.child # NULL THEN GrowRoot(tree, result.key, result.child)
                  ELSE tree
     IN  Finish([grown EXCEPT !.size = IF "inserted" \in result.flags THEN @ + 1 ELSE @])

(* erase_one(); on an empty tree it returns at once, as erase(iterator).   *)
EraseStart(c) ==
  /\ pc = "idle" /\ tree.root # NULL
  /\ call' = c
  /\ stack' = <<RootArgs(tree)>>
  /\ pc' = "descend" /\ UNCHANGED <<tree, result>>

EraseOneStart(k) == EraseStart([op |-> "erase_one", key |-> k])

(* erase(iterator), for an iterator that refers to a stored record.        *)
EraseIterStart(leaf, slot) ==
  /\ IsLeaf(Node(leaf)) /\ slot < slotuse(Node(leaf))
  /\ EraseStart([op |-> "erase_iter", key |-> At(Node(leaf).slotkey, slot),
                 leaf |-> leaf, slot |-> slot])

EraseInto(slot) ==
  /\ stack' = Append(Front(stack), [Top EXCEPT !.slot = slot])
              \o <<ChildArgs(tree, Top, slot)>>
  /\ pc' = "descend"
  /\ UNCHANGED <<tree, call, result>>

EraseDescend ==
  /\ pc = "descend" /\ Erasing /\ ~IsLeaf(Node(Top.n))
  /\ EraseInto(FindLower(Node(Top.n), call.key))

NotFound == [NoResult EXCEPT !.flags = {"not_found"}]

(* The record the call is for is at slot of leaf n; first without the      *)
(* comparison of the leaf with the iterator's.                             *)
FoundAnywhere(n, slot) ==
  /\ slot < slotuse(Node(n))
  /\ At(Node(n).slotkey, slot) = call.key
Found(n, slot) ==
  /\ slot < slotuse(Node(n))
  /\ IF call.op = "erase_one" THEN At(Node(n).slotkey, slot) = call.key
     ELSE n = call.leaf

EraseLeaf ==
  /\ pc = "descend" /\ Erasing /\ IsLeaf(Node(Top.n))
  /\ LET leaf  == Node(Top.n)
         slot  == IF call.op = "erase_one" THEN FindLower(leaf, call.key) ELSE call.slot
         done  == EraseFromLeaf(tree, Top, slot)
     IN  IF ~Found(Top.n, slot) THEN Return(tree, NotFound)
         ELSE Return(done.tree,
                [NoResult EXCEPT !.flags = done.flags,
                   !.key = IF "update_lastkey" \in done.flags
                           THEN LastKey(Without(leaf, slot))
                           ELSE 0,
                   !.carry = At(leaf.weight, slot)])

(* The depth-first search of erase(iterator) goes on in the next child     *)
(* while that may hold the key.                                            *)
RetryEarly ==
  /\ pc = "return" /\ call.op = "erase_iter" /\ stack # <<>>
  /\ "not_found" \in result.flags
  /\ LET inner == Node(Top.n)
     IN  IF Top.slot < slotuse(inner) /\ call.key < At(inner.slotkey, Top.slot)
         THEN EraseInto(Top.slot + 1)
         ELSE Return(tree, result)
RetrySame ==
  /\ pc = "return" /\ call.op = "erase_iter" /\ stack # <<>>
  /\ "not_found" \in result.flags
  /\ LET inner == Node(Top.n)
     IN  IF Top.slot < slotuse(inner) /\ ~(At(inner.slotkey, Top.slot) < call.key)
         THEN EraseInto(Top.slot)
         ELSE Return(tree, result)
EraseRetry ==
  /\ pc = "return" /\ call.op = "erase_iter" /\ stack # <<>>
  /\ "not_found" \in result.flags
  /\ LET inner == Node(Top.n)
     IN  IF Top.slot < slotuse(inner) /\ ~(At(inner.slotkey, Top.slot) < call.key)
         THEN EraseInto(Top.slot + 1)
         ELSE Return(tree, result)

EraseReturn ==
  /\ pc = "return" /\ Erasing /\ stack # <<>>
  /\ IF "not_found" \in result.flags
     THEN call.op = "erase_one" /\ Return(tree, result)
     ELSE LET done == EraseFromInner(tree, Top, call.op, result)
          IN  Return(done.tree,
                [result EXCEPT !.flags = done.flags,
                   !.key = IF "update_lastkey" \in done.flags THEN @ ELSE 0])

FinishAlways ==
  /\ pc = "return" /\ Erasing /\ stack = <<>>
  /\ Finish([tree EXCEPT !.size = @ - 1])
EraseFinish ==
  /\ pc = "return" /\ Erasing /\ stack = <<>>
  /\ Finish([tree EXCEPT !.size = IF "not_found" \in result.flags THEN @ ELSE @ - 1])

(* bulk_load() of the sorted range `items` into an empty tree: `parts`     *)
(* nodes are still to be made on this level, out of the items or of the    *)
(* nodes `children` of the level below, the rest shared evenly among them. *)
SharedEvenly(num, max) == (num + max - 1) \div max

BulkLoadStart(items) ==
  /\ pc = "idle" /\ tree.root = NULL
  /\ call' = [op |-> "bulk_load", items |-> items, level |-> 0,
              parts |-> SharedEvenly(Len(items), LeafSlots),
              children |-> <<>>, parents |-> <<>>]
  /\ tree' = [tree EXCEPT !.size = Len(items)]
  /\ pc' = "load" /\ UNCHANGED <<stack, result>>

(* The node just made, with the greatest key below it, ends the level when *)
(* it is the last part: a lone node is the root, several are the children  *)
(* of the next level.                                                      *)
LoadedNode(t, c, made) ==
  LET parents == Append(c.parents, made)
  IN  IF c.parts > 1
      THEN /\ tree' = t
           /\ call' = [c EXCEPT !.parts = @ - 1, !.parents = parents]
           /\ UNCHANGED <<pc, stack, result>>
      ELSE IF Len(parents) = 1 THEN Finish([t EXCEPT !.root = made.n])
      ELSE /\ tree' = t
           /\ call' = [c EXCEPT !.level = @ + 1, !.children = parents,
                                !.parents = <<>>,
                                !.parts = SharedEvenly(Len(parents), InnerSlots + 1)]
           /\ UNCHANGED <<pc, stack, result>>

BulkLoadLeaf ==
  /\ pc = "load" /\ call.level = 0
  /\ LET new  == Fresh(tree)
         num  == Len(call.items) \div call.parts
         tail == tree.tail_leaf
         leaf == [NewLeaf EXCEPT !.slotkey = First(call.items, num),
                                 !.weight = [i \in 1..num |-> 1],
                                 !.prev_leaf = tail]
         nodes == [id \in NodeId |->
                     IF id = new THEN leaf
                     ELSE IF id = tail THEN [Node(id) EXCEPT !.next_leaf = new]
                     ELSE Node(id)]
     IN  LoadedNode([tree EXCEPT !.node = nodes, !.tail_leaf = new,
                                 !.head_leaf = IF tail = NULL THEN new ELSE @],
                    [call EXCEPT !.items = From(@, num)],
                    [n |-> new, maxkey |-> LastKey(leaf)])

BulkLoadInner ==
  /\ pc = "load" /\ call.level > 0
  /\ LET new  == Fresh(tree)
         num  == Len(call.children) \div call.parts
         mine == First(call.children, num)
         inner == [Free EXCEPT
                     !.level = call.level,
                     !.slotkey = [i \in 1..(num - 1) |-> mine[i].maxkey],
                     !.childid = [i \in 1..num |-> mine[i].n],
                     !.weight = [i \in 1..num |-> CalculateWeight(Node(mine[i].n))]]
     IN  LoadedNode([tree EXCEPT !.node[new] = inner],
                    [call EXCEPT !.children = From(@, num)],
                    [n |-> new, maxkey |-> Last(mine).maxkey])

(* The nodes below (and including) n, level by level.                      *)
Children(t, n) == ToSet(t.node[n].childid)
Below(t, n) ==
  LET down[i \in Nat] ==
        IF i = 0 THEN {n}
        ELSE LET above == down[i - 1]
             IN  above \cup UNION {Children(t, m) : m \in above}
  IN  IF n = NULL THEN {} ELSE down[t.node[n].level]

(* clear(): clear_recursive() frees every node below the root.             *)
Clear ==
  /\ pc = "idle" /\ tree.root # NULL
  /\ LET gone == Below(tree, tree.root)
     IN  tree' = [node |-> [id \in NodeId |-> IF id \in gone THEN Free ELSE Node(id)],
                  root |-> NULL, head_leaf |-> NULL, tail_leaf |-> NULL, size |-> 0]
  /\ UNCHANGED <<pc, call, stack, result>>

(* One call runs at a time: the class takes no locks and its caller has to *)
(* keep calls apart.                                                       *)
InsertNext == \/ \E k \in Key, w \in Weight : InsertStart(k, w)
              \/ InsertDescend
              \/ InsertLeaf
              \/ InsertReturn
              \/ InsertFinish

EraseNext == EraseDescend \/ EraseLeaf \/ EraseReturn \/ EraseFinish

EraseOneNext  == (\E k \in Key : EraseOneStart(k)) \/ EraseNext
EraseIterNext == \/ \E leaf \in Allocated(tree), slot \in 0..(LeafSlots - 1) :
                      EraseIterStart(leaf, slot)
                 \/ EraseNext
                 \/ EraseRetry

BulkLoadNext == \/ \E items \in Ranges : BulkLoadStart(items)
                \/ BulkLoadLeaf
                \/ BulkLoadInner

(* A client that erases by key, and one that erases by iterator.           *)
KeyNext  == InsertNext \/ EraseOneNext \/ BulkLoadNext \/ Clear
IterNext == InsertNext \/ EraseIterNext
Next     == KeyNext \/ IterNext

KeySpec  == Init /\ [][KeyNext]_vars
IterSpec == Init /\ [][IterNext]_vars
Spec     == Init /\ [][Next]_vars

(* The thread in a call goes on; no one has to make a call.                *)
FairSpec == Spec /\ WF_vars(Next /\ pc # "idle")
-----------------------------------------------------------------------------
(* Reading the tree                                                        *)

(* The leaves from head_leaf on along next_leaf, and the leaves below the  *)
(* root from left to right.                                                *)
Steps(n) == [i \in 1..n |-> i]
LeafChain(t) ==
  LET next == [n \in NodeId \cup {NULL} |-> IF n = NULL THEN NULL ELSE t.node[n].next_leaf]
      walk[i \in 1..(Cardinality(NodeId) + 1)] ==
        IF i = 1 THEN t.head_leaf ELSE next[walk[i - 1]]
  IN  SelectSeq([i \in 1..(Cardinality(NodeId) + 1) |-> walk[i]], LAMBDA n : n # NULL)
LeavesInOrder(t) ==
  IF t.root = NULL THEN <<>>
  ELSE FoldLeft(LAMBDA c, i : FlattenSeq([j \in DOMAIN c |-> t.node[c[j]].childid]),
                <<t.root>>, Steps(t.node[t.root].level))

Records(n) == [i \in DOMAIN n.slotkey |-> [key |-> n.slotkey[i], weight |-> n.weight[i]]]
Contents(t) ==
  LET chain == LeafChain(t)
  IN  FlattenSeq([i \in DOMAIN chain |-> Records(t.node[chain[i]])])

(* The greatest key below n: the last key of its rightmost leaf.           *)
MaxKeyBelow(t, n) ==
  LET leaf == FoldLeft(LAMBDA m, i : Last(t.node[m].childid), n, Steps(t.node[n].level))
  IN  LastKey(t.node[leaf])
-----------------------------------------------------------------------------
Idle == pc = "idle"
Inners(t) == {n \in Allocated(t) : ~IsLeaf(t.node[n])}

NodeRecord == [level : -1..Cardinality(NodeId), slotkey : Seq(Key), childid : Seq(NodeId),
               weight : Seq(Int), prev_leaf : NodeId \cup {NULL},
               next_leaf : NodeId \cup {NULL}]
Flags == {"inserted", "not_found", "update_lastkey", "fixmerge", "shift"}

(* The allocator can give out another node: NodeId is large enough.        *)
MemoryLeft == FreeIds(tree) # {}

(* Every member has its type, an inner node a weight per child, a leaf one *)
(* per key, and the bounds on nodes and records are not reached.           *)
TypeOK ==
  /\ tree.node \in [NodeId -> NodeRecord]
  /\ {tree.root, tree.head_leaf, tree.tail_leaf} \subseteq NodeId \cup {NULL}
  /\ tree.size \in 0..MaxRecords /\ MemoryLeft
  /\ \A n \in Allocated(tree) :
       LET inner == Node(n)
       IN  /\ IsLeaf(inner) => Len(inner.weight) = slotuse(inner) /\ inner.childid = <<>>
           /\ ~IsLeaf(inner) => /\ Len(inner.weight) = Len(inner.childid)
                               /\ Len(inner.childid) \in {0, slotuse(inner) + 1}
  /\ pc \in {"idle", "descend", "return", "load"}
  /\ call.op \in {"none", "insert", "erase_one", "erase_iter", "bulk_load"}
  /\ \A i \in DOMAIN stack : stack[i].n \in NodeId /\ stack[i].slot \in 0..InnerSlots
  /\ result.flags \subseteq Flags /\ result.child \in NodeId \cup {NULL}

(* At every step, in the middle of a call too, no node has more keys than  *)
(* slots: nothing is written behind its arrays.  Between calls every node  *)
(* but the root is at least half full, the root is a leaf with a record or *)
(* has two children, an inner node has one child more than keys, and all   *)
(* leaves are equally deep (verify_node()).                                *)
Balanced ==
  /\ \A n \in Allocated(tree) : slotuse(Node(n)) <= SlotMax(Node(n))
  /\ Idle => \A n \in Allocated(tree) :
               /\ slotuse(Node(n)) >= IF n = tree.root THEN 1 ELSE SlotMin(Node(n))
               /\ ~IsLeaf(Node(n)) => Len(Node(n).childid) = slotuse(Node(n)) + 1
               /\ \A c \in Children(tree, n) : Node(c).level = Node(n).level - 1

(* Between calls the key in front of a child is the greatest key below the *)
(* child before it, and every node's keys are in order (verify_node()): a  *)
(* search never goes into a subtree that cannot hold its key.              *)
SeparatorsExact ==
  Idle => /\ \A n \in Inners(tree) : \A i \in DOMAIN Node(n).slotkey :
               Node(n).slotkey[i] = MaxKeyBelow(tree, Node(n).childid[i])
          /\ \A n \in Allocated(tree) : \A i \in 1..(slotuse(Node(n)) - 1) :
               \/ Node(n).slotkey[i] < Node(n).slotkey[i + 1]
               \/ Duplicates /\ Node(n).slotkey[i] = Node(n).slotkey[i + 1]

(* Between calls the weight an inner node keeps for a child is the sum of  *)
(* the weights in the child (the assertion at the end of verify_node()):   *)
(* range_sample() draws every record with the probability its weight gives *)
(* it.                                                                     *)
WeightsExact ==
  Idle => \A n \in Inners(tree) : \A i \in DOMAIN Node(n).childid :
            Node(n).weight[i] = CalculateWeight(Node(Node(n).childid[i]))

(* At every step, in the middle of a call too, the leaves form a doubly    *)
(* linked list from head_leaf to tail_leaf; between calls it visits the    *)
(* leaves of the tree from left to right (verify_leaflinks()), and the     *)
(* records along it are as many as the size counted (verify()).            *)
LeavesLinked ==
  LET chain == LeafChain(tree)
  IN  /\ \A i \in DOMAIN chain :
           Node(chain[i]).prev_leaf = IF i = 1 THEN NULL ELSE chain[i - 1]
      /\ tree.tail_leaf = IF chain = <<>> THEN NULL ELSE Last(chain)
      /\ Idle => chain = LeavesInOrder(tree) /\ tree.size = Len(Contents(tree))

(* Between calls the nodes that are allocated are the nodes below the      *)
(* root: none is leaked, and none is freed while a parent points to it.    *)
NothingLost == Idle => Below(tree, tree.root) = Allocated(tree)

(* Whenever an erasing activation runs, or is returned to, the siblings    *)
(* and parents it got on the way down are still what a repair takes them   *)
(* for: allocated, next to each other at that slot of the parent, one      *)
(* level apart (the assertions of merge_inner() and the shifts).  Repairs  *)
(* made below in the meantime have not moved or freed them.                *)
Adjacent(t, p) ==
  /\ {p.left, p.right, p.parent} \subseteq Allocated(t)
  /\ t.node[p.left].level = t.node[p.right].level
  /\ t.node[p.parent].level = t.node[p.left].level + 1
  /\ p.slot \in 0..(slotuse(t.node[p.parent]) - 1)
  /\ At(t.node[p.parent].childid, p.slot) = p.left
  /\ At(t.node[p.parent].childid, p.slot + 1) = p.right

RepairsAdjacent ==
  Erasing => \A i \in DOMAIN stack :
    LET f == stack[i]
    IN  /\ f.left # NULL /\ f.left_parent = f.parent => Adjacent(tree, WithLeft(f))
        /\ f.right # NULL /\ f.right_parent = f.parent => Adjacent(tree, WithRight(f))

(* A call that changed nothing had nothing to change: insert() refuses     *)
(* only a key that is stored and may not be repeated, erase_one() finds    *)
(* every key that is stored, and erase(iterator) every record, also in a   *)
(* run of equal keys over several leaves.                                  *)
Stored(t, k) == \E n \in Allocated(t) : k \in ToSet(t.node[n].slotkey) /\ IsLeaf(t.node[n])

OutcomeTrue ==
  pc = "return" /\ stack = <<>> =>
    /\ call.op = "insert" /\ "inserted" \notin result.flags =>
         ~Duplicates /\ Stored(tree, call.key)
    /\ Erasing /\ "not_found" \in result.flags =>
         call.op = "erase_one" /\ ~Stored(tree, call.key)

(* Every call returns, the search of erase(iterator) for its leaf too.     *)
CallsEnd == pc # "idle" ~> pc = "idle"
=============================================================================
