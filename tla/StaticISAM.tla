----------------------------- MODULE StaticISAM -----------------------------
(***************************************************************************)
(* psudb::ISAMTree (psu-ds/StaticISAM.h): a sorted vector of records with  *)
(* an array of inner nodes over it.  FANOUT records make a leaf; the inner *)
(* nodes of all levels stand in one array, m_inodes, the root last.        *)
(*                                                                         *)
(* The array of nodes is modelled by its slots: slot i of node n is number *)
(* n * FANOUT + i.  A slot holds the smallest key below it and a pointer,  *)
(* to a leaf or to a node; a slot outside the domain of the function is as *)
(* sf_aligned_calloc() left it, a null pointer.  Nothing keeps a write     *)
(* inside the allocation of inode_cnt nodes but the count itself.          *)
(***************************************************************************)
EXTENDS Integers, Sequences, TLC, FiniteSetsExt, Bitwise

CONSTANTS FANOUT,      (* the template parameter                           *)
          RecordSize   (* sizeof(R)                                        *)

(* The static_assert of the class.  It also lets a fanout of 1 pass, for   *)
(* which log(fanout) is 0 and required_internal_node_cnt() undefined.      *)
ASSUME ISAMAssumption == /\ FANOUT \in Nat /\ FANOUT > 1 /\ FANOUT & (FANOUT - 1) = 0
                         /\ RecordSize \in Nat /\ RecordSize > 0

VARIABLE isam   (* [m_data, slots, m_root, inode_cnt], or NoTree            *)

NoTree == [deleted |-> TRUE]

Record == [first : Int, second : Int]
-----------------------------------------------------------------------------
(* size raised to a multiple of alignment, by masking.                     *)
TYPEALIGN(alignment, size) ==
  LET raised == size + alignment - 1
  IN  raised - (raised & (alignment - 1))

leaf_sz == RecordSize * FANOUT

LeafCount(records) == TYPEALIGN(leaf_sz, records * RecordSize) \div leaf_sz

CeilDiv(a, b) == (a + b - 1) \div b

(* The sum of the geometric series without its leaves: of the expression   *)
(* on doubles, node_cnt * (1 - 1/node_cnt) / (1 - 1/fanout) - (node_cnt-1) *)
(* remains (node_cnt - 1) / (fanout - 1), rounded up.  At least one leaf.  *)
RootUncounted(node_cnt) == Max({1, CeilDiv(node_cnt - 1, FANOUT - 1)})
required_internal_node_cnt(node_cnt) ==
  LET inode_cnt == CeilDiv(node_cnt - 1, FANOUT - 1)
  IN  IF inode_cnt > 1 THEN inode_cnt + 1 ELSE 1

LeafPtr(n) == [leaf |-> TRUE,  at |-> n]
NodePtr(n) == [leaf |-> FALSE, at |-> n]

(* One slot for every FANOUT-th record.                                    *)
FirstLevel(data) ==
  [p \in 0..(CeilDiv(Len(data), FANOUT) - 1) |->
     [key |-> data[p * FANOUT + 1].first, ptr |-> LeafPtr(p)]]

(* One round of the do loop over the nodes start..stop-1: the new level is *)
(* written from node stop on, whatever already stands there.  The last of  *)
(* the nodes is not linked, and a node left partly filled is not counted   *)
(* to the new level.                                                       *)
Link(b) ==
  LET linked == IF b.stop > b.start THEN b.stop - b.start - 1 ELSE 0
  IN  [slots |-> [p \in (b.stop * FANOUT)..(b.stop * FANOUT + linked - 1) |->
                    LET child == b.start + p - b.stop * FANOUT
                    IN  [key |-> b.slots[child * FANOUT].key, ptr |-> NodePtr(child)]]
                 @@ b.slots,
       start |-> b.stop,
       stop  |-> b.stop + linked \div FANOUT,
       i     |-> linked % FANOUT]

RECURSIVE LinkLevels(_)
LinkLevels(b) ==
  LET next == Link(b)
  IN  IF next.stop - next.start + 1 > 1 THEN LinkLevels(next) ELSE next

LastFilled(cur_inode, i) == IF i = 0 THEN cur_inode - 1 ELSE cur_inode

build_internal_levels(data) ==
  LET slots == FirstLevel(data)
      leaves == Cardinality(DOMAIN slots)
      i   == leaves % FANOUT
      cur == leaves \div FANOUT
      cnt == required_internal_node_cnt(LeafCount(Len(data)))
      top == LinkLevels([slots |-> slots, start |-> 0,
                         stop |-> cur + (IF i > 0 THEN 1 ELSE 0)])
  IN  IF cnt = 1
      THEN [slots |-> slots, m_root |-> LastFilled(cur, i), inode_cnt |-> cnt]
      ELSE [slots |-> top.slots, m_root |-> LastFilled(top.stop, top.i), inode_cnt |-> cnt]

Before(r, s) == r.first < s.first \/ (r.first = s.first /\ r.second < s.second)

(* A tree without records has no nodes.                                    *)
Tree(data) ==
  IF data = <<>> THEN [m_data |-> data]
  ELSE [m_data |-> data] @@ build_internal_levels(data)

build(records)           == Tree(SortSeq(records, Before))
build_presorted(records) == Tree(records)
-----------------------------------------------------------------------------
(* The child to descend into: before the first separator that is not below *)
(* the key, else the last.  First with equal keys to the right.            *)
ChildAfter(t, node, key) ==
  LET slot(i) == node * FANOUT + i
      after   == {i \in 0..(FANOUT - 2) : \/ slot(i + 1) \notin DOMAIN t.slots
                                        \/ key < t.slots[slot(i + 1)].key}
  IN  t.slots[slot(IF after = {} THEN FANOUT - 1 ELSE Min(after))].ptr
Child(t, node, key) ==
  LET slot(i) == node * FANOUT + i
      before  == {i \in 0..(FANOUT - 2) : \/ slot(i + 1) \notin DOMAIN t.slots
                                         \/ key <= t.slots[slot(i + 1)].key}
  IN  t.slots[slot(IF before = {} THEN FANOUT - 1 ELSE Min(before))].ptr

RECURSIVE LeafBelow(_, _, _)
LeafBelow(t, ptr, key) ==
  IF ptr.leaf THEN ptr.at ELSE LeafBelow(t, Child(t, ptr.at, key), key)

(* The scan starts in the leaf and runs on through the leaves behind it.   *)
lower_bound(t, key) ==
  IF t.m_data = <<>> THEN 0
  ELSE LET leaf == LeafBelow(t, NodePtr(t.m_root), key)
           hits == {idx \in (leaf * FANOUT)..(Len(t.m_data) - 1) :
                      t.m_data[idx + 1].first >= key}
       IN  IF hits = {} THEN Len(t.m_data) ELSE Min(hits)

QueryInclusive(t, lower, upper) ==
  SelectSeq(t.m_data, LAMBDA r : lower <= r.first /\ r.first <= upper)
query(t, lower, upper) ==
  LET idx  == lower_bound(t, lower)
      past == {j \in idx..(Len(t.m_data) - 1) : t.m_data[j + 1].first >= upper}
  IN  SubSeq(t.m_data, idx + 1, IF past = {} THEN Len(t.m_data) ELSE Min(past))

internal_node_count(t) == IF t.m_data = <<>> THEN 0 ELSE t.m_root + 1
-----------------------------------------------------------------------------
Init == isam = NoTree

Build(records) == isam = NoTree /\ isam' = build(records)

BuildPresorted(records) == isam = NoTree /\ isam' = build_presorted(records)

(* unbuild() moves the records out; what is left can only be deleted.      *)
Unbuild == isam # NoTree /\ isam' = NoTree
-----------------------------------------------------------------------------
(* Every node the construction writes, and the root, is in the allocation  *)
(* whose size required_internal_node_cnt() determines beforehand as "the   *)
(* number of internal nodes required to build an ISAM Tree".               *)
InodesFit ==
  isam # NoTree /\ isam.m_data # <<>> =>
    /\ internal_node_count(isam) <= isam.inode_cnt
    /\ \A p \in DOMAIN isam.slots : p < isam.inode_cnt * FANOUT

(* lower_bound() finds the first record that is not below the key, for     *)
(* every key stored or missing, although the descent ends in a leaf far    *)
(* before it when the key belongs under a node that is not linked.         *)
SearchExact ==
  isam # NoTree =>
    \A key \in {r.first + d : r \in {isam.m_data[i] : i \in DOMAIN isam.m_data}, d \in -1..1} :
      lower_bound(isam, key) =
        Cardinality({i \in DOMAIN isam.m_data : isam.m_data[i].first < key})
=============================================================================
