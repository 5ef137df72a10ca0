----------------------------- MODULE SortedBag -----------------------------
(***************************************************************************)
(* What psudb::BTree (psu-ds/BTree.h) promises to its caller, without      *)
(* nodes: a sequence of records [key, weight] in key order.  A record is   *)
(* inserted before the records with an equal key, erase_one() removes the  *)
(* first record with the key, erase(iterator) removes the record at a      *)
(* position and bulk_load() fills an empty container from a sorted range.  *)
(***************************************************************************)
EXTENDS Integers, Sequences

CONSTANTS Key,         (* the keys, ordered as integers                    *)
          Weight,      (* the sampling weights a caller gives to insert()  *)
          Duplicates,  (* the template parameter allow_duplicates          *)
          MaxRecords   (* bound: the most records a behaviour stores       *)

BagAssumption == /\ Key \subseteq Int
                 /\ Weight \subseteq Int
                 /\ Duplicates \in BOOLEAN
                 /\ MaxRecords \in Nat

VARIABLE contents

Record == [key : Key, weight : Int]

(* The number of records that stand before the first key >= k: the         *)
(* position of lower_bound(k).                                             *)
LowerBound(s, k) ==
  CHOOSE i \in 0..Len(s) : /\ \A j \in 1..i : s[j].key < k
                           /\ i < Len(s) => k <= s[i + 1].key

Has(s, k) == \E i \in DOMAIN s : s[i].key = k

Ordered(s)  == \A i, j \in DOMAIN s : i < j => s[i].key <= s[j].key
Distinct(s) == \A i, j \in DOMAIN s : i # j => s[i].key # s[j].key

Put(s, i, r) == SubSeq(s, 1, i) \o <<r>> \o SubSeq(s, i + 1, Len(s))
Cut(s, i)    == SubSeq(s, 1, i) \o SubSeq(s, i + 2, Len(s))
-----------------------------------------------------------------------------
Init == contents = <<>>

Insert(k, w) ==
  /\ Len(contents) < MaxRecords
  /\ Duplicates \/ ~Has(contents, k)
  /\ contents' = Put(contents, LowerBound(contents, k), [key |-> k, weight |-> w])

EraseOne(k) ==
  /\ Has(contents, k)
  /\ contents' = Cut(contents, LowerBound(contents, k))

EraseAt(i) == contents' = Cut(contents, i)

(* The values a caller hands to bulk_load(): sorted, and without repeated  *)
(* keys when the tree does not allow them.  All get weight 1.              *)
BulkLoad ==
  /\ contents = <<>>
  /\ \E n \in 1..MaxRecords : contents' \in [1..n -> [key : Key, weight : {1}]]
  /\ Ordered(contents')
  /\ Duplicates \/ Distinct(contents')

Clear == contents' = <<>>

Next == \/ \E k \in Key, w \in Weight : Insert(k, w)
        \/ \E k \in Key : EraseOne(k)
        \/ \E i \in 0..(Len(contents) - 1) : EraseAt(i)
        \/ BulkLoad
        \/ Clear

Spec == Init /\ [][Next]_contents
-----------------------------------------------------------------------------
(* The contents are a sequence of records.                                 *)
TypeOK == contents \in Seq(Record)

(* The records stand in key order, and no key is stored twice in a tree    *)
(* that does not allow duplicates.                                         *)
InOrder == Ordered(contents) /\ (Duplicates \/ Distinct(contents))
=============================================================================
