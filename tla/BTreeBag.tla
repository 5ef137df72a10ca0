----------------------------- MODULE BTreeBag ------------------------------
(***************************************************************************)
(* BTree implements SortedBag.  The history variable `stored` is what the  *)
(* tree stores: the records of its leaves in the order of the chain.  It   *)
(* changes where a call takes effect, at the step on the leaf; a bulk load *)
(* takes effect when it hands the finished tree over.                      *)
(***************************************************************************)
EXTENDS BTree

VARIABLE stored

Recordable(t, c) == IF c.op = "bulk_load" THEN <<>> ELSE Contents(t)

Recorded == stored' = Recordable(tree', call')

KeyBagSpec == Init /\ stored = <<>> /\ [][KeyNext /\ Recorded]_<<vars, stored>>
BagSpec    == Init /\ stored = <<>> /\ [][Next /\ Recorded]_<<vars, stored>>

Bag == INSTANCE SortedBag WITH contents <- stored

(* Every insert(), erase_one(), erase(iterator), bulk_load() and clear()   *)
(* has the effect the sorted bag defines, in one step of the call.         *)
ImplementsBag == Bag!Spec

(* erase(iterator) removes the record the iterator referred to, of all     *)
(* the records with that key, erase_one() the first record with its key,   *)
(* and neither changes anything else.                                      *)
Position(t, leaf, slot) ==
  LET chain  == LeafChain(t)
      before == SelectInSeq(chain, LAMBDA n : n = leaf) - 1
  IN  SumFunction([i \in 1..before |-> slotuse(t.node[chain[i]])]) + slot

ErasesReferred ==
  [][Erasing /\ stored' # stored =>
       stored' = Bag!Cut(stored, IF call.op = "erase_iter"
                                 THEN Position(tree, call.leaf, call.slot)
                                 ELSE Bag!LowerBound(stored, call.key))]_<<vars, stored>>
=============================================================================
