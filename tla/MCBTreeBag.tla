----------------------------- MODULE MCBTreeBag -----------------------------
(* Small instances of BTreeBag for TLC.                                    *)
EXTENDS BTreeBag, MCBTree

(* Ranges of two leaves.                                                   *)
ShortRanges == {s \in MCRanges : Len(s) = LeafSlots + 1}

BagShape == <<Shape, stored>>
=============================================================================
