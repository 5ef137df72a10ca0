---------------------------- MODULE MCBTreeQuery ----------------------------
(* Small instances of BTreeQuery for TLC.                                  *)
EXTENDS BTreeQuery, MCBTree
=============================================================================
