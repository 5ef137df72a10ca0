---------------------------- MODULE PriorityBag ----------------------------
(***************************************************************************)
(* What a priority queue promises: a bag of entries from which the one     *)
(* taken has the least rank.  PriorityQueue implements it, and             *)
(* LockedPriorityQueue wraps std::priority_queue, of which this is all it  *)
(* uses.                                                                   *)
(***************************************************************************)
EXTENDS Integers

CONSTANTS Entry,   (* what is queued                                       *)
          Rank     (* a number for each entry; the least goes first        *)

VARIABLE bag       (* how often each entry is in the queue                 *)

Members == {e \in Entry : bag[e] > 0}

IsTop(e) == e \in Members /\ \A f \in Members : Rank[e] <= Rank[f]

Init == bag = [e \in Entry |-> 0]

Push(e) == bag' = [bag EXCEPT ![e] = @ + 1]

Pop(e) == IsTop(e) /\ bag' = [bag EXCEPT ![e] = @ - 1]

Next == \E e \in Entry : Push(e) \/ Pop(e)

Spec == Init /\ [][Next]_bag
=============================================================================
