---------------------------- MODULE MCContainers ----------------------------
(***************************************************************************)
(* Small instances of the containers that share nothing with each other:   *)
(* a behaviour uses one of them, and the others stay as they are.          *)
(***************************************************************************)
EXTENDS PriorityQueue, LockedPriorityQueue, BitArray, Alias

VARIABLE used   (* the container of the behaviour                          *)

(* Records 2 and 3 have equal values at different addresses.               *)
MCValue == [r \in Rec |-> IF r = 1 THEN 1 ELSE 2]
MCPriority == [i \in Item |-> i]

ContainersInit ==
  /\ used \in {"queue", "locked", "bits", "alias"}
  /\ HeapInit /\ LockedInit /\ ArrayInit
  /\ AliasInit
  /\ used # "alias" => weight = [i \in {0} |-> 1]

ContainersNext ==
  /\ \/ used = "queue"  /\ HeapNext   /\ UNCHANGED <<locked, arrays, alias>>
     \/ used = "locked" /\ LockedNext /\ UNCHANGED <<heap, arrays, alias>>
     \/ used = "bits"   /\ ArrayNext  /\ UNCHANGED <<heap, locked, alias>>
     \/ used = "alias"  /\ Pair       /\ UNCHANGED <<heap, locked, arrays>>
  /\ UNCHANGED used

(* The fairness of FairLocked.                                             *)
ContainersSpec ==
  /\ ContainersInit /\ [][ContainersNext]_<<used, heap, locked, arrays, alias>>
  /\ \A t \in Thread : WF_locked(Inside(t))
=============================================================================
