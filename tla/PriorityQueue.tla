--------------------------- MODULE PriorityQueue ---------------------------
(***************************************************************************)
(* psudb::PriorityQueue (psu-ds/PriorityQueue.h): a heap of pairs of a     *)
(* record's address and a version, in an array of fixed size.  data holds  *)
(* the part of the array below tail; slots count from 0 as in the code.    *)
(* push() and pop() move an entry one swap at a time, an action each.      *)
(*                                                                         *)
(* heap_cmp() compares two records by value and two entries of one record  *)
(* by version.  That is no strict weak order: when records at different    *)
(* addresses have equal values, both are unordered against each other but  *)
(* versions of one of them are not, and push(), which moves a new entry    *)
(* past all it is not ordered against, then puts a version above an older  *)
(* one.  tied remembers that this may have happened.                       *)
(***************************************************************************)
EXTENDS Integers, Sequences, FiniteSets

CONSTANTS Rec,         (* the addresses of records                         *)
          Value,       (* the value at each address, as operator< orders   *)
          Tombstone,   (* the records that are tombstones                  *)
          Version,     (* the versions they are pushed with                *)
          Capacity     (* the size of the array                            *)

ASSUME HeapAssumption == /\ Value \in [Rec -> Int]
                         /\ Tombstone \subseteq Rec
                         /\ Version \subseteq Nat
                         /\ Capacity \in Nat

VARIABLES data,   (* the entries of the heap                               *)
          step,   (* the call in progress: "idle", "push" or "pop"         *)
          idx,    (* the slot of the entry it moves                        *)
          tied    (* for the properties only                               *)

heap == <<data, step, idx, tied>>

QueueRecord == [data : Rec, version : Version]

tail  == Len(data)
At(i) == data[i + 1]

parent(i)      == (i - 1) \div 2
left_child(i)  == 2 * i + 1
right_child(i) == 2 * i + 2

Compare(e, f) ==
  \/ e.data # f.data /\ Value[e.data] < Value[f.data]
  \/ e.data = f.data /\ e.version < f.version
  \/ e = f /\ e.data \in Tombstone
heap_cmp(a, b) == Compare(At(a), At(b))

(* The child to compare with, or -1; first the left one always.            *)
FirstChild(i) == IF left_child(i) >= tail THEN -1 ELSE left_child(i)
min_child(i) ==
  IF left_child(i) >= tail THEN -1
  ELSE IF right_child(i) >= tail \/ heap_cmp(left_child(i), right_child(i))
       THEN left_child(i)
       ELSE right_child(i)

Swapped(s, a, b) == [s EXCEPT ![a + 1] = s[b + 1], ![b + 1] = s[a + 1]]

(* The slot reached by going to the lesser child depth times.              *)
PeekSlot(depth) ==
  CHOOSE i \in 0..(tail - 1) :
    \E path \in [0..depth -> 0..(tail - 1)] :
      /\ path[0] = 0 /\ path[depth] = i
      /\ \A d \in 1..depth : path[d] = min_child(path[d - 1])
peek(depth) == At(PeekSlot(depth))

TiesWith(e) == \E i \in DOMAIN data : /\ data[i].data # e.data
                                     /\ Value[data[i].data] = Value[e.data]
-----------------------------------------------------------------------------
HeapInit == data = <<>> /\ step = "idle" /\ idx = 0 /\ tied = FALSE

push(e) ==
  /\ step = "idle" /\ tail # Capacity
  /\ data' = Append(data, e)
  /\ idx' = tail
  /\ step' = "push"
  /\ tied' = (tied \/ TiesWith(e))

(* A new entry rises past every parent it is not ordered behind.           *)
Rises == idx # 0 /\ ~heap_cmp(parent(idx), idx)

SiftUp ==
  /\ step = "push" /\ Rises
  /\ data' = Swapped(data, parent(idx), idx)
  /\ idx' = parent(idx)
  /\ UNCHANGED <<step, tied>>

PushEnd ==
  /\ step = "push" /\ ~Rises
  /\ step' = "idle"
  /\ UNCHANGED <<data, idx, tied>>

PopOnly ==
  /\ step = "idle" /\ tail = 1
  /\ data' = <<>>
  /\ tied' = FALSE
  /\ UNCHANGED <<step, idx>>

(* The last entry takes the place of the first; first dropped instead.     *)
PopLast ==
  /\ step = "idle" /\ tail > 1
  /\ data' = SubSeq(data, 1, tail - 1)
  /\ idx' = 0
  /\ step' = "pop"
  /\ UNCHANGED tied
pop ==
  /\ step = "idle" /\ tail > 1
  /\ data' = SubSeq(Swapped(data, 0, tail - 1), 1, tail - 1)
  /\ idx' = 0
  /\ step' = "pop"
  /\ UNCHANGED tied

Sinks == min_child(idx) # -1 /\ heap_cmp(min_child(idx), idx)

SiftDown ==
  /\ step = "pop" /\ Sinks
  /\ data' = Swapped(data, idx, min_child(idx))
  /\ idx' = min_child(idx)
  /\ UNCHANGED <<step, tied>>

PopEnd ==
  /\ step = "pop" /\ ~Sinks
  /\ step' = "idle"
  /\ UNCHANGED <<data, idx, tied>>

HeapNext == \/ \E e \in QueueRecord : push(e)
            \/ SiftUp \/ PushEnd
            \/ PopOnly \/ pop \/ SiftDown \/ PopEnd

HeapSpec == HeapInit /\ [][HeapNext]_heap
-----------------------------------------------------------------------------
HeapTypeOK == /\ data \in Seq(QueueRecord) /\ Len(data) <= Capacity
              /\ step \in {"idle", "push", "pop"}
              /\ idx \in Nat /\ (step # "idle" => idx < Len(data))
              /\ tied \in BOOLEAN

(* e may stand above f: its value is not greater and, unless a tie may     *)
(* have disturbed the versions, it is the older one of the same record.    *)
MayPrecede(e, f) ==
  /\ Value[e.data] <= Value[f.data]
  /\ ~tied => Value[e.data] < Value[f.data] \/ (e.data = f.data /\ e.version <= f.version)

(* Between calls every entry stands below one that may precede it, and the *)
(* one peek(1) shows may precede both that a pop() could uncover.  A       *)
(* deeper peek() need not show the next: it goes on below the lesser child *)
(* and passes its sibling over.                                            *)
HeapOrdered ==
  step = "idle" =>
    /\ \A i \in 1..(tail - 1) : MayPrecede(At(parent(i)), At(i))
    /\ \A i \in {1, 2} : i < tail => MayPrecede(peek(1), At(i))

Contents == [e \in QueueRecord |-> Cardinality({i \in DOMAIN data : data[i] = e})]

Promised == INSTANCE PriorityBag WITH Entry <- QueueRecord, bag <- Contents,
                                      Rank <- [e \in QueueRecord |-> Value[e.data]]

(* push() adds the entry given to it and pop() removes one with the least  *)
(* value; the swaps in between neither lose nor double any.                *)
ImplementsPriority == Promised!Spec
=============================================================================
