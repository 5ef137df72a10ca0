--------------------------- MODULE BitArrayValues ---------------------------
(***************************************************************************)
(* What objects of type BitArray promise: each is a value of its own, a    *)
(* size and the set of its bits that are 1.  A copy has the value of its   *)
(* source, a move hands it on, and nothing done to one object shows in     *)
(* another.                                                                *)
(***************************************************************************)
EXTENDS Integers

CONSTANTS Obj,     (* the variables of the program                         *)
          Sizes,   (* the sizes of the arrays it makes                     *)
          Bits,    (* the bits it asks for                                 *)
          Dead,    (* no object in the variable                            *)
          Moved    (* an object that has been moved from                   *)

VARIABLE value     (* Dead, Moved or [size, ones] for each variable        *)

Live  == {o \in Obj : value[o] # Dead}
Valid == {o \in Live : value[o] # Moved}

Init == value = [o \in Obj |-> Dead]

Construct(o, n) == o \notin Live /\ value' = [value EXCEPT ![o] = [size |-> n, ones |-> {}]]

(* Construction and assignment alike.                                      *)
Copy(o, p) == p \in Valid /\ value' = [value EXCEPT ![o] = value[p]]

(* The source is left with no value, with that of the target, or, if there *)
(* was nothing to hand on, with its own.                                   *)
Move(o, p) ==
  /\ p \in Live /\ o # p
  /\ \E v \in {Moved, value[o], value[p]} \ {Dead} :
       value' = [value EXCEPT ![o] = value[p], ![p] = v]

Swap(o, p) ==
  o \in Live /\ p \in Live /\ value' = [value EXCEPT ![o] = value[p], ![p] = value[o]]

Destroy(o) == o \in Live /\ value' = [value EXCEPT ![o] = Dead]

Put(o, ones) == value' = [value EXCEPT ![o].ones = ones]
set(o, bit)   == o \in Valid /\ bit < value[o].size /\ Put(o, value[o].ones \cup {bit})
unset(o, bit) == o \in Valid /\ Put(o, value[o].ones \ {bit})
clear(o)      == o \in Valid /\ Put(o, {})

Next ==
  \E o \in Obj :
    \/ \E n \in Sizes : Construct(o, n)
    \/ \E p \in Obj : Copy(o, p) \/ Move(o, p) \/ Swap(o, p)
    \/ \E bit \in Bits : set(o, bit) \/ unset(o, bit)
    \/ Destroy(o) \/ clear(o)

Spec == Init /\ [][Next]_value
=============================================================================
