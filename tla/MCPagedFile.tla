---------------------------- MODULE MCPagedFile ----------------------------
(* Small instances of PagedFile for TLC.                                   *)
EXTENDS PagedFile

(* What a file holds that no name and no descriptor refers to, and the     *)
(* last answer, have no effect on what may happen next.                    *)
Visible == <<dir, [i \in Inode |-> IF Unused(i) THEN <<>> ELSE data[i]], fds, obj, file>>

(* The same without what the units hold, for runs whose properties are     *)
(* about sizes: no guard reads a unit.                                     *)
Lengths == <<dir, [i \in Inode |-> IF Unused(i) THEN 0 ELSE Len(data[i])], fds, obj, file>>

Alike == Permutations(Handle) \cup Permutations(Name)
=============================================================================
