--------------------------- MODULE MCBentleySaxe ---------------------------
(* Small instances of BentleySaxe with ISAM trees, and of ISAM trees built *)
(* by themselves, for TLC.                                                 *)
EXTENDS BentleySaxeISAM

CONSTANTS Key,    (* the keys inserted into a BentleySaxe                  *)
          Free,   (* how many of the first keys are chosen freely          *)
          Sizes,  (* the sizes of the trees built by themselves            *)
          Runs    (* and how many records in a row have the same key       *)

VARIABLE stride   (* later keys are the multiples of it, modulo |Key|      *)

MCRec == [first : Key, second : 0..(MaxRecords - 1)]

MCInit == BSMInit /\ Init /\ stride \in 1..Max(Key)

(* Every key is inserted with a value of its own.                          *)
InsertNext ==
  LET n == Cardinality(inserted)
  IN  \E k \in IF n < Free THEN Key ELSE {(n * stride) % Cardinality(Key)} :
        insert([first |-> k, second |-> n])

Ascending(n, run) == [j \in 1..n |-> [first |-> 2 * ((j - 1) \div run), second |-> j]]

BuildNext ==
  \/ \E n \in Sizes, run \in Runs : \/ Build(Reverse(Ascending(n, run)))
                                   \/ BuildPresorted(Ascending(n, run))
  \/ Unbuild

(* A program uses one or the other.                                        *)
MCNext == \/ isam = NoTree /\ InsertNext /\ UNCHANGED <<isam, stride>>
          \/ m_levels = <<>> /\ stride = 1 /\ BuildNext /\ UNCHANGED <<bsm, stride>>

MCSpec == MCInit /\ [][MCNext]_<<bsm, isam, stride>>

BuildSpec == MCInit /\ [][BuildNext /\ UNCHANGED <<bsm, stride>>]_<<bsm, isam, stride>>

(* With FANOUT 4 a second level of nodes appears at 17 records, a third at *)
(* 129 and a fourth at 577.                                                *)
DeepSizes == (0..24) \cup (60..72) \cup (125..133) \cup (157..177)
               \cup {256, 320, 321} \cup (575..578)
=============================================================================
