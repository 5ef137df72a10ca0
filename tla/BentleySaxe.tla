---------------------------- MODULE BentleySaxe ----------------------------
(***************************************************************************)
(* psudb::bsm::BentleySaxe (psu-util/bentley-saxe.h): a container that     *)
(* grows by rebuilding static structures, its levels, as a binary counter  *)
(* carries.  Here a level is the set of the records its structure was      *)
(* built from and {} is the null pointer; BentleySaxeISAM puts the         *)
(* structures of StaticISAM under it.                                      *)
(***************************************************************************)
EXTENDS Integers, Sequences, FiniteSets

CONSTANTS Rec,         (* the records a client inserts                     *)
          MaxRecords   (* bound: the most records a behaviour inserts      *)

ASSUME BentleySaxeAssumption == MaxRecords \in Nat

VARIABLES m_levels,    (* the levels, the smallest first                   *)
          inserted     (* what was inserted: for the properties only       *)

bsm == <<m_levels, inserted>>

BSMInit == m_levels = <<>> /\ inserted = {}

(* The first empty level, or a new one; first without looking for one.     *)
TargetNew(t) == t = Len(m_levels) + 1
Target(t) ==
  /\ t \in 1..(Len(m_levels) + 1)
  /\ \A i \in 1..(t - 1) : m_levels[i] # {}
  /\ t <= Len(m_levels) => m_levels[t] = {}

(* The record and those of the levels taken apart on the way to t.         *)
Collected(rec, t) == {rec} \cup UNION {m_levels[i] : i \in 1..(t - 1)}

(* The levels with everything before t taken apart and S built at t; first *)
(* with the pointers left as they are, then with the later levels cut off. *)
CarriedStale(t, S) ==
  [i \in 1..(IF t > Len(m_levels) THEN t ELSE Len(m_levels)) |->
     IF i = t THEN S ELSE m_levels[i]]
CarriedShort(t, S) == [i \in 1..t |-> IF i < t THEN {} ELSE S]
Carried(t, S) ==
  [i \in 1..(IF t > Len(m_levels) THEN t ELSE Len(m_levels)) |->
     IF i < t THEN {} ELSE IF i = t THEN S ELSE m_levels[i]]

insert(rec) ==
  /\ rec \notin inserted
  /\ Cardinality(inserted) < MaxRecords
  /\ \E t \in 1..(Len(m_levels) + 1) :
       Target(t) /\ m_levels' = Carried(t, Collected(rec, t))
  /\ inserted' = inserted \cup {rec}

BSMNext == \E rec \in Rec : insert(rec)

BSMSpec == BSMInit /\ [][BSMNext]_bsm
-----------------------------------------------------------------------------
BSMTypeOK == /\ m_levels \in Seq(SUBSET Rec)
             /\ inserted \subseteq Rec

(* Taking levels apart and building them again loses no record and leaves  *)
(* none behind: each record inserted is in one level, and in only one.     *)
AllOnce ==
  /\ \A r \in inserted : \E i \in DOMAIN m_levels : r \in m_levels[i]
  /\ \A i \in DOMAIN m_levels : m_levels[i] \subseteq inserted
  /\ \A i, j \in DOMAIN m_levels : i # j => m_levels[i] \cap m_levels[j] = {}

(* The levels are a binary counter: level i, from 0, is empty or has 2^i   *)
(* records, so that a record is rebuilt at most once per level.            *)
LevelsCount ==
  \A i \in DOMAIN m_levels : m_levels[i] = {} \/ Cardinality(m_levels[i]) = 2^(i - 1)

(* What the cost of an insertion rests on: a record never returns to an    *)
(* earlier level.                                                          *)
RecordsClimb ==
  [][\A i \in DOMAIN m_levels : \A r \in m_levels[i] :
       \E j \in DOMAIN m_levels' : i <= j /\ r \in m_levels'[j]]_bsm
=============================================================================
