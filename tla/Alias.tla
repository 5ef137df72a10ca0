------------------------------- MODULE Alias --------------------------------
(***************************************************************************)
(* psudb::Alias (psu-ds/Alias.h): the table from which get() draws an      *)
(* index with the probability of its weight.  The constructor fills the    *)
(* table slot by slot, each pass of its loop an action.                    *)
(*                                                                         *)
(* Weights are whole numbers; weight[i] / Total is the normalized weight   *)
(* of i, and m_cutoff is counted in units of 1 / Total.  The code computes *)
(* in double, whose rounding this leaves out.  Indexes count from 0.       *)
(***************************************************************************)
EXTENDS Integers, Sequences, Functions, FiniteSetsExt

CONSTANTS Slots,    (* bound: the numbers of weights                       *)
          Weight    (* bound: the weights                                  *)

ASSUME AliasAssumption == Slots \subseteq Nat \ {0} /\ Weight \subseteq Nat

VARIABLES weight, m_cutoff, m_alias,
          overfull, underfull   (* indexes of slots, used from their ends  *)

alias == <<weight, m_cutoff, m_alias, overfull, underfull>>

Slot  == DOMAIN weight
Total == SumFunction(weight)

back(list)     == list[Len(list)]
pop_back(list) == SubSeq(list, 1, Len(list) - 1)
-----------------------------------------------------------------------------
(* The first loop, over all the weights.                                   *)
AliasInit ==
  \E n \in Slots :
    /\ weight \in [0..(n - 1) -> Weight] /\ Total > 0
    /\ m_cutoff = [i \in Slot |-> n * weight[i]]
    /\ m_alias = [i \in Slot |-> IF m_cutoff[i] = Total THEN i ELSE 0]
    /\ LET slots == [i \in 1..n |-> i - 1]
       IN  /\ overfull  = SelectSeq(slots, LAMBDA i : m_cutoff[i] > Total)
           /\ underfull = SelectSeq(slots, LAMBDA i : m_cutoff[i] < Total)

Building == overfull # <<>> /\ underfull # <<>>

(* What the slot i has left when it has filled up the slot j; first as if  *)
(* j had been empty.                                                       *)
LeftOverEmpty(i, j) == m_cutoff[i] - Total
LeftOver(i, j) == m_cutoff[i] + m_cutoff[j] - Total

(* The second loop: an overfull slot fills up an underfull one.            *)
Pair ==
  LET i == back(overfull)
      j == back(underfull)
      left == LeftOver(i, j)
  IN  /\ Building
      /\ m_alias' = [m_alias EXCEPT ![j] = i]
      /\ m_cutoff' = [m_cutoff EXCEPT ![i] = left]
      /\ overfull' = pop_back(overfull) \o (IF left > Total THEN <<i>> ELSE <<>>)
      /\ underfull' = pop_back(underfull) \o (IF left < Total THEN <<i>> ELSE <<>>)
      /\ UNCHANGED weight

AliasSpec == AliasInit /\ [][Pair]_alias
-----------------------------------------------------------------------------
(* get() draws a slot, all alike, and then the slot or its alias: how much *)
(* of all slots together gives i.                                          *)
Kept(i) == IF m_cutoff[i] < Total THEN m_cutoff[i] ELSE Total
get(i) == Kept(i) + SumFunctionOnSet([j \in Slot |-> Total - Kept(j)],
                                     {j \in Slot : m_alias[j] = i})

(* The finished table gives each index with the probability of its weight. *)
AliasExact == ~Building => \A i \in Slot : get(i) = Cardinality(Slot) * weight[i]
=============================================================================
