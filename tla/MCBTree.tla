------------------------------ MODULE MCBTree ------------------------------
(* Small instances of BTree for TLC.                                       *)
EXTENDS BTree

(* All ranges up to MaxRecords long, from the number of copies of each key *)
(* they hold; one copy at most when keys are distinct.                     *)
MCRanges ==
  LET copies == [Key -> 0..(IF Duplicates THEN MaxRecords ELSE 1)]
      total(f) == SumFunction(f)
      keys  == SelectSeq([i \in 1..Max(Key) |-> i], LAMBDA k : k \in Key)
  IN  {FlattenSeq([i \in DOMAIN keys |-> [j \in 1..f[keys[i]] |-> keys[i]]]) :
         f \in {g \in copies : total(g) \in 1..MaxRecords}}

(* Addresses are only compared for equality, so between calls the tree is  *)
(* looked at through its shape: the nodes numbered from the root downwards *)
(* and from left to right.  Nodes outside the tree keep their own numbers. *)
Levels(t) ==
  FoldLeft(LAMBDA c, i : [seen |-> c.seen \o c.now,
                          now |-> FlattenSeq([j \in DOMAIN c.now |-> t.node[c.now[j]].childid])],
           [seen |-> <<>>, now |-> <<t.root>>], Steps(t.node[t.root].level))
Numbering(t) ==
  IF t.root = NULL THEN <<>> ELSE Levels(t).seen \o Levels(t).now

ShapeOf(t) ==
  IF pc # "idle" THEN <<t, pc, call, stack, result>>
  ELSE LET order == Numbering(t)
           number(n) == IF n \in ToSet(order)
                        THEN CHOOSE i \in DOMAIN order : order[i] = n ELSE -n
       IN  <<[i \in DOMAIN order |->
                [t.node[order[i]] EXCEPT !.childid = [j \in DOMAIN @ |-> number(@[j])],
                                         !.prev_leaf = number(@),
                                         !.next_leaf = number(@)]],
             number(t.head_leaf), number(t.tail_leaf), t.size,
             [n \in Allocated(t) \ ToSet(order) |-> t.node[n]]>>

Shape == ShapeOf(tree)
=============================================================================
