-------------------------- MODULE BentleySaxeISAM --------------------------
(***************************************************************************)
(* BentleySaxe with ISAM trees for levels, as its tests use it: what       *)
(* query() and record_count() return.                                      *)
(***************************************************************************)
EXTENDS BentleySaxe, StaticISAM, SequencesExt

(* A vector of the records of a level; build() sorts it.                   *)
Vector(S) == FoldSet(LAMBDA r, v : Append(v, r), <<>>, S)

Levels ==
  FoldLeft(LAMBDA trees, S : Append(trees, IF S = {} THEN NoTree ELSE build(Vector(S))),
           <<>>, m_levels)

(* query_merge() appends; null levels are passed over.                     *)
Query(trees, lower, upper) ==
  FoldLeft(LAMBDA results, t :
             IF t = NoTree THEN results ELSE results \o query(t, lower, upper),
           <<>>, trees)

record_count(trees) ==
  FoldLeft(LAMBDA total, t : IF t = NoTree THEN total ELSE total + Len(t.m_data),
           0, trees)
-----------------------------------------------------------------------------
(* A query returns each record with a key in [lower, upper) once, whatever *)
(* level it is in, and nothing else; record_count() counts all.  That      *)
(* `upper` itself is left out is what query() does (StaticISAM.h:68) and   *)
(* what t_query_debug_1, t_query_debug_2 and the tests of BentleySaxe      *)
(* count; t_query compares with std::upper_bound(), which would count a    *)
(* key equal to `upper` too (static_isam_tests.cpp:278-280).               *)
QueryExact ==
  LET trees == Levels
      bound == {r.first : r \in Rec} \cup {Max({r.first : r \in Rec}) + 1}
  IN  /\ record_count(trees) = Cardinality(inserted)
      /\ \A lower, upper \in bound :
           LET hit == {r \in inserted : lower <= r.first /\ r.first < upper}
               got == Query(trees, lower, upper)
           IN  ToSet(got) = hit /\ Len(got) = Cardinality(hit)
=============================================================================
