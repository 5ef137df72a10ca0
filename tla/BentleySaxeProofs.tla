------------------------- MODULE BentleySaxeProofs -------------------------
(***************************************************************************)
(* BentleySaxe keeps every record, once, for any records and any number of *)
(* insertions, and never moves one to an earlier level; its levels are a   *)
(* binary counter.                                                         *)
(***************************************************************************)
EXTENDS BentleySaxe, FiniteSetTheorems, WellFoundedInduction, TLAPS

Kept == BSMTypeOK /\ AllOnce

(* What an insertion at level t makes of the levels.                       *)
LEMMA CarriedLevels ==
  ASSUME BSMTypeOK, NEW rec \in Rec, NEW t \in 1..(Len(m_levels) + 1), Target(t),
         NEW S, S = Collected(rec, t)
  PROVE  /\ S \subseteq Rec
         /\ Carried(t, S) \in Seq(SUBSET Rec)
         /\ Len(Carried(t, S)) = IF t > Len(m_levels) THEN t ELSE Len(m_levels)
         /\ \A i \in 1..Len(Carried(t, S)) :
              Carried(t, S)[i] = IF i < t THEN {} ELSE IF i = t THEN S ELSE m_levels[i]
         /\ \A i \in 1..(t - 1) : i \in 1..Len(m_levels) /\ m_levels[i] \subseteq S
<1> DEFINE n == IF t > Len(m_levels) THEN t ELSE Len(m_levels)
           level(i) == IF i < t THEN {} ELSE IF i = t THEN S ELSE m_levels[i]
<1>1. Len(m_levels) \in Nat /\ n \in Nat /\ t \in Nat
  BY DEF BSMTypeOK
<1>2. \A i \in 1..Len(m_levels) : m_levels[i] \in SUBSET Rec
  BY DEF BSMTypeOK
<1>3. \A i \in 1..(t - 1) : i \in 1..Len(m_levels)
  BY <1>1
<1>4. S = {rec} \cup UNION {m_levels[i] : i \in 1..(t - 1)}
  BY DEF Collected
<1>5. S \subseteq Rec
  BY <1>2, <1>3, <1>4
<1>6. \A i \in 1..(t - 1) : m_levels[i] \subseteq S
  BY <1>4
<1>7. \A i \in 1..n : level(i) \in SUBSET Rec
  <2> SUFFICES ASSUME NEW i \in 1..n
               PROVE  level(i) \in SUBSET Rec
    OBVIOUS
  <2>1. i < t \/ i = t \/ i \in 1..Len(m_levels)
    BY <1>1
  <2> QED  BY <1>2, <1>5, <2>1
<1> HIDE DEF n, level
<1>8. Carried(t, S) = [i \in 1..n |-> level(i)]
  BY DEF Carried, n, level
<1>9. Carried(t, S) \in Seq(SUBSET Rec) /\ Len(Carried(t, S)) = n
  BY <1>1, <1>7, <1>8
<1> QED  BY <1>3, <1>5, <1>6, <1>8, <1>9 DEF n, level

LEMMA InsertKeeps ==
  ASSUME Kept, NEW rec \in Rec, insert(rec)
  PROVE  Kept'
<1>1. PICK t \in 1..(Len(m_levels) + 1) : Target(t) /\ m_levels' = Carried(t, Collected(rec, t))
  BY DEF insert
<1> DEFINE S == Collected(rec, t)
<1>2. BSMTypeOK /\ AllOnce /\ rec \notin inserted /\ inserted' = inserted \cup {rec}
  BY DEF Kept, insert
<1>3. Len(m_levels) \in Nat /\ m_levels \in Seq(SUBSET Rec)
  BY <1>2 DEF BSMTypeOK
<1>4. S = {rec} \cup UNION {m_levels[i] : i \in 1..(t - 1)}
  BY DEF Collected
<1> HIDE DEF S
<1>5. /\ m_levels' \in Seq(SUBSET Rec)
      /\ Len(m_levels') = IF t > Len(m_levels) THEN t ELSE Len(m_levels)
      /\ \A i \in 1..Len(m_levels') :
           m_levels'[i] = IF i < t THEN {} ELSE IF i = t THEN S ELSE m_levels[i]
      /\ \A i \in 1..(t - 1) : i \in 1..Len(m_levels) /\ m_levels[i] \subseteq S
  BY <1>1, <1>2, CarriedLevels DEF S
<1>6. BSMTypeOK'
  BY <1>2, <1>5 DEF BSMTypeOK
<1>7. DOMAIN m_levels = 1..Len(m_levels) /\ DOMAIN m_levels' = 1..Len(m_levels')
  BY <1>3, <1>5
<1>8. \A r \in S : r = rec \/ \E i \in 1..(t - 1) : r \in m_levels[i]
  BY <1>4
<1>9. rec \in S /\ t \in 1..Len(m_levels')
  BY <1>3, <1>4, <1>5
<1>10. ASSUME NEW r \in inserted'
       PROVE  \E i \in DOMAIN m_levels' : r \in m_levels'[i]
  <2>1. CASE r = rec
    BY <1>5, <1>7, <1>9, <2>1
  <2>2. CASE r \in inserted
    <3>1. PICK i \in 1..Len(m_levels) : r \in m_levels[i]
      BY <1>2, <1>7, <2>2 DEF AllOnce
    <3>2. CASE i < t
      BY <1>3, <1>5, <1>7, <1>9, <3>1, <3>2
    <3>3. CASE i = t
      <4>1. m_levels[t] = {}
        BY <1>1, <3>3 DEF Target
      <4> QED  BY <3>1, <3>3, <4>1
    <3>4. CASE i > t
      BY <1>3, <1>5, <1>7, <3>1, <3>4
    <3> QED  BY <1>3, <3>2, <3>3, <3>4
  <2> QED  BY <1>2, <2>1, <2>2
<1>11. ASSUME NEW i \in DOMAIN m_levels'
       PROVE  m_levels'[i] \subseteq inserted'
  <2>1. \A j \in 1..Len(m_levels) : m_levels[j] \subseteq inserted
    BY <1>2, <1>7 DEF AllOnce
  <2>2. S \subseteq inserted'
    BY <1>2, <1>5, <1>8, <2>1
  <2>3. i < t \/ i = t \/ i \in 1..Len(m_levels)
    BY <1>3, <1>5, <1>7
  <2> QED  BY <1>2, <1>5, <1>7, <2>1, <2>2, <2>3
<1>12. ASSUME NEW i \in DOMAIN m_levels', NEW j \in DOMAIN m_levels', i # j
       PROVE  m_levels'[i] \cap m_levels'[j] = {}
  <2>1. \A a, b \in 1..Len(m_levels) : a # b => m_levels[a] \cap m_levels[b] = {}
    BY <1>2, <1>7 DEF AllOnce
  <2>2. \A a \in 1..Len(m_levels) : rec \notin m_levels[a]
    BY <1>2, <1>7 DEF AllOnce
  <2>3. ASSUME NEW k \in DOMAIN m_levels', k > t
        PROVE  k \in 1..Len(m_levels) /\ m_levels'[k] = m_levels[k] /\ S \cap m_levels[k] = {}
    <3>1. k \in 1..Len(m_levels) /\ m_levels'[k] = m_levels[k]
      BY <1>3, <1>5, <1>7, <2>3
    <3>2. \A a \in 1..(t - 1) : m_levels[a] \cap m_levels[k] = {}
      BY <1>3, <1>5, <2>1, <2>3, <3>1
    <3> QED  BY <1>8, <2>2, <3>1, <3>2
  <2>4. ASSUME NEW k \in DOMAIN m_levels', k < t
        PROVE  m_levels'[k] = {}
    BY <1>5, <1>7, <2>4
  <2>5. m_levels'[t] = S
    BY <1>5, <1>9
  <2>6. i \in Int /\ j \in Int /\ t \in Int
    BY <1>7
  <2>7. CASE i < t \/ j < t
    BY <2>4, <2>7
  <2>8. CASE i = t /\ j > t
    BY <2>3, <2>5, <2>8
  <2>9. CASE j = t /\ i > t
    BY <2>3, <2>5, <2>9
  <2>10. CASE i > t /\ j > t
    BY <2>1, <2>3, <2>10, <1>12
  <2> QED  BY <1>12, <2>6, <2>7, <2>8, <2>9, <2>10
<1>13. AllOnce'
  BY <1>10, <1>11, <1>12 DEF AllOnce
<1> QED  BY <1>6, <1>13 DEF Kept

(* Every record inserted is in one level, and in only one.                 *)
THEOREM AlwaysOnce == BSMSpec => [](BSMTypeOK /\ AllOnce)
<1>1. BSMInit => Kept
  BY DEF BSMInit, Kept, BSMTypeOK, AllOnce
<1>2. Kept /\ [BSMNext]_bsm => Kept'
  <2>1. ASSUME Kept, BSMNext  PROVE Kept'
    BY <2>1, InsertKeeps DEF BSMNext
  <2>2. ASSUME Kept, UNCHANGED bsm  PROVE Kept'
    BY <2>2 DEF Kept, BSMTypeOK, AllOnce, bsm
  <2> QED  BY <2>1, <2>2
<1>3. Kept => BSMTypeOK /\ AllOnce
  BY DEF Kept
<1> QED  BY <1>1, <1>2, <1>3, PTL DEF BSMSpec

(* A record in a level moves to a later one or stays.                      *)
THEOREM AlwaysClimb == BSMSpec => RecordsClimb
<1> DEFINE Climb == \A i \in DOMAIN m_levels : \A r \in m_levels[i] :
                      \E j \in DOMAIN m_levels' : i <= j /\ r \in m_levels'[j]
<1>1. ASSUME BSMTypeOK, BSMNext  PROVE Climb
  <2>1. PICK rec \in Rec : insert(rec)
    BY <1>1 DEF BSMNext
  <2>2. PICK t \in 1..(Len(m_levels) + 1) :
          Target(t) /\ m_levels' = Carried(t, Collected(rec, t))
    BY <2>1 DEF insert
  <2>3. Len(m_levels) \in Nat /\ DOMAIN m_levels = 1..Len(m_levels)
    BY <1>1 DEF BSMTypeOK
  <2>4. PICK S : S = Collected(rec, t)
    OBVIOUS
  <2>5. /\ m_levels' \in Seq(SUBSET Rec)
        /\ Len(m_levels') = IF t > Len(m_levels) THEN t ELSE Len(m_levels)
        /\ \A i \in 1..Len(m_levels') :
             m_levels'[i] = IF i < t THEN {} ELSE IF i = t THEN S ELSE m_levels[i]
        /\ \A i \in 1..(t - 1) : i \in 1..Len(m_levels) /\ m_levels[i] \subseteq S
    BY <1>1, <2>2, <2>4, CarriedLevels
  <2>6. DOMAIN m_levels' = 1..Len(m_levels') /\ t \in 1..Len(m_levels')
    BY <2>3, <2>5
  <2>7. ASSUME NEW i \in 1..Len(m_levels), NEW r \in m_levels[i]
        PROVE  \E j \in 1..Len(m_levels') : i <= j /\ r \in m_levels'[j]
    <3>1. CASE i < t
      <4>1. i <= t /\ r \in m_levels'[t]
        BY <2>3, <2>5, <2>6, <2>7, <3>1
      <4> QED  BY <2>6, <4>1
    <3>2. CASE i = t
      <4>1. m_levels[t] = {}
        BY <2>2, <3>2 DEF Target
      <4> QED  BY <2>7, <3>2, <4>1
    <3>3. CASE i > t
      BY <2>3, <2>5, <2>6, <2>7, <3>3
    <3> QED  BY <2>3, <3>1, <3>2, <3>3
  <2> QED  BY <2>3, <2>6, <2>7
<1>2. ASSUME BSMTypeOK, [BSMNext]_bsm  PROVE [Climb]_bsm
  BY <1>1, <1>2
<1>3. BSMSpec => []BSMTypeOK
  BY AlwaysOnce, PTL
<1> QED  BY <1>2, <1>3, PTL DEF BSMSpec, RecordsClimb
-----------------------------------------------------------------------------
(* Counted as the subsets of 1..n: those without n and those with it.      *)
LEMMA Doubles ==
  ASSUME NEW n \in Nat
  PROVE  2^n \in Nat /\ 2^(n + 1) = 2^n + 2^n
<1> DEFINE A == SUBSET (1..n)
           B == {s \cup {n + 1} : s \in A}
           C == SUBSET (1..(n + 1))
           f == [s \in A |-> s \cup {n + 1}]
<1>1. /\ IsFiniteSet(1..n) /\ Cardinality(1..n) = n
      /\ IsFiniteSet(1..(n + 1)) /\ Cardinality(1..(n + 1)) = n + 1
  BY FS_Interval
<1>2. /\ IsFiniteSet(A) /\ Cardinality(A) = 2^n
      /\ IsFiniteSet(C) /\ Cardinality(C) = 2^(n + 1)
  BY <1>1, FS_SUBSET, Zenon
<1>3. \A s \in A : n + 1 \notin s
  OBVIOUS
<1>4. A \cap B = {}
  BY <1>3
<1>5. C = A \cup B
  <2>1. ASSUME NEW s \in A
        PROVE  s \in C /\ s \cup {n + 1} \in C
    <3>1. 1..n \subseteq 1..(n + 1) /\ n + 1 \in 1..(n + 1)
      OBVIOUS
    <3> QED  BY <3>1
  <2>2. ASSUME NEW s \in C
        PROVE  s \in A \cup B
    <3>1. CASE n + 1 \notin s
      BY <3>1
    <3>2. CASE n + 1 \in s
      <4>1. s \ {n + 1} \in A /\ s = (s \ {n + 1}) \cup {n + 1}
        BY <3>2
      <4> QED  BY <4>1
    <3> QED  BY <3>1, <3>2
  <2>3. B \subseteq C
    BY <2>1
  <2>4. A \subseteq C
    BY <2>1
  <2> HIDE DEF A, B, C
  <2> QED  BY <2>2, <2>3, <2>4
<1>6. IsFiniteSet(B) /\ Cardinality(B) = Cardinality(A)
  <2>1. f \in [A -> B]
    OBVIOUS
  <2>2. \A s, r \in A : f[s] = f[r] => s = r
    BY <1>3
  <2>3. \A b \in B : \E s \in A : f[s] = b
    OBVIOUS
  <2> HIDE DEF A, B, f
  <2>4. f \in Bijection(A, B)
    BY <2>1, <2>2, <2>3 DEF Bijection, Injection, IsInjective, Surjection
  <2>5. ExistsBijection(A, B)
    BY <2>4 DEF ExistsBijection
  <2> QED  BY <1>2, <2>5, FS_Bijection
<1> HIDE DEF A, B, C
<1>7. Cardinality(C) = Cardinality(A) + Cardinality(B) - Cardinality({})
  BY <1>2, <1>4, <1>5, <1>6, FS_Union
<1>8. Cardinality({}) = 0 /\ Cardinality(A) \in Nat
  BY <1>2, FS_EmptySet, FS_CardinalityType
<1>9. Cardinality(C) = Cardinality(A) + Cardinality(A)
  BY <1>6, <1>7, <1>8
<1> QED  BY <1>2, <1>8, <1>9, Zenon

(* The levels before t, if all are full, and one record more.              *)
LEMMA CollectedCount ==
  ASSUME BSMTypeOK, AllOnce, NEW rec \in Rec, rec \notin inserted,
         NEW t \in 1..(Len(m_levels) + 1),
         \A i \in 1..(t - 1) : IsFiniteSet(m_levels[i]) /\ Cardinality(m_levels[i]) = 2^(i - 1)
  PROVE  IsFiniteSet(Collected(rec, t)) /\ Cardinality(Collected(rec, t)) = 2^(t - 1)
<1> DEFINE U(k) == {rec} \cup UNION {m_levels[i] : i \in 1..k}
           Full(k) == IsFiniteSet(U(k)) /\ Cardinality(U(k)) = 2^k
           Bad == {k \in 0..(t - 1) : ~Full(k)}
<1>1. Len(m_levels) \in Nat /\ t \in Nat /\ DOMAIN m_levels = 1..Len(m_levels)
  BY DEF BSMTypeOK
<1>2. Full(0)
  <2>1. U(0) = {rec}
    OBVIOUS
  <2>2. IsFiniteSet({rec}) /\ Cardinality({rec}) = 1
    BY FS_Singleton
  <2>3. 2^0 = 1
    OBVIOUS
  <2> QED  BY <2>1, <2>2, <2>3
<1>3. ASSUME NEW k \in 0..(t - 2), Full(k)
      PROVE  Full(k + 1)
  <2> DEFINE L == m_levels[k + 1]
  <2>1. k \in Nat /\ k + 1 \in 1..(t - 1) /\ k + 1 \in DOMAIN m_levels /\ (k + 1) - 1 = k
    BY <1>1
  <2>2. IsFiniteSet(L) /\ Cardinality(L) = 2^k
    BY <2>1
  <2>3. U(k + 1) = U(k) \cup L
    <3>1. 1..(k + 1) = (1..k) \cup {k + 1}
      BY <2>1
    <3> QED  BY <3>1
  <2>4. U(k) \cap L = {}
    <3>1. rec \notin L
      BY <2>1 DEF AllOnce
    <3>2. ASSUME NEW i \in 1..k
          PROVE  m_levels[i] \cap L = {}
      <4>1. i \in DOMAIN m_levels /\ i # k + 1
        BY <1>1, <2>1
      <4> QED  BY <2>1, <4>1 DEF AllOnce
    <3> QED  BY <3>1, <3>2
  <2> DEFINE V == U(k)
  <2>5. IsFiniteSet(V) /\ Cardinality(V) = Cardinality(L) /\ V \cap L = {}
    BY <1>3, <2>2, <2>4
  <2> HIDE DEF V, L
  <2>6. Cardinality({}) = 0 /\ Cardinality(L) \in Nat
    BY <2>2, FS_EmptySet, FS_CardinalityType
  <2>7. IsFiniteSet(V \cup L) /\ Cardinality(V \cup L) = Cardinality(L) + Cardinality(L)
    <3>1. /\ IsFiniteSet(V \cup L)
          /\ Cardinality(V \cup L) = Cardinality(V) + Cardinality(L) - Cardinality(V \cap L)
      BY <2>2, <2>5, FS_Union
    <3>2. Cardinality(V \cap L) = 0
      BY <2>5, <2>6
    <3> QED  BY <2>5, <2>6, <3>1, <3>2
  <2>8. 2^(k + 1) = 2^k + 2^k
    BY <2>1, Doubles
  <2>9. Cardinality(V \cup L) = 2^(k + 1)
    BY <2>2, <2>7, <2>8, Zenon
  <2>10. U(k + 1) = V \cup L
    BY <2>3 DEF V
  <2> HIDE DEF U
  <2> QED  BY <2>7, <2>9, <2>10, Zenon DEF Full
<1> HIDE DEF Full
<1>4. Bad = {}
  <2> SUFFICES ASSUME Bad # {} PROVE FALSE
    OBVIOUS
  <2>1. Bad \subseteq Nat
    BY <1>1
  <2>2. PICK k \in Bad : \A j \in Bad : ~(<<j, k>> \in OpToRel(<, Nat))
    BY <2>1, NatLessThanWellFounded, WFMin
  <2> HIDE DEF Bad
  <2>6. \A j \in Bad : ~(j < k)
    BY <2>1, <2>2 DEF OpToRel
  <2> USE DEF Bad
  <2>3. k \in 0..(t - 1) /\ ~Full(k) /\ k # 0
    BY <1>2, <2>2
  <2>4. k - 1 \in 0..(t - 2) /\ (k - 1) + 1 = k /\ k - 1 \in 0..(t - 1)
    BY <1>1, <2>3
  <2>5. k - 1 \notin Bad
    BY <1>1, <2>3, <2>4, <2>6
  <2> QED  BY <1>3, <2>3, <2>4, <2>5
<1>5. t - 1 \in 0..(t - 1)
  BY <1>1
<1>6. Full(t - 1)
  BY <1>4, <1>5
<1> QED  BY <1>6 DEF Full, U, Collected

(* LevelsCount, and that no level is infinite.                             *)
Counted == Kept /\ LevelsCount /\ \A i \in DOMAIN m_levels : IsFiniteSet(m_levels[i])

LEMMA InsertCounts ==
  ASSUME Counted, NEW rec \in Rec, insert(rec)
  PROVE  Counted'
<1>1. PICK t \in 1..(Len(m_levels) + 1) : Target(t) /\ m_levels' = Carried(t, Collected(rec, t))
  BY DEF insert
<1>2. Kept /\ Kept' /\ rec \notin inserted
  BY InsertKeeps DEF Counted, insert
<1>3. Len(m_levels) \in Nat /\ DOMAIN m_levels = 1..Len(m_levels)
  BY <1>2 DEF Kept, BSMTypeOK
<1> DEFINE S == Collected(rec, t)
<1>4. \A i \in 1..(t - 1) : IsFiniteSet(m_levels[i]) /\ Cardinality(m_levels[i]) = 2^(i - 1)
  <2> SUFFICES ASSUME NEW i \in 1..(t - 1)
               PROVE  IsFiniteSet(m_levels[i]) /\ Cardinality(m_levels[i]) = 2^(i - 1)
    OBVIOUS
  <2>1. i \in DOMAIN m_levels /\ m_levels[i] # {}
    BY <1>1, <1>3 DEF Target
  <2> QED  BY <2>1 DEF Counted, LevelsCount
<1>5. IsFiniteSet(S) /\ Cardinality(S) = 2^(t - 1)
  BY <1>2, <1>4, CollectedCount DEF Kept
<1> HIDE DEF S
<1>6. /\ Len(m_levels') = IF t > Len(m_levels) THEN t ELSE Len(m_levels)
      /\ DOMAIN m_levels' = 1..Len(m_levels')
      /\ \A i \in 1..Len(m_levels') :
           m_levels'[i] = IF i < t THEN {} ELSE IF i = t THEN S ELSE m_levels[i]
  BY <1>1, <1>2, CarriedLevels DEF S, Kept, BSMTypeOK
<1>7. ASSUME NEW i \in DOMAIN m_levels'
      PROVE  /\ IsFiniteSet(m_levels'[i])
             /\ m_levels'[i] = {} \/ Cardinality(m_levels'[i]) = 2^(i - 1)
  <2>1. CASE i < t
    BY <1>6, <2>1, FS_EmptySet
  <2>2. CASE i = t
    <3>1. m_levels'[i] = S
      BY <1>6, <2>2
    <3> QED  BY <1>5, <2>2, <3>1
  <2>3. CASE i > t
    <3>1. i \in DOMAIN m_levels /\ m_levels'[i] = m_levels[i]
      BY <1>3, <1>6, <2>3
    <3> QED  BY <3>1 DEF Counted, LevelsCount
  <2> QED  BY <1>3, <1>6, <2>1, <2>2, <2>3
<1> QED  BY <1>2, <1>7 DEF Counted, LevelsCount

(* Whatever the number of insertions, level i is empty or has 2^i records. *)
THEOREM AlwaysCounted == BSMSpec => []LevelsCount
<1>1. BSMInit => Counted
  BY DEF BSMInit, Counted, Kept, BSMTypeOK, AllOnce, LevelsCount
<1>2. Counted /\ [BSMNext]_bsm => Counted'
  <2>1. ASSUME Counted, BSMNext  PROVE Counted'
    BY <2>1, InsertCounts DEF BSMNext
  <2>2. ASSUME Counted, UNCHANGED bsm  PROVE Counted'
    BY <2>2 DEF Counted, Kept, BSMTypeOK, AllOnce, LevelsCount, bsm
  <2> QED  BY <2>1, <2>2
<1>3. Counted => LevelsCount
  BY DEF Counted
<1> QED  BY <1>1, <1>2, <1>3, PTL DEF BSMSpec
=============================================================================
