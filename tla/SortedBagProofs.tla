-------------------------- MODULE SortedBagProofs --------------------------
(***************************************************************************)
(* The sorted bag keeps its records in key order, for every set of keys,   *)
(* with and without repeated keys.                                         *)
(***************************************************************************)
EXTENDS SortedBag, SequenceTheorems, WellFoundedInduction, TLAPS

(* Among the positions of a non-empty set there is a first one.            *)
LEMMA FirstPosition ==
  ASSUME NEW T, T \subseteq Nat, T # {}
  PROVE  \E x \in T : \A y \in T : x <= y
<1>1. PICK x \in T : \A y \in T : ~(<<y, x>> \in OpToRel(<, Nat))
  BY NatLessThanWellFounded, WFMin
<1>2. \A y \in T : ~(y < x)
  BY <1>1 DEF OpToRel
<1> QED  BY <1>2

(* lower_bound() finds a position, and it has the smaller keys in front of *)
(* it and none behind it at once.                                          *)
LEMMA LowerBoundFound ==
  ASSUME BagAssumption, NEW s \in Seq(Record), NEW k \in Key
  PROVE  /\ LowerBound(s, k) \in 0..Len(s)
         /\ \A j \in 1..LowerBound(s, k) : s[j].key < k
         /\ LowerBound(s, k) < Len(s) => k <= s[LowerBound(s, k) + 1].key
<1> DEFINE T == {i \in 0..Len(s) : i < Len(s) => k <= s[i + 1].key}
<1>1. Len(s) \in T /\ T \subseteq Nat
  OBVIOUS
<1>2. PICK i \in T : \A y \in T : i <= y
  BY <1>1, FirstPosition
<1>3. \A j \in 1..i : s[j].key < k
  <2> SUFFICES ASSUME NEW j \in 1..i PROVE s[j].key < k
    OBVIOUS
  <2>1. Len(s) \in Nat /\ i \in 0..Len(s) /\ j - 1 \in 0..Len(s) /\ j - 1 < i
    BY <1>1
  <2>2. j - 1 \notin T
    <3> HIDE DEF T
    <3> QED  BY <1>1, <1>2, <2>1
  <2>3. ~(k <= s[j].key)
    BY <2>1, <2>2
  <2>4. s[j] \in Record
    BY <2>1
  <2>5. Key \subseteq Int
    BY DEF BagAssumption
  <2>6. s[j].key \in Int /\ k \in Int
    BY <2>4, <2>5 DEF Record
  <2> QED  BY <2>3, <2>6
<1> QED  BY <1>2, <1>3 DEF LowerBound

(* What Put and Cut return, record by record.                              *)
LEMMA PutProperties ==
  ASSUME NEW s \in Seq(Record), NEW i \in 0..Len(s), NEW r \in Record
  PROVE  /\ Put(s, i, r) \in Seq(Record)
         /\ Len(Put(s, i, r)) = Len(s) + 1
         /\ \A j \in 1..(Len(s) + 1) :
              Put(s, i, r)[j] = IF j <= i THEN s[j] ELSE IF j = i + 1 THEN r ELSE s[j - 1]
<1> DEFINE front == SubSeq(s, 1, i)
           back  == SubSeq(s, i + 1, Len(s))
           head  == front \o <<r>>
<1>1. front \in Seq(Record) /\ Len(front) = i /\ \A j \in 1..i : front[j] = s[j]
  BY SubSeqProperties
<1>2. /\ back \in Seq(Record) /\ Len(back) = Len(s) - i
      /\ \A j \in 1..(Len(s) - i) : back[j] = s[i + j]
  BY SubSeqProperties
<1>3. <<r>> \in Seq(Record) /\ Len(<<r>>) = 1 /\ <<r>>[1] = r
  OBVIOUS
<1> HIDE DEF front, back
<1>4. /\ head \in Seq(Record) /\ Len(head) = i + 1
      /\ \A j \in 1..(i + 1) : head[j] = IF j <= i THEN front[j] ELSE <<r>>[j - i]
  BY <1>1, <1>3, ConcatProperties
<1>5. \A j \in 1..(i + 1) : head[j] = IF j <= i THEN s[j] ELSE r
  BY <1>1, <1>3, <1>4
<1> HIDE DEF head
<1>6. /\ head \o back \in Seq(Record) /\ Len(head \o back) = Len(s) + 1
      /\ \A j \in 1..(Len(s) + 1) :
           (head \o back)[j] = IF j <= i + 1 THEN head[j] ELSE back[j - (i + 1)]
  BY <1>2, <1>4, ConcatProperties
<1>7. \A j \in 1..(Len(s) + 1) : j > i + 1 => back[j - (i + 1)] = s[j - 1]
  BY <1>2
<1>8. \A j \in 1..(Len(s) + 1) :
        (head \o back)[j] = IF j <= i THEN s[j] ELSE IF j = i + 1 THEN r ELSE s[j - 1]
  BY <1>5, <1>6, <1>7
<1> QED  BY <1>6, <1>8 DEF Put, head, front, back

LEMMA CutProperties ==
  ASSUME NEW s \in Seq(Record), NEW i \in 0..(Len(s) - 1)
  PROVE  /\ Cut(s, i) \in Seq(Record)
         /\ Len(Cut(s, i)) = Len(s) - 1
         /\ \A j \in 1..(Len(s) - 1) : Cut(s, i)[j] = IF j <= i THEN s[j] ELSE s[j + 1]
<1> DEFINE front == SubSeq(s, 1, i)
           back  == SubSeq(s, i + 2, Len(s))
<1>1. front \in Seq(Record) /\ Len(front) = i /\ \A j \in 1..i : front[j] = s[j]
  BY SubSeqProperties
<1>2. /\ back \in Seq(Record) /\ Len(back) = Len(s) - i - 1
      /\ \A j \in 1..(Len(s) - i - 1) : back[j] = s[i + 1 + j]
  BY SubSeqProperties
<1> HIDE DEF front, back
<1>3. /\ front \o back \in Seq(Record) /\ Len(front \o back) = Len(front) + Len(back)
      /\ \A j \in 1..(Len(front) + Len(back)) :
           (front \o back)[j] = IF j <= Len(front) THEN front[j] ELSE back[j - Len(front)]
  BY <1>1, <1>2, ConcatProperties
<1>4. \A j \in 1..(Len(s) - 1) : j > i => back[j - i] = s[j + 1]
  BY <1>2
<1>5. \A j \in 1..(Len(s) - 1) : (front \o back)[j] = IF j <= i THEN s[j] ELSE s[j + 1]
  BY <1>1, <1>2, <1>3, <1>4
<1>6. Cut(s, i) = front \o back
  BY DEF Cut, front, back
<1>7. Len(front) + Len(back) = Len(s) - 1
  BY <1>1, <1>2
<1> QED  BY <1>3, <1>5, <1>6, <1>7

(* InOrder and the type, over positions.                                   *)
LEMMA ByPosition ==
  ASSUME BagAssumption, NEW s \in Seq(Record)
  PROVE  /\ \A j \in 1..Len(s) : s[j].key \in Int
         /\ Ordered(s) <=> \A a, b \in 1..Len(s) : a < b => s[a].key <= s[b].key
         /\ Distinct(s) <=> \A a, b \in 1..Len(s) : a # b => s[a].key # s[b].key
<1>1. DOMAIN s = 1..Len(s) /\ \A j \in 1..Len(s) : s[j] \in Record
  OBVIOUS
<1>2. \A r \in Record : r.key \in Int
  BY DEF Record, BagAssumption
<1> QED  BY <1>1, <1>2 DEF Ordered, Distinct
-----------------------------------------------------------------------------
IInv == TypeOK /\ InOrder

LEMMA InsertKeeps ==
  ASSUME BagAssumption, IInv, NEW k \in Key, NEW w \in Weight, Insert(k, w)
  PROVE  IInv'
<1> DEFINE i == LowerBound(contents, k)
           r == [key |-> k, weight |-> w]
           n == Len(contents)
           new == Put(contents, i, r)
           from(c) == IF c <= i THEN c ELSE c - 1
<1>1. r \in Record /\ r.key = k /\ k \in Int
  BY DEF Record, BagAssumption
<1>2. contents \in Seq(Record) /\ contents' = new /\ n \in Nat
  BY DEF IInv, TypeOK, Insert
<1>3. /\ i \in 0..n
      /\ \A j \in 1..i : contents[j].key < k
      /\ i < n => k <= contents[i + 1].key
  BY <1>2, LowerBoundFound
<1> HIDE DEF i, r
<1>4. /\ Put(contents, i, r) \in Seq(Record)
      /\ Len(Put(contents, i, r)) = Len(contents) + 1
      /\ \A j \in 1..(Len(contents) + 1) : Put(contents, i, r)[j] =
           IF j <= i THEN contents[j] ELSE IF j = i + 1 THEN r ELSE contents[j - 1]
  <2>1. contents \in Seq(Record) /\ i \in 0..Len(contents) /\ r \in Record
    BY <1>1, <1>2, <1>3
  <2> HIDE DEF n, new
  <2> QED  BY <2>1, PutProperties
<1> HIDE DEF from
<1>5. /\ new \in Seq(Record) /\ Len(new) = n + 1 /\ new[i + 1].key = k
      /\ \A c \in 1..(n + 1) : c # i + 1 => from(c) \in 1..n /\ new[c] = contents[from(c)]
  <2>1. new \in Seq(Record) /\ Len(new) = n + 1 /\ new[i + 1].key = k
    BY <1>1, <1>2, <1>3, <1>4
  <2>2. ASSUME NEW c \in 1..(n + 1), c # i + 1
        PROVE  from(c) \in 1..n /\ new[c] = contents[from(c)]
    BY <1>2, <1>3, <1>4, <2>2 DEF from
  <2> QED  BY <2>1, <2>2
<1> HIDE DEF new, n
<1>6. /\ \A j \in 1..n : contents[j].key \in Int
      /\ \A a, b \in 1..n : a < b => contents[a].key <= contents[b].key
  BY <1>2, ByPosition DEF IInv, InOrder, n
<1>7. \A j \in 1..n : j > i => k <= contents[j].key
  <2> SUFFICES ASSUME NEW j \in 1..n, j > i PROVE k <= contents[j].key
    OBVIOUS
  <2>1. i + 1 \in 1..n /\ k <= contents[i + 1].key
    BY <1>2, <1>3
  <2>2. j = i + 1 \/ contents[i + 1].key <= contents[j].key
    BY <1>2, <1>3, <1>6, <2>1
  <2> QED  BY <1>1, <1>6, <2>1, <2>2
<1>8. Ordered(new)
  <2> SUFFICES ASSUME NEW a \in 1..(n + 1), NEW b \in 1..(n + 1), a < b
               PROVE  new[a].key <= new[b].key
    BY <1>5, ByPosition
  <2>1. CASE a # i + 1 /\ b # i + 1
    <3>1. from(a) < from(b)
      BY <1>2, <1>3, <2>1 DEF from
    <3> QED  BY <1>6, <1>5, <2>1, <3>1
  <2>2. CASE a = i + 1
    <3>1. from(b) > i /\ b # i + 1
      BY <1>2, <1>3, <2>2 DEF from
    <3> QED  BY <1>7, <1>5, <2>2, <3>1
  <2>3. CASE b = i + 1
    <3>1. from(a) \in 1..i /\ a # i + 1
      BY <1>2, <1>3, <2>3 DEF from
    <3> QED  BY <1>1, <1>3, <1>6, <1>5, <2>3, <3>1
  <2> QED  BY <2>1, <2>2, <2>3
<1>9. ASSUME ~Duplicates PROVE Distinct(new)
  <2>1. \A a, b \in 1..n : a # b => contents[a].key # contents[b].key
    BY <1>2, <1>9, ByPosition DEF IInv, InOrder, n
  <2>2. \A a \in 1..n : contents[a].key # k
    BY <1>2, <1>9 DEF Insert, Has, n
  <2> SUFFICES ASSUME NEW a \in 1..(n + 1), NEW b \in 1..(n + 1), a # b
               PROVE  new[a].key # new[b].key
    BY <1>5, ByPosition
  <2>3. CASE a # i + 1 /\ b # i + 1
    <3>1. from(a) # from(b)
      BY <1>2, <1>3, <2>3 DEF from
    <3> QED  BY <1>5, <2>1, <2>3, <3>1
  <2>4. CASE a = i + 1 \/ b = i + 1
    <3> QED  BY <1>5, <2>2, <2>4
  <2> QED  BY <2>3, <2>4
<1> QED  BY <1>2, <1>5, <1>8, <1>9 DEF IInv, TypeOK, InOrder

LEMMA CutKeeps ==
  ASSUME BagAssumption, IInv, NEW i \in 0..(Len(contents) - 1), contents' = Cut(contents, i)
  PROVE  IInv'
<1> DEFINE n == Len(contents)
           new == Cut(contents, i)
           from(c) == IF c <= i THEN c ELSE c + 1
<1>1. contents \in Seq(Record) /\ n \in Nat /\ i \in 0..(n - 1)
  BY DEF IInv, TypeOK
<1>2. /\ new \in Seq(Record) /\ Len(new) = n - 1
      /\ \A j \in 1..(n - 1) : new[j] = IF j <= i THEN contents[j] ELSE contents[j + 1]
  BY <1>1, CutProperties
<1> HIDE DEF new, n
<1>3. \A c \in 1..(n - 1) : from(c) \in 1..n /\ new[c] = contents[from(c)]
  BY <1>1, <1>2
<1>4. \A a, b \in 1..(n - 1) : /\ a < b => from(a) < from(b)
                               /\ a # b => from(a) # from(b)
  BY <1>1
<1> HIDE DEF from
<1>5. Ordered(new)
  <2>1. \A a, b \in 1..n : a < b => contents[a].key <= contents[b].key
    BY <1>1, ByPosition DEF IInv, InOrder, n
  <2> QED  BY <1>2, <1>3, <1>4, <2>1, ByPosition
<1>6. ASSUME ~Duplicates PROVE Distinct(new)
  <2>1. \A a, b \in 1..n : a # b => contents[a].key # contents[b].key
    BY <1>1, <1>6, ByPosition DEF IInv, InOrder, n
  <2> QED  BY <1>2, <1>3, <1>4, <2>1, ByPosition
<1> QED  BY <1>2, <1>5, <1>6 DEF IInv, TypeOK, InOrder, new

(* erase_one() cuts a record that is there: the keys from lower_bound() on *)
(* are not all smaller.                                                    *)
LEMMA EraseOneCuts ==
  ASSUME BagAssumption, IInv, NEW k \in Key, Has(contents, k)
  PROVE  LowerBound(contents, k) \in 0..(Len(contents) - 1)
<1>1. contents \in Seq(Record)
  BY DEF IInv, TypeOK
<1>2. PICK j \in 1..Len(contents) : contents[j].key = k
  BY <1>1 DEF Has
<1>3. LowerBound(contents, k) # Len(contents)
  BY <1>1, <1>2, LowerBoundFound DEF BagAssumption
<1> QED  BY <1>1, <1>3, LowerBoundFound

LEMMA EmptyInOrder == ASSUME contents = <<>> PROVE IInv
  BY DEF IInv, TypeOK, InOrder, Ordered, Distinct

(* The records are in key order at all times, and never hold a key twice   *)
(* when the tree allows none.                                              *)
THEOREM AlwaysInOrder ==
  ASSUME BagAssumption PROVE Spec => [](TypeOK /\ InOrder)
<1>1. Init => IInv
  BY EmptyInOrder DEF Init
<1>2. IInv /\ [Next]_contents => IInv'
  <2> SUFFICES ASSUME IInv, [Next]_contents PROVE IInv'
    OBVIOUS
  <2>1. ASSUME NEW k \in Key, NEW w \in Weight, Insert(k, w) PROVE IInv'
    BY <2>1, InsertKeeps
  <2>2. ASSUME NEW k \in Key, EraseOne(k) PROVE IInv'
    BY <2>2, EraseOneCuts, CutKeeps DEF EraseOne
  <2>3. ASSUME NEW i \in 0..(Len(contents) - 1), EraseAt(i) PROVE IInv'
    BY <2>3, CutKeeps DEF EraseAt
  <2>4. ASSUME BulkLoad PROVE IInv'
    <3>1. PICK n \in 1..MaxRecords : contents' \in [1..n -> [key : Key, weight : {1}]]
      BY <2>4 DEF BulkLoad
    <3>2. [key : Key, weight : {1}] \subseteq Record
      BY DEF Record
    <3>3. contents' \in Seq(Record)
      BY <3>1, <3>2 DEF BagAssumption
    <3> QED  BY <2>4, <3>3 DEF BulkLoad, IInv, TypeOK, InOrder
  <2>5. ASSUME Clear PROVE IInv'
    BY <2>5 DEF Clear, IInv, TypeOK, InOrder, Ordered, Distinct
  <2>6. ASSUME UNCHANGED contents PROVE IInv'
    BY <2>6 DEF IInv, TypeOK, InOrder, Ordered, Distinct
  <2> QED  BY <2>1, <2>2, <2>3, <2>4, <2>5, <2>6 DEF Next
<1> QED  BY <1>1, <1>2, PTL DEF Spec, IInv
=============================================================================
