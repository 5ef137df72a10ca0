---------------------------- MODULE BTreeForest ----------------------------
(***************************************************************************)
(* The tree of BTree.h as a forest: the nodes in use, each with its level, *)
(* its children in order and its right neighbour on that level, and what a *)
(* split, a merge, a shift and a new or dropped root do to all four.  Then *)
(* what the functions of the code do to the nodes they touch, and a path   *)
(* of activations through the forest with the siblings passed down it.     *)
(***************************************************************************)
EXTENDS BTree, SequenceTheorems, WellFoundedInduction, TLAPS

(* Sequences without repetition, cut, joined, extended and shortened.      *)

(* The first i elements and the rest.                                      *)
LEMMA Halves ==
  ASSUME NEW S, NEW s \in Seq(S), NEW i \in 0..Len(s)
  PROVE  /\ First(s, i) \in Seq(S) /\ Len(First(s, i)) = i
         /\ From(s, i) \in Seq(S) /\ Len(From(s, i)) = Len(s) - i
         /\ \A j \in 1..i : First(s, i)[j] = s[j]
         /\ \A j \in 1..(Len(s) - i) : From(s, i)[j] = s[i + j]
BY DEF First, From

(* The halves of a sequence without repetition share nothing.              *)
LEMMA HalvesApart ==
  ASSUME NEW S, NEW s \in Seq(S), NEW i \in 0..Len(s), IsInjective(s)
  PROVE  /\ IsInjective(First(s, i)) /\ IsInjective(From(s, i))
         /\ ToSet(First(s, i)) \cap ToSet(From(s, i)) = {}
         /\ ToSet(s) = ToSet(First(s, i)) \cup ToSet(From(s, i))
<1>1. \A j, k \in 1..Len(s) : s[j] = s[k] => j = k
  BY DEF IsInjective
<1>2. /\ DOMAIN First(s, i) = 1..i
      /\ DOMAIN From(s, i) = 1..(Len(s) - i)
      /\ DOMAIN s = 1..Len(s)
  BY Halves
<1>3. /\ \A j \in 1..i : First(s, i)[j] = s[j] /\ j \in 1..Len(s)
      /\ \A j \in 1..(Len(s) - i) : From(s, i)[j] = s[i + j] /\ i + j \in 1..Len(s)
  BY Halves
<1> DEFINE p == First(s, i)
           q == From(s, i)
<1>4. /\ DOMAIN p = 1..i /\ \A j \in 1..i : p[j] = s[j] /\ j \in 1..Len(s)
      /\ DOMAIN q = 1..(Len(s) - i)
      /\ \A j \in 1..(Len(s) - i) : q[j] = s[i + j] /\ i + j \in 1..Len(s)
  BY <1>2, <1>3
<1> HIDE DEF p, q
<1>5. IsInjective(p)
  <2>1. \A j, k \in 1..i : p[j] = p[k] => j = k
    BY <1>1, <1>4
  <2> QED  BY <1>4, <2>1 DEF IsInjective
<1>6. IsInjective(q)
  <2>1. \A j, k \in 1..(Len(s) - i) : q[j] = q[k] => i + j = i + k
    BY <1>1, <1>4
  <2>2. \A j, k \in 1..(Len(s) - i) : q[j] = q[k] => j = k
    BY <2>1
  <2> QED  BY <1>4, <2>2 DEF IsInjective
<1>7. \A j \in 1..i : \A k \in 1..(Len(s) - i) : p[j] # q[k]
  <2>1. ASSUME NEW j \in 1..i, NEW k \in 1..(Len(s) - i), p[j] = q[k]
        PROVE  FALSE
    <3>1. j = i + k
      BY <1>1, <1>4, <2>1, Zenon
    <3> QED  BY <3>1
  <2> QED  BY <2>1
<1>8. ToSet(p) \cap ToSet(q) = {}
  BY <1>4, <1>7 DEF ToSet
<1>9. ToSet(s) = ToSet(p) \cup ToSet(q)
  <2>1. ToSet(p) \subseteq ToSet(s) /\ ToSet(q) \subseteq ToSet(s)
    BY <1>2, <1>4 DEF ToSet
  <2>2. ASSUME NEW j \in 1..Len(s)
        PROVE  s[j] \in ToSet(p) \cup ToSet(q)
    <3>1. CASE j <= i
      BY <1>4, <3>1 DEF ToSet
    <3>2. CASE ~(j <= i)
      <4>1. j - i \in 1..(Len(s) - i) /\ i + (j - i) = j
        BY <3>2
      <4> QED  BY <1>4, <4>1 DEF ToSet
    <3> QED  BY <3>1, <3>2
  <2>3. ToSet(s) \subseteq ToSet(p) \cup ToSet(q)
    BY <1>2, <2>2 DEF ToSet
  <2> QED  BY <2>1, <2>3
<1> QED  BY <1>5, <1>6, <1>8, <1>9 DEF p, q

(* Two sequences without repetition that share nothing, joined.            *)
LEMMA Joined ==
  ASSUME NEW S, NEW p \in Seq(S), NEW q \in Seq(S),
         IsInjective(p), IsInjective(q), ToSet(p) \cap ToSet(q) = {}
  PROVE  /\ p \o q \in Seq(S) /\ Len(p \o q) = Len(p) + Len(q)
         /\ IsInjective(p \o q)
         /\ ToSet(p \o q) = ToSet(p) \cup ToSet(q)
<1>1. /\ p \o q \in Seq(S) /\ Len(p \o q) = Len(p) + Len(q)
      /\ \A j \in 1..Len(p) : (p \o q)[j] = p[j]
      /\ \A j \in 1..Len(q) : (p \o q)[Len(p) + j] = q[j]
  BY ConcatProperties
<1> DEFINE r == p \o q
<1> HIDE DEF r
<1>2. DOMAIN p = 1..Len(p) /\ DOMAIN q = 1..Len(q) /\ DOMAIN r = 1..(Len(p) + Len(q))
  BY <1>1 DEF r
<1>3. \A j \in 1..Len(p) : r[j] = p[j] /\ j \in DOMAIN r
  BY <1>1, <1>2 DEF r
<1>4. \A j \in 1..Len(q) : r[Len(p) + j] = q[j] /\ Len(p) + j \in DOMAIN r
  BY <1>1, <1>2 DEF r
<1>5. \A k \in DOMAIN r : k \in 1..Len(p) \/ \E j \in 1..Len(q) : k = Len(p) + j
  <2>1. ASSUME NEW k \in DOMAIN r, k \notin 1..Len(p)
        PROVE  \E j \in 1..Len(q) : k = Len(p) + j
    <3>1. k - Len(p) \in 1..Len(q) /\ k = Len(p) + (k - Len(p))
      BY <1>2, <2>1
    <3> QED  BY <3>1
  <2> QED  BY <2>1
<1>6. ToSet(r) = ToSet(p) \cup ToSet(q)
  <2>1. \A k \in DOMAIN r : r[k] \in ToSet(p) \cup ToSet(q)
    <3>1. \A k \in 1..Len(p) : r[k] \in ToSet(p)
      BY <1>2, <1>3 DEF ToSet
    <3>2. \A k \in 1..Len(q) : r[Len(p) + k] \in ToSet(q)
      BY <1>2, <1>4 DEF ToSet
    <3> QED  BY <1>5, <3>1, <3>2
  <2>2. ToSet(p) \subseteq ToSet(r)
    BY <1>2, <1>3 DEF ToSet
  <2>3. ToSet(q) \subseteq ToSet(r)
    BY <1>2, <1>4 DEF ToSet
  <2>4. ToSet(r) \subseteq ToSet(p) \cup ToSet(q)
    BY <2>1 DEF ToSet
  <2> QED  BY <2>2, <2>3, <2>4
<1>7. IsInjective(r)
  <2>1. \A j \in 1..Len(p) : \A k \in 1..Len(q) : p[j] # q[k]
    BY <1>2 DEF ToSet
  <2>2. /\ \A j, k \in 1..Len(p) : p[j] = p[k] => j = k
        /\ \A j, k \in 1..Len(q) : q[j] = q[k] => j = k
    BY <1>2 DEF IsInjective
  <2> SUFFICES ASSUME NEW j \in DOMAIN r, NEW k \in DOMAIN r, r[j] = r[k]
               PROVE  j = k
    BY DEF IsInjective
  <2>3. CASE j \in 1..Len(p) /\ k \in 1..Len(p)
    BY <2>3, <1>3, <2>2
  <2>4. CASE j \in 1..Len(p) /\ k \notin 1..Len(p)
    <3>1. PICK k1 \in 1..Len(q) : k = Len(p) + k1
      BY <2>4, <1>5
    <3> QED  BY <2>4, <1>3, <1>4, <3>1, <2>1
  <2>5. CASE j \notin 1..Len(p) /\ k \in 1..Len(p)
    <3>1. PICK j1 \in 1..Len(q) : j = Len(p) + j1
      BY <2>5, <1>5
    <3> QED  BY <2>5, <1>3, <1>4, <3>1, <2>1
  <2>6. CASE j \notin 1..Len(p) /\ k \notin 1..Len(p)
    <3>1. PICK j1 \in 1..Len(q) : j = Len(p) + j1
      BY <2>6, <1>5
    <3>2. PICK k1 \in 1..Len(q) : k = Len(p) + k1
      BY <2>6, <1>5
    <3>3. q[j1] = q[k1]
      BY <1>4, <3>1, <3>2
    <3> QED  BY <2>2, <3>1, <3>2, <3>3
  <2> QED  BY <2>3, <2>4, <2>5, <2>6
<1> QED  BY <1>1, <1>6, <1>7 DEF r

(* Where a joined sequence begins and ends.                                *)
LEMMA ConcatFirstLast ==
  ASSUME NEW S, NEW p \in Seq(S), NEW q \in Seq(S)
  PROVE  /\ p # <<>> => (p \o q)[1] = p[1]
         /\ q # <<>> => Last(p \o q) = Last(q)
         /\ p \o q = <<>> <=> p = <<>> /\ q = <<>>
<1>1. /\ p \o q \in Seq(S) /\ Len(p \o q) = Len(p) + Len(q)
      /\ \A j \in 1..(Len(p) + Len(q)) : (p \o q)[j] = IF j <= Len(p) THEN p[j] ELSE q[j - Len(p)]
  BY ConcatProperties
<1>2. Len(p) \in Nat /\ Len(q) \in Nat
  OBVIOUS
<1>3. ASSUME p # <<>> PROVE (p \o q)[1] = p[1]
  <2>1. 1 \in 1..(Len(p) + Len(q)) /\ 1 <= Len(p)
    BY <1>2, <1>3
  <2> QED  BY <1>1, <2>1
<1>4. ASSUME q # <<>> PROVE Last(p \o q) = Last(q)
  <2>1. Len(q) > 0
    BY <1>2, <1>4
  <2>2. /\ Len(p) + Len(q) \in 1..(Len(p) + Len(q)) /\ ~(Len(p) + Len(q) <= Len(p))
        /\ (Len(p) + Len(q)) - Len(p) = Len(q)
    BY <1>2, <2>1
  <2> QED  BY <1>1, <2>2 DEF Last
<1>5. p \o q = <<>> <=> p = <<>> /\ q = <<>>
  BY ConcatEqualIffEmpty
<1> QED  BY <1>3, <1>4, <1>5

(* Each element is followed by its neighbour.                              *)
Linked(s, R) == \A i \in 1..(Len(s) - 1) : R[s[i]] = s[i + 1]

(* A joined sequence is linked if its parts are, and the link between      *)
(* them.                                                                   *)
LEMMA LinkedJoin ==
  ASSUME NEW S, NEW p \in Seq(S), NEW q \in Seq(S), NEW R
  PROVE  /\ Linked(p \o q, R) => Linked(p, R) /\ Linked(q, R)
         /\ Linked(p \o q, R) /\ p # <<>> /\ q # <<>> => R[Last(p)] = q[1]
         /\ Linked(p, R) /\ Linked(q, R) /\ (p # <<>> /\ q # <<>> => R[Last(p)] = q[1])
              => Linked(p \o q, R)
<1> DEFINE r == p \o q
<1>1. /\ r \in Seq(S) /\ Len(r) = Len(p) + Len(q)
      /\ \A j \in 1..(Len(p) + Len(q)) : r[j] = IF j <= Len(p) THEN p[j] ELSE q[j - Len(p)]
  BY ConcatProperties
<1>2. Len(p) \in Nat /\ Len(q) \in Nat
  OBVIOUS
<1> HIDE DEF r
<1>3. \A j \in 1..Len(p) : r[j] = p[j]
  BY <1>1, <1>2
<1>4. \A j \in 1..Len(q) : r[Len(p) + j] = q[j]
  <2> SUFFICES ASSUME NEW j \in 1..Len(q) PROVE r[Len(p) + j] = q[j]
    OBVIOUS
  <2>1. /\ Len(p) + j \in 1..(Len(p) + Len(q)) /\ ~(Len(p) + j <= Len(p))
        /\ (Len(p) + j) - Len(p) = j
    BY <1>2
  <2> QED  BY <1>1, <2>1
<1>5. ASSUME Linked(r, R) PROVE Linked(p, R)
  <2> SUFFICES ASSUME NEW i \in 1..(Len(p) - 1) PROVE R[p[i]] = p[i + 1]
    BY DEF Linked
  <2>1. i \in 1..(Len(r) - 1) /\ i \in 1..Len(p) /\ i + 1 \in 1..Len(p)
    BY <1>1, <1>2
  <2> QED  BY <1>3, <1>5, <2>1 DEF Linked
<1>6. ASSUME Linked(r, R) PROVE Linked(q, R)
  <2> SUFFICES ASSUME NEW i \in 1..(Len(q) - 1) PROVE R[q[i]] = q[i + 1]
    BY DEF Linked
  <2>1. /\ Len(p) + i \in 1..(Len(r) - 1) /\ i \in 1..Len(q) /\ i + 1 \in 1..Len(q)
        /\ (Len(p) + i) + 1 = Len(p) + (i + 1)
    BY <1>1, <1>2
  <2>2. R[r[Len(p) + i]] = r[Len(p) + (i + 1)]
    BY <1>6, <2>1 DEF Linked
  <2> QED  BY <1>4, <2>1, <2>2
<1>7. ASSUME Linked(r, R), p # <<>>, q # <<>> PROVE R[Last(p)] = q[1]
  <2>1. /\ Len(p) \in 1..Len(p) /\ 1 \in 1..Len(q) /\ Len(p) \in 1..(Len(r) - 1)
    BY <1>1, <1>2, <1>7
  <2>2. R[r[Len(p)]] = r[Len(p) + 1]
    BY <1>7, <2>1 DEF Linked
  <2> QED  BY <1>3, <1>4, <2>1, <2>2 DEF Last
<1>8. ASSUME Linked(p, R), Linked(q, R), p # <<>> /\ q # <<>> => R[Last(p)] = q[1]
      PROVE  Linked(r, R)
  <2> SUFFICES ASSUME NEW i \in 1..(Len(r) - 1) PROVE R[r[i]] = r[i + 1]
    BY DEF Linked
  <2>1. CASE i < Len(p)
    <3>1. i \in 1..(Len(p) - 1) /\ i \in 1..Len(p) /\ i + 1 \in 1..Len(p)
      BY <1>2, <2>1
    <3> QED  BY <1>3, <1>8, <3>1 DEF Linked
  <2>2. CASE i = Len(p)
    <3>1. /\ i \in 1..Len(p) /\ 1 \in 1..Len(q) /\ p # <<>> /\ q # <<>>
      BY <1>1, <1>2, <2>2
    <3>2. r[i] = p[Len(p)] /\ r[i + 1] = q[1]
      BY <1>3, <1>4, <2>2, <3>1
    <3> QED  BY <1>8, <3>1, <3>2 DEF Last
  <2>3. CASE i > Len(p)
    <3>1. /\ i - Len(p) \in 1..(Len(q) - 1) /\ i - Len(p) \in 1..Len(q)
          /\ (i - Len(p)) + 1 \in 1..Len(q)
          /\ Len(p) + (i - Len(p)) = i /\ Len(p) + ((i - Len(p)) + 1) = i + 1
      BY <1>1, <1>2, <2>3
    <3>2. r[i] = q[i - Len(p)] /\ r[i + 1] = q[(i - Len(p)) + 1]
      BY <1>4, <3>1
    <3> QED  BY <1>8, <3>1, <3>2 DEF Linked
  <2> QED  BY <1>1, <1>2, <2>1, <2>2, <2>3
<1> QED  BY <1>5, <1>6, <1>7, <1>8 DEF r

(* The converse of Joined.                                                 *)
LEMMA Parted ==
  ASSUME NEW S, NEW p \in Seq(S), NEW q \in Seq(S), IsInjective(p \o q)
  PROVE  /\ IsInjective(p) /\ IsInjective(q) /\ ToSet(p) \cap ToSet(q) = {}
         /\ ToSet(p \o q) = ToSet(p) \cup ToSet(q)
<1> DEFINE r == p \o q
<1>1. /\ r \in Seq(S) /\ Len(r) = Len(p) + Len(q)
      /\ \A j \in 1..(Len(p) + Len(q)) : r[j] = IF j <= Len(p) THEN p[j] ELSE q[j - Len(p)]
  BY ConcatProperties
<1>2. Len(p) \in Nat /\ Len(q) \in Nat /\ IsInjective(r)
  OBVIOUS
<1> HIDE DEF r
<1>3. Len(p) \in 0..Len(r)
  BY <1>1, <1>2
<1>4. First(r, Len(p)) = p
  <2>1. First(r, Len(p)) \in Seq(S) /\ Len(First(r, Len(p))) = Len(p)
        /\ \A j \in 1..Len(p) : First(r, Len(p))[j] = r[j]
    BY <1>1, <1>3, Halves
  <2>2. \A j \in 1..Len(p) : First(r, Len(p))[j] = p[j]
    BY <1>1, <1>2, <2>1
  <2> QED  BY <2>1, <2>2, SeqEqual
<1>5. From(r, Len(p)) = q
  <2>1. From(r, Len(p)) \in Seq(S) /\ Len(From(r, Len(p))) = Len(r) - Len(p)
        /\ \A j \in 1..(Len(r) - Len(p)) : From(r, Len(p))[j] = r[Len(p) + j]
    BY <1>1, <1>3, Halves
  <2>2. Len(r) - Len(p) = Len(q)
    BY <1>1, <1>2
  <2>3. ASSUME NEW j \in 1..Len(q) PROVE From(r, Len(p))[j] = q[j]
    <3>1. /\ Len(p) + j \in 1..(Len(p) + Len(q)) /\ ~(Len(p) + j <= Len(p))
          /\ (Len(p) + j) - Len(p) = j
      BY <1>2
    <3> QED  BY <1>1, <2>1, <2>2, <3>1
  <2> QED  BY <2>1, <2>2, <2>3, SeqEqual
<1>6. /\ IsInjective(First(r, Len(p))) /\ IsInjective(From(r, Len(p)))
      /\ ToSet(First(r, Len(p))) \cap ToSet(From(r, Len(p))) = {}
      /\ ToSet(r) = ToSet(First(r, Len(p))) \cup ToSet(From(r, Len(p)))
  BY <1>1, <1>2, <1>3, HalvesApart
<1> QED  BY <1>4, <1>5, <1>6 DEF r

(* A sequence of one element.                                              *)
LEMMA One ==
  ASSUME NEW S, NEW e \in S
  PROVE  /\ <<e>> \in Seq(S) /\ Len(<<e>>) = 1 /\ <<e>>[1] = e
         /\ IsInjective(<<e>>) /\ ToSet(<<e>>) = {e}
BY DEF IsInjective, ToSet

(* InsertAt as First, one element and From.                                *)
LEMMA Inserted ==
  ASSUME NEW S, NEW s \in Seq(S), NEW i \in 1..(Len(s) + 1), NEW e \in S
  PROVE  /\ InsertAt(s, i, e) \in Seq(S)
         /\ Len(InsertAt(s, i, e)) = Len(s) + 1
         /\ InsertAt(s, i, e) = (First(s, i - 1) \o <<e>>) \o From(s, i - 1)
<1>1. i - 1 \in 0..Len(s) /\ (i - 1) + 1 = i
  OBVIOUS
<1>2. InsertAt(s, i, e) = (First(s, i - 1) \o <<e>>) \o From(s, i - 1)
  BY <1>1 DEF InsertAt, First, From
<1>3. /\ First(s, i - 1) \in Seq(S) /\ Len(First(s, i - 1)) = i - 1
      /\ From(s, i - 1) \in Seq(S) /\ Len(From(s, i - 1)) = Len(s) - (i - 1)
  BY <1>1, Halves
<1> DEFINE p == First(s, i - 1)
           q == From(s, i - 1)
           o == <<e>>
<1>4. o \in Seq(S) /\ Len(o) = 1
  OBVIOUS
<1> HIDE DEF p, q, o
<1>5. p \in Seq(S) /\ Len(p) = i - 1 /\ q \in Seq(S) /\ Len(q) = Len(s) - (i - 1)
  BY <1>3 DEF p, q
<1> DEFINE po == p \o o
<1>6. po \in Seq(S) /\ Len(po) = i
  <2>1. po \in Seq(S) /\ Len(po) = Len(p) + Len(o)
    BY <1>4, <1>5, ConcatProperties
  <2> QED  BY <1>4, <1>5, <2>1
<1> HIDE DEF po
<1>7. po \o q \in Seq(S) /\ Len(po \o q) = Len(s) + 1
  <2>1. po \o q \in Seq(S) /\ Len(po \o q) = Len(po) + Len(q)
    BY <1>5, <1>6, ConcatProperties
  <2> QED  BY <1>5, <1>6, <2>1
<1> QED  BY <1>2, <1>7 DEF po, p, q, o

(* What stands where after an insertion.                                   *)
LEMMA InsertedPlaces ==
  ASSUME NEW S, NEW s \in Seq(S), NEW i \in 1..(Len(s) + 1), NEW e \in S
  PROVE  \A j \in 1..(Len(s) + 1) :
           InsertAt(s, i, e)[j] = IF j < i THEN s[j] ELSE IF j = i THEN e ELSE s[j - 1]
<1> DEFINE p == First(s, i - 1)
           q == From(s, i - 1)
           o == <<e>>
           po == p \o o
<1>1. i - 1 \in 0..Len(s) /\ Len(s) \in Nat
  OBVIOUS
<1>2. /\ p \in Seq(S) /\ Len(p) = i - 1 /\ q \in Seq(S) /\ Len(q) = Len(s) - (i - 1)
      /\ \A j \in 1..(i - 1) : p[j] = s[j]
      /\ \A j \in 1..(Len(s) - (i - 1)) : q[j] = s[(i - 1) + j]
  BY <1>1, Halves, Zenon
<1>3. o \in Seq(S) /\ Len(o) = 1 /\ o[1] = e
  OBVIOUS
<1>4. InsertAt(s, i, e) = po \o q
  BY Inserted
<1> HIDE DEF p, q, o
<1>5. po \in Seq(S) /\ Len(po) = Len(p) + Len(o)
      /\ \A j \in 1..(Len(p) + Len(o)) : po[j] = IF j <= Len(p) THEN p[j] ELSE o[j - Len(p)]
  BY <1>2, <1>3, ConcatProperties
<1> HIDE DEF po
<1>6. \A j \in 1..(Len(po) + Len(q)) : (po \o q)[j] = IF j <= Len(po) THEN po[j] ELSE q[j - Len(po)]
  BY <1>2, <1>5, ConcatProperties
<1>7. Len(po) = i
  BY <1>2, <1>3, <1>5
<1> SUFFICES ASSUME NEW j \in 1..(Len(s) + 1)
             PROVE  (po \o q)[j] = IF j < i THEN s[j] ELSE IF j = i THEN e ELSE s[j - 1]
  BY <1>4
<1>8. j \in 1..(Len(po) + Len(q))
  BY <1>1, <1>2, <1>7
<1>9. CASE j < i
  <2>1. j \in 1..(i - 1) /\ j <= Len(p) /\ j \in 1..(Len(p) + Len(o)) /\ j <= Len(po)
    BY <1>2, <1>3, <1>7, <1>9
  <2> QED  BY <1>2, <1>5, <1>6, <1>8, <1>9, <2>1
<1>10. CASE j = i
  <2>1. ~(j <= Len(p)) /\ j \in 1..(Len(p) + Len(o)) /\ j <= Len(po) /\ j - Len(p) = 1
    BY <1>2, <1>3, <1>7, <1>10
  <2> QED  BY <1>3, <1>5, <1>6, <1>8, <1>10, <2>1
<1>11. CASE j > i
  <2>1. ~(j <= Len(po)) /\ j - i \in 1..(Len(s) - (i - 1)) /\ (i - 1) + (j - i) = j - 1
    BY <1>1, <1>2, <1>7, <1>11
  <2>2. q[j - i] = s[j - 1]
    BY <1>2, <2>1
  <2> QED  BY <1>6, <1>7, <1>8, <1>11, <2>1, <2>2
<1>12. j < i \/ j = i \/ j > i
  BY <1>1
<1> QED  BY <1>9, <1>10, <1>11, <1>12, Zenon

(* The type and length of the longer sequence.                             *)
LEMMA InsertedLen ==
  ASSUME NEW S, NEW s \in Seq(S), NEW i \in 1..(Len(s) + 1), NEW e \in S
  PROVE  InsertAt(s, i, e) \in Seq(S) /\ Len(InsertAt(s, i, e)) = Len(s) + 1
<1>1. /\ InsertAt(s, i, e) \in Seq(S)
      /\ Len(InsertAt(s, i, e)) = Len(s) + 1
  BY Inserted, Zenon
<1> QED  BY <1>1

(* A new element repeats none.                                             *)
LEMMA InsertedApart ==
  ASSUME NEW S, NEW s \in Seq(S), NEW i \in 1..(Len(s) + 1), NEW e \in S,
         IsInjective(s), e \notin ToSet(s)
  PROVE  /\ IsInjective(InsertAt(s, i, e))
         /\ ToSet(InsertAt(s, i, e)) = ToSet(s) \cup {e}
<1> DEFINE p == First(s, i - 1)
           q == From(s, i - 1)
           o == <<e>>
<1>1. i - 1 \in 0..Len(s)
  OBVIOUS
<1>2. p \in Seq(S) /\ q \in Seq(S)
  BY <1>1, Halves
<1>3. /\ IsInjective(p) /\ IsInjective(q) /\ ToSet(p) \cap ToSet(q) = {}
      /\ ToSet(s) = ToSet(p) \cup ToSet(q)
  BY <1>1, HalvesApart
<1>4. InsertAt(s, i, e) = (p \o o) \o q
  BY Inserted
<1>5. o \in Seq(S) /\ IsInjective(o) /\ ToSet(o) = {e}
  BY DEF IsInjective, ToSet
<1> HIDE DEF p, q, o
<1> DEFINE po == p \o o
<1>6. po \in Seq(S) /\ IsInjective(po) /\ ToSet(po) = ToSet(p) \cup {e}
  <2>1. ToSet(p) \cap ToSet(o) = {}
    BY <1>3, <1>5
  <2> QED  BY <2>1, <1>2, <1>3, <1>5, Joined
<1> HIDE DEF po
<1>7. ToSet(po) \cap ToSet(q) = {}
  BY <1>3, <1>6
<1>8. IsInjective(po \o q) /\ ToSet(po \o q) = ToSet(po) \cup ToSet(q)
  BY <1>2, <1>3, <1>6, <1>7, Joined
<1> QED  BY <1>3, <1>4, <1>6, <1>8 DEF po

(* What stands where after a removal.                                      *)
LEMMA Removed ==
  ASSUME NEW S, NEW s \in Seq(S), NEW i \in 1..Len(s)
  PROVE  /\ RemoveAt(s, i) \in Seq(S)
         /\ Len(RemoveAt(s, i)) = Len(s) - 1
         /\ \A j \in 1..(Len(s) - 1) : RemoveAt(s, i)[j] = IF j < i THEN s[j] ELSE s[j + 1]
<1> DEFINE p == First(s, i - 1)
           q == From(s, i)
<1>1. i - 1 \in 0..Len(s) /\ i \in 0..Len(s) /\ Len(s) \in Nat
  OBVIOUS
<1>2. RemoveAt(s, i) = p \o q
  BY DEF RemoveAt, First, From
<1>3. /\ p \in Seq(S) /\ Len(p) = i - 1 /\ q \in Seq(S) /\ Len(q) = Len(s) - i
      /\ \A j \in 1..(i - 1) : p[j] = s[j]
      /\ \A j \in 1..(Len(s) - i) : q[j] = s[i + j]
  BY <1>1, Halves
<1> HIDE DEF p, q
<1>4. /\ p \o q \in Seq(S) /\ Len(p \o q) = Len(p) + Len(q)
      /\ \A j \in 1..(Len(p) + Len(q)) :
           (p \o q)[j] = IF j <= Len(p) THEN p[j] ELSE q[j - Len(p)]
  BY <1>3, ConcatProperties
<1>5. ASSUME NEW j \in 1..(Len(s) - 1)
      PROVE  (p \o q)[j] = IF j < i THEN s[j] ELSE s[j + 1]
  <2>1. j \in 1..(Len(p) + Len(q))
    BY <1>1, <1>3
  <2>2. (p \o q)[j] = IF j <= Len(p) THEN p[j] ELSE q[j - Len(p)]
    BY <1>4, <2>1
  <2>3. CASE j < i
    <3>1. j <= Len(p) /\ j \in 1..(i - 1)
      BY <1>3, <2>3
    <3> QED  BY <1>3, <2>2, <2>3, <3>1
  <2>4. CASE ~(j < i)
    <3>1. ~(j <= Len(p)) /\ j - Len(p) \in 1..(Len(s) - i) /\ i + (j - Len(p)) = j + 1
      BY <1>1, <1>3, <2>4
    <3>2. q[j - Len(p)] = s[j + 1]
      BY <1>3, <3>1
    <3> QED  BY <2>2, <2>4, <3>1, <3>2
  <2> QED  BY <2>3, <2>4
<1> QED  BY <1>1, <1>2, <1>3, <1>4, <1>5

(* What is removed is gone, since it stood there once.                     *)
LEMMA RemovedApart ==
  ASSUME NEW S, NEW s \in Seq(S), NEW i \in 1..Len(s), IsInjective(s)
  PROVE  /\ IsInjective(RemoveAt(s, i))
         /\ ToSet(RemoveAt(s, i)) = ToSet(s) \ {s[i]}
<1> DEFINE r == RemoveAt(s, i)
<1>1. DOMAIN s = 1..Len(s) /\ Len(s) \in Nat /\ DOMAIN r = 1..(Len(s) - 1)
  BY Removed
<1>2. \A j \in 1..(Len(s) - 1) : r[j] = IF j < i THEN s[j] ELSE s[j + 1]
  BY Removed
<1> HIDE DEF r
<1>3. \A j, k \in DOMAIN s : s[j] = s[k] => j = k
  BY DEF IsInjective
<1>4. \A j \in DOMAIN r : r[j] \in ToSet(s) /\ r[j] # s[i]
  BY <1>1, <1>2, <1>3 DEF ToSet
<1>5. IsInjective(r)
  <2> SUFFICES ASSUME NEW j \in DOMAIN r, NEW k \in DOMAIN r, r[j] = r[k]
               PROVE  j = k
    BY DEF IsInjective
  <2> QED  BY <1>1, <1>2, <1>3
<1>6. ToSet(r) \subseteq ToSet(s) \ {s[i]}
  BY <1>4 DEF ToSet
<1>7. ASSUME NEW j \in 1..Len(s), s[j] # s[i]
      PROVE  s[j] \in ToSet(r)
  <2>1. CASE j < i
    <3>1. j \in 1..(Len(s) - 1) /\ r[j] = s[j]
      BY <1>1, <1>2, <2>1
    <3> QED  BY <1>1, <3>1 DEF ToSet
  <2>2. CASE ~(j < i)
    <3>1. j # i
      BY <1>7
    <3>2. j - 1 \in 1..(Len(s) - 1) /\ ~(j - 1 < i) /\ (j - 1) + 1 = j
      BY <1>1, <2>2, <3>1
    <3>3. r[j - 1] = s[j]
      BY <1>2, <3>2
    <3> QED  BY <1>1, <3>2, <3>3 DEF ToSet
  <2> QED  BY <2>1, <2>2
<1>8. ToSet(s) \ {s[i]} \subseteq ToSet(r)
  BY <1>1, <1>7 DEF ToSet
<1> QED  BY <1>5, <1>6, <1>8 DEF r
-----------------------------------------------------------------------------
(* The tree as a family of nodes A, with the level L[n] of each, the       *)
(* sequence V[n] of its children, and its neighbour to the right R[n] on   *)
(* its level, through all parents.  V[NULL] holds the nodes on top, one    *)
(* but for the moments when a split of the root is not yet under a new     *)
(* root.                                                                   *)
Parents == NodeId \cup {NULL}

(* Each node is in the set C[n] of children of one n, a level below.       *)
Kin(A, L, C) ==
  /\ A \subseteq NodeId /\ L \in [NodeId -> Int] /\ C \in [Parents -> SUBSET A]
  /\ \A c \in A : \E n \in Parents : c \in C[n]
  /\ \A n, m \in Parents : \A c \in A : c \in C[n] /\ c \in C[m] => n = m
  /\ \A n \in NodeId : \A c \in C[n] : n \in A /\ L[n] = L[c] + 1
  /\ \A n \in A : L[n] >= 0
  /\ \A c \in C[NULL] : \A n \in A : L[n] <= L[c]
  /\ C[NULL] = {} => A = {}

Sets(V) == [n \in Parents |-> ToSet(V[n])]

Family(A, L, V) ==
  /\ Kin(A, L, Sets(V))
  /\ V \in [Parents -> Seq(A)]
  /\ \A n \in Parents : IsInjective(V[n])
  /\ \A n \in A : L[n] = 0 <=> V[n] = <<>>

Chain(A, L, V, R) ==
  /\ R \in [NodeId -> Parents]
  /\ \A n \in A : R[n] # NULL => R[n] \in A /\ L[R[n]] = L[n]
  /\ \A n, m \in A : R[n] = R[m] /\ R[n] # NULL => n = m
  /\ \A n \in Parents : Linked(V[n], R)
  /\ \A n \in A : V[n] # <<>> => R[Last(V[n])] = IF R[n] = NULL THEN NULL ELSE V[R[n]][1]
  /\ V[NULL] # <<>> => R[Last(V[NULL])] = NULL

Forest(A, L, V, R) == Family(A, L, V) /\ Chain(A, L, V, R)

(* The null pointer is the address of no node.                             *)
LEMMA NullApart == NULL \notin NodeId
BY BTreeAssumption DEF NULL

(* A node is no child of itself, and has its place with one parent.        *)
LEMMA ChildApart ==
  ASSUME NEW A, NEW L, NEW V, Family(A, L, V), NEW n \in Parents, NEW i \in 1..Len(V[n])
  PROVE  /\ V[n][i] \in A /\ V[n][i] \in NodeId /\ V[n][i] # NULL
         /\ V[n][i] # n /\ V[n][i] \in Sets(V)[n]
         /\ \A j \in 1..Len(V[n]) : V[n][j] = V[n][i] => i = j
         /\ \A m \in Parents : V[n][i] \in Sets(V)[m] => m = n
<1>1. V[n] \in Seq(A) /\ A \subseteq NodeId
  BY DEF Family, Kin
<1>2. DOMAIN V[n] = 1..Len(V[n])
  BY <1>1
<1>3. V[n][i] \in A /\ V[n][i] \in NodeId /\ V[n][i] \in Sets(V)[n]
  BY <1>1, <1>2 DEF ToSet, Sets
<1>4. V[n][i] # n
  <2>1. CASE n = NULL
    BY <1>3, <2>1, NullApart
  <2>2. CASE n \in NodeId
    <3>1. L[n] = L[V[n][i]] + 1 /\ L[n] \in Int
      BY <1>3, <2>2 DEF Family, Kin
    <3> QED  BY <3>1
  <2> QED  BY <2>1, <2>2 DEF Parents
<1>5. \A j \in 1..Len(V[n]) : V[n][j] = V[n][i] => i = j
  BY <1>2 DEF Family, IsInjective
<1>6. \A m \in Parents : V[n][i] \in Sets(V)[m] => m = n
  BY <1>3 DEF Family, Kin
<1> QED  BY <1>3, <1>4, <1>5, <1>6, NullApart

(* What is no node of the forest has no children.                          *)
LEMMA NoKids ==
  ASSUME NEW A, NEW L, NEW V, Family(A, L, V), NEW n \in NodeId, n \notin A
  PROVE  V[n] = <<>> /\ Sets(V)[n] = {}
<1>1. V[n] \in Seq(A) /\ n \in Parents
  BY DEF Family, Parents
<1>2. Sets(V)[n] = {}
  BY <1>1 DEF Family, Kin
<1>3. ToSet(V[n]) = {}
  BY <1>1, <1>2 DEF Sets
<1>4. DOMAIN V[n] = 1..Len(V[n]) /\ Len(V[n]) \in Nat
  BY <1>1
<1>5. Len(V[n]) = 0
  <2>1. CASE Len(V[n]) > 0
    <3>1. V[n][1] \in ToSet(V[n])
      BY <1>4, <2>1 DEF ToSet
    <3> QED  BY <1>3, <3>1
  <2> QED  BY <1>4, <2>1
<1> QED  BY <1>1, <1>2, <1>5

(* A split of n, a child of par: its children are shared with a new node.  *)
LEMMA SplitKin ==
  ASSUME NEW A, NEW L, NEW C, Kin(A, L, C), NEW par \in Parents, NEW n \in C[par],
         NEW new \in NodeId, new \notin A, NEW X, NEW Y, X \cup Y = C[n], X \cap Y = {}
  PROVE  Kin(A \cup {new}, [L EXCEPT ![new] = L[n]],
             [C EXCEPT ![par] = C[par] \cup {new}, ![n] = X, ![new] = Y])
<1> DEFINE A2 == A \cup {new}
           L2 == [L EXCEPT ![new] = L[n]]
           C2 == [C EXCEPT ![par] = C[par] \cup {new}, ![n] = X, ![new] = Y]
<1>1. /\ A \subseteq NodeId /\ L \in [NodeId -> Int] /\ C \in [Parents -> SUBSET A]
      /\ n \in A /\ n \in NodeId /\ n \in Parents /\ new \in Parents
      /\ new # n /\ new # NULL /\ n # NULL /\ NULL \in Parents
  BY NullApart DEF Kin, Parents
<1>2. n # par /\ new # par
  <2>1. par \in NodeId => par \in A /\ L[par] = L[n] + 1 /\ L[n] \in Int
    BY <1>1 DEF Kin
  <2> QED  BY <1>1, <2>1 DEF Parents
<1>3. /\ C2[par] = C[par] \cup {new} /\ C2[n] = X /\ C2[new] = Y
      /\ \A m \in Parents : m \notin {par, n, new} => C2[m] = C[m]
      /\ C2 \in [Parents -> SUBSET A2]
  BY <1>1, <1>2
<1>4. /\ L2[new] = L[n] /\ \A m \in A : m # new /\ m \in NodeId /\ L2[m] = L[m] /\ L[m] \in Int
      /\ L2 \in [NodeId -> Int]
  BY <1>1
<1>5. C[new] = {}
  BY <1>1 DEF Kin
<1> HIDE DEF A2, L2, C2
<1>6. ASSUME NEW c \in A2
      PROVE  \E m \in Parents : c \in C2[m]
  <2>1. CASE c = new
    BY <2>1, <1>3
  <2>2. CASE c \in A
    <3>1. PICK m \in Parents : c \in C[m]
      BY <2>2 DEF Kin
    <3> QED  BY <3>1, <1>1, <1>3, <1>5
  <2> QED  BY <2>1, <2>2 DEF A2
<1>7. ASSUME NEW m \in Parents, NEW c \in C2[m]
      PROVE  \/ c = new /\ m = par
             \/ /\ c \in A
                /\ m \notin {n, new} => c \in C[m]
                /\ m \in {n, new} => c \in C[n]
  BY <1>1, <1>3, <1>7
<1>8. ASSUME NEW m \in Parents, NEW o \in Parents, NEW c \in A2, c \in C2[m], c \in C2[o]
      PROVE  m = o
  <2>1. CASE c = new
    BY <2>1, <1>1, <1>7, <1>8
  <2>2. CASE c # new
    <3>1. c \in A
      BY <2>2 DEF A2
    <3>2. \A x, y \in Parents : c \in C[x] /\ c \in C[y] => x = y
      BY <3>1 DEF Kin
    <3>3. /\ m \in {n, new} => c \in C[n]
          /\ o \in {n, new} => c \in C[n]
          /\ m \notin {n, new} => c \in C[m]
          /\ o \notin {n, new} => c \in C[o]
      BY <2>2, <1>7, <1>8
    <3> QED  BY <3>2, <3>3, <1>1, <1>3, <1>8
  <2> QED  BY <2>1, <2>2
<1>9. ASSUME NEW m \in NodeId, NEW c \in C2[m]
      PROVE  m \in A2 /\ L2[m] = L2[c] + 1
  <2>1. \A x \in NodeId : \A d \in C[x] : x \in A /\ L[x] = L[d] + 1
    BY DEF Kin
  <2>2. m \in Parents
    BY DEF Parents
  <2> QED  BY <2>1, <2>2, <1>1, <1>2, <1>4, <1>7, <1>9 DEF A2
<1>10. \A m \in A2 : L2[m] >= 0
  <2>1. \A m \in A : L[m] >= 0
    BY DEF Kin
  <2> QED  BY <2>1, <1>1, <1>4 DEF A2
<1>11. ASSUME NEW c \in C2[NULL], NEW m \in A2
       PROVE  L2[m] <= L2[c]
  <2>1. \A d \in C[NULL] : \A x \in A : L[x] <= L[d]
    BY DEF Kin
  <2>2. \E d \in C[NULL] : L2[c] = L[d]
    BY <1>1, <1>2, <1>4, <1>7, <1>11
  <2>3. \E x \in A : L2[m] = L[x]
    BY <1>1, <1>4 DEF A2
  <2> QED  BY <2>1, <2>2, <2>3
<1>12. A2 \subseteq NodeId /\ C2[NULL] # {}
  <2>1. C[NULL] # {}
    BY <1>1 DEF Kin
  <2>2. C2[NULL] # {}
    <3>1. CASE par = NULL
      BY <3>1, <1>3
    <3>2. CASE par # NULL
      BY <2>1, <3>2, <1>1, <1>3
    <3> QED  BY <3>1, <3>2
  <2> QED  BY <1>1, <2>2 DEF A2
<1>13. Kin(A2, L2, C2)
  BY <1>3, <1>4, <1>6, <1>8, <1>9, <1>10, <1>11, <1>12, Zenon DEF Kin
<1> QED  BY <1>13 DEF A2, L2, C2

(* r, to the right of l, gives its children to l and leaves the family.    *)
LEMMA MergeKin ==
  ASSUME NEW A, NEW L, NEW C, Kin(A, L, C), NEW par \in Parents,
         NEW l \in C[par], NEW r \in C[par], l # r
  PROVE  Kin(A \ {r}, L, [C EXCEPT ![par] = C[par] \ {r}, ![l] = C[l] \cup C[r], ![r] = {}])
<1> DEFINE A2 == A \ {r}
           C2 == [C EXCEPT ![par] = C[par] \ {r}, ![l] = C[l] \cup C[r], ![r] = {}]
<1>1. /\ A \subseteq NodeId /\ L \in [NodeId -> Int] /\ C \in [Parents -> SUBSET A]
      /\ l \in A /\ l \in NodeId /\ l \in Parents /\ r \in A /\ r \in NodeId /\ r \in Parents
      /\ l # NULL /\ r # NULL /\ NULL \in Parents
  BY NullApart DEF Kin, Parents
<1>2. l # par /\ r # par
  <2>1. par \in NodeId => L[par] = L[l] + 1 /\ L[l] \in Int /\ L[par] = L[r] + 1 /\ L[r] \in Int
    BY <1>1 DEF Kin
  <2> QED  BY <1>1, <2>1 DEF Parents
<1>3. \A x, y \in Parents : \A c \in A : c \in C[x] /\ c \in C[y] => x = y
  BY DEF Kin
<1>4. r \notin C[l] /\ r \notin C[r]
  BY <1>1, <1>2, <1>3
<1>5. /\ C2[par] = C[par] \ {r} /\ C2[l] = C[l] \cup C[r] /\ C2[r] = {}
      /\ \A m \in Parents : m \notin {par, l, r} => C2[m] = C[m]
      /\ DOMAIN C2 = Parents /\ C2 = [m \in Parents |-> C2[m]]
  BY <1>1, <1>2
<1> HIDE DEF C2
<1>6. \A m \in Parents : C2[m] \in SUBSET A2
  <2>1. \A m \in Parents : m # par => r \notin C[m]
    BY <1>1, <1>3
  <2> QED  BY <2>1, <1>1, <1>4, <1>5
<1>7. C2 \in [Parents -> SUBSET A2]
  BY <1>5, <1>6
<1>8. ASSUME NEW m \in Parents, NEW c \in C2[m]
      PROVE  /\ c \in A2
             /\ m \notin {l, r} => c \in C[m]
             /\ m # r
             /\ m = l => c \in C[l] \/ c \in C[r]
  BY <1>5, <1>6, <1>8
<1>9. ASSUME NEW c \in A2
      PROVE  \E m \in Parents : c \in C2[m]
  <2>1. PICK m \in Parents : c \in C[m]
    BY DEF Kin
  <2> QED  BY <2>1, <1>1, <1>5
<1>10. ASSUME NEW m \in Parents, NEW o \in Parents, NEW c \in A2, c \in C2[m], c \in C2[o]
       PROVE  m = o
  BY <1>1, <1>3, <1>8, <1>10
<1>11. ASSUME NEW m \in NodeId, NEW c \in C2[m]
       PROVE  m \in A2 /\ L[m] = L[c] + 1
  <2>1. \A x \in NodeId : \A d \in C[x] : x \in A /\ L[x] = L[d] + 1
    BY DEF Kin
  <2>2. m \in Parents
    BY DEF Parents
  <2>3. L[l] = L[r]
    <3>1. CASE par = NULL
      <4>1. L[l] <= L[r] /\ L[r] <= L[l] /\ L[l] \in Int /\ L[r] \in Int
        BY <1>1, <3>1 DEF Kin
      <4> QED  BY <4>1
    <3>2. CASE par # NULL
      <4>1. L[par] = L[l] + 1 /\ L[par] = L[r] + 1 /\ L[l] \in Int /\ L[r] \in Int
        BY <2>1, <1>1, <3>2 DEF Parents
      <4> QED  BY <4>1
    <3> QED  BY <3>1, <3>2
  <2> QED  BY <2>1, <2>2, <2>3, <1>1, <1>8, <1>11
<1>12. \A c \in C2[NULL] : \A m \in A2 : L[m] <= L[c]
  BY <1>1, <1>8 DEF Kin
<1>13. C2[NULL] # {}
  <2>1. C[NULL] # {}
    BY <1>1 DEF Kin
  <2> QED  BY <2>1, <1>1, <1>5
<1>14. A2 \subseteq NodeId /\ \A m \in A2 : L[m] >= 0
  BY <1>1 DEF Kin
<1> HIDE DEF A2
<1>15. Kin(A2, L, C2)
  BY <1>1, <1>7, <1>9, <1>10, <1>11, <1>12, <1>13, <1>14, Zenon DEF Kin
<1> QED  BY <1>15 DEF A2, C2

(* A new node comes over those on top, or alone into an empty family.      *)
LEMMA GrowKin ==
  ASSUME NEW A, NEW L, NEW C, Kin(A, L, C), NEW new \in NodeId, new \notin A,
         NEW h \in Nat, C[NULL] = {} => h = 0, \A c \in C[NULL] : h = L[c] + 1
  PROVE  Kin(A \cup {new}, [L EXCEPT ![new] = h], [C EXCEPT ![NULL] = {new}, ![new] = C[NULL]])
<1> DEFINE A2 == A \cup {new}
           L2 == [L EXCEPT ![new] = h]
           C2 == [C EXCEPT ![NULL] = {new}, ![new] = C[NULL]]
<1>1. /\ A \subseteq NodeId /\ L \in [NodeId -> Int] /\ C \in [Parents -> SUBSET A]
      /\ new \in Parents /\ new # NULL /\ NULL \in Parents
  BY NullApart DEF Kin, Parents
<1>2. /\ C2[NULL] = {new} /\ C2[new] = C[NULL]
      /\ \A m \in Parents : m \notin {NULL, new} => C2[m] = C[m]
      /\ C2 \in [Parents -> SUBSET A2]
  BY <1>1
<1>3. /\ L2[new] = h /\ \A m \in A : m # new /\ m \in NodeId /\ L2[m] = L[m] /\ L[m] \in Int
      /\ L2 \in [NodeId -> Int]
  BY <1>1
<1>4. C[new] = {}
  BY <1>1 DEF Kin
<1> HIDE DEF A2, L2, C2
<1>5. ASSUME NEW m \in Parents, NEW c \in C2[m]
      PROVE  \/ c = new /\ m = NULL
             \/ c \in A /\ m = new /\ c \in C[NULL]
             \/ c \in A /\ m \notin {NULL, new} /\ c \in C[m]
  BY <1>1, <1>2, <1>5
<1>6. ASSUME NEW c \in A2
      PROVE  \E m \in Parents : c \in C2[m]
  <2>1. CASE c = new
    BY <2>1, <1>1, <1>2
  <2>2. CASE c \in A
    <3>1. PICK m \in Parents : c \in C[m]
      BY <2>2 DEF Kin
    <3> QED  BY <3>1, <1>1, <1>2, <1>4
  <2> QED  BY <2>1, <2>2 DEF A2
<1>7. ASSUME NEW m \in Parents, NEW o \in Parents, NEW c \in A2, c \in C2[m], c \in C2[o]
      PROVE  m = o
  <2>1. \A x, y \in Parents : c \in A /\ c \in C[x] /\ c \in C[y] => x = y
    BY DEF Kin
  <2> QED  BY <2>1, <1>1, <1>3, <1>5, <1>7
<1>8. ASSUME NEW m \in NodeId, NEW c \in C2[m]
      PROVE  m \in A2 /\ L2[m] = L2[c] + 1
  <2>1. \A x \in NodeId : \A d \in C[x] : x \in A /\ L[x] = L[d] + 1
    BY DEF Kin
  <2>2. m \in Parents /\ m # NULL
    BY NullApart DEF Parents
  <2>3. CASE m = new
    BY <2>2, <2>3, <1>3, <1>5, <1>8 DEF A2
  <2>4. CASE m # new
    BY <2>1, <2>2, <2>4, <1>3, <1>5, <1>8 DEF A2
  <2> QED  BY <2>3, <2>4
<1>9. \A m \in A2 : L2[m] >= 0
  <2>1. \A m \in A : L[m] >= 0
    BY DEF Kin
  <2> QED  BY <2>1, <1>1, <1>3 DEF A2
<1>10. ASSUME NEW m \in A
       PROVE  L[m] <= h
  <2>1. PICK c \in C[NULL] : TRUE
    BY DEF Kin
  <2>2. L[m] <= L[c] /\ c \in A /\ h = L[c] + 1
    BY <2>1, <1>1 DEF Kin
  <2> QED  BY <2>2, <1>3
<1>11. \A c \in C2[NULL] : \A m \in A2 : L2[m] <= L2[c]
  BY <1>2, <1>3, <1>10 DEF A2
<1>12. A2 \subseteq NodeId /\ C2[NULL] # {}
  BY <1>1, <1>2 DEF A2
<1>13. Kin(A2, L2, C2)
  BY <1>2, <1>3, <1>6, <1>7, <1>8, <1>9, <1>11, <1>12, Zenon DEF Kin
<1> QED  BY <1>13 DEF A2, L2, C2

(* The only node on top leaves, and its children are on top.               *)
LEMMA DropKin ==
  ASSUME NEW A, NEW L, NEW C, Kin(A, L, C), NEW n, C[NULL] = {n},
         C[n] = {} => L[n] = 0
  PROVE  Kin(A \ {n}, L, [C EXCEPT ![NULL] = C[n], ![n] = {}])
<1> DEFINE A2 == A \ {n}
           C2 == [C EXCEPT ![NULL] = C[n], ![n] = {}]
<1>1. /\ A \subseteq NodeId /\ L \in [NodeId -> Int] /\ C \in [Parents -> SUBSET A]
      /\ n \in A /\ n \in NodeId /\ n \in Parents /\ n # NULL /\ NULL \in Parents
      /\ n \in C[NULL]
  BY NullApart DEF Kin, Parents
<1>2. \A x, y \in Parents : \A c \in A : c \in C[x] /\ c \in C[y] => x = y
  BY DEF Kin
<1>3. /\ C2[NULL] = C[n] /\ C2[n] = {}
      /\ \A m \in Parents : m \notin {NULL, n} => C2[m] = C[m]
      /\ DOMAIN C2 = Parents /\ C2 = [m \in Parents |-> C2[m]]
  BY <1>1
<1> HIDE DEF C2
<1>4. \A m \in Parents : m # NULL => n \notin C[m]
  BY <1>1, <1>2
<1>5. C2 \in [Parents -> SUBSET A2]
  <2>1. \A m \in Parents : C2[m] \in SUBSET A2
    BY <1>1, <1>3, <1>4
  <2> QED  BY <2>1, <1>3
<1>6. ASSUME NEW m \in Parents, NEW c \in C2[m]
      PROVE  \/ m = NULL /\ c \in C[n]
             \/ m \notin {NULL, n} /\ c \in C[m]
  BY <1>1, <1>3, <1>6
<1>7. ASSUME NEW c \in A2
      PROVE  \E m \in Parents : c \in C2[m]
  <2>1. PICK m \in Parents : c \in C[m]
    BY DEF Kin
  <2>2. m # NULL
    BY <2>1
  <2> QED  BY <2>1, <2>2, <1>1, <1>3
<1>8. ASSUME NEW m \in Parents, NEW o \in Parents, NEW c \in A2, c \in C2[m], c \in C2[o]
      PROVE  m = o
  BY <1>1, <1>2, <1>6, <1>8
<1>9. ASSUME NEW m \in NodeId, NEW c \in C2[m]
      PROVE  m \in A2 /\ L[m] = L[c] + 1
  <2>1. \A x \in NodeId : \A d \in C[x] : x \in A /\ L[x] = L[d] + 1
    BY DEF Kin
  <2>2. m \in Parents /\ m # NULL
    BY NullApart DEF Parents
  <2> QED  BY <2>1, <2>2, <1>6, <1>9
<1>10. ASSUME NEW m \in A2
       PROVE  L[m] \in Int /\ L[n] \in Int /\ L[m] <= L[n] - 1
  <2>1. PICK x \in Parents : m \in C[x]
    BY DEF Kin
  <2>2. x # NULL
    BY <2>1
  <2>3. x \in NodeId /\ x \in A /\ L[x] = L[m] + 1 /\ L[x] <= L[n]
    BY <2>1, <2>2, <1>1 DEF Kin, Parents
  <2> QED  BY <2>3, <1>1
<1>11. ASSUME NEW c \in C2[NULL], NEW m \in A2
       PROVE  L[m] <= L[c]
  <2>1. L[n] = L[c] + 1 /\ c \in A
    BY <1>1, <1>3 DEF Kin
  <2> QED  BY <2>1, <1>1, <1>10
<1>12. C2[NULL] = {} => A2 = {}
  <2> SUFFICES ASSUME C[n] = {}, NEW m \in A2 PROVE FALSE
    BY <1>3
  <2>1. L[m] < L[n] /\ L[n] = 0 /\ L[m] \in Int
    BY <1>10
  <2>2. L[m] >= 0
    BY DEF Kin
  <2> QED  BY <2>1, <2>2
<1>13. A2 \subseteq NodeId /\ \A m \in A2 : L[m] >= 0
  BY <1>1 DEF Kin
<1> HIDE DEF A2
<1>14. Kin(A2, L, C2)
  BY <1>1, <1>5, <1>7, <1>8, <1>9, <1>11, <1>12, <1>13, Zenon DEF Kin
<1> QED  BY <1>14 DEF A2, C2

(* The place after a child is a place for another.                         *)
LEMMA NextPlace ==
  ASSUME NEW S, NEW s \in Seq(S), NEW i \in 1..Len(s)
  PROVE  i + 1 \in 1..(Len(s) + 1)
OBVIOUS

(* What an element that was not there adds to a sequence without repetition. *)
LEMMA InsertedNew ==
  ASSUME NEW A, NEW W \in Seq(A), IsInjective(W), NEW new, new \notin A,
         NEW k \in 1..(Len(W) + 1)
  PROVE  /\ InsertAt(W, k, new) \in Seq(A \cup {new}) /\ IsInjective(InsertAt(W, k, new))
         /\ ToSet(InsertAt(W, k, new)) = ToSet(W) \cup {new} /\ InsertAt(W, k, new) # <<>>
<1> DEFINE B == A \cup {new}
<1>1. W \in Seq(B) /\ new \in B /\ new \notin ToSet(W) /\ Len(W) \in Nat
  BY DEF ToSet
<1> HIDE DEF B
<1>2. InsertAt(W, k, new) \in Seq(B) /\ Len(InsertAt(W, k, new)) = Len(W) + 1
  BY <1>1, InsertedLen
<1>3. /\ IsInjective(InsertAt(W, k, new))
      /\ ToSet(InsertAt(W, k, new)) = ToSet(W) \cup {new}
  BY <1>1, InsertedApart
<1>4. InsertAt(W, k, new) # <<>>
  BY <1>1, <1>2
<1> QED  BY <1>2, <1>3, <1>4 DEF B

(* n, child i of par, passes its last children q to a new sibling on its   *)
(* right.                                                                  *)
LEMMA SplitFamily ==
  ASSUME NEW A, NEW L, NEW V, Family(A, L, V),
         NEW par \in Parents, NEW i \in 1..Len(V[par]), NEW new \in NodeId, new \notin A,
         NEW p \in Seq(A), NEW q \in Seq(A), NEW n, n = V[par][i],
         V[n] = p \o q, p = <<>> <=> q = <<>>
  PROVE  Family(A \cup {new}, [L EXCEPT ![new] = L[n]],
                [V EXCEPT ![par] = InsertAt(V[par], i + 1, new), ![n] = p, ![new] = q])
<1> DEFINE A2 == A \cup {new}
           L2 == [L EXCEPT ![new] = L[n]]
           V2 == [V EXCEPT ![par] = InsertAt(V[par], i + 1, new), ![n] = p, ![new] = q]
           s  == InsertAt(V[par], i + 1, new)
           C  == Sets(V)
           C2 == [C EXCEPT ![par] = C[par] \cup {new}, ![n] = ToSet(p), ![new] = ToSet(q)]
<1>1. /\ n \in A /\ n \in NodeId /\ n # par /\ n \in C[par] /\ n # NULL
  BY ChildApart
<1>2. /\ A \subseteq NodeId /\ L \in [NodeId -> Int] /\ V \in [Parents -> Seq(A)]
      /\ V[par] \in Seq(A) /\ IsInjective(V[par])
      /\ n \in Parents /\ new \in Parents /\ new # n
  BY <1>1 DEF Family, Kin, Parents
<1>3. new # par /\ new # NULL
  BY <1>1, NoKids, NullApart
<1>4. /\ V2[par] = s /\ V2[n] = p /\ V2[new] = q
      /\ \A m \in Parents : m \notin {par, n, new} => V2[m] = V[m]
      /\ DOMAIN V2 = Parents /\ V2 = [m \in Parents |-> V2[m]]
  BY <1>1, <1>2, <1>3
<1>5. L2[new] = L[n] /\ \A m \in A : m # new /\ L2[m] = L[m]
  BY <1>1, <1>2
<1>6. /\ s \in Seq(A2) /\ IsInjective(s) /\ ToSet(s) = ToSet(V[par]) \cup {new} /\ s # <<>>
  <2> DEFINE W == V[par]
             k == i + 1
  <2>1. W \in Seq(A) /\ IsInjective(W) /\ k \in 1..(Len(W) + 1) /\ C[par] = ToSet(W)
    <3>1. C[par] = ToSet(W)
      BY DEF Sets
    <3>2. k \in 1..(Len(W) + 1)
      BY <1>2, NextPlace, Zenon
    <3> QED  BY <3>1, <3>2, <1>2
  <2> HIDE DEF W, k, C
  <2>2. \A j \in 1..(Len(W) + 1) :
          /\ InsertAt(W, j, new) \in Seq(A \cup {new}) /\ IsInjective(InsertAt(W, j, new))
          /\ ToSet(InsertAt(W, j, new)) = ToSet(W) \cup {new} /\ InsertAt(W, j, new) # <<>>
    BY <2>1, InsertedNew
  <2> QED  BY <2>1, <2>2, Zenon DEF W, k, s, A2
<1>7. /\ IsInjective(p) /\ IsInjective(q) /\ ToSet(p) \cap ToSet(q) = {}
      /\ ToSet(p) \cup ToSet(q) = C[n]
  <2>1. IsInjective(p \o q)
    <3>1. IsInjective(V[n])
      BY <1>2 DEF Family
    <3> QED  BY <3>1
  <2>2. ToSet(V[n]) = ToSet(p) \cup ToSet(q)
    BY <2>1, Parted
  <2> QED  BY <1>2, <2>1, <2>2, Parted DEF Sets
<1>8. p \in Seq(A2) /\ q \in Seq(A2) /\ \A m \in Parents : V[m] \in Seq(A2)
  <2>1. \A w \in Seq(A) : w \in Seq(A2)
    OBVIOUS
  <2> QED  BY <1>2, <2>1, Zenon
<1> HIDE DEF A2, L2, V2, s
<1>9. V2 \in [Parents -> Seq(A2)]
  <2>1. \A m \in Parents : V2[m] \in Seq(A2)
    BY <1>4, <1>6, <1>8
  <2> QED  BY <1>4, <2>1
<1>10. \A m \in Parents : IsInjective(V2[m])
  BY <1>4, <1>6, <1>7 DEF Family
<1>11. Sets(V2) = C2
  <2>1. C = [m \in Parents |-> ToSet(V[m])] /\ Sets(V2) = [m \in Parents |-> ToSet(V2[m])]
    BY DEF Sets
  <2>2. ASSUME NEW m \in Parents PROVE ToSet(V2[m]) = C2[m]
    <3> HIDE DEF C
    <3> QED  BY <2>1, <1>1, <1>2, <1>3, <1>4, <1>6
  <2>3. C2 = [m \in Parents |-> C2[m]]
    BY <2>1
  <2> HIDE DEF C2, C
  <2> QED  BY <2>1, <2>2, <2>3
<1>12. Kin(A2, L2, C2)
  <2>1. Kin(A, L, C)
    BY DEF Family
  <2> HIDE DEF C
  <2> QED  BY <1>1, <1>7, <2>1, SplitKin DEF A2, L2
<1>13. ASSUME NEW m \in A2
       PROVE  L2[m] = 0 <=> V2[m] = <<>>
  <2>1. \A x \in A : L[x] = 0 <=> V[x] = <<>>
    BY DEF Family
  <2>2. V[n] = <<>> <=> p = <<>> /\ q = <<>>
    BY ConcatEqualIffEmpty
  <2>3. CASE m \in {n, new}
    BY <2>1, <2>2, <2>3, <1>1, <1>4, <1>5
  <2>4. CASE m = par
    <3>1. par \in A /\ V[par] # <<>>
      BY <1>2, <1>3, <2>4 DEF A2
    <3> QED  BY <2>1, <2>4, <3>1, <1>4, <1>5, <1>6
  <2>5. CASE m \notin {n, new, par}
    <3>1. m \in A /\ m \in Parents
      BY <2>5, <1>2 DEF A2, Parents
    <3> QED  BY <2>1, <2>5, <3>1, <1>4, <1>5
  <2> QED  BY <2>3, <2>4, <2>5
<1>14. Family(A2, L2, V2)
  BY <1>9, <1>10, <1>11, <1>12, <1>13 DEF Family
<1> QED  BY <1>14 DEF A2, L2, V2, s

(* A sequence is one of the elements it has.                               *)
LEMMA Within ==
  ASSUME NEW S, NEW B, NEW s \in Seq(S), ToSet(s) \subseteq B
  PROVE  s \in Seq(B)
<1>1. DOMAIN s = 1..Len(s) /\ Len(s) \in Nat
  OBVIOUS
<1>2. \A j \in 1..Len(s) : s[j] \in B
  BY <1>1 DEF ToSet
<1> QED  BY <1>1, <1>2, SeqDef

(* Only the empty sequence has no elements.                                *)
LEMMA EmptySet ==
  ASSUME NEW S, NEW s \in Seq(S)
  PROVE  ToSet(s) = {} <=> s = <<>>
<1>1. DOMAIN s = 1..Len(s) /\ Len(s) \in Nat
  OBVIOUS
<1>2. ASSUME s # <<>> PROVE s[1] \in ToSet(s)
  BY <1>1, <1>2 DEF ToSet
<1>3. ASSUME s = <<>> PROVE ToSet(s) = {}
  BY <1>3 DEF ToSet
<1> QED  BY <1>2, <1>3

(* The empty sequence repeats nothing.                                     *)
LEMMA EmptyApart == /\ \A S : <<>> \in Seq(S)
                    /\ IsInjective(<<>>) /\ ToSet(<<>>) = {}
BY DEF IsInjective, ToSet

(* l and r are the children i and i + 1 of par. *)
Neighbours(V, par, i, l, r) ==
  /\ par \in Parents /\ i \in 1..Len(V[par]) /\ i + 1 <= Len(V[par])
  /\ l = V[par][i] /\ r = V[par][i + 1]

(* Two neighbours and their parent are three nodes.                        *)
LEMMA NeighboursApart ==
  ASSUME NEW A, NEW L, NEW V, Family(A, L, V),
         NEW par, NEW i, NEW l, NEW r, Neighbours(V, par, i, l, r)
  PROVE  /\ V[par] \in Seq(A) /\ i + 1 \in 1..Len(V[par])
         /\ l \in A /\ l \in NodeId /\ l # NULL /\ l # par /\ l \in Sets(V)[par]
         /\ r \in A /\ r \in NodeId /\ r # NULL /\ r # par /\ r \in Sets(V)[par]
         /\ l # r
<1>1. par \in Parents /\ i \in 1..Len(V[par]) /\ l = V[par][i] /\ r = V[par][i + 1]
  BY DEF Neighbours
<1>2. V[par] \in Seq(A)
  BY <1>1 DEF Family
<1>3. i + 1 \in 1..Len(V[par]) /\ i # i + 1
  <2>1. i + 1 <= Len(V[par]) /\ Len(V[par]) \in Nat
    BY <1>2 DEF Neighbours
  <2> QED  BY <1>1, <2>1
<1>4. \A j \in 1..Len(V[par]) :
        /\ V[par][j] \in A /\ V[par][j] \in NodeId /\ V[par][j] # NULL /\ V[par][j] # par
        /\ V[par][j] \in Sets(V)[par]
  BY <1>1, ChildApart
<1>5. V[par][i] # V[par][i + 1]
  BY <1>1, <1>3, ChildApart
<1> QED  BY <1>1, <1>2, <1>3, <1>4, <1>5

(* l takes the children of its right neighbour r, which leaves.            *)
LEMMA MergeFamily ==
  ASSUME NEW A, NEW L, NEW V, Family(A, L, V),
         NEW par, NEW i, NEW l, NEW r, Neighbours(V, par, i, l, r)
  PROVE  Family(A \ {r}, L,
                [V EXCEPT ![par] = RemoveAt(V[par], i + 1), ![l] = V[l] \o V[r], ![r] = <<>>])
<1> DEFINE A2 == A \ {r}
           s  == RemoveAt(V[par], i + 1)
           j  == V[l] \o V[r]
           V2 == [V EXCEPT ![par] = s, ![l] = j, ![r] = <<>>]
           C  == Sets(V)
           C2 == [C EXCEPT ![par] = C[par] \ {r}, ![l] = C[l] \cup C[r], ![r] = {}]
<1>0. par \in Parents /\ i \in 1..Len(V[par]) /\ i + 1 <= Len(V[par]) /\ l = V[par][i] /\ r = V[par][i + 1]
  BY DEF Neighbours
<1>2. /\ i + 1 \in 1..Len(V[par])
      /\ l \in A /\ l \in NodeId /\ l # par /\ l \in C[par] /\ l # NULL
      /\ r \in A /\ r \in NodeId /\ r # par /\ r \in C[par] /\ r # NULL
      /\ l # r
  BY NeighboursApart
<1>3. /\ A \subseteq NodeId /\ L \in [NodeId -> Int] /\ V \in [Parents -> Seq(A)]
      /\ V[par] \in Seq(A) /\ IsInjective(V[par])
      /\ l \in Parents /\ r \in Parents
      /\ V[l] \in Seq(A) /\ V[r] \in Seq(A) /\ IsInjective(V[l]) /\ IsInjective(V[r])
  BY <1>0, <1>2 DEF Family, Kin, Parents
<1>4. \A x, y \in Parents : \A c \in A : c \in C[x] /\ c \in C[y] => x = y
  BY DEF Family, Kin
<1>5. \A m \in Parents : C[m] = ToSet(V[m]) /\ ToSet(V[m]) \subseteq A
  BY <1>3 DEF Sets, ToSet
<1>6. s \in Seq(A) /\ IsInjective(s) /\ ToSet(s) = C[par] \ {r} /\ (s # <<>>)
  <2> DEFINE W == V[par]
             k == i + 1
  <2>1. W \in Seq(A) /\ IsInjective(W) /\ k \in 1..Len(W) /\ C[par] = ToSet(W) /\ W[k] = r
    BY <1>0, <1>2, <1>3, <1>5
  <2> HIDE DEF W, k
  <2>2. \A x \in 1..Len(W) : RemoveAt(W, x) \in Seq(A) /\ IsInjective(RemoveAt(W, x))
                             /\ ToSet(RemoveAt(W, x)) = ToSet(W) \ {W[x]}
    <3> SUFFICES ASSUME NEW x \in 1..Len(W)
                 PROVE  RemoveAt(W, x) \in Seq(A) /\ IsInjective(RemoveAt(W, x))
                        /\ ToSet(RemoveAt(W, x)) = ToSet(W) \ {W[x]}
      OBVIOUS
    <3>1. RemoveAt(W, x) \in Seq(A)
      BY <2>1, Removed
    <3>2. IsInjective(RemoveAt(W, x)) /\ ToSet(RemoveAt(W, x)) = ToSet(W) \ {W[x]}
      BY <2>1, RemovedApart
    <3> QED  BY <3>1, <3>2
  <2>3. RemoveAt(W, k) # <<>>
    <3>1. ToSet(RemoveAt(W, k)) # {}
      BY <2>1, <2>2, <1>2, Zenon
    <3> QED  BY <3>1, EmptyApart
  <2> QED  BY <2>1, <2>2, <2>3 DEF W, k
<1>7. j \in Seq(A) /\ IsInjective(j) /\ ToSet(j) = C[l] \cup C[r]
  <2>1. ToSet(V[l]) \cap ToSet(V[r]) = {}
    <3>1. ASSUME NEW c \in ToSet(V[l]), c \in ToSet(V[r]) PROVE FALSE
      <4> HIDE DEF C
      <4>1. c \in A /\ c \in C[l] /\ c \in C[r]
        BY <3>1, <1>3, <1>5
      <4> QED  BY <4>1, <1>2, <1>3, <1>4
    <3> QED  BY <3>1
  <2> QED  BY <2>1, <1>3, <1>5, Joined
<1> HIDE DEF s, j
<1>8. /\ V2[par] = s /\ V2[l] = j /\ V2[r] = <<>>
      /\ \A m \in Parents : m \notin {par, l, r} => V2[m] = V[m]
      /\ DOMAIN V2 = Parents /\ V2 = [m \in Parents |-> V2[m]]
  BY <1>0, <1>2, <1>3
<1> HIDE DEF V2
<1>9. \A m \in Parents : V2[m] \in Seq(A) /\ IsInjective(V2[m])
  BY <1>3, <1>6, <1>7, <1>8, EmptyApart DEF Family
<1>10. Sets(V2) = C2
  <2>1. C = [m \in Parents |-> C[m]] /\ Sets(V2) = [m \in Parents |-> ToSet(V2[m])]
    BY DEF Sets
  <2> HIDE DEF C
  <2>2. ASSUME NEW m \in Parents PROVE ToSet(V2[m]) = C2[m]
    BY <2>1, <1>2, <1>3, <1>5, <1>6, <1>7, <1>8, EmptyApart
  <2>3. C2 = [m \in Parents |-> C2[m]]
    BY <2>1
  <2> HIDE DEF C2
  <2> QED  BY <2>1, <2>2, <2>3
<1>11. Kin(A2, L, C2)
  <2>1. Kin(A, L, C)
    BY DEF Family
  <2> HIDE DEF C
  <2> QED  BY <1>0, <2>1, <1>2, MergeKin
<1>12. V2 \in [Parents -> Seq(A2)]
  <2> HIDE DEF A2, C2
  <2>0. C2 \in [Parents -> SUBSET A2] /\ \A m \in Parents : Sets(V2)[m] = ToSet(V2[m])
    BY <1>11 DEF Kin, Sets
  <2>1. \A m \in Parents : ToSet(V2[m]) \subseteq A2
    BY <2>0, <1>10
  <2>2. \A m \in Parents : V2[m] \in Seq(A2)
    BY <2>1, <1>9, Within
  <2> QED  BY <2>2, <1>8
<1>13. ASSUME NEW m \in A2
       PROVE  L[m] = 0 <=> V2[m] = <<>>
  <2>1. \A x \in A : L[x] = 0 <=> V[x] = <<>>
    BY DEF Family
  <2>2. L[l] = L[r]
    <3>1. Kin(A, L, C)
      BY DEF Family
    <3>2. CASE par = NULL
      <4>1. L[l] <= L[r] /\ L[r] <= L[l] /\ L[l] \in Int /\ L[r] \in Int
        BY <1>2, <1>3, <3>1, <3>2 DEF Kin
      <4> QED  BY <4>1
    <3>3. CASE par # NULL
      <4>1. L[par] = L[l] + 1 /\ L[par] = L[r] + 1 /\ L[l] \in Int /\ L[r] \in Int
        BY <1>0, <1>2, <1>3, <3>1, <3>3 DEF Parents, Kin
      <4> QED  BY <4>1
    <3> QED  BY <3>2, <3>3
  <2>3. CASE m = l
    <3>1. j = <<>> <=> V[l] = <<>> /\ V[r] = <<>>
      BY <1>3, ConcatEqualIffEmpty DEF j
    <3> QED  BY <2>1, <2>2, <2>3, <3>1, <1>2, <1>8
  <2>4. CASE m = par
    <3>1. V[par] # <<>>
      <4>1. C[par] # {}
        BY <1>2
      <4> QED  BY <1>0, <4>1, <1>5, EmptyApart
    <3> QED  BY <2>1, <2>4, <3>1, <1>6, <1>8
  <2>5. CASE m \notin {l, par}
    <3>1. m \in Parents /\ m # r
      BY <1>3 DEF Parents
    <3> QED  BY <2>1, <2>5, <3>1, <1>8
  <2> QED  BY <2>3, <2>4, <2>5
<1> HIDE DEF A2
<1>14. Family(A2, L, V2)
  BY <1>9, <1>10, <1>11, <1>12, <1>13 DEF Family
<1> QED  BY <1>14 DEF A2, V2, s, j

(* A new root gets the tops of the forest for children.                    *)
LEMMA GrowFamily ==
  ASSUME NEW A, NEW L, NEW V, Family(A, L, V), NEW new \in NodeId, new \notin A,
         NEW h \in Nat, h = 0 <=> V[NULL] = <<>>, \A c \in Sets(V)[NULL] : h = L[c] + 1
  PROVE  Family(A \cup {new}, [L EXCEPT ![new] = h],
                [V EXCEPT ![NULL] = <<new>>, ![new] = V[NULL]])
<1> DEFINE A2 == A \cup {new}
           L2 == [L EXCEPT ![new] = h]
           V2 == [V EXCEPT ![NULL] = <<new>>, ![new] = V[NULL]]
           C  == Sets(V)
           C2 == [C EXCEPT ![NULL] = {new}, ![new] = C[NULL]]
<1>1. /\ A \subseteq NodeId /\ L \in [NodeId -> Int] /\ V \in [Parents -> Seq(A)]
      /\ new \in Parents /\ new # NULL /\ NULL \in Parents /\ V[NULL] \in Seq(A)
      /\ \A m \in Parents : IsInjective(V[m])
  BY NullApart DEF Family, Kin, Parents
<1>2. /\ V2[NULL] = <<new>> /\ V2[new] = V[NULL]
      /\ \A m \in Parents : m \notin {NULL, new} => V2[m] = V[m]
      /\ DOMAIN V2 = Parents /\ V2 = [m \in Parents |-> V2[m]]
  BY <1>1
<1>3. L2[new] = h /\ \A m \in A : m # new /\ L2[m] = L[m]
  BY <1>1
<1> HIDE DEF V2, L2
<1>4. /\ \A m \in Parents : V[m] \in Seq(A2)
      /\ new \in A2 /\ <<new>> \in Seq(A2) /\ IsInjective(<<new>>) /\ ToSet(<<new>>) = {new}
  <2>1. new \in A2 /\ \A m \in Parents : V[m] \in Seq(A2)
    BY <1>1
  <2> HIDE DEF A2
  <2> QED  BY <2>1, One
<1> HIDE DEF A2
<1>5. \A m \in Parents : V2[m] \in Seq(A2) /\ IsInjective(V2[m])
  BY <1>1, <1>2, <1>4
<1>6. V2 \in [Parents -> Seq(A2)]
  BY <1>2, <1>5
<1>7. Sets(V2) = C2
  <2>1. /\ C = [m \in Parents |-> C[m]] /\ Sets(V2) = [m \in Parents |-> ToSet(V2[m])]
        /\ \A m \in Parents : C[m] = ToSet(V[m])
    BY DEF Sets
  <2> HIDE DEF C
  <2>2. ASSUME NEW m \in Parents PROVE ToSet(V2[m]) = C2[m]
    BY <2>1, <1>1, <1>2, <1>4
  <2>3. C2 = [m \in Parents |-> C2[m]]
    BY <2>1
  <2> HIDE DEF C2
  <2> QED  BY <2>1, <2>2, <2>3
<1>8. Kin(A2, L2, C2)
  <2>1. Kin(A, L, C) /\ (C[NULL] = {} => h = 0)
    BY <1>1, EmptySet DEF Family, Sets
  <2>2. \A c \in C[NULL] : h = L[c] + 1
    OBVIOUS
  <2> HIDE DEF C
  <2> QED  BY <2>1, <2>2, GrowKin DEF A2, L2
<1>9. ASSUME NEW m \in A2
      PROVE  L2[m] = 0 <=> V2[m] = <<>>
  <2>1. \A x \in A : L[x] = 0 <=> V[x] = <<>>
    BY DEF Family
  <2>2. CASE m = new
    BY <2>2, <1>2, <1>3
  <2>3. CASE m # new
    <3>1. m \in A /\ m \in Parents /\ m # NULL
      BY <2>3, <1>1, NullApart DEF A2, Parents
    <3> QED  BY <2>1, <2>3, <3>1, <1>2, <1>3
  <2> QED  BY <2>2, <2>3
<1>10. Family(A2, L2, V2)
  BY <1>5, <1>6, <1>7, <1>8, <1>9 DEF Family
<1> QED  BY <1>10 DEF A2, L2, V2

(* The root leaves, and its children become the tops.                      *)
LEMMA DropFamily ==
  ASSUME NEW A, NEW L, NEW V, Family(A, L, V), NEW n, V[NULL] = <<n>>
  PROVE  Family(A \ {n}, L, [V EXCEPT ![NULL] = V[n], ![n] = <<>>])
<1> DEFINE A2 == A \ {n}
           V2 == [V EXCEPT ![NULL] = V[n], ![n] = <<>>]
           C  == Sets(V)
           C2 == [C EXCEPT ![NULL] = C[n], ![n] = {}]
<1>1. NULL \in Parents /\ Len(V[NULL]) = 1 /\ V[NULL][1] = n
  BY DEF Parents
<1>2. n \in A /\ n \in NodeId /\ n # NULL /\ n \in Parents
  <2>1. 1 \in 1..Len(V[NULL])
    BY <1>1
  <2>2. V[NULL][1] \in A /\ V[NULL][1] \in NodeId /\ V[NULL][1] # NULL
    BY <1>1, <2>1, ChildApart
  <2> QED  BY <1>1, <2>2 DEF Parents
<1>3. /\ A \subseteq NodeId /\ L \in [NodeId -> Int] /\ V \in [Parents -> Seq(A)]
      /\ V[n] \in Seq(A) /\ \A m \in Parents : IsInjective(V[m])
  BY <1>2 DEF Family, Kin
<1>4. /\ V2[NULL] = V[n] /\ V2[n] = <<>>
      /\ \A m \in Parents : m \notin {NULL, n} => V2[m] = V[m]
      /\ DOMAIN V2 = Parents /\ V2 = [m \in Parents |-> V2[m]]
  BY <1>1, <1>2, <1>3
<1> HIDE DEF V2
<1>5. \A m \in Parents : V2[m] \in Seq(A) /\ IsInjective(V2[m])
  BY <1>2, <1>3, <1>4, EmptyApart
<1>6. Sets(V2) = C2
  <2>1. /\ C = [m \in Parents |-> C[m]] /\ Sets(V2) = [m \in Parents |-> ToSet(V2[m])]
        /\ \A m \in Parents : C[m] = ToSet(V[m])
    BY DEF Sets
  <2> HIDE DEF C
  <2>2. ASSUME NEW m \in Parents PROVE ToSet(V2[m]) = C2[m]
    BY <2>1, <1>1, <1>2, <1>4, EmptyApart
  <2>3. C2 = [m \in Parents |-> C2[m]]
    BY <2>1
  <2> HIDE DEF C2
  <2> QED  BY <2>1, <2>2, <2>3
<1>7. Kin(A2, L, C2)
  <2>1. Kin(A, L, C)
    BY DEF Family
  <2>2. C[NULL] = {n}
    BY <1>1, <1>2, One DEF Sets
  <2>3. C[n] = {} => L[n] = 0
    <3>1. C[n] = ToSet(V[n])
      BY <1>2 DEF Sets
    <3> QED  BY <3>1, <1>2, <1>3, EmptySet DEF Family
  <2> HIDE DEF C
  <2> QED  BY <2>1, <2>2, <2>3, DropKin
<1>8. V2 \in [Parents -> Seq(A2)]
  <2> HIDE DEF A2, C2
  <2>0. C2 \in [Parents -> SUBSET A2] /\ \A m \in Parents : Sets(V2)[m] = ToSet(V2[m])
    BY <1>7 DEF Kin, Sets
  <2>1. \A m \in Parents : ToSet(V2[m]) \subseteq A2
    BY <2>0, <1>6
  <2>2. \A m \in Parents : V2[m] \in Seq(A2)
    BY <2>1, <1>5, Within
  <2> QED  BY <2>2, <1>4
<1>9. ASSUME NEW m \in A2
      PROVE  L[m] = 0 <=> V2[m] = <<>>
  <2>1. m \in A /\ m \in Parents /\ m \notin {NULL, n}
    BY <1>3, NullApart DEF Parents
  <2> QED  BY <2>1, <1>4 DEF Family
<1> HIDE DEF A2
<1>10. Family(A2, L, V2)
  BY <1>5, <1>6, <1>7, <1>8, <1>9 DEF Family
<1> QED  BY <1>10 DEF A2, V2

(* Where n stands, and how a neighbour's children relate.                  *)
LEMMA ChainFacts ==
  ASSUME NEW A, NEW L, NEW V, NEW R, Forest(A, L, V, R)
  PROVE  /\ \A n \in A : R[n] \in Parents /\ n \in Parents /\ n # NULL
         /\ \A n \in A : R[n] # NULL => R[n] \in A /\ L[R[n]] = L[n] /\ R[n] \in NodeId
         /\ \A n, m \in A : R[n] = R[m] /\ R[n] # NULL => n = m
         /\ \A n \in A : V[n] # <<>> /\ R[n] # NULL => V[R[n]] # <<>>
         /\ \A n \in Parents : \A i \in 1..(Len(V[n]) - 1) : R[V[n][i]] = V[n][i + 1]
         /\ \A n \in A : V[n] # <<>> /\ R[n] = NULL => R[Last(V[n])] = NULL
         /\ \A n \in A : V[n] # <<>> /\ R[n] # NULL => R[Last(V[n])] = V[R[n]][1]
         /\ V[NULL] # <<>> => R[Last(V[NULL])] = NULL
<1>1. /\ A \subseteq NodeId /\ R \in [NodeId -> Parents]
      /\ \A n \in A : R[n] # NULL => R[n] \in A /\ L[R[n]] = L[n]
      /\ \A n \in A : L[n] = 0 <=> V[n] = <<>>
  BY DEF Forest, Family, Kin, Chain
<1>2. \A n \in A : n \in Parents /\ n # NULL /\ R[n] \in Parents
  BY <1>1, NullApart DEF Parents
<1>3. \A n, m \in A : R[n] = R[m] /\ R[n] # NULL => n = m
  BY DEF Forest, Chain
<1>4. \A n \in Parents : \A i \in 1..(Len(V[n]) - 1) : R[V[n][i]] = V[n][i + 1]
  BY DEF Forest, Chain, Linked
<1>5. /\ \A n \in A : V[n] # <<>> /\ R[n] = NULL => R[Last(V[n])] = NULL
      /\ \A n \in A : V[n] # <<>> /\ R[n] # NULL => R[Last(V[n])] = V[R[n]][1]
      /\ V[NULL] # <<>> => R[Last(V[NULL])] = NULL
  BY DEF Forest, Chain
<1> QED  BY <1>1, <1>2, <1>3, <1>4, <1>5

(* SplitFamily, with the new node linked in behind n.                      *)
LEMMA SplitForest ==
  ASSUME NEW A, NEW L, NEW V, NEW R, Forest(A, L, V, R),
         NEW par \in Parents, NEW i \in 1..Len(V[par]), NEW new \in NodeId, new \notin A,
         NEW p \in Seq(A), NEW q \in Seq(A), NEW n, n = V[par][i],
         V[n] = p \o q, p = <<>> <=> q = <<>>
  PROVE  Forest(A \cup {new}, [L EXCEPT ![new] = L[n]],
                [V EXCEPT ![par] = InsertAt(V[par], i + 1, new), ![n] = p, ![new] = q],
                [R EXCEPT ![n] = new, ![new] = R[n]])
<1> DEFINE A2 == A \cup {new}
           L2 == [L EXCEPT ![new] = L[n]]
           W  == V[par]
           s  == InsertAt(W, i + 1, new)
           V2 == [V EXCEPT ![par] = s, ![n] = p, ![new] = q]
           R2 == [R EXCEPT ![n] = new, ![new] = R[n]]
<1>1. Family(A, L, V)
  BY DEF Forest
<1>2. Family(A2, L2, V2)
  BY <1>1, SplitFamily
<1>3. /\ n \in A /\ n \in NodeId /\ n # par /\ n # NULL
      /\ \A m \in Parents : \A k \in 1..Len(V[m]) :
           /\ V[m][k] \in A /\ V[m][k] \in NodeId /\ V[m][k] # new
           /\ V[m][k] = n => m = par /\ k = i
  <2>1. \A m \in Parents : \A k \in 1..Len(V[m]) : V[m][k] \in A /\ V[m][k] \in NodeId
    BY <1>1, ChildApart
  <2>2. ASSUME NEW m \in Parents, NEW k \in 1..Len(V[m]), V[m][k] = n
        PROVE  m = par /\ k = i
    <3>1. V[m][k] \in Sets(V)[m] /\ m = par
      BY <1>1, <2>2, ChildApart
    <3> QED  BY <1>1, <2>2, <3>1, ChildApart
  <2>3. n \in A /\ n \in NodeId /\ n # par /\ n # NULL
    BY <1>1, ChildApart
  <2> QED  BY <2>1, <2>2, <2>3
<1>4. /\ A \subseteq NodeId /\ L \in [NodeId -> Int] /\ V \in [Parents -> Seq(A)]
      /\ n \in Parents /\ new \in Parents /\ new # n /\ new # NULL
      /\ R \in [NodeId -> Parents]
  BY <1>1, <1>3, NullApart DEF Family, Kin, Parents, Forest, Chain
<1>5. new # par /\ V[new] = <<>>
  <2>1. V[new] = <<>>
    BY <1>1, NoKids
  <2>2. W \in Seq(A)
    BY <1>4
  <2> QED  BY <2>1, <2>2
<1>6. /\ V2[par] = s /\ V2[n] = p /\ V2[new] = q
      /\ \A m \in Parents : m \notin {par, n, new} => V2[m] = V[m]
  BY <1>3, <1>4, <1>5
<1>7. /\ R2[n] = new /\ R2[new] = R[n]
      /\ \A m \in NodeId : m \notin {n, new} => R2[m] = R[m]
      /\ R2 \in [NodeId -> Parents]
  BY <1>3, <1>4
<1>8. L2[new] = L[n] /\ \A m \in A : m # new /\ m \in NodeId /\ L2[m] = L[m] /\ L[m] \in Int
  BY <1>3, <1>4
<1>9. /\ W \in Seq(A) /\ Len(s) = Len(W) + 1 /\ Len(W) \in Nat
      /\ \A j \in 1..(Len(W) + 1) :
           s[j] = IF j < i + 1 THEN W[j] ELSE IF j = i + 1 THEN new ELSE W[j - 1]
  <2>1. W \in Seq(A) /\ W \in Seq(A2) /\ new \in A2
    BY <1>4
  <2> HIDE DEF W, A2
  <2>2. i + 1 \in 1..(Len(W) + 1)
    BY <2>1 DEF W
  <2>3. Len(s) = Len(W) + 1
    <3>1. \A k \in 1..(Len(W) + 1) : Len(InsertAt(W, k, new)) = Len(W) + 1
      BY <2>1, InsertedLen
    <3> QED  BY <2>2, <3>1
  <2>4. \A j \in 1..(Len(W) + 1) :
           s[j] = IF j < i + 1 THEN W[j] ELSE IF j = i + 1 THEN new ELSE W[j - 1]
    BY <2>1, <2>2, InsertedPlaces
  <2> QED  BY <2>1, <2>3, <2>4
<1> HIDE DEF A2, L2, V2, R2, s, W
<1>10. /\ \A m \in A : R[m] \in Parents /\ m # NULL /\ (R[m] # NULL => R[m] \in A /\ L[R[m]] = L[m])
       /\ \A m, o \in A : R[m] = R[o] /\ R[m] # NULL => m = o
  BY ChainFacts
<1>11. ASSUME NEW m \in A2, R2[m] # NULL
       PROVE  R2[m] \in A2 /\ L2[R2[m]] = L2[m]
  <2>1. CASE m = n
    BY <2>1, <1>3, <1>7, <1>8 DEF A2
  <2>2. CASE m = new
    BY <2>2, <1>3, <1>7, <1>8, <1>10, <1>11 DEF A2
  <2>3. CASE m \notin {n, new}
    <3>1. m \in A /\ m \in NodeId /\ R2[m] = R[m] /\ R[m] # NULL
      BY <2>3, <1>4, <1>7, <1>11 DEF A2
    <3>2. R[m] \in A /\ L[R[m]] = L[m]
      BY <3>1, <1>10
    <3> QED  BY <3>1, <3>2, <1>8 DEF A2
  <2> QED  BY <2>1, <2>2, <2>3
<1>12. ASSUME NEW m \in A2, NEW o \in A2, R2[m] = R2[o], R2[m] # NULL
       PROVE  m = o
  <2>1. \A x \in A : R[x] # new
    BY <1>4, <1>10
  <2>2. /\ m = new => R2[m] = R[n]
        /\ o = new => R2[o] = R[n]
        /\ m = n => R2[m] = new
        /\ o = n => R2[o] = new
        /\ m \notin {n, new} => m \in A /\ R2[m] = R[m]
        /\ o \notin {n, new} => o \in A /\ R2[o] = R[o]
    BY <1>4, <1>7 DEF A2
  <2> QED  BY <2>1, <2>2, <1>3, <1>10, <1>12
<1>13. Linked(V[n], R) /\ Linked(p, R) /\ Linked(q, R)
       /\ (p # <<>> => R[Last(p)] = q[1] /\ Last(V[n]) = Last(q) /\ p[1] = V[n][1])
  <2>1. Linked(V[n], R)
    BY <1>4 DEF Forest, Chain
  <2>2. Linked(p \o q, R) => Linked(p, R) /\ Linked(q, R)
    BY LinkedJoin
  <2>3. Linked(p \o q, R) /\ p # <<>> /\ q # <<>> => R[Last(p)] = q[1]
    BY LinkedJoin
  <2>4. p # <<>> => (p \o q)[1] = p[1]
    BY ConcatFirstLast
  <2>5. q # <<>> => Last(p \o q) = Last(q)
    BY ConcatFirstLast
  <2> QED  BY <2>1, <2>2, <2>3, <2>4, <2>5
<1>14. /\ \A k \in 1..Len(p) : p[k] \in NodeId /\ p[k] \notin {n, new}
       /\ \A k \in 1..Len(q) : q[k] \in NodeId /\ q[k] \notin {n, new}
  <2>1. IsInjective(p \o q)
    BY <1>4 DEF Forest, Family
  <2>2. ToSet(V[n]) = ToSet(p) \cup ToSet(q)
    BY <2>1, Parted
  <2>3. \A x \in ToSet(V[n]) : x \in NodeId /\ x \notin {n, new}
    <3>1. DOMAIN V[n] = 1..Len(V[n])
      BY <1>4
    <3>2. \A k \in 1..Len(V[n]) : V[n][k] \in NodeId /\ V[n][k] \notin {n, new}
      BY <1>3, <1>4
    <3> QED  BY <3>1, <3>2 DEF ToSet
  <2>4. (\A k \in 1..Len(p) : p[k] \in ToSet(p)) /\ (\A k \in 1..Len(q) : q[k] \in ToSet(q))
    BY DEF ToSet
  <2> QED  BY <2>2, <2>3, <2>4
<1>15. Linked(p, R2) /\ Linked(q, R2)
  <2>1. ASSUME NEW k \in 1..(Len(p) - 1) PROVE R2[p[k]] = p[k + 1]
    <3>1. R[p[k]] = p[k + 1]
      BY <1>13 DEF Linked
    <3>2. k \in 1..Len(p)
      OBVIOUS
    <3> QED  BY <3>1, <3>2, <1>7, <1>14
  <2>2. ASSUME NEW k \in 1..(Len(q) - 1) PROVE R2[q[k]] = q[k + 1]
    <3>1. R[q[k]] = q[k + 1]
      BY <1>13 DEF Linked
    <3>2. k \in 1..Len(q)
      OBVIOUS
    <3> QED  BY <3>1, <3>2, <1>7, <1>14
  <2> QED  BY <2>1, <2>2 DEF Linked
<1>16. /\ \A k \in 1..Len(W) : W[k] \in NodeId /\ W[k] # new /\ (W[k] = n => k = i)
       /\ \A k \in 1..(Len(W) - 1) : R[W[k]] = W[k + 1]
       /\ W[i] = n /\ i \in 1..Len(W)
  BY <1>3, ChainFacts DEF W
<1>17. Linked(s, R2)
  <2> SUFFICES ASSUME NEW j \in 1..(Len(s) - 1) PROVE R2[s[j]] = s[j + 1]
    BY DEF Linked
  <2>1. j \in 1..Len(W) /\ i \in 1..Len(W) /\ j \in Int /\ i \in Int
    BY <1>9, <1>16
  <2>2. CASE j < i
    <3>1. s[j] = W[j] /\ s[j + 1] = W[j + 1] /\ j \in 1..(Len(W) - 1) /\ W[j] # n
      BY <2>1, <2>2, <1>9, <1>16
    <3> QED  BY <3>1, <2>1, <1>7, <1>16
  <2>3. CASE j = i
    <3>1. s[j] = n /\ s[j + 1] = new
      BY <2>1, <2>3, <1>9, <1>16
    <3> QED  BY <3>1, <1>7
  <2>4. CASE j = i + 1
    <3>1. s[j] = new /\ s[j + 1] = W[j] /\ i \in 1..(Len(W) - 1)
      BY <2>1, <2>4, <1>9
    <3> QED  BY <3>1, <2>4, <1>7, <1>16
  <2>5. CASE j > i + 1
    <3>0. /\ ~(j < i + 1) /\ j # i + 1 /\ j \in 1..(Len(W) + 1)
          /\ ~(j + 1 < i + 1) /\ j + 1 # i + 1 /\ j + 1 \in 1..(Len(W) + 1) /\ (j + 1) - 1 = j
          /\ j - 1 \in 1..(Len(W) - 1) /\ (j - 1) + 1 = j
      BY <2>1, <2>5, <1>9
    <3>1. s[j] = W[j - 1] /\ s[j + 1] = W[j] /\ j - 1 \in 1..(Len(W) - 1) /\ (j - 1) + 1 = j
      BY <3>0, <1>9
    <3>2. j - 1 \in 1..Len(W) /\ W[j - 1] # n
      BY <2>1, <2>5, <1>16
    <3>3. R[W[j - 1]] = W[j]
      BY <3>1, <1>16
    <3> QED  BY <3>1, <3>2, <3>3, <1>7, <1>16
  <2> QED  BY <2>1, <2>2, <2>3, <2>4, <2>5
<1>18. ASSUME NEW m \in Parents
       PROVE  Linked(V2[m], R2)
  <2>1. CASE m \in {par, n, new}
    BY <2>1, <1>6, <1>15, <1>17
  <2>2. CASE m \notin {par, n, new}
    <3>1. V2[m] = V[m] /\ V[m] \in Seq(A)
      BY <2>2, <1>4, <1>6
    <3>2. ASSUME NEW k \in 1..(Len(V[m]) - 1) PROVE R2[V[m][k]] = V[m][k + 1]
      <4>1. k \in 1..Len(V[m])
        BY <3>1
      <4>2. V[m][k] \in NodeId /\ V[m][k] \notin {n, new}
        BY <4>1, <2>2, <1>3
      <4>3. R[V[m][k]] = V[m][k + 1]
        BY ChainFacts
      <4> QED  BY <4>2, <4>3, <1>7
    <3> QED  BY <3>1, <3>2 DEF Linked
  <2> QED  BY <2>1, <2>2
<1>19. ASSUME NEW m \in A, V[m] # <<>>
       PROVE  V2[m][1] = V[m][1] /\ V2[m] # <<>>
  <2>1. CASE m = n
    <3>1. p # <<>>
      BY <2>1, <1>19, ConcatEqualIffEmpty
    <3> QED  BY <2>1, <3>1, <1>6, <1>13
  <2>2. CASE m = par
    <3>1. s[1] = W[1] /\ s # <<>>
      BY <1>9, <1>16
    <3> QED  BY <2>2, <3>1, <1>6 DEF W
  <2>3. CASE m \notin {n, par}
    <3>1. m # new /\ m \in Parents
      BY <1>4 DEF Parents
    <3> QED  BY <2>3, <3>1, <1>6, <1>19
  <2> QED  BY <2>1, <2>2, <2>3
<1>20. ASSUME NEW m \in Parents, m \notin {n, new}, V2[m] # <<>>
       PROVE  V[m] # <<>> /\ R2[Last(V2[m])] = R[Last(V[m])]
  <2>1. CASE m = par
    <3>1. W # <<>> /\ Last(W) = W[Len(W)] /\ Last(s) = s[Len(W) + 1] /\ Len(W) \in 1..Len(W)
      BY <1>9, <1>16 DEF Last
    <3>2. CASE i = Len(W)
      <4>1. s[Len(W) + 1] = new /\ W[Len(W)] = n
        BY <3>1, <3>2, <1>9, <1>16
      <4> QED  BY <2>1, <3>1, <4>1, <1>6, <1>7 DEF W
    <3>3. CASE i # Len(W)
      <4>0. /\ Len(W) + 1 \in 1..(Len(W) + 1) /\ ~(Len(W) + 1 < i + 1) /\ Len(W) + 1 # i + 1
            /\ (Len(W) + 1) - 1 = Len(W)
        BY <3>1, <3>3, <1>9, <1>16
      <4>1. s[Len(W) + 1] = W[Len(W)] /\ W[Len(W)] # n
        BY <4>0, <3>1, <3>3, <1>9, <1>16, Zenon
      <4> QED  BY <2>1, <3>1, <4>1, <1>6, <1>7, <1>16 DEF W
    <3> QED  BY <3>2, <3>3
  <2>2. CASE m # par
    <3>1. V2[m] = V[m] /\ V[m] \in Seq(A) /\ V[m] # <<>>
      BY <2>2, <1>4, <1>6, <1>20
    <3>2. Last(V[m]) = V[m][Len(V[m])] /\ Len(V[m]) \in 1..Len(V[m])
      BY <3>1 DEF Last
    <3>3. V[m][Len(V[m])] \in NodeId /\ V[m][Len(V[m])] \notin {n, new}
      BY <3>2, <2>2, <1>3
    <3> QED  BY <3>1, <3>2, <3>3, <1>7
  <2> QED  BY <2>1, <2>2
<1>24. /\ \A x \in A : V[x] # <<>> /\ R[x] # NULL => V[R[x]] # <<>>
       /\ \A x \in A : V[x] # <<>> /\ R[x] = NULL => R[Last(V[x])] = NULL
       /\ \A x \in A : V[x] # <<>> /\ R[x] # NULL => R[Last(V[x])] = V[R[x]][1]
  BY ChainFacts
<1>21. ASSUME NEW m \in A2, V2[m] # <<>>
       PROVE  R2[Last(V2[m])] = IF R2[m] = NULL THEN NULL ELSE V2[R2[m]][1]
  <2>1. CASE m = n
    <3>1. p # <<>> /\ q # <<>> /\ V2[m] = p /\ R2[m] = new /\ V2[new] = q
      BY <2>1, <1>6, <1>7, <1>21
    <3>2. Last(p) = p[Len(p)] /\ Len(p) \in 1..Len(p)
      BY <3>1 DEF Last
    <3>3. R2[Last(p)] = R[Last(p)]
      BY <3>2, <1>7, <1>14
    <3> QED  BY <3>1, <3>3, <1>4, <1>13
  <2>2. CASE m = new
    <3>1. q # <<>> /\ p # <<>> /\ V2[m] = q /\ R2[m] = R[n] /\ V[n] # <<>>
      BY <2>2, <1>6, <1>7, <1>21, ConcatEqualIffEmpty
    <3>2. Last(q) = q[Len(q)] /\ Len(q) \in 1..Len(q)
      BY <3>1 DEF Last
    <3>3. R2[Last(q)] = R[Last(V[n])]
      BY <3>1, <3>2, <1>7, <1>13, <1>14
    <3>4. CASE R[n] = NULL
      <4>1. R[Last(V[n])] = NULL
        BY <3>1, <3>4, <1>3, <1>24
      <4> QED  BY <3>1, <3>3, <3>4, <4>1
    <3>5. CASE R[n] # NULL
      <4>1. R[Last(V[n])] = V[R[n]][1] /\ R[n] \in A /\ V[R[n]] # <<>>
        BY <3>1, <3>5, <1>3, <1>10, <1>24
      <4> QED  BY <3>1, <3>3, <3>5, <4>1, <1>19
    <3> QED  BY <3>4, <3>5
  <2>3. CASE m \notin {n, new}
    <3>1. m \in A /\ m \in Parents /\ R2[m] = R[m]
      BY <2>3, <1>4, <1>7 DEF A2, Parents
    <3>2. V[m] # <<>> /\ R2[Last(V2[m])] = R[Last(V[m])]
      BY <2>3, <3>1, <1>20, <1>21
    <3>3. CASE R[m] = NULL
      BY <3>1, <3>2, <3>3, ChainFacts
    <3>4. CASE R[m] # NULL
      <4>1. R[Last(V[m])] = V[R[m]][1] /\ R[m] \in A /\ V[R[m]] # <<>>
        BY <3>1, <3>2, <3>4, ChainFacts
      <4> QED  BY <3>1, <3>2, <3>4, <4>1, <1>19
    <3> QED  BY <3>3, <3>4
  <2> QED  BY <2>1, <2>2, <2>3
<1>22. V2[NULL] # <<>> => R2[Last(V2[NULL])] = NULL
  <2>1. NULL \in Parents /\ NULL \notin {n, new}
    BY <1>3, <1>4 DEF Parents
  <2> QED  BY <2>1, <1>20, ChainFacts
<1>23. Chain(A2, L2, V2, R2)
  BY <1>7, <1>11, <1>12, <1>18, <1>21, <1>22 DEF Chain
<1> QED  BY <1>2, <1>23 DEF Forest, A2, L2, V2, R2, s, W

(* MergeFamily, with r taken out of its level.                             *)
LEMMA MergeForest ==
  ASSUME NEW A, NEW L, NEW V, NEW R, Forest(A, L, V, R),
         NEW par, NEW i, NEW l, NEW r, Neighbours(V, par, i, l, r)
  PROVE  Forest(A \ {r}, L,
                [V EXCEPT ![par] = RemoveAt(V[par], i + 1), ![l] = V[l] \o V[r], ![r] = <<>>],
                [R EXCEPT ![l] = R[r]])
<1> DEFINE A2 == A \ {r}
           W  == V[par]
           s  == RemoveAt(W, i + 1)
           j  == V[l] \o V[r]
           V2 == [V EXCEPT ![par] = s, ![l] = j, ![r] = <<>>]
           R2 == [R EXCEPT ![l] = R[r]]
<1>0. par \in Parents /\ i \in 1..Len(V[par]) /\ i + 1 <= Len(V[par]) /\ l = V[par][i] /\ r = V[par][i + 1]
  BY DEF Neighbours
<1>1. Family(A, L, V)
  BY DEF Forest
<1>2. Family(A2, L, V2)
  BY <1>1, MergeFamily
<1>3. /\ A \subseteq NodeId /\ L \in [NodeId -> Int] /\ V \in [Parents -> Seq(A)]
      /\ R \in [NodeId -> Parents] /\ W \in Seq(A)
  BY <1>0, <1>1 DEF Family, Kin, Forest, Chain
<1>4. i \in 1..Len(W) /\ i + 1 \in 1..Len(W) /\ i \in 1..(Len(W) - 1)
  BY <1>0, <1>3
<1>5. /\ l \in A /\ l \in NodeId /\ l # par /\ l # NULL
      /\ r \in A /\ r \in NodeId /\ r # par /\ r # NULL /\ l # r
      /\ \A m \in Parents : \A k \in 1..Len(V[m]) :
           /\ V[m][k] \in A /\ V[m][k] \in NodeId
           /\ V[m][k] = l => m = par /\ k = i
           /\ V[m][k] = r => m = par /\ k = i + 1
  <2>1. \A m \in Parents : \A k \in 1..Len(V[m]) : V[m][k] \in A /\ V[m][k] \in NodeId
    BY <1>1, ChildApart
  <2>2. /\ l \in A /\ l \in NodeId /\ l # par /\ l # NULL
        /\ r \in A /\ r \in NodeId /\ r # par /\ r # NULL /\ l # r
    BY <1>1, NeighboursApart
  <2>3. ASSUME NEW m \in Parents, NEW k \in 1..Len(V[m]), V[m][k] = l
        PROVE  m = par /\ k = i
    <3>1. V[m][k] \in Sets(V)[m] /\ m = par
      BY <1>0, <1>1, <2>3, ChildApart
    <3> QED  BY <1>0, <1>1, <2>3, <3>1, ChildApart
  <2>4. ASSUME NEW m \in Parents, NEW k \in 1..Len(V[m]), V[m][k] = r
        PROVE  m = par /\ k = i + 1
    <3>1. V[m][k] \in Sets(V)[m] /\ m = par
      BY <1>0, <1>1, <1>4, <2>4, ChildApart
    <3> QED  BY <1>0, <1>1, <1>4, <2>4, <3>1, ChildApart
  <2> QED  BY <2>1, <2>2, <2>3, <2>4
<1>6. l \in Parents /\ r \in Parents /\ V[l] \in Seq(A) /\ V[r] \in Seq(A)
  BY <1>3, <1>5 DEF Parents
<1>7. /\ V2[par] = s /\ V2[l] = j /\ V2[r] = <<>>
      /\ \A m \in Parents : m \notin {par, l, r} => V2[m] = V[m]
  BY <1>0, <1>3, <1>5, <1>6
<1>8. /\ R2[l] = R[r]
      /\ \A m \in NodeId : m # l => R2[m] = R[m]
      /\ R2 \in [NodeId -> Parents]
  BY <1>3, <1>5
<1>9. /\ s \in Seq(A) /\ Len(s) = Len(W) - 1 /\ Len(W) \in Nat
      /\ \A k \in 1..(Len(W) - 1) : s[k] = IF k < i + 1 THEN W[k] ELSE W[k + 1]
  <2> DEFINE k == i + 1
  <2>1. W \in Seq(A) /\ k \in 1..Len(W)
    BY <1>3, <1>4
  <2> HIDE DEF W, k
  <2>2. /\ RemoveAt(W, k) \in Seq(A) /\ Len(RemoveAt(W, k)) = Len(W) - 1
        /\ \A x \in 1..(Len(W) - 1) : RemoveAt(W, k)[x] = IF x < k THEN W[x] ELSE W[x + 1]
    BY <2>1, Removed
  <2> QED  BY <2>1, <2>2 DEF k
<1>10. /\ \A k \in 1..Len(W) : /\ W[k] \in NodeId
                               /\ W[k] = l => k = i
                               /\ W[k] = r => k = i + 1
       /\ \A k \in 1..(Len(W) - 1) : R[W[k]] = W[k + 1]
       /\ W[i] = l /\ W[i + 1] = r
  BY <1>0, <1>5, ChainFacts DEF W
<1>11. /\ \A m \in A : R[m] \in Parents /\ m # NULL /\ m \in NodeId
       /\ \A m \in A : R[m] # NULL => R[m] \in A /\ L[R[m]] = L[m]
       /\ \A m, o \in A : R[m] = R[o] /\ R[m] # NULL => m = o
       /\ R[l] = r
  BY <1>0, <1>3, <1>4, <1>10, ChainFacts
<1>12. L[l] = L[r] /\ (V[l] = <<>> <=> V[r] = <<>>)
  BY <1>1, <1>5, <1>11 DEF Family
<1> HIDE DEF A2, V2, R2, s, j, W
<1>13. ASSUME NEW m \in A2, R2[m] # NULL
       PROVE  R2[m] \in A2 /\ L[R2[m]] = L[m]
  <2>1. CASE m = l
    <3>1. R[r] # NULL /\ R2[m] = R[r] /\ R[r] # r
      BY <2>1, <1>5, <1>8, <1>11, <1>13
    <3> QED  BY <2>1, <3>1, <1>5, <1>11, <1>12 DEF A2
  <2>2. CASE m # l
    <3>1. m \in A /\ R2[m] = R[m] /\ R[m] # r /\ R[m] # NULL
      BY <2>2, <1>3, <1>5, <1>8, <1>11, <1>13 DEF A2
    <3> QED  BY <3>1, <1>11 DEF A2
  <2> QED  BY <2>1, <2>2
<1>14. ASSUME NEW m \in A2, NEW o \in A2, R2[m] = R2[o], R2[m] # NULL
       PROVE  m = o
  <2>1. /\ m = l => R2[m] = R[r]
        /\ o = l => R2[o] = R[r]
        /\ m # l => R2[m] = R[m]
        /\ o # l => R2[o] = R[o]
        /\ m \in A /\ o \in A /\ m # r /\ o # r
    BY <1>3, <1>8 DEF A2
  <2> QED  BY <2>1, <1>5, <1>11, <1>14
<1>15. /\ \A x \in A : V[x] # <<>> /\ R[x] # NULL => V[R[x]] # <<>>
       /\ \A x \in A : V[x] # <<>> /\ R[x] = NULL => R[Last(V[x])] = NULL
       /\ \A x \in A : V[x] # <<>> /\ R[x] # NULL => R[Last(V[x])] = V[R[x]][1]
  BY ChainFacts
<1>16. /\ \A k \in 1..Len(V[l]) : V[l][k] \in NodeId /\ V[l][k] # l
       /\ \A k \in 1..Len(V[r]) : V[r][k] \in NodeId /\ V[r][k] # l
  BY <1>5, <1>6
<1>17. Linked(j, R2)
  <2>1. Linked(V[l], R) /\ Linked(V[r], R)
    BY <1>6 DEF Forest, Chain
  <2>2. Linked(V[l], R2)
    <3>1. ASSUME NEW k \in 1..(Len(V[l]) - 1) PROVE R2[V[l][k]] = V[l][k + 1]
      <4>1. k \in 1..Len(V[l]) /\ R[V[l][k]] = V[l][k + 1]
        BY <2>1, <1>6 DEF Linked
      <4> QED  BY <4>1, <1>8, <1>16
    <3> QED  BY <3>1 DEF Linked
  <2>3. Linked(V[r], R2)
    <3>1. ASSUME NEW k \in 1..(Len(V[r]) - 1) PROVE R2[V[r][k]] = V[r][k + 1]
      <4>1. k \in 1..Len(V[r]) /\ R[V[r][k]] = V[r][k + 1]
        BY <2>1, <1>6 DEF Linked
      <4> QED  BY <4>1, <1>8, <1>16
    <3> QED  BY <3>1 DEF Linked
  <2>4. ASSUME V[l] # <<>>, V[r] # <<>> PROVE R2[Last(V[l])] = V[r][1]
    <3>1. R[Last(V[l])] = V[r][1]
      BY <2>4, <1>5, <1>11, <1>15
    <3>2. Last(V[l]) = V[l][Len(V[l])] /\ Len(V[l]) \in 1..Len(V[l])
      BY <2>4, <1>6 DEF Last
    <3> QED  BY <3>1, <3>2, <1>8, <1>16
  <2> QED  BY <2>2, <2>3, <2>4, <1>6, LinkedJoin DEF j
<1>18. Linked(s, R2)
  <2> SUFFICES ASSUME NEW k \in 1..(Len(s) - 1) PROVE R2[s[k]] = s[k + 1]
    BY DEF Linked
  <2>1. /\ k \in 1..(Len(W) - 1) /\ k + 1 \in 1..(Len(W) - 1) /\ k \in Int /\ i \in Int
        /\ (k + 1) + 1 = k + 2 /\ k + 1 \in 1..Len(W) /\ k \in 1..Len(W) /\ Len(W) \in Int
    BY <1>0, <1>9
  <2>2. CASE k < i
    <3>1. s[k] = W[k] /\ s[k + 1] = W[k + 1] /\ W[k] # l
      BY <2>1, <2>2, <1>9, <1>10
    <3> QED  BY <3>1, <2>1, <1>8, <1>10
  <2>3. CASE k = i
    <3>1. s[k] = l /\ s[k + 1] = W[k + 2]
      BY <2>1, <2>3, <1>9, <1>10
    <3>2. R[W[k + 1]] = W[k + 2]
      BY <2>1, <1>10
    <3> QED  BY <3>1, <3>2, <2>3, <1>8, <1>10
  <2>4. CASE k > i
    <3>1. s[k] = W[k + 1] /\ s[k + 1] = W[k + 2] /\ W[k + 1] # l
      <4>1. ~(k < i + 1) /\ ~(k + 1 < i + 1) /\ k + 1 # i
        BY <2>1, <2>4
      <4> QED  BY <4>1, <2>1, <1>9, <1>10
    <3>2. R[W[k + 1]] = W[k + 2] /\ W[k + 1] \in NodeId
      BY <2>1, <1>10
    <3> QED  BY <3>1, <3>2, <1>8
  <2> QED  BY <2>1, <2>2, <2>3, <2>4
<1>19. ASSUME NEW m \in Parents
       PROVE  Linked(V2[m], R2)
  <2>1. CASE m \in {par, l}
    BY <2>1, <1>7, <1>17, <1>18
  <2>2. CASE m = r
    BY <2>2, <1>7 DEF Linked
  <2>3. CASE m \notin {par, l, r}
    <3>1. V2[m] = V[m] /\ V[m] \in Seq(A)
      BY <2>3, <1>3, <1>7
    <3>2. ASSUME NEW k \in 1..(Len(V[m]) - 1) PROVE R2[V[m][k]] = V[m][k + 1]
      <4>1. k \in 1..Len(V[m])
        BY <3>1
      <4>2. V[m][k] \in NodeId /\ V[m][k] # l
        BY <4>1, <2>3, <1>5
      <4>3. R[V[m][k]] = V[m][k + 1]
        BY ChainFacts
      <4> QED  BY <4>2, <4>3, <1>8
    <3> QED  BY <3>1, <3>2 DEF Linked
  <2> QED  BY <2>1, <2>2, <2>3
<1>20. /\ V[l] # <<>> => /\ j # <<>> /\ j[1] = V[l][1]
                         /\ Last(j) = Last(V[r])
                         /\ Last(V[r]) = V[r][Len(V[r])] /\ Len(V[r]) \in 1..Len(V[r])
       /\ j # <<>> => V[l] # <<>> /\ V[r] # <<>>
  <2>1. /\ V[l] # <<>> => j[1] = V[l][1]
        /\ V[r] # <<>> => Last(j) = Last(V[r])
        /\ j = <<>> <=> V[l] = <<>> /\ V[r] = <<>>
    BY <1>6, ConcatFirstLast DEF j
  <2>2. V[r] # <<>> => Last(V[r]) = V[r][Len(V[r])] /\ Len(V[r]) \in 1..Len(V[r])
    BY <1>6 DEF Last
  <2> QED  BY <2>1, <2>2, <1>12
<1>21. ASSUME NEW m \in A2, V[m] # <<>>
       PROVE  V2[m][1] = V[m][1]
  <2>1. CASE m = l
    BY <2>1, <1>7, <1>20, <1>21
  <2>2. CASE m = par
    <3>1. 1 \in 1..(Len(W) - 1) /\ 1 < i + 1
      BY <1>4, <1>9
    <3>2. s[1] = W[1]
      BY <3>1, <1>9
    <3> QED  BY <2>2, <3>2, <1>7 DEF W
  <2>3. CASE m \notin {l, par}
    <3>1. m # r /\ m \in Parents
      BY <1>3 DEF Parents, A2
    <3> QED  BY <2>3, <3>1, <1>7
  <2> QED  BY <2>1, <2>2, <2>3
<1>22. ASSUME NEW m \in Parents, m \notin {l, r}, V2[m] # <<>>
       PROVE  V[m] # <<>> /\ R2[Last(V2[m])] = R[Last(V[m])]
  <2>1. CASE m = par
    <3>1. /\ W # <<>> /\ Last(W) = W[Len(W)] /\ Last(s) = s[Len(W) - 1] /\ Len(W) \in 1..Len(W)
          /\ Len(W) - 1 \in 1..(Len(W) - 1) /\ (Len(W) - 1) + 1 = Len(W)
      BY <1>4, <1>9 DEF Last
    <3>2. CASE i + 1 = Len(W)
      <4>1. s[Len(W) - 1] = l /\ W[Len(W)] = r
        BY <1>0, <3>1, <3>2, <1>9, <1>10
      <4> QED  BY <2>1, <3>1, <4>1, <1>7, <1>8 DEF W
    <3>3. CASE i + 1 # Len(W)
      <4>0. ~(Len(W) - 1 < i + 1) /\ Len(W) # i
        BY <3>3, <1>4, <1>9
      <4>1. s[Len(W) - 1] = W[Len(W)] /\ W[Len(W)] # l /\ W[Len(W)] \in NodeId
        BY <4>0, <3>1, <1>9, <1>10
      <4> QED  BY <2>1, <3>1, <4>1, <1>7, <1>8 DEF W
    <3> QED  BY <3>2, <3>3
  <2>2. CASE m # par
    <3>1. V2[m] = V[m] /\ V[m] \in Seq(A) /\ V[m] # <<>>
      BY <2>2, <1>3, <1>7, <1>22
    <3>2. Last(V[m]) = V[m][Len(V[m])] /\ Len(V[m]) \in 1..Len(V[m])
      BY <3>1 DEF Last
    <3>3. V[m][Len(V[m])] \in NodeId /\ V[m][Len(V[m])] # l
      BY <3>2, <2>2, <1>5
    <3> QED  BY <3>1, <3>2, <3>3, <1>8
  <2> QED  BY <2>1, <2>2
<1>23. ASSUME NEW m \in A2, V2[m] # <<>>
       PROVE  R2[Last(V2[m])] = IF R2[m] = NULL THEN NULL ELSE V2[R2[m]][1]
  <2>1. CASE m = l
    <3>1. V[l] # <<>> /\ V[r] # <<>> /\ R2[m] = R[r] /\ Last(V2[m]) = Last(V[r])
      BY <2>1, <1>7, <1>8, <1>20, <1>23
    <3>2. R2[Last(V2[m])] = R[Last(V[r])]
      BY <3>1, <1>8, <1>16, <1>20
    <3>3. CASE R[r] = NULL
      <4>1. R[Last(V[r])] = NULL
        BY <3>1, <3>3, <1>5, <1>15
      <4> QED  BY <3>1, <3>2, <3>3, <4>1
    <3>4. CASE R[r] # NULL
      <4>1. R[Last(V[r])] = V[R[r]][1] /\ V[R[r]] # <<>>
        BY <3>1, <3>4, <1>5, <1>15
      <4>2. R[r] \in A2
        BY <2>1, <3>1, <3>4, <1>13
      <4> QED  BY <3>1, <3>2, <3>4, <4>1, <4>2, <1>21
    <3> QED  BY <3>3, <3>4
  <2>2. CASE m # l
    <3>1. m \in A /\ m # r /\ m \in Parents /\ R2[m] = R[m]
      BY <2>2, <1>3, <1>8 DEF A2, Parents
    <3>2. V[m] # <<>> /\ R2[Last(V2[m])] = R[Last(V[m])]
      BY <2>2, <3>1, <1>22, <1>23
    <3>3. CASE R[m] = NULL
      <4>1. R[Last(V[m])] = NULL
        BY <3>1, <3>2, <3>3, <1>15
      <4> QED  BY <3>1, <3>2, <3>3, <4>1
    <3>4. CASE R[m] # NULL
      <4>1. R[Last(V[m])] = V[R[m]][1] /\ V[R[m]] # <<>>
        BY <3>1, <3>2, <3>4, <1>15
      <4>2. R[m] \in A2
        BY <3>1, <3>4, <1>13
      <4> QED  BY <3>1, <3>2, <3>4, <4>1, <4>2, <1>21
    <3> QED  BY <3>3, <3>4
  <2> QED  BY <2>1, <2>2
<1>24. V2[NULL] # <<>> => R2[Last(V2[NULL])] = NULL
  <2>1. NULL \in Parents /\ NULL \notin {l, r}
    BY <1>5 DEF Parents
  <2> QED  BY <2>1, <1>22, ChainFacts
<1>25. Chain(A2, L, V2, R2)
  BY <1>8, <1>13, <1>14, <1>19, <1>23, <1>24 DEF Chain
<1> QED  BY <1>2, <1>25 DEF Forest, A2, V2, R2, s, j, W

(* GrowFamily; the new root stands alone on its level.                     *)
LEMMA GrowForest ==
  ASSUME NEW A, NEW L, NEW V, NEW R, Forest(A, L, V, R), NEW new \in NodeId, new \notin A,
         NEW h \in Nat, h = 0 <=> V[NULL] = <<>>, \A c \in Sets(V)[NULL] : h = L[c] + 1
  PROVE  Forest(A \cup {new}, [L EXCEPT ![new] = h],
                [V EXCEPT ![NULL] = <<new>>, ![new] = V[NULL]], [R EXCEPT ![new] = NULL])
<1> DEFINE A2 == A \cup {new}
           L2 == [L EXCEPT ![new] = h]
           V2 == [V EXCEPT ![NULL] = <<new>>, ![new] = V[NULL]]
           R2 == [R EXCEPT ![new] = NULL]
<1>1. Family(A, L, V)
  BY DEF Forest
<1>2. Family(A2, L2, V2)
  BY <1>1, GrowFamily
<1>3. /\ A \subseteq NodeId /\ L \in [NodeId -> Int] /\ V \in [Parents -> Seq(A)]
      /\ R \in [NodeId -> Parents] /\ NULL \in Parents /\ new \in Parents /\ new # NULL
      /\ V[NULL] \in Seq(A)
  BY <1>1, NullApart DEF Family, Kin, Forest, Chain, Parents
<1>4. /\ V2[NULL] = <<new>> /\ V2[new] = V[NULL]
      /\ \A m \in Parents : m \notin {NULL, new} => V2[m] = V[m]
  BY <1>3
<1>5. /\ R2[new] = NULL
      /\ \A m \in A : m # new /\ R2[m] = R[m]
      /\ R2 \in [NodeId -> Parents]
  BY <1>3
<1>6. L2[new] = h /\ \A m \in A : L2[m] = L[m]
  BY <1>3
<1>7. /\ \A m \in A : R[m] \in Parents /\ m # NULL /\ m \in NodeId /\ m \in Parents
      /\ \A m \in A : R[m] # NULL => R[m] \in A /\ L[R[m]] = L[m]
      /\ \A m, o \in A : R[m] = R[o] /\ R[m] # NULL => m = o
      /\ \A x \in A : V[x] # <<>> /\ R[x] = NULL => R[Last(V[x])] = NULL
      /\ \A x \in A : V[x] # <<>> /\ R[x] # NULL => R[Last(V[x])] = V[R[x]][1]
      /\ V[NULL] # <<>> => R[Last(V[NULL])] = NULL
  <2> HIDE DEF A2, L2, V2, R2
  <2>1. /\ \A m \in A : R[m] \in Parents /\ m # NULL /\ m \in Parents
        /\ \A m \in A : R[m] # NULL => R[m] \in A /\ L[R[m]] = L[m]
        /\ \A m, o \in A : R[m] = R[o] /\ R[m] # NULL => m = o
    BY ChainFacts
  <2>2. /\ \A x \in A : V[x] # <<>> /\ R[x] = NULL => R[Last(V[x])] = NULL
        /\ \A x \in A : V[x] # <<>> /\ R[x] # NULL => R[Last(V[x])] = V[R[x]][1]
    BY ChainFacts
  <2>3. V[NULL] # <<>> => R[Last(V[NULL])] = NULL
    BY ChainFacts
  <2> QED  BY <2>1, <2>2, <2>3, <1>3
<1> HIDE DEF A2, L2, V2, R2
<1>8. \A m \in A2 : R2[m] # NULL => R2[m] \in A2 /\ L2[R2[m]] = L2[m]
  BY <1>5, <1>6, <1>7 DEF A2
<1>9. \A m, o \in A2 : R2[m] = R2[o] /\ R2[m] # NULL => m = o
  BY <1>5, <1>7 DEF A2
<1>10. ASSUME NEW m \in Parents
       PROVE  Linked(V[m], R2) /\ (V[m] # <<>> => R2[Last(V[m])] = R[Last(V[m])])
  <2>1. V[m] \in Seq(A) /\ Linked(V[m], R)
    BY <1>3 DEF Forest, Chain
  <2>2. \A k \in 1..Len(V[m]) : V[m][k] \in A
    BY <2>1
  <2>3. ASSUME NEW k \in 1..(Len(V[m]) - 1) PROVE R2[V[m][k]] = V[m][k + 1]
    <3>1. k \in 1..Len(V[m]) /\ R[V[m][k]] = V[m][k + 1]
      BY <2>1 DEF Linked
    <3> QED  BY <3>1, <2>2, <1>5
  <2>4. ASSUME V[m] # <<>> PROVE Last(V[m]) \in A
    <3>1. Len(V[m]) \in 1..Len(V[m])
      BY <2>1, <2>4
    <3> QED  BY <3>1, <2>2 DEF Last
  <2> QED  BY <2>3, <2>4, <1>5 DEF Linked
<1>11. ASSUME NEW m \in Parents
       PROVE  Linked(V2[m], R2)
  <2>1. CASE m = NULL
    BY <2>1, <1>4 DEF Linked
  <2>2. CASE m # NULL
    BY <2>2, <1>3, <1>4, <1>10
  <2> QED  BY <2>1, <2>2
<1>12. ASSUME NEW m \in A2, V2[m] # <<>>
       PROVE  R2[Last(V2[m])] = IF R2[m] = NULL THEN NULL ELSE V2[R2[m]][1]
  <2>1. CASE m = new
    BY <2>1, <1>3, <1>4, <1>5, <1>7, <1>10, <1>12
  <2>2. CASE m # new
    <3>1. m \in A /\ m \in Parents /\ m # NULL /\ V2[m] = V[m] /\ R2[m] = R[m]
      BY <2>2, <1>4, <1>5, <1>7 DEF A2
    <3>2. R2[Last(V2[m])] = R[Last(V[m])] /\ V[m] # <<>>
      BY <3>1, <1>10, <1>12
    <3>3. CASE R[m] = NULL
      BY <3>1, <3>2, <3>3, <1>7
    <3>4. CASE R[m] # NULL
      <4>1. R[m] \in A /\ R[m] # new /\ R[m] # NULL /\ R[m] \in Parents
        BY <3>1, <3>4, <1>5, <1>7
      <4> QED  BY <3>1, <3>2, <4>1, <1>4, <1>7
    <3> QED  BY <3>3, <3>4
  <2> QED  BY <2>1, <2>2
<1>13. R2[Last(V2[NULL])] = NULL
  BY <1>4, <1>5 DEF Last
<1>14. Chain(A2, L2, V2, R2)
  BY <1>5, <1>8, <1>9, <1>11, <1>12, <1>13 DEF Chain
<1> QED  BY <1>2, <1>14 DEF Forest, A2, L2, V2, R2

(* DropFamily; nothing on the levels below changes.                        *)
LEMMA DropForest ==
  ASSUME NEW A, NEW L, NEW V, NEW R, Forest(A, L, V, R), NEW n, V[NULL] = <<n>>
  PROVE  Forest(A \ {n}, L, [V EXCEPT ![NULL] = V[n], ![n] = <<>>], R)
<1> DEFINE A2 == A \ {n}
           V2 == [V EXCEPT ![NULL] = V[n], ![n] = <<>>]
<1>1. Family(A, L, V)
  BY DEF Forest
<1>2. Family(A2, L, V2)
  BY <1>1, DropFamily
<1>3. /\ A \subseteq NodeId /\ L \in [NodeId -> Int] /\ V \in [Parents -> Seq(A)]
      /\ R \in [NodeId -> Parents] /\ NULL \in Parents /\ V[NULL] \in Seq(A)
  BY <1>1 DEF Family, Kin, Forest, Chain, Parents
<1>4. Len(V[NULL]) = 1 /\ V[NULL][1] = n /\ 1 \in 1..Len(V[NULL]) /\ Last(V[NULL]) = n
  BY DEF Last
<1>5. n \in A /\ n \in NodeId /\ n # NULL /\ n \in Sets(V)[NULL] /\ n \in Parents
  <2>1. /\ V[NULL][1] \in A /\ V[NULL][1] \in NodeId /\ V[NULL][1] # NULL
        /\ V[NULL][1] \in Sets(V)[NULL]
    <3>1. \A m \in Parents : \A k \in 1..Len(V[m]) :
            /\ V[m][k] \in A /\ V[m][k] \in NodeId /\ V[m][k] # NULL
            /\ V[m][k] \in Sets(V)[m]
      BY <1>1, ChildApart
    <3> QED  BY <3>1, <1>3, <1>4
  <2> QED  BY <2>1, <1>4 DEF Parents
<1>6. /\ V2[NULL] = V[n] /\ V2[n] = <<>>
      /\ \A m \in Parents : m \notin {NULL, n} => V2[m] = V[m]
  BY <1>3, <1>5
<1>7. /\ \A m \in A : R[m] # NULL => R[m] \in A /\ L[R[m]] = L[m]
      /\ \A m, o \in A : R[m] = R[o] /\ R[m] # NULL => m = o
      /\ \A x \in A : V[x] # <<>> /\ R[x] = NULL => R[Last(V[x])] = NULL
      /\ \A x \in A : V[x] # <<>> /\ R[x] # NULL => R[Last(V[x])] = V[R[x]][1]
      /\ R[n] = NULL
  <2> HIDE DEF A2, V2
  <2>1. /\ \A m \in A : R[m] # NULL => R[m] \in A /\ L[R[m]] = L[m]
        /\ \A m, o \in A : R[m] = R[o] /\ R[m] # NULL => m = o
    BY ChainFacts
  <2>2. /\ \A x \in A : V[x] # <<>> /\ R[x] = NULL => R[Last(V[x])] = NULL
        /\ \A x \in A : V[x] # <<>> /\ R[x] # NULL => R[Last(V[x])] = V[R[x]][1]
    BY ChainFacts
  <2>3. V[NULL] # <<>> => R[Last(V[NULL])] = NULL
    BY ChainFacts
  <2>4. V[NULL] # <<>>
    BY <1>4
  <2> QED  BY <2>1, <2>2, <2>3, <2>4, <1>4
<1> HIDE DEF A2, V2
<1>8. ASSUME NEW m \in A2
      PROVE  m \in A /\ m # n /\ R[m] # n /\ m # NULL /\ m \in Parents
  <2>1. m \in A /\ m # n /\ m # NULL /\ m \in Parents
    BY <1>3, NullApart DEF A2, Parents
  <2> SUFFICES ASSUME R[m] = n PROVE FALSE
    BY <2>1
  <2>2. L[n] = L[m] /\ L[m] \in Int
    BY <1>3, <1>5, <1>7, <2>1
  <2>3. PICK x \in Parents : m \in Sets(V)[x]
    BY <1>1, <2>1 DEF Family, Kin
  <2>4. x # NULL
    <3>1. Sets(V)[NULL] = {n}
      BY <1>3, <1>5, One DEF Sets
    <3> QED  BY <2>1, <2>3, <3>1
  <2>5. x \in A /\ L[x] = L[m] + 1
    BY <1>1, <2>3, <2>4 DEF Family, Kin, Parents
  <2>6. L[x] <= L[n]
    BY <1>1, <1>5, <2>5 DEF Family, Kin
  <2> QED  BY <2>2, <2>5, <2>6
<1>9. \A m \in Parents : Linked(V2[m], R)
  <2>1. \A m \in Parents : Linked(V[m], R)
    BY DEF Forest, Chain
  <2>2. Linked(<<>>, R)
    BY DEF Linked
  <2> QED  BY <2>1, <2>2, <1>5, <1>6
<1>10. ASSUME NEW m \in A2, V2[m] # <<>>
       PROVE  R[Last(V2[m])] = IF R[m] = NULL THEN NULL ELSE V2[R[m]][1]
  <2>1. V2[m] = V[m]
    BY <1>6, <1>8
  <2>2. CASE R[m] = NULL
    BY <2>1, <2>2, <1>7, <1>8, <1>10
  <2>3. CASE R[m] # NULL
    <3>1. R[m] \in A2
      BY <2>3, <1>7, <1>8 DEF A2
    <3>2. V2[R[m]] = V[R[m]]
      BY <3>1, <1>6, <1>8
    <3> QED  BY <2>1, <2>3, <3>2, <1>7, <1>8, <1>10
  <2> QED  BY <2>2, <2>3
<1>11. V2[NULL] # <<>> => R[Last(V2[NULL])] = NULL
  BY <1>5, <1>6, <1>7
<1>12. /\ \A m \in A2 : R[m] # NULL => R[m] \in A2 /\ L[R[m]] = L[m]
       /\ \A m, o \in A2 : R[m] = R[o] /\ R[m] # NULL => m = o
  BY <1>7, <1>8 DEF A2
<1>13. Chain(A2, L, V2, R)
  BY <1>3, <1>9, <1>10, <1>11, <1>12 DEF Chain
<1> QED  BY <1>2, <1>13 DEF Forest, A2, V2

(* What every tree has, in the middle of a call too.                       *)
Fields == {"level", "slotkey", "childid", "weight", "prev_leaf", "next_leaf"}
IsNode(m) ==
  /\ m = [f \in Fields |-> m[f]]
  /\ m.level \in Int /\ m.slotkey \in Seq(Int) /\ m.childid \in Seq(NodeId)
IsTree(t) ==
  /\ t = [f \in {"node", "root", "head_leaf", "tail_leaf", "size"} |-> t[f]]
  /\ t.node = [id \in NodeId |-> t.node[id]]
  /\ \A id \in NodeId : IsNode(t.node[id])

(* Nodes alike in all but weights and links to the left.                   *)
Alike(m, o) == /\ m.level = o.level /\ m.childid = o.childid
               /\ slotuse(m) = slotuse(o) /\ m.next_leaf = o.next_leaf
Same(u, t, id) == /\ Alike(u.node[id], t.node[id])
                  /\ t.node[id] = Free => u.node[id] = Free

(* A freed node is a node, with nothing in it.                             *)
LEMMA FreeIsNode == IsNode(Free) /\ Free.level = -1 /\ Free.childid = <<>> /\ Free.slotkey = <<>>
BY DEF IsNode, Free, Fields

(* An empty leaf.                                                          *)
LEMMA NewLeafIs == IsNode(NewLeaf) /\ NewLeaf.level = 0 /\ NewLeaf.childid = <<>>
<1>1. NewLeaf = [level |-> 0, slotkey |-> <<>>, childid |-> <<>>, weight |-> <<>>,
                 prev_leaf |-> NULL, next_leaf |-> NULL]
  BY DEF NewLeaf, Free
<1> QED  BY <1>1 DEF IsNode, Fields

(* Naturals have a least element.                                          *)
LEMMA Least ==
  ASSUME NEW T, T \subseteq Nat, T # {}
  PROVE  \E i \in T : \A y \in T : i <= y
<1>1. PICK i \in T : \A y \in T : ~(<<y, i>> \in OpToRel(<, Nat))
  BY NatLessThanWellFounded, WFMin
<1>2. \A y \in T : ~(y < i)
  BY <1>1 DEF OpToRel
<1> QED  BY <1>2

(* Fresh finds an address that is free, if there is one.                   *)
LEMMA FreshFound ==
  ASSUME NEW t, FreeIds(t) # {}
  PROVE  Fresh(t) \in NodeId /\ t.node[Fresh(t)] = Free
<1>1. FreeIds(t) \subseteq Nat
  BY BTreeAssumption DEF FreeIds
<1>2. \E i \in FreeIds(t) : \A y \in FreeIds(t) : i <= y
  BY <1>1, Least
<1>3. Fresh(t) \in FreeIds(t)
  BY <1>2 DEF Fresh
<1> QED  BY <1>3 DEF FreeIds

(* find_lower() stops at a slot in the node or right behind it.            *)
LEMMA FindLowerFound ==
  ASSUME NEW m, m.slotkey \in Seq(Int), NEW k \in Int
  PROVE  FindLower(m, k) \in 0..slotuse(m)
<1> DEFINE s == m.slotkey
           T == {i \in 0..Len(s) : i < Len(s) => k <= s[i + 1]}
<1>1. Len(s) \in T /\ T \in SUBSET Nat
  OBVIOUS
<1>2. PICK i \in T : \A y \in T : i <= y
  BY <1>1, Least
<1>3. \A j \in 1..i : s[j] < k
  <2> SUFFICES ASSUME NEW j \in 1..i PROVE s[j] < k
    OBVIOUS
  <2>1. Len(s) \in Nat /\ i \in 0..Len(s) /\ j - 1 \in 0..Len(s) /\ j - 1 < i
    BY <1>1
  <2>2. j - 1 \notin T
    <3> HIDE DEF T
    <3> QED  BY <1>1, <1>2, <2>1
  <2>3. ~(k <= s[j])
    BY <2>1, <2>2
  <2> QED  BY <2>1, <2>3
<1>4. \E x \in 0..slotuse(m) : /\ \A j \in 1..x : m.slotkey[j] < k
                               /\ x < slotuse(m) => k <= At(m.slotkey, x)
  BY <1>2, <1>3 DEF slotuse, At
<1> QED  BY <1>4 DEF FindLower

(* What split_leaf_node() does to the shape of the tree.                   *)
LEMMA SplitLeafEffect ==
  ASSUME NEW t, IsTree(t), NEW n \in NodeId, t.node[n] # Free, FreeIds(t) # {},
         slotuse(t.node[n]) >= 2,
         NEW x, x = t.node[n].next_leaf, x \in NodeId => t.node[x] # Free
  PROVE  LET split == SplitLeafNode(t, n)
             u     == split.tree
             new   == split.newchild
             mid   == slotuse(t.node[n]) \div 2
         IN  /\ IsTree(u) /\ u.root = t.root /\ new \in NodeId /\ new # n
             /\ t.node[new] = Free /\ split.newkey \in Int
             /\ u.node[n].level = t.node[n].level /\ u.node[n].childid = t.node[n].childid
             /\ u.node[n].next_leaf = new /\ slotuse(u.node[n]) = mid
             /\ u.node[new].level = 0 /\ u.node[new].childid = <<>>
             /\ u.node[new].next_leaf = x
             /\ slotuse(u.node[new]) = slotuse(t.node[n]) - mid
             /\ \A id \in NodeId \ {n, new} : Same(u, t, id)
<1> DEFINE leaf == t.node[n]
           mid  == slotuse(leaf) \div 2
           new  == Fresh(t)
           k1   == First(leaf.slotkey, mid)
           k2   == From(leaf.slotkey, mid)
           w1   == First(leaf.weight, mid)
           w2   == From(leaf.weight, mid)
           right == [NewLeaf EXCEPT !.slotkey = k2, !.weight = w2, !.prev_leaf = n,
                                    !.next_leaf = x]
           left  == [leaf EXCEPT !.slotkey = k1, !.weight = w1, !.next_leaf = new]
           Moved(id) == [t.node[id] EXCEPT !.prev_leaf = new]
           node == [id \in NodeId |->
                     IF id = new THEN right
                     ELSE IF id = n THEN left
                     ELSE IF id = x THEN Moved(id)
                     ELSE t.node[id]]
           u == [t EXCEPT !.node = node,
                          !.tail_leaf = IF x = NULL THEN new ELSE t.tail_leaf]
<1>1. new \in NodeId /\ t.node[new] = Free /\ new # n
  BY FreshFound
<1>2. IsNode(leaf) /\ slotuse(leaf) \in Nat /\ mid \in 1..slotuse(leaf) /\ mid \in 0..slotuse(leaf)
  <2>1. IsNode(leaf)
    BY DEF IsTree
  <2>2. slotuse(leaf) \in Nat /\ slotuse(leaf) >= 2
    BY <2>1 DEF IsNode, slotuse
  <2> HIDE DEF leaf
  <2> QED  BY <2>1, <2>2
<1>3. /\ k1 \in Seq(Int) /\ Len(k1) = mid
      /\ k2 \in Seq(Int) /\ Len(k2) = slotuse(leaf) - mid
  <2>1. leaf.slotkey \in Seq(Int) /\ mid \in 0..Len(leaf.slotkey)
    BY <1>2 DEF IsNode, slotuse
  <2> HIDE DEF leaf, mid
  <2> QED  BY <2>1, Halves DEF slotuse
<1>4. SplitLeafNode(t, n) = [tree |-> u, newkey |-> LastKey(left), newchild |-> new]
  BY DEF SplitLeafNode, IsTree
<1> HIDE DEF leaf, mid, new, k1, k2, w1, w2
<1>5. /\ IsNode(right) /\ right.level = 0 /\ right.childid = <<>>
      /\ right.next_leaf = x /\ right.slotkey = k2
  BY <1>3, NewLeafIs DEF IsNode, Fields
<1>6. /\ IsNode(left) /\ left.level = leaf.level /\ left.childid = leaf.childid
      /\ left.next_leaf = new /\ left.slotkey = k1
  BY <1>2, <1>3 DEF IsNode, Fields
<1>7. ASSUME NEW id \in NodeId
      PROVE  IsNode(Moved(id)) /\ Alike(Moved(id), t.node[id])
  <2>1. IsNode(t.node[id])
    BY DEF IsTree
  <2> QED  BY <2>1 DEF IsNode, Fields, Alike, slotuse
<1> HIDE DEF left, right, Moved
<1>8. /\ node[new] = right /\ node[n] = left
      /\ \A id \in NodeId \ {n, new} :
           node[id] = IF id = x THEN Moved(id) ELSE t.node[id]
  BY <1>1
<1>9. node = [id \in NodeId |-> node[id]]
  OBVIOUS
<1> HIDE DEF node
<1>10. \A id \in NodeId : IsNode(node[id])
  BY <1>5, <1>6, <1>7, <1>8 DEF IsTree
<1>11. \A id \in NodeId \ {n, new} :
         Alike(node[id], t.node[id]) /\ (t.node[id] = Free => node[id] = Free)
  <2> SUFFICES ASSUME NEW id \in NodeId \ {n, new}
               PROVE  Alike(node[id], t.node[id]) /\ (t.node[id] = Free => node[id] = Free)
    OBVIOUS
  <2>1. CASE id = x
    BY <1>7, <1>8, <2>1
  <2>2. CASE id # x
    BY <1>8, <2>2 DEF Alike
  <2> QED  BY <2>1, <2>2
<1>12. IsTree(u) /\ u.node = node /\ u.root = t.root
  BY <1>9, <1>10 DEF IsTree
<1>13. LastKey(left) \in Int
  BY <1>2, <1>3, <1>6 DEF LastKey, At, slotuse
<1> HIDE DEF u
<1>14. /\ SplitLeafNode(t, n).tree = u /\ SplitLeafNode(t, n).newchild = new
       /\ SplitLeafNode(t, n).newkey = LastKey(left)
  BY <1>4
<1>15. /\ u.node[n].level = leaf.level /\ u.node[n].childid = leaf.childid
       /\ u.node[n].next_leaf = new /\ slotuse(u.node[n]) = mid
  BY <1>3, <1>6, <1>8, <1>12 DEF slotuse
<1>16. /\ u.node[new].level = 0 /\ u.node[new].childid = <<>>
       /\ u.node[new].next_leaf = x
       /\ slotuse(u.node[new]) = slotuse(leaf) - mid
  BY <1>3, <1>5, <1>8, <1>12 DEF slotuse
<1>17. \A id \in NodeId \ {n, new} : Same(u, t, id)
  BY <1>11, <1>12 DEF Same
<1> QED  BY <1>1, <1>12, <1>13, <1>14, <1>15, <1>16, <1>17 DEF mid, leaf

(* A record put into leaf m.                                               *)
PutRecord(t, m, at, k, w) ==
  [t EXCEPT !.node[m].slotkey = InsertAt(@, at + 1, k),
            !.node[m].weight = InsertAt(@, at + 1, w)]

(* A record more in a leaf.                                                *)
LEMMA PutRecordEffect ==
  ASSUME NEW t, IsTree(t), NEW m \in NodeId, NEW k \in Int, NEW w,
         NEW at \in 0..slotuse(t.node[m])
  PROVE  LET u == PutRecord(t, m, at, k, w)
         IN  /\ IsTree(u) /\ u.root = t.root
             /\ u.node[m].level = t.node[m].level /\ u.node[m].childid = t.node[m].childid
             /\ u.node[m].next_leaf = t.node[m].next_leaf
             /\ slotuse(u.node[m]) = slotuse(t.node[m]) + 1
             /\ \A id \in NodeId \ {m} : u.node[id] = t.node[id]
<1> DEFINE o == t.node[m]
           k1 == InsertAt(o.slotkey, at + 1, k)
           w1 == InsertAt(o.weight, at + 1, w)
           left == [o EXCEPT !.slotkey = k1, !.weight = w1]
           node == [t.node EXCEPT ![m] = left]
           u    == [t EXCEPT !.node = node]
<1>1. IsNode(o) /\ o.slotkey \in Seq(Int) /\ at + 1 \in 1..(Len(o.slotkey) + 1)
  BY DEF IsTree, IsNode, slotuse
<1>2. PutRecord(t, m, at, k, w) = u
  BY <1>1 DEF PutRecord, IsTree, IsNode, Fields
<1>3. k1 \in Seq(Int) /\ Len(k1) = slotuse(o) + 1
  BY <1>1, InsertedLen DEF slotuse
<1> HIDE DEF o, k1, w1
<1>4. /\ IsNode(left) /\ left.level = o.level /\ left.childid = o.childid
      /\ left.next_leaf = o.next_leaf /\ left.slotkey = k1
  BY <1>1, <1>3 DEF IsNode, Fields
<1> HIDE DEF left
<1>5. /\ node = [id \in NodeId |-> node[id]] /\ node[m] = left
      /\ \A id \in NodeId \ {m} : node[id] = t.node[id]
  BY DEF IsTree
<1> HIDE DEF node
<1>6. \A id \in NodeId : IsNode(node[id])
  BY <1>4, <1>5 DEF IsTree
<1>7. IsTree(u) /\ u.node = node /\ u.root = t.root
  BY <1>5, <1>6 DEF IsTree
<1> HIDE DEF u
<1> QED  BY <1>2, <1>3, <1>4, <1>5, <1>7 DEF o, slotuse

(* insert_descend() at a leaf with room.                                   *)
LEMMA InsertIntoRoomEffect ==
  ASSUME NEW t, IsTree(t), NEW n \in NodeId, NEW k \in Int, NEW w, ~IsFull(t.node[n])
  PROVE  LET into == InsertIntoLeaf(t, n, k, w)
             u    == into.tree
         IN  /\ IsTree(u) /\ u.root = t.root /\ into.newchild = NULL
             /\ u.node[n].level = t.node[n].level /\ u.node[n].childid = t.node[n].childid
             /\ u.node[n].next_leaf = t.node[n].next_leaf
             /\ slotuse(u.node[n]) = slotuse(t.node[n]) + 1
             /\ \A id \in NodeId \ {n} : Same(u, t, id)
<1> DEFINE slot == FindLower(t.node[n], k)
           u == PutRecord(t, n, slot, k, w)
           key == IF slot = slotuse(t.node[n]) THEN k ELSE k
<1>1. slot \in 0..slotuse(t.node[n])
  BY FindLowerFound DEF IsTree, IsNode
<1>2. InsertIntoLeaf(t, n, k, w) = [tree |-> u, newchild |-> NULL, newkey |-> key]
  BY DEF InsertIntoLeaf, PutRecord
<1> HIDE DEF slot
<1>3. /\ IsTree(u) /\ u.root = t.root
      /\ u.node[n].level = t.node[n].level /\ u.node[n].childid = t.node[n].childid
      /\ u.node[n].next_leaf = t.node[n].next_leaf
      /\ slotuse(u.node[n]) = slotuse(t.node[n]) + 1
      /\ \A id \in NodeId \ {n} : u.node[id] = t.node[id]
  BY <1>1, PutRecordEffect
<1> HIDE DEF u, key
<1> QED  BY <1>2, <1>3 DEF Same, Alike

(* insert_descend() at a full leaf: both halves are at least half full.    *)
LEMMA InsertIntoFullEffect ==
  ASSUME NEW t, IsTree(t), NEW n \in NodeId, NEW k \in Int, NEW w, IsFull(t.node[n]),
         t.node[n].level = 0, FreeIds(t) # {},
         NEW x, x = t.node[n].next_leaf, x \in NodeId => t.node[x] # Free
  PROVE  LET into == InsertIntoLeaf(t, n, k, w)
             u    == into.tree
             new  == into.newchild
         IN  /\ IsTree(u) /\ u.root = t.root /\ new \in NodeId /\ new # n
             /\ t.node[new] = Free /\ into.newkey \in Int
             /\ u.node[n].level = 0 /\ u.node[n].childid = t.node[n].childid
             /\ u.node[n].next_leaf = new
             /\ slotuse(u.node[n]) \in (LeafSlots \div 2)..LeafSlots
             /\ u.node[new].level = 0 /\ u.node[new].childid = <<>>
             /\ u.node[new].next_leaf = x
             /\ slotuse(u.node[new]) \in (LeafSlots \div 2)..LeafSlots
             /\ \A id \in NodeId \ {n, new} : Same(u, t, id)
<1> DEFINE slot  == FindLower(t.node[n], k)
           split == SplitLeafNode(t, n)
           v     == split.tree
           new   == split.newchild
           left  == slotuse(v.node[n])
           right == slot >= left
           leaf  == IF right THEN new ELSE n
           at    == IF right THEN slot - left ELSE slot
           u     == PutRecord(v, leaf, at, k, w)
           key   == IF ~right /\ at = left THEN k ELSE split.newkey
           mid   == LeafSlots \div 2
<1>1. slotuse(t.node[n]) = LeafSlots /\ LeafSlots \in Nat /\ LeafSlots >= 4
  BY BTreeAssumption DEF IsFull, SlotMax, IsLeaf
<1>2. slot \in 0..LeafSlots
  BY <1>1, FindLowerFound DEF IsTree, IsNode
<1>3. t.node[n] # Free
  BY FreeIsNode
<1>4. /\ IsTree(v) /\ v.root = t.root /\ new \in NodeId /\ new # n
      /\ t.node[new] = Free /\ split.newkey \in Int
      /\ v.node[n].level = 0 /\ v.node[n].childid = t.node[n].childid
      /\ v.node[n].next_leaf = new /\ left = mid
      /\ v.node[new].level = 0 /\ v.node[new].childid = <<>>
      /\ v.node[new].next_leaf = x
      /\ slotuse(v.node[new]) = LeafSlots - mid
      /\ \A id \in NodeId \ {n, new} : Same(v, t, id)
  BY <1>1, <1>3, SplitLeafEffect
<1>5. new # NULL
  BY <1>4, NullApart
<1>6. InsertIntoLeaf(t, n, k, w) = [tree |-> u, newchild |-> new, newkey |-> key]
  BY <1>5 DEF InsertIntoLeaf, PutRecord
<1> HIDE DEF slot, split, v, new
<1>7. leaf \in NodeId /\ at \in 0..slotuse(v.node[leaf])
  BY <1>1, <1>2, <1>4
<1>8. mid \in 0..LeafSlots /\ mid + 1 <= LeafSlots /\ LeafSlots - mid >= mid
      /\ (LeafSlots - mid) + 1 <= LeafSlots
  BY <1>1
<1> HIDE DEF mid, at
<1>9. /\ IsTree(u) /\ u.root = v.root
      /\ u.node[leaf].level = v.node[leaf].level /\ u.node[leaf].childid = v.node[leaf].childid
      /\ u.node[leaf].next_leaf = v.node[leaf].next_leaf
      /\ slotuse(u.node[leaf]) = slotuse(v.node[leaf]) + 1
      /\ \A id \in NodeId \ {leaf} : u.node[id] = v.node[id]
  <2> HIDE DEF leaf
  <2> QED  BY <1>4, <1>7, PutRecordEffect
<1> HIDE DEF u
<1>10. key \in Int
  BY <1>4
<1> HIDE DEF key
<1>11. /\ u.node[n].level = 0 /\ u.node[n].childid = t.node[n].childid
       /\ u.node[n].next_leaf = new
       /\ slotuse(u.node[n]) \in mid..LeafSlots
       /\ u.node[new].level = 0 /\ u.node[new].childid = <<>>
       /\ u.node[new].next_leaf = x
       /\ slotuse(u.node[new]) \in mid..LeafSlots
       /\ \A id \in NodeId \ {n, new} : Same(u, t, id)
  <2>1. CASE right
    <3>1. leaf = new /\ slotuse(u.node[n]) = mid /\ slotuse(u.node[new]) = (LeafSlots - mid) + 1
      BY <2>1, <1>4, <1>9
    <3>2. slotuse(u.node[n]) \in mid..LeafSlots /\ slotuse(u.node[new]) \in mid..LeafSlots
      BY <3>1, <1>1, <1>8
    <3> QED  BY <3>1, <3>2, <1>4, <1>9 DEF Same
  <2>2. CASE ~right
    <3>1. leaf = n /\ slotuse(u.node[n]) = mid + 1 /\ slotuse(u.node[new]) = LeafSlots - mid
      BY <2>2, <1>4, <1>9
    <3>2. slotuse(u.node[n]) \in mid..LeafSlots /\ slotuse(u.node[new]) \in mid..LeafSlots
      BY <3>1, <1>1, <1>8
    <3> QED  BY <3>1, <3>2, <1>4, <1>9 DEF Same
  <2> QED  BY <2>1, <2>2
<1> QED  BY <1>4, <1>6, <1>9, <1>10, <1>11 DEF mid

(* Cutting what was cut, behind the cut and before it.                     *)
LEMMA CutAgain ==
  ASSUME NEW S, NEW s \in Seq(S), NEW i \in 0..Len(s), NEW m \in 0..(Len(s) - i)
  PROVE  /\ First(s, i) \o First(From(s, i), m) = First(s, i + m)
         /\ From(From(s, i), m) = From(s, i + m)
<1>1. First(s, i) \o First(From(s, i), m) = First(s, i + m)
  BY DEF First, From
<1>2. From(From(s, i), m) = From(s, i + m)
  BY DEF First, From
<1> QED  BY <1>1, <1>2

(* Cutting the first part once more.                                       *)
LEMMA CutBefore ==
  ASSUME NEW S, NEW s \in Seq(S), NEW i \in 0..Len(s), NEW m \in 0..i
  PROVE  /\ First(First(s, i), m) = First(s, m)
         /\ From(First(s, i), m) \o From(s, i) = From(s, m)
<1>1. First(First(s, i), m) = First(s, m)
  BY DEF First, From
<1>2. From(First(s, i), m) = SubSeq(s, m + 1, i)
  BY DEF First, From
<1>3. SubSeq(s, m + 1, i) \o SubSeq(s, i + 1, Len(s)) = SubSeq(s, m + 1, Len(s))
  <2> DEFINE a == m + 1
             b == Len(s)
  <2>1. a \in 1..(Len(s) + 1) /\ i \in (a - 1)..Len(s) /\ b \in i..Len(s)
    OBVIOUS
  <2> HIDE DEF a, b
  <2>2. SubSeq(s, a, i) \o SubSeq(s, i + 1, b) = SubSeq(s, a, b)
    BY <2>1, ConcatAdjacentSubSeq
  <2> QED  BY <2>2 DEF a, b
<1> QED  BY <1>1, <1>2, <1>3 DEF From

(* Joining is associative.                                                 *)
LEMMA ConcatThree ==
  ASSUME NEW S, NEW p, NEW q, NEW r, p \in Seq(S), q \in Seq(S), r \in Seq(S)
  PROVE  (p \o q) \o r = p \o (q \o r)
BY ConcatAssociative

(* An insertion is a cut with the element between the halves.              *)
LEMMA InsertedSplit ==
  ASSUME NEW S, NEW s \in Seq(S), NEW i \in 1..(Len(s) + 1), NEW e \in S
  PROVE  InsertAt(s, i, e) = (First(s, i - 1) \o <<e>>) \o From(s, i - 1)
BY Inserted

(* Inserting into the right half is inserting into the whole.              *)
LEMMA InsertRight ==
  ASSUME NEW S, NEW s \in Seq(S), NEW i \in 0..Len(s), NEW j \in (i + 1)..(Len(s) + 1),
         NEW e \in S
  PROVE  First(s, i) \o InsertAt(From(s, i), j - i, e) = InsertAt(s, j, e)
<1> DEFINE p == First(s, i)
           q == From(s, i)
           g == j - i
           m == g - 1
           x == First(q, m)
           y == From(q, m)
<1>1. /\ p \in Seq(S) /\ q \in Seq(S) /\ Len(q) = Len(s) - i
      /\ m \in 0..Len(q) /\ m \in 0..(Len(s) - i)
      /\ g \in 1..(Len(q) + 1) /\ j \in 1..(Len(s) + 1) /\ i + m = j - 1
  BY Halves
<1>2. p \o x = First(s, i + m) /\ y = From(s, i + m)
  <2> HIDE DEF m
  <2> QED  BY <1>1, CutAgain
<1> HIDE DEF p, q
<1>3. x \in Seq(S) /\ y \in Seq(S)
  <2> HIDE DEF m
  <2> QED  BY <1>1, Halves
<1>4. InsertAt(q, g, e) = (x \o <<e>>) \o y
  <2> HIDE DEF g
  <2>1. g \in 1..(Len(q) + 1) /\ q \in Seq(S)
    BY <1>1
  <2> QED  BY <2>1, InsertedSplit, Zenon
<1>5. InsertAt(s, j, e) = ((p \o x) \o <<e>>) \o y
  <2>1. InsertAt(s, j, e) = (First(s, j - 1) \o <<e>>) \o From(s, j - 1)
    <3>1. j \in 1..(Len(s) + 1)
      BY <1>1
    <3> QED  BY <3>1, InsertedSplit, Zenon
  <2> HIDE DEF x, y
  <2> QED  BY <2>1, <1>1, <1>2
<1> DEFINE o == <<e>>
           z == x \o o
<1>6. p \in Seq(S) /\ o \in Seq(S) /\ z \in Seq(S)
  BY <1>1, <1>3
<1> HIDE DEF x, y, g
<1>7. (p \o x) \o o = p \o z
  <2>1. p \in Seq(S) /\ x \in Seq(S) /\ o \in Seq(S)
    BY <1>1, <1>3, <1>6
  <2> HIDE DEF o
  <2> QED  BY <2>1, ConcatThree
<1>8. (p \o z) \o y = p \o (z \o y)
  <2>1. p \in Seq(S) /\ z \in Seq(S) /\ y \in Seq(S)
    BY <1>1, <1>3, <1>6
  <2> HIDE DEF z
  <2> QED  BY <2>1, ConcatThree
<1> QED  BY <1>4, <1>5, <1>7, <1>8 DEF p, q, g

(* Inserting into the left half is inserting into the whole.               *)
LEMMA InsertLeft ==
  ASSUME NEW S, NEW s \in Seq(S), NEW i \in 0..Len(s), NEW j \in 1..(i + 1), NEW e \in S
  PROVE  InsertAt(First(s, i), j, e) \o From(s, i) = InsertAt(s, j, e)
<1> DEFINE p == First(s, i)
           q == From(s, i)
           m == j - 1
           x == First(p, m)
           y == From(p, m)
<1>1. /\ p \in Seq(S) /\ q \in Seq(S) /\ Len(p) = i
      /\ m \in 0..Len(p) /\ m \in 0..i
      /\ j \in 1..(Len(p) + 1) /\ j \in 1..(Len(s) + 1)
  BY Halves
<1>2. x = First(s, m) /\ y \o q = From(s, m)
  <2> HIDE DEF m
  <2> QED  BY <1>1, CutBefore
<1> HIDE DEF p, q
<1>3. x \in Seq(S) /\ y \in Seq(S)
  <2> HIDE DEF m
  <2> QED  BY <1>1, Halves
<1>4. InsertAt(p, j, e) = (x \o <<e>>) \o y
  <2>1. p \in Seq(S) /\ j \in 1..(Len(p) + 1)
    BY <1>1
  <2> QED  BY <2>1, InsertedSplit, Zenon
<1>5. InsertAt(s, j, e) = (x \o <<e>>) \o (y \o q)
  <2>1. InsertAt(s, j, e) = (First(s, m) \o <<e>>) \o From(s, m)
    <3>1. j \in 1..(Len(s) + 1)
      BY <1>1
    <3> QED  BY <3>1, InsertedSplit, Zenon
  <2> HIDE DEF x, y
  <2> QED  BY <2>1, <1>2
<1> DEFINE z == x \o <<e>>
<1>6. q \in Seq(S) /\ z \in Seq(S)
  BY <1>1, <1>3
<1> HIDE DEF x, y
<1>7. (z \o y) \o q = z \o (y \o q)
  <2>1. z \in Seq(S) /\ y \in Seq(S) /\ q \in Seq(S)
    BY <1>3, <1>6
  <2> HIDE DEF z
  <2> QED  BY <2>1, ConcatThree
<1> QED  BY <1>4, <1>5, <1>7 DEF p, q

(* The halves when the new element goes first into the right one, and the  *)
(* one it takes the place of last into the left one.                       *)
LeftHalf(s, i) == Append(First(s, i), From(s, i)[1])
RightHalf(s, i, e) == [From(s, i) EXCEPT ![1] = e]

(* So is the special case of insert_descend(), where the new child goes    *)
(* between the halves.                                                     *)
LEMMA InsertMiddle ==
  ASSUME NEW S, NEW s \in Seq(S), NEW i \in 0..Len(s), i < Len(s), NEW e \in S
  PROVE  LET l == LeftHalf(s, i)
             r == RightHalf(s, i, e)
         IN  /\ l \in Seq(S) /\ Len(l) = i + 1
             /\ r \in Seq(S) /\ Len(r) = Len(s) - i
             /\ l \o r = InsertAt(s, i + 2, e)
<1> DEFINE p == First(s, i)
           q == From(s, i)
           m == i + 1
           a == q[1]
           l == Append(p, a)
           r == [q EXCEPT ![1] = e]
           j == i + 2
           x == First(s, m)
           y == From(s, m)
<1>1. /\ p \in Seq(S) /\ Len(p) = i /\ q \in Seq(S) /\ Len(q) = Len(s) - i
      /\ \A k \in 1..i : p[k] = s[k]
      /\ \A k \in 1..(Len(s) - i) : q[k] = s[i + k]
  BY Halves
<1>2. m \in 0..Len(s) /\ j \in 1..(Len(s) + 1) /\ j - 1 = m /\ 1 \in 1..(Len(s) - i)
      /\ i \in Nat /\ Len(s) \in Nat
  OBVIOUS
<1>3. /\ x \in Seq(S) /\ Len(x) = m /\ y \in Seq(S) /\ Len(y) = Len(s) - m
      /\ \A k \in 1..m : x[k] = s[k]
      /\ \A k \in 1..(Len(s) - m) : y[k] = s[m + k]
  <2>1. m \in 0..Len(s)
    BY <1>2
  <2> HIDE DEF m, p, q
  <2> QED  BY <2>1, Halves
<1>4. InsertAt(s, j, e) = (x \o <<e>>) \o y
  <2>1. InsertAt(s, j, e) = (First(s, j - 1) \o <<e>>) \o From(s, j - 1)
    <3> HIDE DEF j, m
    <3>1. j \in 1..(Len(s) + 1)
      BY <1>2
    <3> QED  BY <3>1, InsertedSplit, Zenon
  <2> HIDE DEF j, m
  <2>2. j - 1 = m
    BY <1>2
  <2> QED  BY <2>1, <2>2, Zenon
<1>5. a \in S /\ a = s[i + 1]
  <2> HIDE DEF q
  <2> QED  BY <1>1, <1>2
<1> HIDE DEF p, q, x, y, a
<1>6. l \in Seq(S) /\ Len(l) = i + 1 /\ l = x
  <2>1. l \in Seq(S) /\ Len(l) = i + 1 /\ \A k \in 1..(i + 1) : l[k] = s[k]
    BY <1>1, <1>2, <1>5
  <2> HIDE DEF l
  <2> QED  BY <2>1, <1>3
<1>7. r \in Seq(S) /\ Len(r) = Len(s) - i /\ r = <<e>> \o y
  <2>1. r \in Seq(S) /\ Len(r) = Len(s) - i
        /\ \A k \in 1..(Len(s) - i) : r[k] = IF k = 1 THEN e ELSE s[i + k]
    BY <1>1, <1>2
  <2> HIDE DEF r
  <2>2. /\ <<e>> \o y \in Seq(S) /\ Len(<<e>> \o y) = Len(s) - i
        /\ \A k \in 1..(Len(s) - i) : (<<e>> \o y)[k] = IF k = 1 THEN e ELSE y[k - 1]
    <3>1. <<e>> \in Seq(S) /\ Len(<<e>>) = 1 /\ <<e>>[1] = e /\ 1 + (Len(s) - m) = Len(s) - i
      BY <1>2
    <3> QED  BY <1>3, <3>1
  <2>3. \A k \in 1..(Len(s) - i) : k # 1 => y[k - 1] = s[i + k]
    <3>1. ASSUME NEW k \in 1..(Len(s) - i), k # 1 PROVE y[k - 1] = s[i + k]
      <4>1. k - 1 \in 1..(Len(s) - m) /\ m + (k - 1) = i + k
        BY <1>2, <3>1
      <4> QED  BY <4>1, <1>3
    <3> QED  BY <3>1
  <2> DEFINE z == <<e>> \o y
  <2> HIDE DEF z
  <2>4. z \in Seq(S) /\ Len(z) = Len(s) - i
        /\ \A k \in 1..(Len(s) - i) : z[k] = IF k = 1 THEN e ELSE y[k - 1]
    BY <2>2, Zenon DEF z
  <2>5. Len(r) = Len(z) /\ \A k \in 1..Len(r) : r[k] = z[k]
    BY <2>1, <2>3, <2>4, Zenon
  <2>6. r = z
    BY <2>1, <2>4, <2>5
  <2> QED  BY <2>1, <2>6 DEF z
<1> HIDE DEF l, r
<1>8. (x \o <<e>>) \o y = x \o (<<e>> \o y)
  <2>1. <<e>> \in Seq(S)
    OBVIOUS
  <2> QED  BY <2>1, <1>3, ConcatThree
<1> QED  BY <1>4, <1>6, <1>7, <1>8 DEF l, r, p, q, a, LeftHalf, RightHalf

(* Two nodes of the tree, or one, replaced.                                *)
Put(t, n, a) == [t EXCEPT !.node = [t.node EXCEPT ![n] = a]]
PutTwo(t, n, a, m, b) == [t EXCEPT !.node = [t.node EXCEPT ![n] = a, ![m] = b]]

(* Two nodes are written.                                                  *)
LEMMA TwoNodes ==
  ASSUME NEW t, IsTree(t), NEW n \in NodeId, NEW m \in NodeId, n # m,
         NEW a, IsNode(a), NEW b, IsNode(b)
  PROVE  LET u == PutTwo(t, n, a, m, b)
         IN  /\ IsTree(u) /\ u.root = t.root /\ u.node[n] = a /\ u.node[m] = b
             /\ \A id \in NodeId \ {n, m} : u.node[id] = t.node[id]
<1> DEFINE node == [t.node EXCEPT ![n] = a, ![m] = b]
           u == [t EXCEPT !.node = node]
<1>1. /\ node = [id \in NodeId |-> node[id]] /\ node[n] = a /\ node[m] = b
      /\ \A id \in NodeId \ {n, m} : node[id] = t.node[id]
  BY DEF IsTree
<1> HIDE DEF node
<1>2. \A id \in NodeId : IsNode(node[id])
  BY <1>1 DEF IsTree
<1>3. IsTree(u) /\ u.node = node /\ u.root = t.root
  BY <1>1, <1>2 DEF IsTree
<1> HIDE DEF u
<1> QED  BY <1>1, <1>3 DEF u, node, PutTwo

(* One node is written.                                                    *)
LEMMA OneNode ==
  ASSUME NEW t, IsTree(t), NEW n \in NodeId, NEW a, IsNode(a)
  PROVE  LET u == Put(t, n, a)
         IN  /\ IsTree(u) /\ u.root = t.root /\ u.node[n] = a
             /\ \A id \in NodeId \ {n} : u.node[id] = t.node[id]
<1> DEFINE node == [t.node EXCEPT ![n] = a]
           u == [t EXCEPT !.node = node]
<1>1. /\ node = [id \in NodeId |-> node[id]] /\ node[n] = a
      /\ \A id \in NodeId \ {n} : node[id] = t.node[id]
  BY DEF IsTree
<1> HIDE DEF node
<1>2. \A id \in NodeId : IsNode(node[id])
  BY <1>1 DEF IsTree
<1>3. IsTree(u) /\ u.node = node /\ u.root = t.root
  BY <1>1, <1>2 DEF IsTree
<1> HIDE DEF u
<1> QED  BY <1>1, <1>3 DEF u, node, Put

(* A child more in an inner node with room.                                *)
LEMMA PutChildEffect ==
  ASSUME NEW t, IsTree(t), NEW n \in NodeId, NEW slot \in 0..slotuse(t.node[n]),
         NEW key \in Int, NEW child \in NodeId,
         NEW c, c = t.node[n].childid, Len(c) = slotuse(t.node[n]) + 1
  PROVE  LET u == PutChild(t, n, slot, key, child)
         IN  /\ IsTree(u) /\ u.root = t.root
             /\ u.node[n].level = t.node[n].level
             /\ u.node[n].childid = InsertAt(c, slot + 2, child)
             /\ slotuse(u.node[n]) = slotuse(t.node[n]) + 1
             /\ Len(u.node[n].childid) = slotuse(u.node[n]) + 1
             /\ \A id \in NodeId \ {n} : u.node[id] = t.node[id]
<1> DEFINE o  == t.node[n]
           k1 == InsertAt(o.slotkey, slot + 1, key)
           c1 == InsertAt(c, slot + 2, child)
           w1 == [InsertAt(o.weight, slot + 2, CalculateWeight(t.node[child]))
                    EXCEPT ![slot + 1] = CalculateWeight(t.node[At(c, slot)])]
           a  == [o EXCEPT !.slotkey = k1, !.childid = c1, !.weight = w1]
           u  == Put(t, n, a)
<1>1. IsNode(o) /\ o.slotkey \in Seq(Int) /\ slot + 1 \in 1..(Len(o.slotkey) + 1)
      /\ c \in Seq(NodeId) /\ slot + 2 \in 1..(Len(c) + 1) /\ slotuse(o) \in Nat
  BY DEF IsTree, IsNode, slotuse
<1>2. PutChild(t, n, slot, key, child) = u
  BY DEF PutChild, Put
<1>3. k1 \in Seq(Int) /\ Len(k1) = slotuse(o) + 1
  <2>1. slot + 1 \in 1..(Len(o.slotkey) + 1) /\ o.slotkey \in Seq(Int)
    BY <1>1
  <2> HIDE DEF o
  <2>2. \A j \in 1..(Len(o.slotkey) + 1) :
          InsertAt(o.slotkey, j, key) \in Seq(Int)
          /\ Len(InsertAt(o.slotkey, j, key)) = Len(o.slotkey) + 1
    BY <2>1, InsertedLen
  <2> QED  BY <2>1, <2>2 DEF slotuse
<1>4. c1 \in Seq(NodeId) /\ Len(c1) = (slotuse(o) + 1) + 1
  <2> DEFINE j == slot + 2
  <2>1. j \in 1..(Len(c) + 1) /\ c \in Seq(NodeId)
    BY <1>1
  <2> HIDE DEF j, o
  <2>2. InsertAt(c, j, child) \in Seq(NodeId) /\ Len(InsertAt(c, j, child)) = Len(c) + 1
    BY <2>1, InsertedLen
  <2> QED  BY <2>2 DEF j, o
<1> HIDE DEF o, k1, c1, w1
<1>5. /\ IsNode(a) /\ a.level = o.level /\ a.childid = c1 /\ a.slotkey = k1
  BY <1>1, <1>3, <1>4 DEF IsNode, Fields
<1> HIDE DEF a
<1>6. /\ IsTree(u) /\ u.root = t.root /\ u.node[n] = a
      /\ \A id \in NodeId \ {n} : u.node[id] = t.node[id]
  BY <1>5, OneNode
<1> HIDE DEF u
<1>7. /\ u.node[n].level = o.level /\ u.node[n].childid = c1
      /\ slotuse(u.node[n]) = slotuse(o) + 1
      /\ Len(u.node[n].childid) = slotuse(u.node[n]) + 1
  BY <1>3, <1>4, <1>5, <1>6 DEF slotuse
<1> QED  BY <1>2, <1>6, <1>7 DEF o, c1

(* The number of keys the left half keeps.                                 *)
SplitAt(s, addslot) ==
  IF addslot <= s \div 2 /\ s \div 2 > s - (s \div 2 + 1) THEN s \div 2 - 1 ELSE s \div 2

(* What split_inner_node() does to the shape of the tree.                  *)
LEMMA SplitInnerEffect ==
  ASSUME NEW t, IsTree(t), NEW n \in NodeId, t.node[n] # Free, FreeIds(t) # {},
         NEW s, s = slotuse(t.node[n]),
         NEW c, c = t.node[n].childid, Len(c) = s + 1, NEW addslot,
         NEW mid \in 0..(s - 1), mid = SplitAt(s, addslot)
  PROVE  LET split == SplitInnerNode(t, n, addslot)
             u     == split.tree
             new   == split.newchild
         IN  /\ IsTree(u) /\ u.root = t.root /\ new \in NodeId /\ new # n
             /\ split = [tree |-> u, newkey |-> split.newkey, newchild |-> new]
             /\ t.node[new] = Free /\ split.newkey \in Int
             /\ u.node[n].level = t.node[n].level
             /\ u.node[n].childid = First(c, mid + 1) /\ slotuse(u.node[n]) = mid
             /\ u.node[new].level = t.node[n].level
             /\ u.node[new].childid = From(c, mid + 1)
             /\ slotuse(u.node[new]) = s - (mid + 1)
             /\ \A id \in NodeId \ {n, new} : u.node[id] = t.node[id]
<1> DEFINE o   == t.node[n]
           new == Fresh(t)
           cut == mid + 1
           k1  == First(o.slotkey, mid)
           c1  == First(c, cut)
           w1  == First(o.weight, cut)
           k2  == From(o.slotkey, cut)
           c2  == From(c, cut)
           w2  == From(o.weight, cut)
           a   == [o EXCEPT !.slotkey = k1, !.childid = c1, !.weight = w1]
           b   == [o EXCEPT !.slotkey = k2, !.childid = c2, !.weight = w2]
           u   == PutTwo(t, n, a, new, b)
           key == At(o.slotkey, mid)
<1>1. new \in NodeId /\ t.node[new] = Free /\ new # n
  BY FreshFound
<1>2. IsNode(o) /\ o.slotkey \in Seq(Int) /\ mid \in 0..Len(o.slotkey)
      /\ cut \in 0..Len(o.slotkey)
      /\ c \in Seq(NodeId) /\ cut \in 0..Len(c) /\ s \in Nat /\ s = Len(o.slotkey)
  BY DEF IsTree, IsNode, slotuse
<1>3. SplitInnerNode(t, n, addslot) = [tree |-> u, newkey |-> key, newchild |-> new]
  BY DEF SplitInnerNode, PutTwo, SplitAt
<1>4. /\ k1 \in Seq(Int) /\ Len(k1) = mid /\ k2 \in Seq(Int) /\ Len(k2) = s - cut
      /\ c1 \in Seq(NodeId) /\ c2 \in Seq(NodeId)
  <2> HIDE DEF o, cut
  <2>1. k1 \in Seq(Int) /\ Len(k1) = mid
    BY <1>2, Halves
  <2>2. k2 \in Seq(Int) /\ Len(k2) = s - cut
    <3>1. k2 \in Seq(Int) /\ Len(k2) = Len(o.slotkey) - cut
      BY <1>2, Halves, Zenon
    <3> QED  BY <3>1, <1>2
  <2>3. c1 \in Seq(NodeId) /\ c2 \in Seq(NodeId)
    BY <1>2, Halves
  <2> QED  BY <2>1, <2>2, <2>3
<1>5. key \in Int
  BY <1>2 DEF At, slotuse
<1> HIDE DEF o, new, k1, k2, c1, c2, w1, w2, cut, key
<1>6. IsNode(a) /\ a.level = o.level /\ a.childid = c1 /\ a.slotkey = k1
  BY <1>2, <1>4 DEF IsNode, Fields
<1>7. IsNode(b) /\ b.level = o.level /\ b.childid = c2 /\ b.slotkey = k2
  BY <1>2, <1>4 DEF IsNode, Fields
<1> HIDE DEF a, b
<1>8. /\ IsTree(u) /\ u.root = t.root /\ u.node[n] = a /\ u.node[new] = b
      /\ \A id \in NodeId \ {n, new} : u.node[id] = t.node[id]
  BY <1>1, <1>6, <1>7, TwoNodes
<1> HIDE DEF u
<1>9. /\ SplitInnerNode(t, n, addslot).tree = u
      /\ SplitInnerNode(t, n, addslot).newkey = key
      /\ SplitInnerNode(t, n, addslot).newchild = new
  BY <1>3
<1>10. /\ u.node[n].level = o.level /\ u.node[n].childid = c1 /\ slotuse(u.node[n]) = mid
       /\ u.node[new].level = o.level /\ u.node[new].childid = c2
       /\ slotuse(u.node[new]) = s - cut
  BY <1>4, <1>6, <1>7, <1>8 DEF slotuse
<1> QED  BY <1>1, <1>3, <1>5, <1>8, <1>9, <1>10 DEF o, c1, c2, cut

(* The three places the new child can go to leave both halves at least     *)
(* half full.                                                              *)
LEMMA SplitEven ==
  ASSUME NEW s \in Nat, s >= 2, NEW slot \in 0..s
  PROVE  LET mid  == SplitAt(s, slot)
             cut  == mid + 1
             rest == s - cut
             h    == s \div 2
         IN  /\ mid \in 0..(s - 1) /\ h \in Nat
             /\ slot = cut /\ mid < rest => cut \in h..s /\ rest \in h..s
             /\ ~(slot = cut /\ mid < rest) /\ slot >= cut =>
                  mid \in h..s /\ rest + 1 \in h..s /\ slot - cut \in 0..rest
             /\ ~(slot >= cut) => cut \in h..s /\ rest \in h..s /\ slot \in 0..mid
<1> DEFINE mid == SplitAt(s, slot)
           h == s \div 2
<1>1. h \in Nat /\ h >= 1 /\ (s = 2 * h \/ s = 2 * h + 1)
  OBVIOUS
<1>2. mid = IF slot <= h /\ h > s - (h + 1) THEN h - 1 ELSE h
  BY DEF SplitAt
<1> HIDE DEF mid, h
<1>3. CASE s = 2 * h
  BY <1>1, <1>2, <1>3 DEF mid, h
<1>4. CASE s = 2 * h + 1
  BY <1>1, <1>2, <1>4 DEF mid, h
<1> QED  BY <1>1, <1>3, <1>4

(* What an inner node is after a step: the children and the keys in use.   *)
Is(m, level, childs) ==
  /\ m.level = level /\ m.childid = childs /\ Len(childs) = slotuse(m) + 1

(* insert_descend() returning to an inner node with room.                  *)
LEMMA AddToRoomEffect ==
  ASSUME NEW t, IsTree(t), NEW n \in NodeId, ~IsFull(t.node[n]),
         NEW slot \in 0..slotuse(t.node[n]), NEW key \in Int, NEW child \in NodeId,
         NEW c, c = t.node[n].childid, Len(c) = slotuse(t.node[n]) + 1
  PROVE  LET put == AddChild(t, n, slot, key, child)
             u   == put.tree
         IN  /\ IsTree(u) /\ u.root = t.root /\ put.newchild = NULL
             /\ Is(u.node[n], t.node[n].level, InsertAt(c, slot + 2, child))
             /\ slotuse(u.node[n]) = slotuse(t.node[n]) + 1
             /\ \A id \in NodeId \ {n} : u.node[id] = t.node[id]
<1> DEFINE u == PutChild(t, n, slot, key, child)
<1>1. AddChild(t, n, slot, key, child) = [tree |-> u, newkey |-> key, newchild |-> NULL]
  BY DEF AddChild
<1>2. /\ IsTree(u) /\ u.root = t.root
      /\ u.node[n].level = t.node[n].level
      /\ u.node[n].childid = InsertAt(c, slot + 2, child)
      /\ slotuse(u.node[n]) = slotuse(t.node[n]) + 1
      /\ Len(u.node[n].childid) = slotuse(u.node[n]) + 1
      /\ \A id \in NodeId \ {n} : u.node[id] = t.node[id]
  BY PutChildEffect
<1> HIDE DEF u
<1> QED  BY <1>1, <1>2 DEF Is

(* The call split n: `all` are the children of the halves together.        *)
AddSplits(put, t, n, all) ==
  LET u   == put.tree
      new == put.newchild
  IN  /\ IsTree(u) /\ u.root = t.root /\ put.newkey \in Int
      /\ new \in NodeId /\ new # n /\ t.node[new] = Free
      /\ Is(u.node[n], t.node[n].level, u.node[n].childid)
      /\ Is(u.node[new], t.node[n].level, u.node[new].childid)
      /\ u.node[n].childid \o u.node[new].childid = all
      /\ slotuse(u.node[n]) \in (InnerSlots \div 2)..InnerSlots
      /\ slotuse(u.node[new]) \in (InnerSlots \div 2)..InnerSlots
      /\ \A id \in NodeId \ {n, new} : u.node[id] = t.node[id]

(* insert_descend() returning to a full inner node, in each of the three   *)
(* cases of SplitEven.                                                     *)
LEMMA AddToFullEffect ==
  ASSUME NEW t, IsTree(t), NEW n \in NodeId, IsFull(t.node[n]), t.node[n].level > 0,
         FreeIds(t) # {},
         NEW slot \in 0..slotuse(t.node[n]), NEW key \in Int, NEW child \in NodeId,
         NEW c, c = t.node[n].childid, Len(c) = slotuse(t.node[n]) + 1
  PROVE  AddSplits(AddChild(t, n, slot, key, child), t, n, InsertAt(c, slot + 2, child))
<1> DEFINE s     == slotuse(t.node[n])
           h     == InnerSlots \div 2
           mid   == SplitAt(s, slot)
           cut   == mid + 1
           rest  == s - cut
           split == SplitInnerNode(t, n, slot)
           st    == split.tree
           new   == split.newchild
           left  == st.node[n]
           right == st.node[new]
           put   == AddChild(t, n, slot, key, child)
           u     == put.tree
           all   == InsertAt(c, slot + 2, child)
           l     == t.node[n].level
<1> SUFFICES /\ IsTree(u) /\ u.root = t.root /\ put.newkey \in Int
             /\ put.newchild \in NodeId /\ put.newchild # n /\ t.node[put.newchild] = Free
             /\ Is(u.node[n], t.node[n].level, u.node[n].childid)
             /\ Is(u.node[put.newchild], t.node[n].level, u.node[put.newchild].childid)
             /\ u.node[n].childid \o u.node[put.newchild].childid = all
             /\ slotuse(u.node[n]) \in (InnerSlots \div 2)..InnerSlots
             /\ slotuse(u.node[put.newchild]) \in (InnerSlots \div 2)..InnerSlots
             /\ \A id \in NodeId \ {n, put.newchild} : u.node[id] = t.node[id]
  <2> HIDE DEF put, all, new
  <2> QED  BY Zenon DEF AddSplits, put, all
<1>1. s = InnerSlots /\ s \in Nat /\ s >= 2
  BY BTreeAssumption DEF IsFull, SlotMax, IsLeaf
<1>2. /\ mid \in 0..(s - 1) /\ h \in Nat
      /\ slot = cut /\ mid < rest => cut \in h..s /\ rest \in h..s
      /\ ~(slot = cut /\ mid < rest) /\ slot >= cut =>
           mid \in h..s /\ rest + 1 \in h..s /\ slot - cut \in 0..rest
      /\ ~(slot >= cut) => cut \in h..s /\ rest \in h..s /\ slot \in 0..mid
  <2>1. slot \in 0..s /\ h = s \div 2
    BY <1>1
  <2> HIDE DEF s, h
  <2> QED  BY <1>1, <2>1, SplitEven
<1>0. mid \in 0..(s - 1) /\ s \in Nat
  BY <1>1, <1>2
<1>3. t.node[n] # Free
  BY FreeIsNode
<1>4. /\ IsTree(st) /\ st.root = t.root /\ new \in NodeId /\ new # n
      /\ split = [tree |-> st, newkey |-> split.newkey, newchild |-> new]
      /\ t.node[new] = Free /\ split.newkey \in Int
      /\ left.level = l /\ left.childid = First(c, cut) /\ slotuse(left) = mid
      /\ right.level = l /\ right.childid = From(c, cut) /\ slotuse(right) = rest
      /\ \A id \in NodeId \ {n, new} : st.node[id] = t.node[id]
  <2> HIDE DEF mid
  <2>1. mid \in 0..(s - 1) /\ mid = SplitAt(s, slot) /\ Len(c) = s + 1
    BY <1>2 DEF mid
  <2> HIDE DEF s
  <2> QED  BY <1>3, <2>1, SplitInnerEffect DEF s
<1>5. /\ c \in Seq(NodeId) /\ Len(c) = s + 1 /\ cut \in 0..Len(c) /\ cut < Len(c)
      /\ First(c, cut) \in Seq(NodeId) /\ Len(First(c, cut)) = cut
      /\ From(c, cut) \in Seq(NodeId) /\ Len(From(c, cut)) = rest + 1
  <2>1. c \in Seq(NodeId) /\ Len(c) = s + 1
    BY DEF IsTree, IsNode
  <2> HIDE DEF mid, s
  <2>2. cut \in 0..Len(c) /\ cut < Len(c) /\ Len(c) - cut = rest + 1
    BY <1>0, <2>1
  <2> HIDE DEF cut
  <2> QED  BY <2>1, <2>2, Halves
<1>6. left \in Range(st.node) \cup {left} /\ slotuse(left) = mid /\ slotuse(right) = rest
  BY <1>4
<1>7. CASE slot = cut /\ mid < rest
  <2> DEFINE moved == At(right.childid, 0)
             a1 == Append(left.slotkey, split.newkey)
             a2 == Append(left.childid, moved)
             a3 == Append(left.weight, CalculateWeight(t.node[moved]))
             b2 == [right.childid EXCEPT ![1] = child]
             b3 == [right.weight EXCEPT ![1] = CalculateWeight(t.node[child])]
             a  == [left EXCEPT !.slotkey = a1, !.childid = a2, !.weight = a3]
             b  == [right EXCEPT !.childid = b2, !.weight = b3]
             v  == PutTwo(st, n, a, new, b)
  <2>1. put = [tree |-> v, newkey |-> key, newchild |-> new]
    <3>1. slot = slotuse(left) + 1 /\ slotuse(left) < slotuse(right)
      BY <1>4, <1>7
    <3> HIDE DEF split
    <3> QED  BY <3>1, Zenon DEF AddChild, PutTwo, split
  <2>2. IsNode(left) /\ IsNode(right) /\ left.slotkey \in Seq(Int)
        /\ Len(left.slotkey) = mid /\ right.slotkey \in Seq(Int) /\ Len(right.slotkey) = rest
    BY <1>4, Zenon DEF IsTree, IsNode, slotuse
  <2>3. a1 \in Seq(Int) /\ Len(a1) = cut
    BY <1>2, <1>4, <2>2
  <2>4. a2 \in Seq(NodeId) /\ Len(a2) = cut + 1 /\ b2 \in Seq(NodeId) /\ Len(b2) = rest + 1
        /\ a2 \o b2 = all
    <3>1. a2 = LeftHalf(c, cut) /\ b2 = RightHalf(c, cut, child)
          /\ all = InsertAt(c, cut + 2, child)
      <4>1. left.childid = First(c, cut) /\ right.childid = From(c, cut) /\ slot = cut
        BY <1>4, <1>7
      <4> HIDE DEF left, right, cut
      <4> QED  BY <4>1 DEF At, LeftHalf, RightHalf
    <3> HIDE DEF moved, a2, b2, all
    <3>2. c \in Seq(NodeId) /\ cut \in 0..Len(c) /\ cut < Len(c) /\ Len(c) - cut = rest + 1
      BY <1>0, <1>5
    <3> HIDE DEF cut, rest
    <3>3. /\ LeftHalf(c, cut) \in Seq(NodeId) /\ Len(LeftHalf(c, cut)) = cut + 1
          /\ RightHalf(c, cut, child) \in Seq(NodeId)
          /\ Len(RightHalf(c, cut, child)) = Len(c) - cut
          /\ LeftHalf(c, cut) \o RightHalf(c, cut, child) = InsertAt(c, cut + 2, child)
      <4>1. LeftHalf(c, cut) \in Seq(NodeId) /\ Len(LeftHalf(c, cut)) = cut + 1
        BY <3>2, InsertMiddle
      <4>2. RightHalf(c, cut, child) \in Seq(NodeId)
            /\ Len(RightHalf(c, cut, child)) = Len(c) - cut
        BY <3>2, InsertMiddle
      <4>3. LeftHalf(c, cut) \o RightHalf(c, cut, child) = InsertAt(c, cut + 2, child)
        BY <3>2, InsertMiddle
      <4> QED  BY <4>1, <4>2, <4>3
    <3> QED  BY <3>1, <3>2, <3>3
  <2> HIDE DEF a1, a2, a3, b2, b3, left, right
  <2>5. IsNode(a) /\ a.level = left.level /\ a.childid = a2 /\ a.slotkey = a1
    BY <2>2, <2>3, <2>4 DEF IsNode, Fields
  <2>6. IsNode(b) /\ b.level = right.level /\ b.childid = b2 /\ b.slotkey = right.slotkey
    BY <2>2, <2>4 DEF IsNode, Fields
  <2> HIDE DEF a, b, st, new
  <2>7. /\ IsTree(v) /\ v.root = st.root /\ v.node[n] = a /\ v.node[new] = b
        /\ \A id \in NodeId \ {n, new} : v.node[id] = st.node[id]
    BY <1>4, <2>5, <2>6, TwoNodes
  <2> HIDE DEF v, put
  <2>8. u = v /\ put.newchild = new /\ put.newkey = key
    BY <2>1
  <2>9. Is(a, l, a2) /\ Is(b, l, b2) /\ slotuse(a) = cut /\ slotuse(b) = rest
    BY <1>4, <2>2, <2>3, <2>4, <2>5, <2>6 DEF Is, slotuse
  <2> QED  BY <1>1, <1>2, <1>4, <1>7, <2>4, <2>5, <2>6, <2>7, <2>8, <2>9
           DEF put
<1>8. CASE ~(slot = cut /\ mid < rest) /\ slot >= cut
  <2> DEFINE at == slot - cut
             v  == PutChild(st, new, at, key, child)
  <2>1. put = [tree |-> v, newkey |-> split.newkey, newchild |-> new]
    <3>1. ~(slot = slotuse(left) + 1 /\ slotuse(left) < slotuse(right))
          /\ slot >= slotuse(left) + 1 /\ slot - (slotuse(left) + 1) = at
      BY <1>4, <1>8
    <3> HIDE DEF split, at
    <3>2. put = [split EXCEPT !.tree = v]
      BY <3>1 DEF AddChild, split
    <3> HIDE DEF v, put
    <3> QED  BY <3>2, <1>4
  <2>2. at \in 0..slotuse(st.node[new]) /\ Len(right.childid) = slotuse(st.node[new]) + 1
    BY <1>2, <1>4, <1>5, <1>8
  <2> DEFINE q == right.childid
  <2> HIDE DEF at, split, st, new
  <2>3. /\ IsTree(v) /\ v.root = st.root
        /\ v.node[new].level = st.node[new].level
        /\ v.node[new].childid = InsertAt(q, at + 2, child)
        /\ slotuse(v.node[new]) = slotuse(st.node[new]) + 1
        /\ Len(v.node[new].childid) = slotuse(v.node[new]) + 1
        /\ \A id \in NodeId \ {new} : v.node[id] = st.node[id]
    BY <1>4, <2>2, PutChildEffect
  <2>4. First(c, cut) \o InsertAt(q, at + 2, child) = all
    <3> DEFINE j == slot + 2
    <3>1. j \in (cut + 1)..(Len(c) + 1) /\ at + 2 = j - cut
      <4>1. slot \in Nat /\ slot >= cut /\ slot <= s
        BY <1>8
      <4> HIDE DEF s, mid
      <4> QED  BY <4>1, <1>0, <1>5 DEF at
    <3> HIDE DEF j, cut
    <3>2. First(c, cut) \o InsertAt(From(c, cut), j - cut, child) = InsertAt(c, j, child)
      BY <3>1, <1>5, InsertRight, Zenon
    <3> QED  BY <3>1, <3>2, <1>4 DEF j
  <2> HIDE DEF v, put, q, all
  <2>5. u = v /\ put.newchild = new /\ put.newkey = split.newkey
    BY <2>1
  <2>6. v.node[n] = left /\ n \in NodeId \ {new}
    BY <1>4, <2>3
  <2>7. Is(v.node[n], l, v.node[n].childid) /\ Is(v.node[new], l, v.node[new].childid)
        /\ slotuse(v.node[n]) = mid /\ slotuse(v.node[new]) = rest + 1
    BY <1>4, <1>5, <2>3, <2>6 DEF Is
  <2>8. v.node[n].childid \o v.node[new].childid = all
    BY <1>4, <2>3, <2>4, <2>6
  <2>9. \A id \in NodeId \ {n, new} : v.node[id] = t.node[id]
    BY <1>4, <2>3
  <2> QED  BY <1>1, <1>2, <1>4, <1>8, <2>3, <2>5, <2>7, <2>8, <2>9, Zenon DEF put, all
<1>9. CASE ~(slot >= cut)
  <2> DEFINE v  == PutChild(st, n, slot, key, child)
  <2>1. put = [tree |-> v, newkey |-> split.newkey, newchild |-> new]
    <3>1. ~(slot = slotuse(left) + 1 /\ slotuse(left) < slotuse(right))
          /\ ~(slot >= slotuse(left) + 1)
      BY <1>1, <1>2, <1>4, <1>9
    <3> HIDE DEF split
    <3>2. put = [split EXCEPT !.tree = v]
      BY <3>1 DEF AddChild, split
    <3> HIDE DEF v, put
    <3> QED  BY <3>2, <1>4
  <2>2. slot \in 0..slotuse(st.node[n]) /\ Len(left.childid) = slotuse(st.node[n]) + 1
    BY <1>2, <1>4, <1>5, <1>9
  <2> DEFINE q == left.childid
  <2> HIDE DEF split, st, new
  <2>3. /\ IsTree(v) /\ v.root = st.root
        /\ v.node[n].level = st.node[n].level
        /\ v.node[n].childid = InsertAt(q, slot + 2, child)
        /\ slotuse(v.node[n]) = slotuse(st.node[n]) + 1
        /\ Len(v.node[n].childid) = slotuse(v.node[n]) + 1
        /\ \A id \in NodeId \ {n} : v.node[id] = st.node[id]
    BY <1>4, <2>2, PutChildEffect
  <2>4. InsertAt(q, slot + 2, child) \o From(c, cut) = all
    <3> DEFINE j == slot + 2
    <3>1. j \in 1..(cut + 1)
      BY <1>1, <1>2, <1>5, <1>9
    <3> HIDE DEF j, cut
    <3>2. InsertAt(First(c, cut), j, child) \o From(c, cut) = InsertAt(c, j, child)
      BY <3>1, <1>5, InsertLeft
    <3> QED  BY <3>2, <1>4 DEF j
  <2> HIDE DEF v, put, q, all
  <2>5. u = v /\ put.newchild = new /\ put.newkey = split.newkey
    BY <2>1
  <2>6. v.node[new] = right /\ new \in NodeId \ {n}
    BY <1>4, <2>3
  <2>7. Is(v.node[n], l, v.node[n].childid) /\ Is(v.node[new], l, v.node[new].childid)
        /\ slotuse(v.node[n]) = cut /\ slotuse(v.node[new]) = rest
    BY <1>4, <1>5, <2>3, <2>6 DEF Is
  <2>8. v.node[n].childid \o v.node[new].childid = all
    BY <1>4, <2>3, <2>4, <2>6
  <2>9. \A id \in NodeId \ {n, new} : v.node[id] = t.node[id]
    BY <1>4, <2>3
  <2> QED  BY <1>1, <1>2, <1>4, <1>9, <2>3, <2>5, <2>7, <2>8, <2>9 DEF put, all
<1> QED  BY <1>7, <1>8, <1>9, Zenon

(* insert_start() growing the tree by a level.                             *)
LEMMA GrowRootEffect ==
  ASSUME NEW t, IsTree(t), FreeIds(t) # {}, t.root \in NodeId, NEW key \in Int,
         NEW child \in NodeId
  PROVE  LET u   == GrowRoot(t, key, child)
             new == u.root
         IN  /\ IsTree(u) /\ new \in NodeId /\ t.node[new] = Free
             /\ Is(u.node[new], t.node[t.root].level + 1, <<t.root, child>>)
             /\ slotuse(u.node[new]) = 1
             /\ \A id \in NodeId \ {new} : u.node[id] = t.node[id]
<1> DEFINE new == Fresh(t)
           l   == t.node[t.root].level + 1
           cs  == <<t.root, child>>
           w   == <<CalculateWeight(t.node[t.root]), CalculateWeight(t.node[child])>>
           k   == <<key>>
           a   == [Free EXCEPT !.level = l, !.slotkey = k, !.childid = cs, !.weight = w]
           v   == Put(t, new, a)
           u   == [v EXCEPT !.root = new]
<1>1. new \in NodeId /\ t.node[new] = Free
  BY FreshFound
<1>2. GrowRoot(t, key, child) = u
  BY DEF GrowRoot, Put, IsTree
<1>3. l \in Int /\ cs \in Seq(NodeId) /\ Len(cs) = 2 /\ k \in Seq(Int) /\ Len(k) = 1
  <2>1. IsNode(t.node[t.root])
    BY DEF IsTree
  <2>2. l \in Int
    BY <2>1 DEF IsNode
  <2>3. cs \in Seq(NodeId) /\ Len(cs) = 2
    OBVIOUS
  <2>4. k \in Seq(Int) /\ Len(k) = 1
    OBVIOUS
  <2> QED  BY <2>2, <2>3, <2>4
<1> HIDE DEF l, cs, w, k
<1>4. IsNode(a) /\ a.level = l /\ a.childid = cs /\ a.slotkey = k
  BY <1>3, FreeIsNode DEF IsNode, Fields
<1> HIDE DEF a, new
<1>5. IsTree(v) /\ v.node[new] = a /\ \A id \in NodeId \ {new} : v.node[id] = t.node[id]
  BY <1>1, <1>4, OneNode
<1> HIDE DEF v
<1>6. IsTree(u) /\ u.node = v.node /\ u.root = new
  BY <1>5 DEF IsTree
<1> HIDE DEF u
<1>7. slotuse(a) = 1
  BY <1>3, <1>4 DEF slotuse
<1> QED  BY <1>1, <1>2, <1>3, <1>4, <1>5, <1>6, <1>7 DEF Is, l, cs

(* A record taken out of leaf n.                                           *)
LEMMA WithoutEffect ==
  ASSUME NEW t, IsTree(t), NEW n \in NodeId, NEW slot \in 0..(slotuse(t.node[n]) - 1)
  PROVE  LET u == [t EXCEPT !.node[n] = Without(@, slot)]
         IN  /\ IsTree(u) /\ u.root = t.root
             /\ u.node[n].level = t.node[n].level /\ u.node[n].childid = t.node[n].childid
             /\ u.node[n].next_leaf = t.node[n].next_leaf
             /\ slotuse(u.node[n]) = slotuse(t.node[n]) - 1
             /\ u.node[n] = Without(t.node[n], slot)
             /\ \A id \in NodeId \ {n} : u.node[id] = t.node[id]
<1> DEFINE o == t.node[n]
           k == RemoveAt(o.slotkey, slot + 1)
           w == RemoveAt(o.weight, slot + 1)
           a == [o EXCEPT !.slotkey = k, !.weight = w]
           u == Put(t, n, a)
<1>1. IsNode(o) /\ o.slotkey \in Seq(Int) /\ slot + 1 \in 1..Len(o.slotkey)
  BY DEF IsTree, IsNode, slotuse
<1>2. [t EXCEPT !.node[n] = Without(@, slot)] = u /\ Without(o, slot) = a
  BY DEF Put, Without, IsTree
<1>3. k \in Seq(Int) /\ Len(k) = slotuse(o) - 1
  BY <1>1, Removed DEF slotuse
<1> HIDE DEF o, k, w
<1>4. IsNode(a) /\ a.level = o.level /\ a.childid = o.childid /\ a.next_leaf = o.next_leaf
      /\ a.slotkey = k
  BY <1>1, <1>3 DEF IsNode, Fields
<1> HIDE DEF a
<1>5. /\ IsTree(u) /\ u.root = t.root /\ u.node[n] = a
      /\ \A id \in NodeId \ {n} : u.node[id] = t.node[id]
  BY <1>4, OneNode
<1> HIDE DEF u
<1> QED  BY <1>2, <1>3, <1>4, <1>5 DEF o, slotuse

(* New keys or weights in a node that is in use leave every node alike.    *)
LEMMA AlikeEffect ==
  ASSUME NEW t, IsTree(t), NEW n \in NodeId, slotuse(t.node[n]) >= 1,
         NEW a, IsNode(a), Alike(a, t.node[n])
  PROVE  LET u == Put(t, n, a)
         IN  /\ IsTree(u) /\ u.root = t.root /\ \A id \in NodeId : Same(u, t, id)
             /\ \A id \in NodeId \ {n} : u.node[id] = t.node[id]
<1> DEFINE u == Put(t, n, a)
<1>1. /\ IsTree(u) /\ u.root = t.root /\ u.node[n] = a
      /\ \A id \in NodeId \ {n} : u.node[id] = t.node[id]
  BY OneNode
<1> HIDE DEF u
<1>2. t.node[n] # Free
  BY FreeIsNode DEF slotuse
<1>3. \A id \in NodeId : Same(u, t, id)
  BY <1>1, <1>2 DEF Same, Alike
<1> QED  BY <1>1, <1>3 DEF u

(* Telling the parent of a new greatest key changes no shape.              *)
LEMMA TellEffect ==
  ASSUME NEW t, IsTree(t), NEW f, f.parent \in Parents, f.parentslot \in Nat, NEW key \in Int
  PROVE  LET told == TellParent(t, f, key)
             u    == told.tree
         IN  /\ IsTree(u) /\ u.root = t.root /\ \A id \in NodeId : Same(u, t, id)
             /\ \A id \in NodeId \ {f.parent} : u.node[id] = t.node[id]
             /\ told.flags \in {{}, {"update_lastkey"}}
<1>1. CASE f.parent # NULL /\ f.parentslot < slotuse(t.node[f.parent])
  <2> DEFINE n == f.parent
             o == t.node[n]
             i == f.parentslot + 1
             k == [o.slotkey EXCEPT ![i] = key]
             a == [o EXCEPT !.slotkey = k]
             u == Put(t, n, a)
  <2>1. n \in NodeId /\ IsNode(o) /\ o.slotkey \in Seq(Int) /\ i \in 1..Len(o.slotkey)
        /\ slotuse(o) >= 1
    BY <1>1 DEF Parents, IsTree, IsNode, slotuse
  <2>2. TellParent(t, f, key) = [tree |-> u, flags |-> {}]
    BY <1>1, <2>1 DEF TellParent, Put, IsTree, IsNode, Fields
  <2> HIDE DEF n, o, i
  <2>3. k \in Seq(Int) /\ Len(k) = Len(o.slotkey)
    BY <2>1
  <2> HIDE DEF k
  <2>4. IsNode(a) /\ Alike(a, o)
    BY <2>1, <2>3 DEF IsNode, Fields, Alike, slotuse
  <2> HIDE DEF a
  <2>5. /\ IsTree(u) /\ u.root = t.root /\ \A id \in NodeId : Same(u, t, id)
        /\ \A id \in NodeId \ {n} : u.node[id] = t.node[id]
    BY <2>1, <2>4, AlikeEffect DEF o
  <2> HIDE DEF u
  <2> QED  BY <2>2, <2>5 DEF n
<1>2. CASE ~(f.parent # NULL /\ f.parentslot < slotuse(t.node[f.parent]))
  <2>1. TellParent(t, f, key) = [tree |-> t, flags |-> {"update_lastkey"}]
    BY <1>2 DEF TellParent
  <2> QED  BY <2>1 DEF Same, Alike
<1> QED  BY <1>1, <1>2

NewWeight(t, n, i, d) == [t EXCEPT !.node[n].weight[i] = d]

(* Nor does writing a weight.                                              *)
LEMMA NewWeightEffect ==
  ASSUME NEW t, IsTree(t), NEW n \in NodeId, slotuse(t.node[n]) >= 1, NEW i, NEW d
  PROVE  /\ IsTree(NewWeight(t, n, i, d)) /\ NewWeight(t, n, i, d).root = t.root
         /\ \A id \in NodeId : Same(NewWeight(t, n, i, d), t, id)
<1> DEFINE o == t.node[n]
           w == [o.weight EXCEPT ![i] = d]
           a == [o EXCEPT !.weight = w]
           u == Put(t, n, a)
<1>1. IsNode(o)
  BY DEF IsTree
<1>2. NewWeight(t, n, i, d) = u
  BY <1>1 DEF NewWeight, Put, IsTree, IsNode, Fields
<1> HIDE DEF w
<1>3. IsNode(a) /\ Alike(a, o)
  BY <1>1 DEF IsNode, Fields, Alike, slotuse
<1> HIDE DEF a
<1>4. /\ IsTree(u) /\ u.root = t.root /\ \A id \in NodeId : Same(u, t, id)
  BY <1>3, AlikeEffect
<1> HIDE DEF u
<1> QED  BY <1>2, <1>4

(* Node r emptied into its left neighbour l.                               *)
Merged(u, t, l, r) ==
  /\ IsTree(u) /\ u.root = t.root
  /\ u.node[l].level = t.node[l].level
  /\ u.node[l].childid = t.node[l].childid \o t.node[r].childid
  /\ t.node[l].level = 0 => u.node[l].next_leaf = t.node[r].next_leaf
  /\ slotuse(u.node[l]) = slotuse(t.node[l]) + slotuse(t.node[r])
                            + IF IsLeaf(t.node[l]) THEN 0 ELSE 1
  /\ slotuse(u.node[r]) = 0
  /\ \A id \in NodeId \ {l, r} : Same(u, t, id)

(* Records or children moved between the neighbours l and r.               *)
Shifted(u, t, l, r) ==
  /\ IsTree(u) /\ u.root = t.root
  /\ \A id \in {l, r} : /\ u.node[id].level = t.node[id].level
                        /\ u.node[id].next_leaf = t.node[id].next_leaf
  /\ u.node[l].childid \o u.node[r].childid = t.node[l].childid \o t.node[r].childid
  /\ slotuse(u.node[l]) + slotuse(u.node[r]) = slotuse(t.node[l]) + slotuse(t.node[r])
  /\ slotuse(u.node[l]) - slotuse(u.node[r]) \in -1..1
  /\ IF IsLeaf(t.node[l]) THEN /\ u.node[l].childid = t.node[l].childid
                               /\ u.node[r].childid = t.node[r].childid
     ELSE /\ Len(u.node[l].childid) = slotuse(u.node[l]) + 1
          /\ Len(u.node[r].childid) = slotuse(u.node[r]) + 1
  /\ \A id \in NodeId \ {l, r} : Same(u, t, id)

(* The length of two sequences joined.                                     *)
LEMMA TwoJoined ==
  ASSUME NEW S, NEW p, NEW q, p \in Seq(S), q \in Seq(S)
  PROVE  p \o q \in Seq(S) /\ Len(p \o q) = Len(p) + Len(q) /\ Len(p) \in Nat /\ Len(q) \in Nat
<1>1. p \o q \in Seq(S)
  OBVIOUS
<1>2. Len(p \o q) = Len(p) + Len(q)
  OBVIOUS
<1>3. Len(p) \in Nat /\ Len(q) \in Nat
  OBVIOUS
<1> QED  BY <1>1, <1>2, <1>3

(* The length of two sequences joined with an element between.             *)
LEMMA ThreeJoined ==
  ASSUME NEW S, NEW p, NEW d, NEW q, p \in Seq(S), d \in S, q \in Seq(S)
  PROVE  /\ (p \o <<d>>) \o q \in Seq(S)
         /\ Len((p \o <<d>>) \o q) = Len(p) + Len(q) + 1
<1> DEFINE o == <<d>>
<1>1. o \in Seq(S) /\ Len(o) = 1
  OBVIOUS
<1> HIDE DEF o
<1>2. p \o o \in Seq(S) /\ Len(p \o o) = Len(p) + Len(o)
  BY <1>1, TwoJoined
<1> DEFINE z == p \o o
<1> HIDE DEF z
<1>3. z \in Seq(S) /\ Len(z) = Len(p) + 1
  BY <1>1, <1>2 DEF z
<1>4. z \o q \in Seq(S) /\ Len(z \o q) = Len(z) + Len(q) /\ Len(q) \in Nat
  BY <1>3, TwoJoined
<1>5. Len(p) \in Nat
  OBVIOUS
<1>6. Len(z \o q) = Len(p) + Len(q) + 1
  BY <1>3, <1>4, <1>5
<1> QED  BY <1>4, <1>6 DEF z, o

(* merge_leaves() moves everything into the left leaf and unlinks the      *)
(* right one.                                                              *)
LEMMA MergeLeavesEffect ==
  ASSUME NEW t, IsTree(t), NEW p, NEW l \in NodeId, NEW r \in NodeId, l # r,
         p.left = l, p.right = r, t.node[l].level = 0, t.node[r].childid = <<>>,
         NEW x, x = t.node[r].next_leaf, x \in NodeId => t.node[x] # Free
  PROVE  Merged(MergeLeaves(t, p), t, l, r)
<1> DEFINE a  == t.node[l]
           b  == t.node[r]
           k  == a.slotkey \o b.slotkey
           w  == a.weight \o b.weight
           e  == <<>>
           a2 == [a EXCEPT !.slotkey = k, !.weight = w, !.next_leaf = x]
           b2 == [b EXCEPT !.slotkey = e, !.weight = e]
           Moved(id) == [t.node[id] EXCEPT !.prev_leaf = l]
           node == [id \in NodeId |->
                      IF id = l THEN a2 ELSE IF id = r THEN b2
                      ELSE IF id = x THEN Moved(id) ELSE t.node[id]]
           u == [t EXCEPT !.node = node,
                          !.tail_leaf = IF x = NULL THEN l ELSE t.tail_leaf]
<1>1. MergeLeaves(t, p) = u
  BY DEF MergeLeaves
<1>2. IsNode(a) /\ IsNode(b) /\ a.slotkey \in Seq(Int) /\ b.slotkey \in Seq(Int)
      /\ a.childid \in Seq(NodeId) /\ a.level = 0 /\ b.childid = <<>>
  BY DEF IsTree, IsNode
<1>3. k \in Seq(Int) /\ Len(k) = Len(a.slotkey) + Len(b.slotkey) /\ e \in Seq(Int) /\ Len(e) = 0
  BY <1>2
<1> HIDE DEF a, b, k, w, e
<1>4. IsNode(a2) /\ a2.level = a.level /\ a2.childid = a.childid /\ a2.next_leaf = x
      /\ a2.slotkey = k
  BY <1>2, <1>3 DEF IsNode, Fields
<1>5. IsNode(b2) /\ b2.slotkey = e
  BY <1>2, <1>3 DEF IsNode, Fields
<1>6. ASSUME NEW id \in NodeId
      PROVE  IsNode(Moved(id)) /\ Alike(Moved(id), t.node[id])
  <2>1. IsNode(t.node[id])
    BY DEF IsTree
  <2> QED  BY <2>1 DEF IsNode, Fields, Alike, slotuse
<1> HIDE DEF a2, b2, Moved
<1>7. /\ node[l] = a2 /\ node[r] = b2
      /\ \A id \in NodeId \ {l, r} :
           node[id] = IF id = x THEN Moved(id) ELSE t.node[id]
      /\ node = [id \in NodeId |-> node[id]]
  OBVIOUS
<1> HIDE DEF node
<1>8. \A id \in NodeId : IsNode(node[id])
  BY <1>4, <1>5, <1>6, <1>7 DEF IsTree
<1>9. \A id \in NodeId \ {l, r} :
        Alike(node[id], t.node[id]) /\ (t.node[id] = Free => node[id] = Free)
  <2> SUFFICES ASSUME NEW id \in NodeId \ {l, r}
               PROVE  Alike(node[id], t.node[id]) /\ (t.node[id] = Free => node[id] = Free)
    OBVIOUS
  <2>1. CASE id = x
    BY <1>6, <1>7, <2>1
  <2>2. CASE id # x
    BY <1>7, <2>2 DEF Alike
  <2> QED  BY <2>1, <2>2
<1>10. IsTree(u) /\ u.node = node /\ u.root = t.root
  BY <1>7, <1>8 DEF IsTree
<1> HIDE DEF u
<1>11. \A id \in NodeId \ {l, r} : Same(u, t, id)
  BY <1>9, <1>10 DEF Same
<1>12. u.node[l].childid = t.node[l].childid \o t.node[r].childid
  BY <1>2, <1>4, <1>7, <1>10, ConcatEmptySeq DEF a, b
<1>13. /\ slotuse(u.node[l]) = slotuse(a) + slotuse(b) + 0 /\ slotuse(u.node[r]) = 0
       /\ IsLeaf(a)
  <2>1. Len(a.slotkey) \in Nat /\ Len(b.slotkey) \in Nat
    BY <1>2
  <2>2. u.node[l].slotkey = k /\ u.node[r].slotkey = e
    BY <1>4, <1>5, <1>7, <1>10
  <2>3. Len(u.node[l].slotkey) = Len(a.slotkey) + Len(b.slotkey)
    BY <1>3, <2>2
  <2>4. Len(u.node[r].slotkey) = 0
    BY <1>3, <2>2
  <2>5. slotuse(u.node[l]) = slotuse(a) + slotuse(b)
    BY <2>3 DEF slotuse
  <2>6. slotuse(a) + slotuse(b) = slotuse(a) + slotuse(b) + 0
    BY <2>1 DEF slotuse
  <2>7. IsLeaf(a) /\ slotuse(u.node[r]) = 0
    BY <1>2, <2>4 DEF slotuse, IsLeaf
  <2> QED  BY <2>5, <2>6, <2>7
<1>14. u.node[l].level = a.level /\ u.node[l].next_leaf = x
  BY <1>4, <1>7, <1>10
<1> QED  BY <1>1, <1>10, <1>11, <1>12, <1>13, <1>14 DEF Merged, a, b

(* merge_inner() does, with the separator between them.                    *)
LEMMA MergeInnerEffect ==
  ASSUME NEW t, IsTree(t), NEW p, NEW l \in NodeId, NEW r \in NodeId, l # r,
         p.left = l, p.right = r, t.node[l].level # 0, p.parent \in NodeId,
         p.slot \in 0..(slotuse(t.node[p.parent]) - 1)
  PROVE  Merged(MergeInner(t, p), t, l, r)
<1> DEFINE a  == t.node[l]
           b  == t.node[r]
           down == At(t.node[p.parent].slotkey, p.slot)
           k  == (a.slotkey \o <<down>>) \o b.slotkey
           c  == a.childid \o b.childid
           w  == a.weight \o b.weight
           e  == <<>>
           a2 == [a EXCEPT !.slotkey = k, !.childid = c, !.weight = w]
           b2 == [b EXCEPT !.slotkey = e, !.childid = e, !.weight = e]
           u  == PutTwo(t, l, a2, r, b2)
<1>1. MergeInner(t, p) = u
  BY DEF MergeInner, PutTwo
<1>2. IsNode(a) /\ IsNode(b) /\ a.slotkey \in Seq(Int) /\ b.slotkey \in Seq(Int)
      /\ a.childid \in Seq(NodeId) /\ b.childid \in Seq(NodeId) /\ a.level # 0
  BY DEF IsTree, IsNode
<1>3. down \in Int
  <2>1. t.node[p.parent].slotkey \in Seq(Int)
    BY DEF IsTree, IsNode
  <2> QED  BY <2>1 DEF At, slotuse
<1> HIDE DEF a, b, down
<1>5. k \in Seq(Int) /\ Len(k) = Len(a.slotkey) + Len(b.slotkey) + 1
  <2> DEFINE x == a.slotkey
             y == b.slotkey
  <2>1. x \in Seq(Int) /\ y \in Seq(Int)
    BY <1>2
  <2> HIDE DEF x, y
  <2>2. (x \o <<down>>) \o y \in Seq(Int) /\ Len((x \o <<down>>) \o y) = Len(x) + Len(y) + 1
    BY <1>3, <2>1, ThreeJoined
  <2> QED  BY <2>2 DEF x, y
<1>6. c \in Seq(NodeId)
  BY <1>2
<1>7. e \in Seq(Int) /\ e \in Seq(NodeId) /\ Len(e) = 0
  OBVIOUS
<1> HIDE DEF k, c, w, e
<1>9. IsNode(a2) /\ a2.level = a.level /\ a2.childid = c /\ a2.slotkey = k
  BY <1>2, <1>5, <1>6 DEF IsNode, Fields
<1>10. IsNode(b2) /\ b2.slotkey = e
  BY <1>2, <1>7 DEF IsNode, Fields
<1> HIDE DEF a2, b2
<1>11. /\ IsTree(u) /\ u.root = t.root /\ u.node[l] = a2 /\ u.node[r] = b2
       /\ \A id \in NodeId \ {l, r} : u.node[id] = t.node[id]
  BY <1>9, <1>10, TwoNodes
<1> HIDE DEF u
<1>12. \A id \in NodeId \ {l, r} : Same(u, t, id)
  BY <1>11 DEF Same, Alike
<1>13. /\ slotuse(u.node[l]) = slotuse(a) + slotuse(b) + 1 /\ slotuse(u.node[r]) = 0
       /\ ~IsLeaf(a)
  <2>1. u.node[l].slotkey = k /\ u.node[r].slotkey = e
    BY <1>9, <1>10, <1>11
  <2>2. Len(u.node[l].slotkey) = Len(a.slotkey) + Len(b.slotkey) + 1
    BY <1>5, <2>1
  <2>3. Len(u.node[r].slotkey) = 0
    BY <1>7, <2>1
  <2> QED  BY <1>2, <2>2, <2>3 DEF slotuse, IsLeaf
<1>14. u.node[l].level = a.level /\ u.node[l].childid = c
  BY <1>9, <1>11
<1> QED  BY <1>1, <1>11, <1>12, <1>13, <1>14 DEF Merged, a, b, c

(* What the four shifts have in common.                                    *)
LEMMA RebalancedEffect ==
  ASSUME NEW t, IsTree(t), NEW p, NEW l \in NodeId, NEW r \in NodeId, l # r,
         p.left = l, p.right = r, NEW q \in NodeId, p.parent = q, q # l, q # r,
         p.slot \in 0..(slotuse(t.node[q]) - 1),
         NEW a, IsNode(a), NEW b, IsNode(b), NEW separator \in Int
  PROVE  LET u == Rebalanced(t, p, a, b, separator)
         IN  /\ IsTree(u) /\ u.root = t.root /\ u.node[l] = a /\ u.node[r] = b
             /\ \A id \in NodeId \ {l, r} : Same(u, t, id)
<1> DEFINE o == t.node[q]
           i == p.slot + 1
           k == [o.slotkey EXCEPT ![i] = separator]
           w == [o.weight EXCEPT ![i] = CalculateWeight(a)]
           v == [w EXCEPT ![p.slot + 2] = CalculateWeight(b)]
           m == [o EXCEPT !.slotkey = k, !.weight = v]
           s == PutTwo(t, l, a, r, b)
           u == Put(s, q, m)
<1>1. IsNode(o) /\ o.slotkey \in Seq(Int) /\ i \in 1..Len(o.slotkey) /\ slotuse(o) >= 1
  BY DEF IsTree, IsNode, slotuse
<1>2. Rebalanced(t, p, a, b, separator) = u
  BY <1>1 DEF Rebalanced, Put, PutTwo, IsTree, IsNode, Fields
<1>3. k \in Seq(Int) /\ Len(k) = Len(o.slotkey)
  BY <1>1
<1> HIDE DEF o, i, k, w, v
<1>4. IsNode(m) /\ Alike(m, o)
  BY <1>1, <1>3 DEF IsNode, Fields, Alike, slotuse
<1> HIDE DEF m
<1>5. /\ IsTree(s) /\ s.root = t.root /\ s.node[l] = a /\ s.node[r] = b
      /\ \A id \in NodeId \ {l, r} : s.node[id] = t.node[id]
  BY TwoNodes
<1> HIDE DEF s
<1>6. s.node[q] = o
  BY <1>5 DEF o
<1>7. /\ IsTree(u) /\ u.root = s.root /\ \A id \in NodeId : Same(u, s, id)
      /\ \A id \in NodeId \ {q} : u.node[id] = s.node[id]
  BY <1>1, <1>4, <1>5, <1>6, AlikeEffect
<1> HIDE DEF u
<1>8. \A id \in NodeId \ {l, r} : Same(u, t, id)
  BY <1>5, <1>7 DEF Same
<1> QED  BY <1>2, <1>5, <1>7, <1>8

(* Half the difference moved leaves the two sizes at most one apart.       *)
LEMMA Even ==
  ASSUME NEW x \in Nat, NEW y \in Nat, y - x >= 2
  PROVE  LET m == (y - x) \div 2
         IN  /\ m \in 1..(y - 1) /\ y - m \in 1..(y - 1)
             /\ (x + m) - (y - m) \in -1..1 /\ (y - m) - (x + m) \in -1..1
             /\ (x + m) + (y - m) = x + y
  OBVIOUS

(* The halves joined are the sequence.                                     *)
LEMMA Rejoined ==
  ASSUME NEW S, NEW s \in Seq(S), NEW m \in 0..Len(s)
  PROVE  First(s, m) \o From(s, m) = s
<1> DEFINE a == 1
           b == Len(s)
<1>1. a \in 1..(Len(s) + 1) /\ m \in (a - 1)..Len(s) /\ b \in m..Len(s)
  OBVIOUS
<1>2. SubSeq(s, a, b) = s
  OBVIOUS
<1> HIDE DEF a, b
<1>3. SubSeq(s, a, m) \o SubSeq(s, m + 1, b) = SubSeq(s, a, b)
  BY <1>1, ConcatAdjacentSubSeq
<1> QED  BY <1>2, <1>3, Zenon DEF First, From, a, b

(* The first m elements of q move to the end of p.                         *)
LEMMA MoveLeft ==
  ASSUME NEW S, NEW p \in Seq(S), NEW q \in Seq(S), NEW m \in 0..Len(q)
  PROVE  /\ p \o First(q, m) \in Seq(S) /\ Len(p \o First(q, m)) = Len(p) + m
         /\ From(q, m) \in Seq(S) /\ Len(From(q, m)) = Len(q) - m
         /\ (p \o First(q, m)) \o From(q, m) = p \o q
<1> DEFINE x == First(q, m)
           y == From(q, m)
<1>1. x \in Seq(S) /\ Len(x) = m /\ y \in Seq(S) /\ Len(y) = Len(q) - m
  BY Halves
<1>2. x \o y = q
  BY Rejoined
<1> HIDE DEF x, y
<1>3. p \o x \in Seq(S) /\ Len(p \o x) = Len(p) + Len(x)
  BY <1>1, TwoJoined
<1>4. (p \o x) \o y = p \o (x \o y)
  BY <1>1, ConcatThree
<1> QED  BY <1>1, <1>2, <1>3, <1>4 DEF x, y

(* The last elements of p move to the front of q.                          *)
LEMMA MoveRight ==
  ASSUME NEW S, NEW p \in Seq(S), NEW q \in Seq(S), NEW m \in 0..Len(p)
  PROVE  /\ First(p, m) \in Seq(S) /\ Len(First(p, m)) = m
         /\ From(p, m) \o q \in Seq(S) /\ Len(From(p, m) \o q) = Len(p) - m + Len(q)
         /\ First(p, m) \o (From(p, m) \o q) = p \o q
<1> DEFINE x == First(p, m)
           y == From(p, m)
<1>1. x \in Seq(S) /\ Len(x) = m /\ y \in Seq(S) /\ Len(y) = Len(p) - m
  BY Halves
<1>2. x \o y = p
  BY Rejoined
<1> HIDE DEF x, y
<1>3. y \o q \in Seq(S) /\ Len(y \o q) = Len(y) + Len(q)
  BY <1>1, TwoJoined
<1>4. (x \o y) \o q = x \o (y \o q)
  BY <1>1, ConcatThree
<1> QED  BY <1>1, <1>2, <1>3, <1>4 DEF x, y

(* Keys moved left pass over the separator d.                              *)
LEMMA MoveLeftOver ==
  ASSUME NEW S, NEW p \in Seq(S), NEW q \in Seq(S), NEW m \in 1..Len(q), NEW d \in S
  PROVE  /\ (p \o <<d>>) \o First(q, m - 1) \in Seq(S)
         /\ Len((p \o <<d>>) \o First(q, m - 1)) = Len(p) + m
<1> DEFINE j == m - 1
           x == First(q, j)
<1>1. j \in 0..Len(q)
  OBVIOUS
<1>2. x \in Seq(S) /\ Len(x) = j
  BY <1>1, Halves
<1> HIDE DEF x
<1>3. (p \o <<d>>) \o x \in Seq(S) /\ Len((p \o <<d>>) \o x) = Len(p) + Len(x) + 1
  BY <1>2, ThreeJoined
<1>4. Len(p) \in Nat /\ Len(p) + j + 1 = Len(p) + m
  OBVIOUS
<1> QED  BY <1>2, <1>3, <1>4 DEF x

(* Keys moved right pass over the separator d.                             *)
LEMMA MoveRightOver ==
  ASSUME NEW S, NEW p \in Seq(S), NEW q \in Seq(S), NEW m \in 0..(Len(p) - 1), NEW d \in S
  PROVE  /\ (From(p, m + 1) \o <<d>>) \o q \in Seq(S)
         /\ Len((From(p, m + 1) \o <<d>>) \o q) = Len(p) - m + Len(q)
<1> DEFINE j == m + 1
           x == From(p, j)
<1>1. j \in 0..Len(p)
  OBVIOUS
<1>2. x \in Seq(S) /\ Len(x) = Len(p) - j
  BY <1>1, Halves
<1> HIDE DEF x
<1>3. (x \o <<d>>) \o q \in Seq(S) /\ Len((x \o <<d>>) \o q) = Len(x) + Len(q) + 1
  BY <1>2, ThreeJoined
<1>4. Len(p) \in Nat /\ Len(q) \in Nat /\ (Len(p) - j) + Len(q) + 1 = Len(p) - m + Len(q)
  OBVIOUS
<1> QED  BY <1>2, <1>3, <1>4 DEF x

(* Neighbours l and r with their parent q.                                 *)
Between(t, p, l, r, q) ==
  /\ l \in NodeId /\ r \in NodeId /\ q \in NodeId /\ l # r /\ q # l /\ q # r
  /\ p.left = l /\ p.right = r /\ p.parent = q
  /\ p.slot \in 0..(slotuse(t.node[q]) - 1)

ShiftedNodes(a, b, o, m) ==
  /\ IsNode(a) /\ IsNode(b)
  /\ a.level = o.level /\ b.level = m.level
  /\ a.next_leaf = o.next_leaf /\ b.next_leaf = m.next_leaf
  /\ a.childid \o b.childid = o.childid \o m.childid
  /\ slotuse(a) + slotuse(b) = slotuse(o) + slotuse(m)
  /\ slotuse(a) - slotuse(b) \in -1..1
  /\ IF IsLeaf(o) THEN a.childid = o.childid /\ b.childid = m.childid
     ELSE Len(a.childid) = slotuse(a) + 1 /\ Len(b.childid) = slotuse(b) + 1

(* Nodes that got their fair share of children are shifted.                *)
LEMMA ShiftEffect ==
  ASSUME NEW t, IsTree(t), NEW p, NEW l, NEW r, NEW q, Between(t, p, l, r, q),
         NEW a, NEW b, ShiftedNodes(a, b, t.node[l], t.node[r]), NEW separator \in Int
  PROVE  Shifted(Rebalanced(t, p, a, b, separator), t, l, r)
<1> DEFINE u == Rebalanced(t, p, a, b, separator)
<1>1. /\ IsTree(u) /\ u.root = t.root /\ u.node[l] = a /\ u.node[r] = b
      /\ \A id \in NodeId \ {l, r} : Same(u, t, id)
  BY RebalancedEffect DEF Between, ShiftedNodes
<1> HIDE DEF u
<1>2. Shifted(u, t, l, r)
  BY <1>1 DEF ShiftedNodes, Shifted
<1> QED  BY <1>2 DEF u

(* shift_left_leaf() evens out two leaves.                                 *)
LEMMA ShiftLeftLeafEffect ==
  ASSUME NEW t, IsTree(t), NEW p, NEW l, NEW r, NEW q, Between(t, p, l, r, q),
         t.node[l].level = 0,
         slotuse(t.node[r]) - slotuse(t.node[l]) >= 2
  PROVE  Shifted(ShiftLeftLeaf(t, p), t, l, r)
<1> DEFINE o == t.node[l]
           e == t.node[r]
           x == o.slotkey
           y == e.slotkey
           num == (slotuse(e) - slotuse(o)) \div 2
           ka == x \o First(y, num)
           kb == From(y, num)
           wa == o.weight \o First(e.weight, num)
           wb == From(e.weight, num)
           a == [o EXCEPT !.slotkey = ka, !.weight = wa]
           b == [e EXCEPT !.slotkey = kb, !.weight = wb]
<1>1. ShiftLeftLeaf(t, p) = Rebalanced(t, p, a, b, LastKey(a))
  BY DEF ShiftLeftLeaf, Between
<1>2. IsNode(o) /\ IsNode(e) /\ x \in Seq(Int) /\ y \in Seq(Int)
      /\ slotuse(o) = Len(x) /\ slotuse(e) = Len(y) /\ Len(x) \in Nat /\ Len(y) \in Nat
  BY DEF IsTree, IsNode, Between, slotuse
<1>3. slotuse(e) - slotuse(o) >= 2 /\ o.level = 0
  OBVIOUS
<1> HIDE DEF o, e
<1>4. /\ num \in 1..(Len(y) - 1) /\ num \in 0..Len(y)
      /\ (Len(x) + num) - (Len(y) - num) \in -1..1
      /\ (Len(x) + num) + (Len(y) - num) = Len(x) + Len(y)
  <2> DEFINE m == Len(x)
             n == Len(y)
             h == (n - m) \div 2
  <2>1. m \in Nat /\ n \in Nat /\ n - m >= 2
    BY <1>2, <1>3
  <2> HIDE DEF m, n
  <2>2. h \in 1..(n - 1) /\ (m + h) - (n - h) \in -1..1 /\ (m + h) + (n - h) = m + n
    BY <2>1, Even
  <2>3. h \in 0..n
    BY <2>1, <2>2
  <2>4. num = h
    BY <1>2 DEF m, n
  <2> HIDE DEF num, h
  <2> QED  BY <2>2, <2>3, <2>4 DEF m, n
<1> HIDE DEF x, y, num
<1>5. /\ ka \in Seq(Int) /\ Len(ka) = Len(x) + num
      /\ kb \in Seq(Int) /\ Len(kb) = Len(y) - num
  BY <1>2, <1>4, MoveLeft
<1> HIDE DEF ka, kb, wa, wb
<1>6. IsNode(a) /\ a.level = o.level /\ a.childid = o.childid /\ a.next_leaf = o.next_leaf
      /\ a.slotkey = ka
  BY <1>2, <1>5 DEF IsNode, Fields
<1>7. IsNode(b) /\ b.level = e.level /\ b.childid = e.childid /\ b.next_leaf = e.next_leaf
      /\ b.slotkey = kb
  BY <1>2, <1>5 DEF IsNode, Fields
<1> HIDE DEF a, b
<1>8. ShiftedNodes(a, b, o, e)
  <2>1. slotuse(a) = Len(x) + num /\ slotuse(b) = Len(y) - num
    BY <1>5, <1>6, <1>7 DEF slotuse
  <2>2. /\ slotuse(a) + slotuse(b) = slotuse(o) + slotuse(e)
        /\ slotuse(a) - slotuse(b) \in -1..1
    BY <2>1, <1>2, <1>4
  <2> QED  BY <2>2, <1>3, <1>6, <1>7 DEF ShiftedNodes, IsLeaf
<1>9. LastKey(a) \in Int
  <2>1. Len(ka) \in 1..Len(ka)
    BY <1>2, <1>4, <1>5
  <2> QED  BY <2>1, <1>5, <1>6 DEF LastKey, At, slotuse
<1> QED  BY <1>1, <1>8, <1>9, ShiftEffect DEF o, e

(* shift_right_leaf() does.                                                *)
LEMMA ShiftRightLeafEffect ==
  ASSUME NEW t, IsTree(t), NEW p, NEW l, NEW r, NEW q, Between(t, p, l, r, q),
         t.node[l].level = 0,
         slotuse(t.node[l]) - slotuse(t.node[r]) >= 2
  PROVE  Shifted(ShiftRightLeaf(t, p), t, l, r)
<1> DEFINE o == t.node[l]
           e == t.node[r]
           x == o.slotkey
           y == e.slotkey
           keep == slotuse(o) - (slotuse(o) - slotuse(e)) \div 2
           ka == First(x, keep)
           kb == From(x, keep) \o y
           wa == First(o.weight, keep)
           wb == From(o.weight, keep) \o e.weight
           a == [o EXCEPT !.slotkey = ka, !.weight = wa]
           b == [e EXCEPT !.slotkey = kb, !.weight = wb]
<1>1. ShiftRightLeaf(t, p) = Rebalanced(t, p, a, b, LastKey(a))
  BY DEF ShiftRightLeaf, Between
<1>2. IsNode(o) /\ IsNode(e) /\ x \in Seq(Int) /\ y \in Seq(Int)
      /\ slotuse(o) = Len(x) /\ slotuse(e) = Len(y) /\ Len(x) \in Nat /\ Len(y) \in Nat
  BY DEF IsTree, IsNode, Between, slotuse
<1>3. slotuse(o) - slotuse(e) >= 2 /\ o.level = 0
  OBVIOUS
<1> HIDE DEF o, e
<1>4. /\ keep \in 1..(Len(x) - 1) /\ keep \in 0..Len(x)
      /\ keep - (Len(x) - keep + Len(y)) \in -1..1
      /\ keep + (Len(x) - keep + Len(y)) = Len(x) + Len(y)
  <2> DEFINE m == Len(x)
             n == Len(y)
             h == (m - n) \div 2
  <2>1. m \in Nat /\ n \in Nat /\ m - n >= 2
    BY <1>2, <1>3
  <2> HIDE DEF m, n
  <2>2. h \in 1..(m - 1) /\ m - h \in 1..(m - 1) /\ (m - h) - (n + h) \in -1..1
    BY <2>1, Even
  <2> HIDE DEF h
  <2>3. m - h \in 0..m /\ (m - h) - (m - (m - h) + n) \in -1..1
        /\ (m - h) + (m - (m - h) + n) = m + n
    BY <2>1, <2>2
  <2>4. keep = m - h
    BY <1>2 DEF m, n, h
  <2> HIDE DEF keep, h
  <2> QED  BY <2>2, <2>3, <2>4 DEF m, n
<1> HIDE DEF x, y, keep
<1>5. /\ ka \in Seq(Int) /\ Len(ka) = keep
      /\ kb \in Seq(Int) /\ Len(kb) = Len(x) - keep + Len(y)
  BY <1>2, <1>4, MoveRight
<1> HIDE DEF ka, kb, wa, wb
<1>6. IsNode(a) /\ a.level = o.level /\ a.childid = o.childid /\ a.next_leaf = o.next_leaf
      /\ a.slotkey = ka
  BY <1>2, <1>5 DEF IsNode, Fields
<1>7. IsNode(b) /\ b.level = e.level /\ b.childid = e.childid /\ b.next_leaf = e.next_leaf
      /\ b.slotkey = kb
  BY <1>2, <1>5 DEF IsNode, Fields
<1> HIDE DEF a, b
<1>8. ShiftedNodes(a, b, o, e)
  <2>1. slotuse(a) = keep /\ slotuse(b) = Len(x) - keep + Len(y)
    BY <1>5, <1>6, <1>7 DEF slotuse
  <2>2. /\ slotuse(a) + slotuse(b) = slotuse(o) + slotuse(e)
        /\ slotuse(a) - slotuse(b) \in -1..1
    BY <2>1, <1>2, <1>4
  <2> QED  BY <2>2, <1>3, <1>6, <1>7 DEF ShiftedNodes, IsLeaf
<1>9. LastKey(a) \in Int
  <2>1. Len(ka) \in 1..Len(ka)
    BY <1>2, <1>4, <1>5
  <2> QED  BY <2>1, <1>5, <1>6 DEF LastKey, At, slotuse
<1> QED  BY <1>1, <1>8, <1>9, ShiftEffect DEF o, e

(* shift_left_inner() evens out two inner nodes and their children.        *)
LEMMA ShiftLeftInnerEffect ==
  ASSUME NEW t, IsTree(t), NEW p, NEW l, NEW r, NEW q, Between(t, p, l, r, q),
         t.node[l].level # 0,
         Len(t.node[l].childid) = slotuse(t.node[l]) + 1,
         Len(t.node[r].childid) = slotuse(t.node[r]) + 1,
         slotuse(t.node[r]) - slotuse(t.node[l]) >= 2
  PROVE  Shifted(ShiftLeftInner(t, p), t, l, r)
<1> DEFINE o == t.node[l]
           e == t.node[r]
           x == o.slotkey
           y == e.slotkey
           c == o.childid
           d == e.childid
           down == At(t.node[p.parent].slotkey, p.slot)
           num == (slotuse(e) - slotuse(o)) \div 2
           ka == (x \o <<down>>) \o First(y, num - 1)
           kb == From(y, num)
           ca == c \o First(d, num)
           cb == From(d, num)
           wa == o.weight \o First(e.weight, num)
           wb == From(e.weight, num)
           a == [o EXCEPT !.slotkey = ka, !.childid = ca, !.weight = wa]
           b == [e EXCEPT !.slotkey = kb, !.childid = cb, !.weight = wb]
           up == At(y, num - 1)
<1>1. ShiftLeftInner(t, p) = Rebalanced(t, p, a, b, up)
  BY DEF ShiftLeftInner, Between
<1>2. IsNode(o) /\ IsNode(e) /\ x \in Seq(Int) /\ y \in Seq(Int)
      /\ c \in Seq(NodeId) /\ d \in Seq(NodeId)
      /\ slotuse(o) = Len(x) /\ slotuse(e) = Len(y) /\ Len(x) \in Nat /\ Len(y) \in Nat
  BY DEF IsTree, IsNode, Between, slotuse
<1>3. slotuse(e) - slotuse(o) >= 2 /\ o.level # 0 /\ Len(c) = slotuse(o) + 1
      /\ Len(d) = slotuse(e) + 1
  OBVIOUS
<1>0. down \in Int
  <2>1. p.parent \in NodeId /\ p.slot \in 0..(slotuse(t.node[p.parent]) - 1)
    BY DEF Between
  <2>2. t.node[p.parent].slotkey \in Seq(Int)
    BY <2>1 DEF IsTree, IsNode
  <2> QED  BY <2>1, <2>2 DEF At, slotuse
<1> HIDE DEF o, e, down
<1>4. /\ num \in 1..(Len(y) - 1) /\ num \in 1..Len(y) /\ num \in 0..Len(y)
      /\ (Len(x) + num) - (Len(y) - num) \in -1..1
      /\ (Len(x) + num) + (Len(y) - num) = Len(x) + Len(y)
  <2> DEFINE m == Len(x)
             n == Len(y)
             h == (n - m) \div 2
  <2>1. m \in Nat /\ n \in Nat /\ n - m >= 2
    BY <1>2, <1>3
  <2> HIDE DEF m, n
  <2>2. h \in 1..(n - 1) /\ (m + h) - (n - h) \in -1..1 /\ (m + h) + (n - h) = m + n
    BY <2>1, Even
  <2> HIDE DEF h
  <2>3. h \in 0..n /\ h \in 1..n
    BY <2>1, <2>2
  <2>4. num = h
    BY <1>2 DEF m, n, h
  <2> HIDE DEF num, h
  <2> QED  BY <2>2, <2>3, <2>4 DEF m, n
<1> HIDE DEF x, y, c, d, num
<1>5. ka \in Seq(Int) /\ Len(ka) = Len(x) + num
  BY <1>0, <1>2, <1>4, MoveLeftOver
<1>6. kb \in Seq(Int) /\ Len(kb) = Len(y) - num
  BY <1>2, <1>4, MoveLeft
<1>7. /\ ca \in Seq(NodeId) /\ Len(ca) = Len(c) + num
      /\ cb \in Seq(NodeId) /\ Len(cb) = Len(d) - num
      /\ ca \o cb = c \o d
  <2>1. num \in 0..Len(d)
    BY <1>2, <1>3, <1>4
  <2>2. c \in Seq(NodeId) /\ d \in Seq(NodeId)
    BY <1>2
  <2> HIDE DEF a, b, ka, kb, wa, wb, up
  <2>3. /\ c \o First(d, num) \in Seq(NodeId) /\ Len(c \o First(d, num)) = Len(c) + num
        /\ From(d, num) \in Seq(NodeId) /\ Len(From(d, num)) = Len(d) - num
        /\ (c \o First(d, num)) \o From(d, num) = c \o d
    BY <2>2, <2>1, MoveLeft, Zenon
  <2> QED  BY <2>3
<1>8. up \in Int
  <2>1. num \in 1..Len(y)
    BY <1>4
  <2>2. y[num] \in Int
    BY <1>2, <2>1
  <2>3. (num - 1) + 1 = num
    BY <2>1
  <2> QED  BY <2>2, <2>3 DEF At
<1> HIDE DEF ka, kb, wa, wb, ca, cb, up
<1>9. IsNode(a) /\ a.level = o.level /\ a.childid = ca /\ a.next_leaf = o.next_leaf
      /\ a.slotkey = ka
  BY <1>2, <1>5, <1>7 DEF IsNode, Fields
<1>10. IsNode(b) /\ b.level = e.level /\ b.childid = cb /\ b.next_leaf = e.next_leaf
      /\ b.slotkey = kb
  BY <1>2, <1>6, <1>7 DEF IsNode, Fields
<1> HIDE DEF a, b
<1>11. ShiftedNodes(a, b, o, e)
  <2>1. slotuse(a) = Len(x) + num /\ slotuse(b) = Len(y) - num
    BY <1>5, <1>6, <1>9, <1>10 DEF slotuse
  <2>2. /\ slotuse(a) + slotuse(b) = slotuse(o) + slotuse(e)
        /\ slotuse(a) - slotuse(b) \in -1..1
    BY <2>1, <1>2, <1>4
  <2>3. Len(a.childid) = slotuse(a) + 1 /\ Len(b.childid) = slotuse(b) + 1
    BY <2>1, <1>2, <1>3, <1>4, <1>7, <1>9, <1>10
  <2> QED  BY <2>2, <2>3, <1>3, <1>7, <1>9, <1>10 DEF ShiftedNodes, IsLeaf, c, d
<1> QED  BY <1>1, <1>8, <1>11, ShiftEffect DEF o, e

(* shift_right_inner() does.                                               *)
LEMMA ShiftRightInnerEffect ==
  ASSUME NEW t, IsTree(t), NEW p, NEW l, NEW r, NEW q, Between(t, p, l, r, q),
         t.node[l].level # 0,
         Len(t.node[l].childid) = slotuse(t.node[l]) + 1,
         Len(t.node[r].childid) = slotuse(t.node[r]) + 1,
         slotuse(t.node[l]) - slotuse(t.node[r]) >= 2
  PROVE  Shifted(ShiftRightInner(t, p), t, l, r)
<1> DEFINE o == t.node[l]
           e == t.node[r]
           x == o.slotkey
           y == e.slotkey
           c == o.childid
           d == e.childid
           down == At(t.node[p.parent].slotkey, p.slot)
           keep == slotuse(o) - (slotuse(o) - slotuse(e)) \div 2
           ka == First(x, keep)
           kb == (From(x, keep + 1) \o <<down>>) \o y
           ca == First(c, keep + 1)
           cb == From(c, keep + 1) \o d
           wa == First(o.weight, keep + 1)
           wb == From(o.weight, keep + 1) \o e.weight
           a == [o EXCEPT !.slotkey = ka, !.childid = ca, !.weight = wa]
           b == [e EXCEPT !.slotkey = kb, !.childid = cb, !.weight = wb]
           up == At(x, keep)
<1>1. ShiftRightInner(t, p) = Rebalanced(t, p, a, b, up)
  BY DEF ShiftRightInner, Between
<1>2. IsNode(o) /\ IsNode(e) /\ x \in Seq(Int) /\ y \in Seq(Int)
      /\ c \in Seq(NodeId) /\ d \in Seq(NodeId)
      /\ slotuse(o) = Len(x) /\ slotuse(e) = Len(y) /\ Len(x) \in Nat /\ Len(y) \in Nat
  BY DEF IsTree, IsNode, Between, slotuse
<1>3. slotuse(o) - slotuse(e) >= 2 /\ o.level # 0 /\ Len(c) = slotuse(o) + 1
      /\ Len(d) = slotuse(e) + 1
  OBVIOUS
<1>0. down \in Int
  <2>1. p.parent \in NodeId /\ p.slot \in 0..(slotuse(t.node[p.parent]) - 1)
    BY DEF Between
  <2>2. t.node[p.parent].slotkey \in Seq(Int)
    BY <2>1 DEF IsTree, IsNode
  <2> QED  BY <2>1, <2>2 DEF At, slotuse
<1> HIDE DEF o, e, down
<1>4. /\ keep \in 1..(Len(x) - 1) /\ keep \in 0..(Len(x) - 1) /\ keep \in 0..Len(x)
      /\ keep - (Len(x) - keep + Len(y)) \in -1..1
      /\ keep + (Len(x) - keep + Len(y)) = Len(x) + Len(y)
  <2> DEFINE m == Len(x)
             n == Len(y)
             h == (m - n) \div 2
  <2>1. m \in Nat /\ n \in Nat /\ m - n >= 2
    BY <1>2, <1>3
  <2> HIDE DEF m, n
  <2>2. h \in 1..(m - 1) /\ m - h \in 1..(m - 1) /\ (m - h) - (n + h) \in -1..1
    BY <2>1, Even
  <2> HIDE DEF h
  <2>3. m - h \in 0..m /\ m - h \in 0..(m - 1) /\ (m - h) - (m - (m - h) + n) \in -1..1
        /\ (m - h) + (m - (m - h) + n) = m + n
    BY <2>1, <2>2
  <2>4. keep = m - h
    BY <1>2 DEF m, n, h
  <2> HIDE DEF keep, h
  <2> QED  BY <2>2, <2>3, <2>4 DEF m, n
<1> HIDE DEF x, y, c, d, keep
<1>5. ka \in Seq(Int) /\ Len(ka) = keep
  BY <1>2, <1>4, MoveRight
<1>6. kb \in Seq(Int) /\ Len(kb) = Len(x) - keep + Len(y)
  <2>1. x \in Seq(Int) /\ y \in Seq(Int) /\ keep \in 0..(Len(x) - 1) /\ down \in Int
    BY <1>0, <1>2, <1>4
  <2> QED  BY <2>1, MoveRightOver, Zenon
<1>7. /\ ca \in Seq(NodeId) /\ Len(ca) = keep + 1
      /\ cb \in Seq(NodeId) /\ Len(cb) = Len(c) - (keep + 1) + Len(d)
      /\ ca \o cb = c \o d
  <2> DEFINE k == keep + 1
  <2>1. k \in 0..Len(c)
    BY <1>2, <1>3, <1>4
  <2> HIDE DEF k
  <2>2. /\ First(c, k) \in Seq(NodeId) /\ Len(First(c, k)) = k
        /\ From(c, k) \o d \in Seq(NodeId) /\ Len(From(c, k) \o d) = Len(c) - k + Len(d)
        /\ First(c, k) \o (From(c, k) \o d) = c \o d
    BY <1>2, <2>1, MoveRight, Zenon
  <2> QED  BY <2>2 DEF k
<1>8. up \in Int
  <2>1. keep + 1 \in 1..Len(x)
    BY <1>2, <1>4
  <2> QED  BY <1>2, <2>1 DEF At
<1> HIDE DEF ka, kb, wa, wb, ca, cb, up
<1>9. IsNode(a) /\ a.level = o.level /\ a.childid = ca /\ a.next_leaf = o.next_leaf
      /\ a.slotkey = ka
  BY <1>2, <1>5, <1>7 DEF IsNode, Fields
<1>10. IsNode(b) /\ b.level = e.level /\ b.childid = cb /\ b.next_leaf = e.next_leaf
      /\ b.slotkey = kb
  BY <1>2, <1>6, <1>7 DEF IsNode, Fields
<1> HIDE DEF a, b
<1>11. ShiftedNodes(a, b, o, e)
  <2>1. slotuse(a) = keep /\ slotuse(b) = Len(x) - keep + Len(y)
    BY <1>5, <1>6, <1>9, <1>10 DEF slotuse
  <2>2. /\ slotuse(a) + slotuse(b) = slotuse(o) + slotuse(e)
        /\ slotuse(a) - slotuse(b) \in -1..1
    BY <2>1, <1>2, <1>4
  <2>3. Len(a.childid) = slotuse(a) + 1 /\ Len(b.childid) = slotuse(b) + 1
    <3>1. Len(a.childid) = slotuse(a) + 1
      BY <2>1, <1>7, <1>9
    <3>2. Len(b.childid) = Len(c) - (keep + 1) + Len(d)
      BY <1>7, <1>10
    <3>3. Len(c) - (keep + 1) + Len(d) = (Len(x) - keep + Len(y)) + 1
      BY <1>2, <1>3, <1>4
    <3> QED  BY <2>1, <3>1, <3>2, <3>3
  <2> QED  BY <2>2, <2>3, <1>3, <1>7, <1>9, <1>10 DEF ShiftedNodes, IsLeaf, c, d
<1> QED  BY <1>1, <1>8, <1>11, ShiftEffect DEF o, e

(* The last record goes, and with it the root leaf.                        *)
LEMMA DropLeafEffect ==
  ASSUME NEW t, IsTree(t), NEW n \in NodeId, t.node[n].level = 0
  PROVE  LET u == DropRoot(t, n)
         IN  /\ IsTree(u) /\ u.root = NULL /\ u.tail_leaf = NULL /\ u.node[n] = Free
             /\ \A id \in NodeId \ {n} : u.node[id] = t.node[id]
<1> DEFINE v == Put(t, n, Free)
           u == [v EXCEPT !.root = NULL, !.head_leaf = NULL, !.tail_leaf = NULL]
<1>1. DropRoot(t, n) = u
  BY DEF DropRoot, IsLeaf, FreeNode, Put
<1>2. /\ IsTree(v) /\ v.node[n] = Free
      /\ \A id \in NodeId \ {n} : v.node[id] = t.node[id]
  BY OneNode, FreeIsNode
<1> HIDE DEF v
<1>3. IsTree(u) /\ u.root = NULL /\ u.tail_leaf = NULL /\ u.node = v.node
  BY <1>2 DEF IsTree
<1> HIDE DEF u
<1> QED  BY <1>1, <1>2, <1>3

(* A root left with one child gives way to it.                             *)
LEMMA DropInnerEffect ==
  ASSUME NEW t, IsTree(t), NEW n \in NodeId, t.node[n].level # 0
  PROVE  LET u == DropRoot(t, n)
         IN  /\ IsTree(u) /\ u.root = t.node[n].childid[1] /\ u.node[n] = Free
             /\ \A id \in NodeId \ {n} : u.node[id] = t.node[id]
<1> DEFINE v == Put(t, n, Free)
           c == t.node[n].childid[1]
           u == [v EXCEPT !.root = c]
<1>1. DropRoot(t, n) = u
  BY DEF DropRoot, IsLeaf, FreeNode, Put, At
<1>2. /\ IsTree(v) /\ v.node[n] = Free
      /\ \A id \in NodeId \ {n} : v.node[id] = t.node[id]
  BY OneNode, FreeIsNode
<1> HIDE DEF v, c
<1>3. IsTree(u) /\ u.root = c /\ u.node = v.node
  BY <1>2 DEF IsTree
<1> HIDE DEF u
<1> QED  BY <1>1, <1>2, <1>3 DEF c

(* Child k of n was merged into child k - 1, below slot.                   *)
Emptied(t, n, slot, k) ==
  LET c == t.node[n].childid
  IN  /\ Len(c) = slotuse(t.node[n]) + 1
      /\ k \in {slot + 1, slot + 2} /\ k >= 2 /\ k <= Len(c)
      /\ c[k] # n /\ slotuse(t.node[c[k]]) = 0
      /\ k = slot + 2 => slotuse(t.node[c[slot + 1]]) # 0
      /\ slotuse(t.node[c[k - 1]]) >= 1

(* The parent frees the child a merge has emptied.                         *)
LEMMA FixMergeEffect ==
  ASSUME NEW t, IsTree(t), NEW n \in NodeId, NEW slot \in Nat, NEW k \in Nat,
         Emptied(t, n, slot, k)
  PROVE  LET u == FixMerge(t, n, slot)
             c == t.node[n].childid
         IN  /\ IsTree(u) /\ u.root = t.root
             /\ Is(u.node[n], t.node[n].level, RemoveAt(c, k))
             /\ slotuse(u.node[n]) = slotuse(t.node[n]) - 1
             /\ u.node[c[k]] = Free
             /\ \A id \in NodeId \ {n, c[k]} : u.node[id] = t.node[id]
<1> DEFINE o == t.node[n]
           c == o.childid
           s == o.slotkey
           e == c[k]
           empty == k - 1
           keys  == RemoveAt(s, empty)
           childs == RemoveAt(c, empty + 1)
           merged == t.node[At(childs, empty - 1)]
           weight == [i \in 1..Len(childs) |->
                       IF i \in {empty, empty + 1}
                       THEN CalculateWeight(t.node[childs[i]])
                       ELSE RemoveAt(o.weight, empty + 1)[i]]
           ks == IF o.level = 1 /\ empty - 1 < Len(keys)
                 THEN [keys EXCEPT ![empty] = LastKey(merged)] ELSE keys
           a == [o EXCEPT !.childid = childs, !.weight = weight, !.slotkey = ks]
           u == PutTwo(t, e, Free, n, a)
<1>0. IsNode(o) /\ s \in Seq(Int) /\ c \in Seq(NodeId) /\ slotuse(o) = Len(s) /\ Len(s) \in Nat
  BY DEF IsTree, IsNode, slotuse
<1>1. /\ Len(c) = Len(s) + 1
      /\ empty \in 1..Len(s) /\ k \in 1..Len(c)
      /\ empty + 1 = k /\ e \in NodeId /\ e # n
  <2> DEFINE g == Len(c)
             h == Len(s)
  <2>1. g = h + 1 /\ h \in Nat /\ k >= 2 /\ k <= g /\ e # n
    BY <1>0 DEF Emptied
  <2> HIDE DEF g, h
  <2>2. empty \in 1..h /\ k \in 1..g /\ empty + 1 = k
    BY <2>1
  <2>3. k \in 1..Len(c)
    BY <2>2 DEF g
  <2>4. c[k] \in NodeId
    BY <2>3, <1>0
  <2> QED  BY <2>1, <2>2, <2>4 DEF g, h
<1>2. empty = IF slotuse(t.node[At(c, slot)]) # 0 THEN slot + 1 ELSE slot
  <2>1. CASE k = slot + 1
    <3>1. slotuse(t.node[At(c, slot)]) = 0 /\ empty = slot
      BY <2>1 DEF At, Emptied
    <3> QED  BY <3>1
  <2>2. CASE k = slot + 2
    <3>1. slotuse(t.node[At(c, slot)]) # 0 /\ empty = slot + 1
      BY <2>2 DEF At, Emptied
    <3> QED  BY <3>1
  <2>3. k \in {slot + 1, slot + 2}
    BY DEF Emptied
  <2> QED  BY <2>1, <2>2, <2>3
<1>3. At(c, empty) = e
  BY <1>1 DEF At
<1>5. merged.slotkey \in Seq(Int) /\ Len(merged.slotkey) >= 1
      /\ childs \in Seq(NodeId) /\ Len(childs) = Len(c) - 1 /\ childs = RemoveAt(c, k)
  <2>0. c \in Seq(NodeId) /\ k \in 1..Len(c)
    BY <1>0, <1>1
  <2>1. childs = RemoveAt(c, k)
    BY <1>1
  <2>2. empty < k /\ empty \in 1..(Len(c) - 1)
    BY <1>1
  <2>3. slotuse(t.node[c[empty]]) >= 1
    BY DEF Emptied
  <2>4. empty - 1 + 1 = empty
    BY <1>1
  <2>5. c[empty] \in NodeId
    BY <2>0, <2>2
  <2> HIDE DEF c, empty
  <2>6. /\ RemoveAt(c, k) \in Seq(NodeId) /\ Len(RemoveAt(c, k)) = Len(c) - 1
        /\ \A j \in 1..(Len(c) - 1) : RemoveAt(c, k)[j] = IF j < k THEN c[j] ELSE c[j + 1]
    BY <2>0, Removed
  <2> HIDE DEF childs
  <2>7. childs[empty] = c[empty]
    BY <2>1, <2>2, <2>6
  <2>8. merged = t.node[c[empty]]
    BY <2>4, <2>7 DEF At
  <2>9. merged.slotkey \in Seq(Int) /\ Len(merged.slotkey) >= 1
    BY <2>3, <2>5, <2>8 DEF IsTree, IsNode, slotuse
  <2> QED  BY <2>1, <2>6, <2>9
<1>4. FixMerge(t, n, slot) = u
  <2> DEFINE Other(x) == [FreeNode(t, At(c, x)) EXCEPT !.node[n] = [o EXCEPT
                 !.childid = RemoveAt(c, x + 1),
                 !.weight = [i \in 1..Len(RemoveAt(c, x + 1)) |->
                       IF i \in {x, x + 1}
                       THEN CalculateWeight(t.node[RemoveAt(c, x + 1)[i]])
                       ELSE RemoveAt(o.weight, x + 1)[i]],
                 !.slotkey = IF o.level = 1 /\ x - 1 < Len(RemoveAt(s, x))
                     THEN [RemoveAt(s, x) EXCEPT ![x] =
                             LastKey(t.node[At(RemoveAt(c, x + 1), x - 1)])]
                     ELSE RemoveAt(s, x)]]
  <2>1. FixMerge(t, n, slot) =
          Other(IF slotuse(t.node[At(c, slot)]) # 0 THEN slot + 1 ELSE slot)
    BY DEF FixMerge
  <2>2. FixMerge(t, n, slot) = Other(empty)
    BY <2>1, <1>2, Zenon
  <2>3. Other(empty) = [FreeNode(t, e) EXCEPT !.node[n] = a]
    BY <1>3
  <2> HIDE DEF Other, a, e
  <2>4. [FreeNode(t, e) EXCEPT !.node[n] = a] = u
    BY DEF FreeNode, PutTwo, IsTree
  <2> QED  BY <2>2, <2>3, <2>4
<1> HIDE DEF merged, childs, weight
<1>6. keys \in Seq(Int) /\ Len(keys) = Len(s) - 1
  <2> HIDE DEF s, empty
  <2> QED  BY <1>0, <1>1, Removed
<1> HIDE DEF keys
<1>7. ks \in Seq(Int) /\ Len(ks) = Len(keys)
  <2>1. LastKey(merged) \in Int
    BY <1>5 DEF LastKey, At, slotuse
  <2> DEFINE key == LastKey(merged)
             ke == [keys EXCEPT ![empty] = key]
  <2>5. empty \in Nat /\ empty >= 1
    BY <1>1, <1>0
  <2> HIDE DEF empty, key, s
  <2>2. key \in Int /\ keys \in Seq(Int)
    BY <1>6, <2>1 DEF key
  <2>3. ASSUME empty - 1 < Len(keys) PROVE ke \in Seq(Int) /\ Len(ke) = Len(keys)
    <3>1. empty \in 1..Len(keys)
      BY <2>2, <2>3, <2>5
    <3>2. ke \in Seq(Int)
      BY <2>2, <3>1
    <3>3. Len(ke) = Len(keys)
      BY <2>2, <3>1
    <3> QED  BY <3>2, <3>3
  <2> HIDE DEF ke
  <2>4. (ks = ke /\ empty - 1 < Len(keys)) \/ ks = keys
    BY DEF ke, key
  <2> QED  BY <1>6, <2>3, <2>4
<1> HIDE DEF c, o, s, ks, empty, e
<1>9. IsNode(a) /\ a.level = o.level /\ a.childid = childs /\ a.slotkey = ks
  BY <1>0, <1>5, <1>7 DEF IsNode, Fields
<1> HIDE DEF a
<1>11. /\ IsTree(u) /\ u.root = t.root /\ u.node[e] = Free /\ u.node[n] = a
       /\ \A id \in NodeId \ {e, n} : u.node[id] = t.node[id]
  <2> HIDE DEF u
  <2>1. IsNode(Free) /\ e \in NodeId /\ e # n
    BY <1>1, FreeIsNode
  <2> QED  BY <1>9, <2>1, TwoNodes DEF u
<1> HIDE DEF u
<1>12. slotuse(u.node[n]) = Len(s) - 1
  BY <1>6, <1>7, <1>9, <1>11 DEF slotuse
<1>13. Is(u.node[n], o.level, RemoveAt(c, k))
  <2>1. Len(RemoveAt(c, k)) = slotuse(u.node[n]) + 1
    BY <1>0, <1>1, <1>5, <1>12
  <2> QED  BY <1>5, <1>9, <1>11, <2>1 DEF Is
<1>14. slotuse(u.node[n]) = slotuse(o) - 1
  BY <1>0, <1>12
<1> QED  BY <1>4, <1>11, <1>13, <1>14 DEF o, c, e

(* Removing an element and inserting it again.                             *)
LEMMA PutBack ==
  ASSUME NEW S, NEW s \in Seq(S), NEW i \in 1..Len(s), i + 1 <= Len(s)
  PROVE  InsertAt(RemoveAt(s, i + 1), i + 1, s[i + 1]) = s
<1> DEFINE j == i + 1
           z == RemoveAt(s, j)
           e == s[j]
           y == InsertAt(z, j, e)
<1>1. j \in 1..Len(s) /\ e \in S /\ Len(s) \in Nat
  OBVIOUS
<1> HIDE DEF j, e
<1>2. /\ z \in Seq(S) /\ Len(z) = Len(s) - 1
      /\ \A x \in 1..(Len(s) - 1) : z[x] = IF x < j THEN s[x] ELSE s[x + 1]
  BY <1>1, Removed
<1> HIDE DEF z
<1>3. j \in 1..(Len(z) + 1)
  BY <1>1, <1>2
<1>4. /\ y \in Seq(S) /\ Len(y) = Len(z) + 1
      /\ \A x \in 1..(Len(z) + 1) : y[x] = IF x < j THEN z[x] ELSE IF x = j THEN e ELSE z[x - 1]
  BY <1>1, <1>2, <1>3, InsertedLen, InsertedPlaces
<1> HIDE DEF y
<1>5. Len(y) = Len(s)
  BY <1>1, <1>2, <1>4
<1>6. \A x \in 1..Len(s) : y[x] = s[x]
  <2> SUFFICES ASSUME NEW x \in 1..Len(s) PROVE y[x] = s[x]
    OBVIOUS
  <2>0. x \in 1..(Len(z) + 1)
    BY <1>1, <1>2
  <2>1. CASE x < j
    <3>1. x \in 1..(Len(s) - 1)
      BY <2>1, <1>1
    <3> QED  BY <3>1, <2>0, <2>1, <1>2, <1>4
  <2>2. CASE x = j
    BY <2>0, <2>2, <1>4, <1>1 DEF e
  <2>3. CASE x > j
    <3>1. x - 1 \in 1..(Len(s) - 1) /\ ~(x - 1 < j) /\ ~(x < j) /\ x # j /\ (x - 1) + 1 = x
      BY <2>3, <1>1
    <3> QED  BY <3>1, <2>0, <1>2, <1>4
  <2> QED  BY <2>1, <2>2, <2>3, <1>1
<1>7. y = s
  BY <1>4, <1>5, <1>6
<1> QED  BY <1>7 DEF y, z, e, j

(* The parts of a sequence have its elements.                              *)
LEMMA PartsWithin ==
  ASSUME NEW S, NEW B, NEW p, p \in Seq(S), NEW q, q \in Seq(S),
         p \o q \in Seq(B), IsInjective(p \o q)
  PROVE  p \in Seq(B) /\ q \in Seq(B)
<1>1. ToSet(p \o q) = ToSet(p) \cup ToSet(q)
  BY Parted
<1>2. ToSet(p \o q) \subseteq B
  BY DEF ToSet
<1> QED  BY <1>1, <1>2, Within

(* p and q are the two parts of c, none of them empty unless both are.     *)
Shares(A, c, p, q) ==
  p \in Seq(A) /\ q \in Seq(A) /\ c = p \o q /\ (p = <<>> <=> q = <<>>)

(* Neighbours share their children anew, x and y.                          *)
LEMMA ShiftForest ==
  ASSUME NEW A, NEW L, NEW V, NEW R, Forest(A, L, V, R),
         NEW par, NEW i, NEW l, NEW r, Neighbours(V, par, i, l, r),
         NEW x, NEW y, Shares(A, V[l] \o V[r], x, y)
  PROVE  Forest(A, L, [V EXCEPT ![l] = x, ![r] = y], R)
<1> DEFINE B  == A \ {r}
           c  == V[l] \o V[r]
           s  == V[par]
           z  == RemoveAt(s, i + 1)
           V1 == [V EXCEPT ![par] = z, ![l] = c, ![r] = <<>>]
           R1 == [R EXCEPT ![l] = R[r]]
           L2 == [L EXCEPT ![r] = L[l]]
           V2 == [V1 EXCEPT ![par] = InsertAt(z, i + 1, r), ![l] = x, ![r] = y]
           R2 == [R1 EXCEPT ![l] = r, ![r] = R[r]]
<1>0. par \in Parents /\ i \in 1..Len(V[par]) /\ i + 1 <= Len(V[par]) /\ l = V[par][i] /\ r = V[par][i + 1]
  BY DEF Neighbours
<1>1. /\ Family(A, L, V) /\ Chain(A, L, V, R)
      /\ V \in [Parents -> Seq(A)] /\ L \in [NodeId -> Int] /\ R \in [NodeId -> Parents]
      /\ Kin(A, L, Sets(V))
  BY DEF Forest, Family, Chain, Kin
<1>2. /\ l \in NodeId /\ r \in NodeId /\ l \in A /\ r \in A /\ l # r /\ par # l /\ par # r
      /\ i + 1 \in 1..Len(s) /\ s \in Seq(A) /\ s[i + 1] = r
      /\ l \in Sets(V)[par] /\ r \in Sets(V)[par]
  BY <1>0, <1>1, NeighboursApart
<1>3. R[l] = r
  <2>1. \A n \in Parents : \A j \in 1..(Len(V[n]) - 1) : R[V[n][j]] = V[n][j + 1]
    BY <1>1 DEF Chain, Linked
  <2>2. i \in 1..(Len(V[par]) - 1)
    BY <1>0, <1>2
  <2> QED  BY <1>0, <2>1, <2>2
<1>4. L[l] = L[r]
  <2>1. CASE par = NULL
    BY <2>1, <1>1, <1>2, <1>3, ChainFacts
  <2>2. CASE par # NULL
    BY <2>2, <1>1, <1>2, <1>3, ChainFacts
  <2> QED  BY <2>1, <2>2
<1>5. Forest(B, L, V1, R1)
  BY MergeForest
<1>6. /\ z \in Seq(A) /\ Len(z) = Len(s) - 1
      /\ z[i] = l /\ i \in 1..Len(z)
  <2>1. /\ z \in Seq(A) /\ Len(z) = Len(s) - 1
        /\ \A j \in 1..(Len(s) - 1) : z[j] = IF j < i + 1 THEN s[j] ELSE s[j + 1]
    BY <1>2, Removed
  <2>2. i \in 1..(Len(s) - 1) /\ i < i + 1
    BY <1>0, <1>2
  <2> QED  BY <1>0, <2>1, <2>2
<1>7. V1[par] = z /\ V1[l] = c /\ R1[l] = R[r] /\ l \in Parents /\ r \in Parents
  BY <1>0, <1>1, <1>2, Zenon DEF Parents
<1>8. V1[l] \in Seq(B) /\ IsInjective(V1[l])
  BY <1>5, <1>7 DEF Forest, Family
<1> HIDE DEF z
<1>9. x \in Seq(B) /\ y \in Seq(B)
  <2>1. x \o y \in Seq(B) /\ IsInjective(x \o y)
    BY <1>7, <1>8 DEF Shares
  <2>2. x \in Seq(A) /\ y \in Seq(A)
    BY DEF Shares
  <2> HIDE DEF B, c
  <2> QED  BY <2>1, <2>2, PartsWithin
<1> HIDE DEF V1, R1, c, B
<1>10. Forest(B \cup {r}, [L EXCEPT ![r] = L[l]],
              [V1 EXCEPT ![par] = InsertAt(V1[par], i + 1, r), ![l] = x, ![r] = y],
              [R1 EXCEPT ![l] = r, ![r] = R1[l]])
  <2>1. V1[l] = x \o y /\ l = V1[par][i] /\ i \in 1..Len(V1[par]) /\ r \notin B
        /\ (x = <<>> <=> y = <<>>)
    BY <1>6, <1>7 DEF c, B, Shares
  <2> QED  BY <1>0, <1>2, <1>5, <1>9, <2>1, SplitForest
<1>11. B \cup {r} = A
  BY <1>2 DEF B
<1>12. [L EXCEPT ![r] = L[l]] = L
  BY <1>1, <1>4
<1>13. [R1 EXCEPT ![l] = r, ![r] = R1[l]] = R
  BY <1>1, <1>2, <1>3, <1>7 DEF R1
<1>14. InsertAt(V1[par], i + 1, r) = s
  BY <1>0, <1>2, <1>7, PutBack DEF z
<1>15. [V1 EXCEPT ![par] = s, ![l] = x, ![r] = y] = [V EXCEPT ![l] = x, ![r] = y]
  BY <1>1, <1>2, <1>7 DEF V1
<1> QED  BY <1>10, <1>11, <1>12, <1>13, <1>14, <1>15

(* The heap read as a forest: what Forest says of the nodes A with their   *)
(* levels L, their children V and their right neighbours R, and that the   *)
(* nodes of t are like that but for the children of the parents in D.      *)
Tops(t)    == IF t.root = NULL THEN <<>> ELSE <<t.root>>
Kids(t, n) == IF n = NULL THEN Tops(t) ELSE t.node[n].childid

Looks(t, n, L, R) ==
  /\ t.node[n].level = L[n]
  /\ L[n] = 0 => t.node[n].next_leaf = R[n]
  /\ L[n] # 0 => Len(t.node[n].childid) = slotuse(t.node[n]) + 1

Stands(t, A, L, V, R, D) ==
  /\ IsTree(t) /\ Forest(A, L, V, R)
  /\ \A n \in A : Looks(t, n, L, R)
  /\ \A n \in (A \cup {NULL}) \ D : V[n] = Kids(t, n)
  /\ \A n \in NodeId \ (A \cup D) : t.node[n] = Free

(* No node has too few or too many keys, but node `few` may lack one.      *)
Low(t, n) == IF n = t.root THEN 1 ELSE SlotMin(t.node[n])
Fits(t, n, few) ==
  /\ slotuse(t.node[n]) <= SlotMax(t.node[n])
  /\ IF n = few THEN slotuse(t.node[n]) + 1 >= Low(t, n) ELSE slotuse(t.node[n]) >= Low(t, n)
Filled(t, A, few) == \A n \in A : Fits(t, n, few)

(* The activations on the stack follow a path from the root: activation i  *)
(* has gone into the child of activation i - 1 at its slot.                *)
Above(st, i) == IF i = 0 THEN NULL ELSE st[i].n
Place(st, i) == IF i = 0 THEN 1 ELSE st[i].slot + 1
Down(t, st, i) == Place(st, i) \in 1..Len(Kids(t, Above(st, i)))

Path(t, A, L, st) ==
  /\ \E S : st \in Seq(S)
  /\ \A i \in 1..Len(st) :
       /\ {"n", "slot"} \subseteq DOMAIN st[i]
       /\ st[i].n \in A /\ st[i].slot \in Nat
       /\ L[st[i].n] + i = L[st[1].n] + 1
       /\ Down(t, st, i - 1)
       /\ Kids(t, Above(st, i - 1))[Place(st, i - 1)] = st[i].n

(* The siblings an erasing activation f got from activation p.             *)
Args == {"n", "slot", "left", "left_parent", "right", "right_parent", "parent", "parentslot"}
Higher(L, x, n) == x = NULL \/ (x \in NodeId /\ L[x] > L[n])
Sides(t, L, f, p) ==
  /\ f.parent = p.n /\ f.parentslot = p.slot
  /\ IF p.slot # 0 THEN /\ f.left = At(t.node[p.n].childid, p.slot - 1)
                        /\ f.left_parent = p.n
     ELSE Higher(L, f.left_parent, p.n)
  /\ IF p.slot # slotuse(t.node[p.n]) THEN /\ f.right = At(t.node[p.n].childid, p.slot + 1)
                                           /\ f.right_parent = p.n
     ELSE Higher(L, f.right_parent, p.n)
Alone(f) == /\ f.left = NULL /\ f.left_parent = NULL
            /\ f.right = NULL /\ f.right_parent = NULL
            /\ f.parent = NULL /\ f.parentslot = 0
Siblings(t, L, st) ==
  \A i \in 1..Len(st) : /\ Args \subseteq DOMAIN st[i]
                        /\ IF i = 1 THEN Alone(st[i]) ELSE Sides(t, L, st[i], st[i - 1])

(* The child below the slot of the activation returned to has been split.  *)
Grown(t, A, L, V, R, st, child) ==
  LET par == Above(st, Len(st))
      at  == Place(st, Len(st))
  IN  /\ Down(t, st, Len(st))
      /\ IF child = NULL THEN Stands(t, A, L, V, R, {})
         ELSE /\ Stands(t, A, L, V, R, {par})
              /\ child \in NodeId
              /\ V[par] = InsertAt(Kids(t, par), at + 1, child)

(* Child k of the activation returned to has been emptied into child k - 1.*)
Gap(t, A, V, st, k) ==
  LET n == Last(st).n
      c == t.node[n].childid
  IN  /\ st # <<>> /\ k \in {Last(st).slot + 1, Last(st).slot + 2} /\ k \in 2..Len(c)
      /\ c[k] \in NodeId \ A /\ slotuse(t.node[c[k]]) = 0
      /\ V[n] = RemoveAt(c, k)
Shrunk(t, A, L, V, R, st, flags) ==
  /\ st # <<>> => Down(t, st, Len(st))
  /\ IF "fixmerge" \notin flags THEN Stands(t, A, L, V, R, {})
     ELSE \E k \in Nat : /\ Gap(t, A, V, st, k)
                         /\ Stands(t, A, L, V, R, {Last(st).n, t.node[Last(st).n].childid[k]})

(* What Stands says, for citing.                                           *)
LEMMA StandsFacts ==
  ASSUME NEW t, NEW A, NEW L, NEW V, NEW R, NEW D, Stands(t, A, L, V, R, D)
  PROVE  /\ IsTree(t) /\ Family(A, L, V) /\ Chain(A, L, V, R)
         /\ A \subseteq NodeId /\ L \in [NodeId -> Int] /\ R \in [NodeId -> Parents]
         /\ V \in [Parents -> Seq(A)]
         /\ \A n \in A : t.node[n].level = L[n] /\ L[n] >= 0 /\ t.node[n] # Free
         /\ \A n \in A : L[n] = 0 <=> V[n] = <<>>
BY FreeIsNode DEF Stands, Forest, Family, Kin, Chain, Looks

(* A change to keys, weights or links to the left leaves the forest as it  *)
(* is.                                                                     *)
LEMMA StandsSame ==
  ASSUME NEW t, NEW A, NEW L, NEW V, NEW R, NEW D, Stands(t, A, L, V, R, D),
         NEW u, IsTree(u), u.root = t.root, \A id \in NodeId : Same(u, t, id)
  PROVE  Stands(u, A, L, V, R, D)
<1>1. A \subseteq NodeId
  BY StandsFacts
<1>2. \A n \in A : Looks(u, n, L, R)
  BY <1>1 DEF Stands, Looks, Same, Alike
<1>3. \A n \in (A \cup {NULL}) \ D : V[n] = Kids(u, n)
  BY <1>1 DEF Stands, Kids, Tops, Same, Alike
<1>4. \A n \in NodeId \ (A \cup D) : u.node[n] = Free
  BY DEF Stands, Same
<1> QED  BY <1>2, <1>3, <1>4 DEF Stands

(* And the number of keys in each node.                                    *)
LEMMA FilledSame ==
  ASSUME NEW t, NEW A, A \subseteq NodeId, NEW few, Filled(t, A, few),
         NEW u, u.root = t.root, \A id \in NodeId : Same(u, t, id)
  PROVE  Filled(u, A, few)
BY DEF Filled, Fits, Low, SlotMin, SlotMax, IsLeaf, Same, Alike

(* The activations below, once nothing they refer to has changed.          *)
LEMMA PathKept ==
  ASSUME NEW t, NEW A, NEW L, NEW st, Path(t, A, L, st), NULL \notin A,
         NEW u, NEW B, NEW M, u.root = t.root,
         \A i \in 1..Len(st) : /\ st[i].n \in B /\ M[st[i].n] = L[st[i].n]
                               /\ u.node[st[i].n].childid = t.node[st[i].n].childid
  PROVE  /\ Path(u, B, M, st)
         /\ Down(t, st, Len(st)) => Down(u, st, Len(st))
<1>1. Len(st) \in Nat
  BY DEF Path
<1>2. \A i \in 0..Len(st) : Kids(u, Above(st, i)) = Kids(t, Above(st, i))
  <2> SUFFICES ASSUME NEW i \in 0..Len(st)
               PROVE  Kids(u, Above(st, i)) = Kids(t, Above(st, i))
    OBVIOUS
  <2>1. CASE i = 0
    BY <2>1 DEF Above, Kids, Tops
  <2>2. CASE i # 0
    <3>1. i \in 1..Len(st)
      BY <1>1, <2>2
    <3>2. st[i].n # NULL
      BY <3>1 DEF Path
    <3> QED  BY <2>2, <3>1, <3>2 DEF Above, Kids
  <2> QED  BY <2>1, <2>2
<1>3. \A i \in 1..Len(st) : i - 1 \in 0..Len(st) /\ 1 \in 1..Len(st)
  BY <1>1
<1>4. Path(u, B, M, st)
  BY <1>2, <1>3 DEF Path, Down
<1>5. Len(st) \in 0..Len(st)
  BY <1>1
<1> QED  BY <1>2, <1>4, <1>5 DEF Down

(* Siblings depend on the children of the activations' nodes only.         *)
LEMMA SiblingsKept ==
  ASSUME NEW t, NEW A, NEW L, NEW st, Path(t, A, L, st), Siblings(t, L, st),
         NEW u, \A i \in 1..(Len(st) - 1) :
                  /\ u.node[st[i].n].childid = t.node[st[i].n].childid
                  /\ slotuse(u.node[st[i].n]) = slotuse(t.node[st[i].n])
  PROVE  Siblings(u, L, st)
<1>1. Len(st) \in Nat
  BY DEF Path
<1>2. ASSUME NEW i \in 1..Len(st), i # 1 PROVE Sides(u, L, st[i], st[i - 1])
  <2>1. i - 1 \in 1..(Len(st) - 1)
    BY <1>1, <1>2
  <2>2. Sides(t, L, st[i], st[i - 1])
    BY <1>2 DEF Siblings
  <2> QED  BY <2>1, <2>2 DEF Sides
<1> QED  BY <1>2 DEF Siblings

(* A stack without its last activation.                                    *)
LEMMA FrontIs ==
  ASSUME NEW S, NEW st \in Seq(S), st # <<>>
  PROVE  /\ Front(st) \in Seq(S) /\ Len(Front(st)) = Len(st) - 1
         /\ \A i \in 1..(Len(st) - 1) : Front(st)[i] = st[i]
         /\ Last(st) = st[Len(st)] /\ Len(st) \in Nat \ {0}
<1>1. Len(st) \in Nat \ {0}
  OBVIOUS
<1> DEFINE m == Len(st) - 1
<1>5. m \in 0..Len(st)
  BY <1>1
<1>2. Front(st) \in Seq(S)
  BY <1>1 DEF Front
<1>3. Len(Front(st)) = Len(st) - 1
  <2>1. Front(st) = First(st, m)
    BY DEF Front, First
  <2> HIDE DEF m
  <2>2. Len(First(st, m)) = m
    BY <1>5, Halves
  <2> QED  BY <2>1, <2>2 DEF m
<1>4. \A i \in 1..(Len(st) - 1) : Front(st)[i] = st[i]
  BY <1>1 DEF Front
<1> QED  BY <1>1, <1>2, <1>3, <1>4 DEF Last

(* The activation on top and the one below it.                             *)
Meets(t, A, L, st) ==
  LET top   == Last(st)
      below == Front(st)
      h     == Len(below)
      par   == Above(below, h)
  IN  /\ {"n", "slot"} \subseteq DOMAIN top /\ top.n \in A /\ top.slot \in Nat
      /\ h \in Nat /\ h = Len(st) - 1
      /\ Path(t, A, L, below) /\ Down(t, below, h)
      /\ Kids(t, par)[Place(below, h)] = top.n
      /\ \A i \in 1..h : below[i].n \in A /\ L[below[i].n] > L[top.n]
      /\ below = <<>> => par = NULL
      /\ below # <<>> => /\ par = Last(below).n /\ par \in A /\ L[par] = L[top.n] + 1
                         /\ Place(below, h) = Last(below).slot + 1
                         /\ Last(below) = st[Len(st) - 1] /\ Len(st) # 1

(* The last activation, and the one it was called by, on the path.         *)
LEMMA TopMeets ==
  ASSUME NEW t, NEW A, NEW L \in [NodeId -> Int], A \subseteq NodeId, NEW st,
         Path(t, A, L, st), st # <<>>
  PROVE  Meets(t, A, L, st)
<1> DEFINE top   == Last(st)
           below == Front(st)
           h     == Len(below)
<1>1. PICK S : st \in Seq(S)
  BY DEF Path
<1>2. /\ below \in Seq(S) /\ h = Len(st) - 1 /\ h \in Nat /\ Len(st) \in 1..Len(st)
      /\ \A i \in 1..h : below[i] = st[i] /\ i \in 1..Len(st)
      /\ top = st[Len(st)]
  BY <1>1, FrontIs
<1> HIDE DEF top, below
<1>3. \A i \in 1..h : below[1] = st[1]
  <2> SUFFICES ASSUME NEW i \in 1..h PROVE below[1] = st[1]
    OBVIOUS
  <2>1. 1 \in 1..h
    BY <1>2
  <2> QED  BY <1>2, <2>1
<1>4. \A i \in 0..h : Above(below, i) = Above(st, i) /\ Place(below, i) = Place(st, i)
  <2> SUFFICES ASSUME NEW i \in 0..h
               PROVE  Above(below, i) = Above(st, i) /\ Place(below, i) = Place(st, i)
    OBVIOUS
  <2>1. CASE i = 0
    BY <2>1 DEF Above, Place
  <2>2. CASE i # 0
    <3>1. i \in 1..h
      BY <1>2, <2>2
    <3> QED  BY <1>2, <2>2, <3>1 DEF Above, Place
  <2> QED  BY <2>1, <2>2
<1>5. Path(t, A, L, below)
  <2>1. ASSUME NEW i \in 1..h
        PROVE  /\ {"n", "slot"} \subseteq DOMAIN below[i]
               /\ below[i].n \in A /\ below[i].slot \in Nat
               /\ L[below[i].n] + i = L[below[1].n] + 1
               /\ Down(t, below, i - 1)
               /\ Kids(t, Above(below, i - 1))[Place(below, i - 1)] = below[i].n
    <3>1. i - 1 \in 0..h /\ below[i] = st[i] /\ below[1] = st[1] /\ i \in 1..Len(st)
      BY <1>2, <1>3
    <3>2. Above(below, i - 1) = Above(st, i - 1) /\ Place(below, i - 1) = Place(st, i - 1)
      BY <1>4, <3>1
    <3> QED  BY <3>1, <3>2 DEF Path, Down
  <2> QED  BY <1>2, <2>1 DEF Path
<1>6. Down(t, below, h) /\ Kids(t, Above(below, h))[Place(below, h)] = top.n
  <2>1. h \in 0..h /\ Len(st) - 1 = h
    BY <1>2
  <2> QED  BY <1>2, <1>4, <2>1 DEF Path, Down
<1>7. \A i \in 1..h : below[i].n \in A /\ L[below[i].n] > L[top.n]
  <2> SUFFICES ASSUME NEW i \in 1..h PROVE below[i].n \in A /\ L[below[i].n] > L[top.n]
    OBVIOUS
  <2> DEFINE x == L[below[i].n]
             y == L[top.n]
             z == L[st[1].n]
  <2>0. below[i] = st[i] /\ i \in 1..Len(st) /\ 1 \in 1..Len(st)
    BY <1>2
  <2>1. x + i = z + 1 /\ y + Len(st) = z + 1 /\ i < Len(st) /\ Len(st) \in Nat
    <3>1. i < Len(st) /\ Len(st) \in Nat /\ Len(st) \in 1..Len(st)
      BY <1>2
    <3>2. L[st[i].n] + i = z + 1
      BY <2>0 DEF Path
    <3>3. L[st[Len(st)].n] + Len(st) = z + 1
      BY <3>1 DEF Path
    <3> QED  BY <1>2, <2>0, <3>1, <3>2, <3>3
  <2>2. below[i].n \in A /\ top.n \in A /\ st[1].n \in A
    BY <1>2, <2>0 DEF Path
  <2>3. x \in Int /\ y \in Int /\ z \in Int
    BY <2>2
  <2> HIDE DEF x, y, z
  <2>4. x > y
    BY <2>1, <2>3
  <2> QED  BY <2>2, <2>4 DEF x, y
<1>8. ASSUME below # <<>>
      PROVE  LET par == Above(below, h)
             IN  /\ par = Last(below).n /\ par \in A /\ L[par] = L[top.n] + 1
                 /\ Place(below, h) = Last(below).slot + 1
                 /\ Last(below) = st[Len(st) - 1] /\ Len(st) # 1
  <2>1. Last(below) = below[h] /\ h \in Nat \ {0}
    BY <1>2, <1>8, FrontIs
  <2>2. h \in 1..h /\ below[h] = st[h] /\ h = Len(st) - 1 /\ h # 0 /\ 1 \in 1..Len(st)
        /\ h \in 1..Len(st)
    BY <1>2, <2>1
  <2> DEFINE x == L[below[h].n]
             y == L[top.n]
             z == L[st[1].n]
  <2>3. x + h = z + 1 /\ y + Len(st) = z + 1
    BY <1>2, <2>2 DEF Path
  <2>4. below[h].n \in A /\ top.n \in A /\ st[1].n \in A
    BY <1>2, <2>2 DEF Path
  <2>5. x \in Int /\ y \in Int /\ z \in Int
    BY <2>4
  <2> HIDE DEF x, y, z
  <2>6. x = y + 1
    BY <2>3, <2>5, <1>2
  <2>7. Above(below, h) = below[h].n /\ Place(below, h) = below[h].slot + 1
    BY <2>2 DEF Above, Place
  <2>8. Len(st) # 1
    BY <1>2, <2>1
  <2> QED  BY <2>1, <2>2, <2>4, <2>6, <2>7, <2>8 DEF x, y
<1>9. below = <<>> => Above(below, h) = NULL
  BY DEF Above
<1>10. {"n", "slot"} \subseteq DOMAIN top /\ top.n \in A /\ top.slot \in Nat
  BY <1>2 DEF Path
<1> QED  BY <1>2, <1>5, <1>6, <1>7, <1>8, <1>9, <1>10 DEF Meets, top, below

(* The stack after the activation on top, now f, has called g.             *)
Into(st, f, g) == Append(Front(st), f) \o <<g>>

(* A stack with one activation more.                                       *)
LEMMA IntoIs ==
  ASSUME NEW S, NEW st \in Seq(S), st # <<>>, NEW f, NEW g
  PROVE  LET to == Into(st, f, g)
         IN  /\ \E T : to \in Seq(T)
             /\ Len(to) = Len(st) + 1 /\ Len(st) \in Nat \ {0}
             /\ \A i \in 1..(Len(st) - 1) : to[i] = st[i]
             /\ to[Len(st)] = f /\ to[Len(st) + 1] = g
<1> DEFINE T  == S \cup {f, g}
           fr == Front(st)
           ap == Append(fr, f)
           to == ap \o <<g>>
<1>1. /\ fr \in Seq(S) /\ Len(fr) = Len(st) - 1 /\ Len(st) \in Nat \ {0}
      /\ \A i \in 1..(Len(st) - 1) : fr[i] = st[i]
  BY FrontIs
<1> HIDE DEF fr
<1>2. fr \in Seq(T) /\ f \in T /\ g \in T
  BY <1>1
<1> HIDE DEF T
<1>3. ap \in Seq(T)
  BY <1>2
<1>4. Len(ap) = Len(st)
  BY <1>1, <1>2
<1>5. \A i \in 1..(Len(st) - 1) : ap[i] = st[i]
  BY <1>1, <1>2
<1>6. ap[Len(st)] = f
  BY <1>1, <1>2
<1> HIDE DEF ap
<1>7. to \in Seq(T)
  BY <1>2, <1>3
<1>8. Len(to) = Len(st) + 1
  BY <1>3, <1>4
<1>9. \A i \in 1..Len(st) : to[i] = ap[i]
  BY <1>3, <1>4
<1>10. to[Len(st) + 1] = g
  BY <1>1, <1>3, <1>4
<1> HIDE DEF to
<1>11. Len(st) \in 1..Len(st) /\ \A i \in 1..(Len(st) - 1) : i \in 1..Len(st)
  BY <1>1
<1>12. Into(st, f, g) = to
  BY DEF Into, to, ap, fr
<1> QED  BY <1>1, <1>5, <1>6, <1>7, <1>8, <1>9, <1>10, <1>11, <1>12

(* Going into the child at f.slot extends the path.                        *)
LEMMA PathInto ==
  ASSUME NEW t, NEW A, NEW L \in [NodeId -> Int], A \subseteq NodeId, NEW st,
         Path(t, A, L, st), st # <<>>, NEW f, NEW g,
         {"n", "slot"} \subseteq DOMAIN f, {"n", "slot"} \subseteq DOMAIN g,
         f.n = Last(st).n, f.slot \in Nat, g.slot = 0, g.n \in A,
         f.slot + 1 \in 1..Len(t.node[f.n].childid), t.node[f.n].childid[f.slot + 1] = g.n,
         L[f.n] = L[g.n] + 1
  PROVE  Path(t, A, L, Into(st, f, g))
<1> DEFINE to == Into(st, f, g)
           m  == Len(st)
<1>1. PICK S : st \in Seq(S)
  BY DEF Path
<1>2. /\ \E T : to \in Seq(T)
      /\ Len(to) = m + 1 /\ m \in Nat \ {0}
      /\ \A i \in 1..(m - 1) : to[i] = st[i]
      /\ to[m] = f /\ to[m + 1] = g /\ Last(st) = st[m]
  <2>1. Last(st) = st[Len(st)]
    BY <1>1, FrontIs
  <2>2. /\ \E T : Into(st, f, g) \in Seq(T)
        /\ Len(Into(st, f, g)) = Len(st) + 1 /\ Len(st) \in Nat \ {0}
        /\ \A i \in 1..(Len(st) - 1) : Into(st, f, g)[i] = st[i]
        /\ Into(st, f, g)[Len(st)] = f /\ Into(st, f, g)[Len(st) + 1] = g
    <3> HIDE DEF to, m
    <3> QED  BY <1>1, IntoIs
  <2> QED  BY <2>1, <2>2
<1> HIDE DEF to
<1>3. m \in 1..m /\ 1 \in 1..m /\ f.n \in A /\ f.n \in NodeId /\ f.n # NULL
  BY <1>2, NullApart DEF Path
<1>4. \A i \in 1..m : to[i].n = st[i].n
  <2> SUFFICES ASSUME NEW i \in 1..m PROVE to[i].n = st[i].n
    OBVIOUS
  <2>1. i = m \/ i \in 1..(m - 1)
    BY <1>2
  <2> QED  BY <1>2, <2>1
<1>5. \A i \in 0..m : Above(to, i) = Above(st, i)
  BY <1>2, <1>4 DEF Above
<1>6. \A i \in 0..(m - 1) : Place(to, i) = Place(st, i)
  <2> SUFFICES ASSUME NEW i \in 0..(m - 1) PROVE Place(to, i) = Place(st, i)
    OBVIOUS
  <2>1. i = 0 \/ i \in 1..(m - 1)
    BY <1>2
  <2> QED  BY <1>2, <2>1 DEF Place
<1>7. ASSUME NEW i \in 1..m
      PROVE  /\ {"n", "slot"} \subseteq DOMAIN to[i]
             /\ to[i].n \in A /\ to[i].slot \in Nat
             /\ L[to[i].n] + i = L[to[1].n] + 1
             /\ Down(t, to, i - 1)
             /\ Kids(t, Above(to, i - 1))[Place(to, i - 1)] = to[i].n
  <2>1. /\ st[i].n \in A /\ L[st[i].n] + i = L[st[1].n] + 1 /\ Down(t, st, i - 1)
        /\ Kids(t, Above(st, i - 1))[Place(st, i - 1)] = st[i].n
        /\ {"n", "slot"} \subseteq DOMAIN st[i] /\ st[i].slot \in Nat
    BY DEF Path
  <2>2. to[i].n = st[i].n /\ to[1].n = st[1].n
    BY <1>3, <1>4
  <2>3. i - 1 \in 0..m /\ i - 1 \in 0..(m - 1)
    BY <1>2
  <2>4. Above(to, i - 1) = Above(st, i - 1) /\ Place(to, i - 1) = Place(st, i - 1)
    BY <1>5, <1>6, <2>3
  <2>5. {"n", "slot"} \subseteq DOMAIN to[i] /\ to[i].slot \in Nat
    <3>1. i = m \/ i \in 1..(m - 1)
      BY <1>2
    <3> QED  BY <1>2, <2>1, <3>1
  <2> QED  BY <2>1, <2>2, <2>4, <2>5 DEF Down
<1>8. /\ to[m + 1].n \in A /\ to[m + 1].slot \in Nat /\ {"n", "slot"} \subseteq DOMAIN to[m + 1]
      /\ L[to[m + 1].n] + (m + 1) = L[to[1].n] + 1
  <2> DEFINE x == L[f.n]
             y == L[g.n]
             z == L[to[1].n]
  <2>1. x + m = z + 1
    BY <1>3, <1>4, <1>2 DEF Path
  <2>2. to[1].n \in A
    BY <1>3, <1>4 DEF Path
  <2>3. x \in Int /\ y \in Int /\ z \in Int /\ x = y + 1
    BY <1>3, <2>2
  <2> HIDE DEF x, y, z
  <2>4. y + (m + 1) = z + 1
    BY <2>1, <2>3, <1>2
  <2> QED  BY <1>2, <2>4 DEF y, z
<1>9. /\ Down(t, to, m) /\ Kids(t, Above(to, m))[Place(to, m)] = to[m + 1].n
  <2>1. m # 0 /\ Above(to, m) = f.n /\ Place(to, m) = f.slot + 1
    BY <1>2 DEF Above, Place
  <2>2. Kids(t, f.n) = t.node[f.n].childid
    BY <1>3 DEF Kids
  <2> QED  BY <1>2, <2>1, <2>2 DEF Down
<1>10. \A i \in 1..Len(to) : i \in 1..m \/ i = m + 1
  BY <1>2
<1>11. (m + 1) - 1 = m
  BY <1>2
<1> HIDE DEF m
<1> QED  BY <1>2, <1>7, <1>8, <1>9, <1>10, <1>11, Zenon DEF Path, to

(* The siblings passed down with it.                                       *)
LEMMA SiblingsInto ==
  ASSUME NEW t, NEW L, NEW st, NEW S, st \in Seq(S), st # <<>>, Siblings(t, L, st),
         NEW f, NEW g,
         Args \subseteq DOMAIN f, Args \subseteq DOMAIN g,
         f.n = Last(st).n,
         f.left = Last(st).left, f.left_parent = Last(st).left_parent,
         f.right = Last(st).right, f.right_parent = Last(st).right_parent,
         f.parent = Last(st).parent, f.parentslot = Last(st).parentslot,
         Sides(t, L, g, f)
  PROVE  Siblings(t, L, Into(st, f, g))
<1> DEFINE to == Into(st, f, g)
           m  == Len(st)
<1>2. /\ Len(to) = m + 1 /\ m \in Nat \ {0}
      /\ \A i \in 1..(m - 1) : to[i] = st[i]
      /\ to[m] = f /\ to[m + 1] = g /\ Last(st) = st[m]
      /\ \E T : to \in Seq(T)
  <2>1. Last(st) = st[Len(st)]
    BY FrontIs
  <2>2. /\ \E T : Into(st, f, g) \in Seq(T)
        /\ Len(Into(st, f, g)) = Len(st) + 1 /\ Len(st) \in Nat \ {0}
        /\ \A i \in 1..(Len(st) - 1) : Into(st, f, g)[i] = st[i]
        /\ Into(st, f, g)[Len(st)] = f /\ Into(st, f, g)[Len(st) + 1] = g
    <3> HIDE DEF to, m
    <3> QED  BY IntoIs
  <2> QED  BY <2>1, <2>2
<1> HIDE DEF to
<1>3. ASSUME NEW i \in 1..m
      PROVE  Args \subseteq DOMAIN to[i] /\ IF i = 1 THEN Alone(to[i]) ELSE Sides(t, L, to[i], to[i - 1])
  <2>1. CASE i \in 1..(m - 1)
    <3>1. i # 1 => i - 1 \in 1..(m - 1)
      BY <1>2, <2>1
    <3>2. Args \subseteq DOMAIN st[i] /\ IF i = 1 THEN Alone(st[i]) ELSE Sides(t, L, st[i], st[i - 1])
      BY DEF Siblings
    <3> QED  BY <1>2, <2>1, <3>1, <3>2
  <2>2. CASE i = m
    <3>1. i # 1 => i - 1 \in 1..(m - 1)
      BY <1>2, <2>2
    <3>2. IF i = 1 THEN Alone(st[i]) ELSE Sides(t, L, st[i], st[i - 1])
      BY DEF Siblings
    <3>3. Last(st) = st[i] /\ to[i] = f
      BY <1>2, <2>2
    <3>4. CASE i = 1
      BY <3>2, <3>3, <3>4 DEF Alone
    <3>5. CASE i # 1
      BY <1>2, <3>1, <3>2, <3>3, <3>5 DEF Sides
    <3> QED  BY <3>3, <3>4, <3>5
  <2> QED  BY <1>2, <2>1, <2>2
<1>4. \A i \in 1..Len(to) : i \in 1..m \/ i = m + 1
  BY <1>2
<1>5. (m + 1) - 1 = m /\ m + 1 # 1
  BY <1>2
<1> HIDE DEF m
<1> QED  BY <1>2, <1>3, <1>4, <1>5 DEF Siblings, to

(* The children of a node in the forest.                                   *)
LEMMA ChildrenFacts ==
  ASSUME NEW t, NEW A, NEW L, NEW V, NEW R, NEW D, Stands(t, A, L, V, R, D),
         NEW n \in A, n \notin D
  PROVE  LET c == t.node[n].childid
         IN  /\ n \in NodeId /\ n # NULL /\ n \in Parents
             /\ c = V[n] /\ c = Kids(t, n) /\ c \in Seq(A) /\ Len(c) \in Nat
             /\ \A i \in 1..Len(c) : /\ c[i] \in A /\ c[i] \in NodeId /\ c[i] # n
                                     /\ L[n] = L[c[i]] + 1
                                     /\ \A j \in 1..Len(c) : c[j] = c[i] => i = j
             /\ L[n] # 0 => Len(c) = slotuse(t.node[n]) + 1 /\ ~IsLeaf(t.node[n])
             /\ L[n] = 0 => c = <<>> /\ IsLeaf(t.node[n])
             /\ slotuse(t.node[n]) \in Nat
<1> DEFINE c == t.node[n].childid
<1>1. /\ IsTree(t) /\ Family(A, L, V) /\ A \subseteq NodeId /\ V \in [Parents -> Seq(A)]
      /\ t.node[n].level = L[n] /\ (L[n] = 0 <=> V[n] = <<>>)
  BY StandsFacts
<1>2. n \in NodeId /\ n # NULL /\ n \in Parents
  BY <1>1, NullApart DEF Parents
<1>3. c = V[n] /\ c = Kids(t, n)
  BY <1>2 DEF Stands, Kids
<1>4. c \in Seq(A)
  BY <1>1, <1>2, <1>3
<1>5. slotuse(t.node[n]) \in Nat
  BY <1>1, <1>2 DEF IsTree, IsNode, slotuse
<1>6. L[n] # 0 => Len(c) = slotuse(t.node[n]) + 1 /\ ~IsLeaf(t.node[n])
  BY <1>1 DEF Stands, Looks, IsLeaf
<1>7. L[n] = 0 => c = <<>> /\ IsLeaf(t.node[n])
  BY <1>1, <1>3 DEF IsLeaf
<1> HIDE DEF c
<1>8. Len(c) \in Nat
  BY <1>4
<1>9. ASSUME NEW i \in 1..Len(c)
      PROVE  /\ c[i] \in A /\ c[i] \in NodeId /\ c[i] # n
             /\ L[n] = L[c[i]] + 1
             /\ \A j \in 1..Len(c) : c[j] = c[i] => i = j
  <2>1. /\ V[n][i] \in A /\ V[n][i] \in NodeId /\ V[n][i] # n /\ V[n][i] \in Sets(V)[n]
        /\ \A j \in 1..Len(V[n]) : V[n][j] = V[n][i] => i = j
    <3>1. i \in 1..Len(V[n]) /\ Family(A, L, V) /\ n \in Parents
      BY <1>1, <1>2, <1>3
    <3>2. V[n][i] \in A /\ V[n][i] \in NodeId /\ V[n][i] # n /\ V[n][i] \in Sets(V)[n]
      BY <3>1, ChildApart
    <3>3. \A j \in 1..Len(V[n]) : V[n][j] = V[n][i] => i = j
      BY <3>1, ChildApart
    <3> QED  BY <3>2, <3>3
  <2>2. L[n] = L[V[n][i]] + 1
    BY <1>1, <1>2, <2>1 DEF Family, Kin
  <2> QED  BY <1>3, <2>1, <2>2
<1> QED  BY <1>2, <1>3, <1>4, <1>5, <1>6, <1>7, <1>8, <1>9 DEF c

(* insert_descend() goes down one level.                                   *)
LEMMA InsertInto ==
  ASSUME NEW t, NEW A, NEW L, NEW V, NEW R, Stands(t, A, L, V, R, {}),
         NEW st, Path(t, A, L, st), st # <<>>, ~IsLeaf(t.node[Last(st).n]),
         NEW slot \in 0..slotuse(t.node[Last(st).n])
  PROVE  Path(t, A, L, Into(st, [Last(st) EXCEPT !.slot = slot],
                            [n |-> At(t.node[Last(st).n].childid, slot), slot |-> 0]))
<1> DEFINE top == Last(st)
           n   == top.n
           c   == t.node[n].childid
           f   == [top EXCEPT !.slot = slot]
           g   == [n |-> At(c, slot), slot |-> 0]
<1>1. A \subseteq NodeId /\ L \in [NodeId -> Int]
  BY StandsFacts
<1>2. {"n", "slot"} \subseteq DOMAIN top /\ n \in A
  BY <1>1, TopMeets, Zenon DEF Meets
<1>3. /\ \A i \in 1..Len(c) : c[i] \in A /\ L[n] = L[c[i]] + 1
      /\ Len(c) = slotuse(t.node[n]) + 1
      /\ slotuse(t.node[n]) \in Nat
  BY <1>2, ChildrenFacts
<1>4. slot + 1 \in 1..Len(c) /\ slot \in Nat
  BY <1>3
<1>5. {"n", "slot"} \subseteq DOMAIN f /\ f.n = n /\ f.slot = slot
  BY <1>2
<1>6. {"n", "slot"} \subseteq DOMAIN g /\ g.n = c[slot + 1] /\ g.slot = 0
  BY DEF At
<1> HIDE DEF top, f, g
<1>7. Path(t, A, L, Into(st, f, g))
  <2>1. f.n = Last(st).n /\ f.slot \in Nat /\ g.n \in A /\ L[f.n] = L[g.n] + 1
        /\ f.slot + 1 \in 1..Len(t.node[f.n].childid) /\ t.node[f.n].childid[f.slot + 1] = g.n
    BY <1>3, <1>4, <1>5, <1>6 DEF top
  <2> QED  BY <1>1, <1>5, <1>6, <2>1, PathInto
<1> QED  BY <1>7 DEF f, g, top

(* erase_one_descend() and erase_iter_descend() do, with the siblings they *)
(* look up for the child.                                                  *)
LEMMA EraseIntoPath ==
  ASSUME NEW t, NEW A, NEW L, NEW V, NEW R, Stands(t, A, L, V, R, {}),
         NEW st, Path(t, A, L, st), Siblings(t, L, st), st # <<>>,
         ~IsLeaf(t.node[Last(st).n]),
         NEW slot \in 0..slotuse(t.node[Last(st).n])
  PROVE  LET to == Into(st, [Last(st) EXCEPT !.slot = slot], ChildArgs(t, Last(st), slot))
         IN  Path(t, A, L, to) /\ Siblings(t, L, to)
<1> DEFINE top == Last(st)
           n   == top.n
           c   == t.node[n].childid
           f   == [top EXCEPT !.slot = slot]
           g   == ChildArgs(t, top, slot)
<1>0. PICK S : st \in Seq(S)
  BY DEF Path
<1>1. A \subseteq NodeId /\ L \in [NodeId -> Int]
  BY StandsFacts
<1>2. /\ {"n", "slot"} \subseteq DOMAIN top /\ n \in A /\ Meets(t, A, L, st)
      /\ top = st[Len(st)] /\ Len(st) \in 1..Len(st) /\ Len(st) \in Nat
  <2>1. Meets(t, A, L, st)
    BY <1>1, TopMeets
  <2>2. top = st[Len(st)] /\ Len(st) \in Nat \ {0}
    BY <1>0, FrontIs
  <2> QED  BY <2>1, <2>2 DEF Meets
<1>3. /\ \A i \in 1..Len(c) : c[i] \in A /\ c[i] \in NodeId /\ L[n] = L[c[i]] + 1
      /\ Len(c) = slotuse(t.node[n]) + 1
      /\ slotuse(t.node[n]) \in Nat /\ n \in NodeId
  BY <1>2, ChildrenFacts
<1>4. slot + 1 \in 1..Len(c) /\ slot \in Nat
  BY <1>3
<1>5. Args \subseteq DOMAIN top
  BY <1>2 DEF Siblings
<1>6. /\ {"n", "slot"} \subseteq DOMAIN f /\ Args \subseteq DOMAIN f /\ f.n = n /\ f.slot = slot
      /\ f.left = top.left /\ f.left_parent = top.left_parent
      /\ f.right = top.right /\ f.right_parent = top.right_parent
      /\ f.parent = top.parent /\ f.parentslot = top.parentslot
  BY <1>2, <1>5 DEF Args
<1>7. /\ {"n", "slot"} \subseteq DOMAIN g /\ Args \subseteq DOMAIN g
      /\ g.n = c[slot + 1] /\ g.slot = 0 /\ g.parent = n /\ g.parentslot = slot
      /\ slot # 0 => g.left = At(c, slot - 1) /\ g.left_parent = n
      /\ slot = 0 => g.left_parent = top.left_parent
      /\ slot # slotuse(t.node[n]) => g.right = At(c, slot + 1) /\ g.right_parent = n
      /\ slot = slotuse(t.node[n]) => g.right_parent = top.right_parent
  BY DEF ChildArgs, At, Args
<1>8. Higher(L, top.left_parent, n) /\ Higher(L, top.right_parent, n)
  <2>1. CASE Len(st) = 1
    BY <2>1, <1>2 DEF Siblings, Alone, Higher
  <2>2. CASE Len(st) # 1
    <3> DEFINE p == st[Len(st) - 1]
    <3>1. Sides(t, L, top, p)
      BY <2>2, <1>2 DEF Siblings
    <3>2. Front(st) # <<>>
      <4>1. Len(Front(st)) = Len(st) - 1
        BY <1>0, FrontIs
      <4>2. Len(Front(st)) # 0
        BY <4>1, <2>2, <1>2
      <4> QED  BY <4>2
    <3>3. p.n \in A /\ L[p.n] = L[n] + 1
      BY <1>2, <3>2 DEF Meets
    <3> HIDE DEF p, top
    <3>4. L[p.n] \in Int /\ L[n] \in Int /\ p.n \in NodeId /\ \A x \in NodeId : L[x] \in Int
      BY <3>3, <1>1, <1>3
    <3> DEFINE x == top.left_parent
               y == top.right_parent
    <3>5. x = p.n \/ Higher(L, x, p.n)
      BY <3>1 DEF Sides
    <3>6. y = p.n \/ Higher(L, y, p.n)
      BY <3>1 DEF Sides
    <3> HIDE DEF x, y, n
    <3>7. Higher(L, x, n)
      BY <3>3, <3>4, <3>5 DEF Higher
    <3>8. Higher(L, y, n)
      BY <3>3, <3>4, <3>6 DEF Higher
    <3> QED  BY <3>7, <3>8 DEF x, y
  <2> QED  BY <2>1, <2>2
<1> HIDE DEF top, f, g
<1>9. Path(t, A, L, Into(st, f, g))
  <2>1. f.n = Last(st).n /\ f.slot \in Nat /\ g.n \in A /\ L[f.n] = L[g.n] + 1
        /\ f.slot + 1 \in 1..Len(t.node[f.n].childid) /\ t.node[f.n].childid[f.slot + 1] = g.n
    BY <1>3, <1>4, <1>6, <1>7 DEF top
  <2> QED  BY <1>1, <1>6, <1>7, <2>1, PathInto
<1>10. Sides(t, L, g, f)
  BY <1>4, <1>6, <1>7, <1>8 DEF Sides
<1>11. Siblings(t, L, Into(st, f, g))
  BY <1>0, <1>6, <1>7, <1>10, SiblingsInto DEF top
<1> QED  BY <1>9, <1>11 DEF f, g, top

(* The forest after a split of n, child i of par, into n and new, and the  *)
(* forest with a new node of level h over the top ones.                    *)
SplitL(L, n, new) == [L EXCEPT ![new] = L[n]]
SplitV(V, par, i, n, new, p, q) ==
  [V EXCEPT ![par] = InsertAt(V[par], i + 1, new), ![n] = p, ![new] = q]
SplitR(R, n, new) == [R EXCEPT ![n] = new, ![new] = R[n]]

GrowL(L, new, h) == [L EXCEPT ![new] = h]
GrowV(V, new) == [V EXCEPT ![NULL] = <<new>>, ![new] = V[NULL]]
GrowR(R, new) == [R EXCEPT ![new] = NULL]

(* A tree in which n was split, up to the children its parent lists.       *)
LEMMA SplitStands ==
  ASSUME NEW t, NEW A, NEW L, NEW V, NEW R, NEW D, Stands(t, A, L, V, R, D),
         NEW par \in Parents, NEW i \in 1..Len(V[par]), NEW new \in NodeId, new \notin A,
         NEW p \in Seq(A), NEW q \in Seq(A), NEW n, n = V[par][i],
         V[n] = p \o q, p = <<>> <=> q = <<>>,
         NEW u, IsTree(u),
         Looks(u, n, SplitL(L, n, new), SplitR(R, n, new)),
         Looks(u, new, SplitL(L, n, new), SplitR(R, n, new)),
         \A id \in NodeId \ {n, new} : Same(u, t, id),
         NEW E, D \ {n} \subseteq E, par \in E,
         n \in E \/ Kids(u, n) = p, new \in E \/ Kids(u, new) = q,
         NULL \in E \/ u.root = t.root
  PROVE  Stands(u, A \cup {new}, SplitL(L, n, new), SplitV(V, par, i, n, new, p, q),
                SplitR(R, n, new), E)
<1> DEFINE B == A \cup {new}
           M == SplitL(L, n, new)
           W == SplitV(V, par, i, n, new, p, q)
           T == SplitR(R, n, new)
<1>1. /\ Family(A, L, V) /\ A \subseteq NodeId /\ L \in [NodeId -> Int]
      /\ R \in [NodeId -> Parents] /\ V \in [Parents -> Seq(A)] /\ Forest(A, L, V, R)
  <2>1. Forest(A, L, V, R)
    BY DEF Stands
  <2>2. /\ Family(A, L, V) /\ A \subseteq NodeId /\ L \in [NodeId -> Int]
        /\ R \in [NodeId -> Parents] /\ V \in [Parents -> Seq(A)]
    BY StandsFacts
  <2> QED  BY <2>1, <2>2
<1>2. n \in A /\ n \in NodeId /\ n # NULL /\ n # par /\ n # new /\ new # NULL
  <2>1. /\ V[par][i] \in A /\ V[par][i] \in NodeId /\ V[par][i] # NULL
        /\ V[par][i] # par
    BY <1>1, ChildApart
  <2> QED  BY <2>1, NullApart
<1>3. Forest(B, M, W, T)
  BY <1>1, SplitForest DEF SplitL, SplitV, SplitR
<1>4. /\ \A m \in NodeId \ {new} : M[m] = L[m]
      /\ \A m \in NodeId \ {n, new} : T[m] = R[m]
      /\ W[n] = p /\ W[new] = q /\ \A m \in Parents \ {par, n, new} : W[m] = V[m]
  BY <1>1, <1>2 DEF SplitL, SplitV, SplitR, Parents
<1> HIDE DEF M, W, T
<1>5. \A m \in B : Looks(u, m, M, T)
  <2> SUFFICES ASSUME NEW m \in A, m # n, m # new PROVE Looks(u, m, M, T)
    BY DEF M, T
  <2>1. m \in NodeId \ {n, new} /\ Looks(t, m, L, R) /\ M[m] = L[m] /\ T[m] = R[m]
    BY <1>1, <1>4 DEF Stands
  <2> QED  BY <2>1 DEF Looks, Same, Alike
<1>6. ASSUME NEW m \in (B \cup {NULL}) \ E PROVE W[m] = Kids(u, m)
  <2>1. CASE m = n
    BY <1>4, <1>6, <2>1
  <2>2. CASE m = new
    BY <1>4, <1>6, <2>2
  <2>3. CASE m # n /\ m # new
    <3>1. m \in (A \cup {NULL}) \ D /\ m # par /\ m \in Parents
      BY <1>1, <1>6, <2>3 DEF Parents
    <3>2. W[m] = Kids(t, m)
      BY <1>4, <2>3, <3>1 DEF Stands
    <3>3. Kids(u, m) = Kids(t, m)
      <4>1. CASE m = NULL
        BY <1>6, <4>1 DEF Kids, Tops
      <4>2. CASE m # NULL
        BY <1>1, <2>3, <3>1, <4>2 DEF Kids, Same, Alike
      <4> QED  BY <4>1, <4>2
    <3> QED  BY <3>2, <3>3
  <2> QED  BY <2>1, <2>2, <2>3
<1>7. ASSUME NEW m \in NodeId \ (B \cup E) PROVE u.node[m] = Free
  BY <1>2 DEF Stands, Same
<1> QED  BY <1>3, <1>5, <1>6, <1>7 DEF Stands, M, W, T

(* A tree with a new root.                                                 *)
LEMMA GrowStands ==
  ASSUME NEW t, NEW A, NEW L, NEW V, NEW R, NEW D, Stands(t, A, L, V, R, D),
         NEW new \in NodeId, new \notin A,
         NEW h \in Nat, h = 0 <=> V[NULL] = <<>>, \A c \in Sets(V)[NULL] : h = L[c] + 1,
         NEW u, IsTree(u), Looks(u, new, GrowL(L, new, h), GrowR(R, new)),
         \A id \in NodeId \ {new} : Same(u, t, id),
         NEW E, D \ {NULL} \subseteq E,
         new \in E \/ Kids(u, new) = V[NULL], NULL \in E \/ Kids(u, NULL) = <<new>>
  PROVE  Stands(u, A \cup {new}, GrowL(L, new, h), GrowV(V, new), GrowR(R, new), E)
<1> DEFINE B == A \cup {new}
           M == GrowL(L, new, h)
           W == GrowV(V, new)
           T == GrowR(R, new)
<1>1. /\ Family(A, L, V) /\ A \subseteq NodeId /\ L \in [NodeId -> Int]
      /\ R \in [NodeId -> Parents] /\ V \in [Parents -> Seq(A)] /\ Forest(A, L, V, R)
  <2>1. Forest(A, L, V, R)
    BY DEF Stands
  <2>2. /\ Family(A, L, V) /\ A \subseteq NodeId /\ L \in [NodeId -> Int]
        /\ R \in [NodeId -> Parents] /\ V \in [Parents -> Seq(A)]
    BY StandsFacts
  <2> QED  BY <2>1, <2>2
<1>2. new # NULL
  BY NullApart
<1>3. Forest(B, M, W, T)
  BY <1>1, GrowForest DEF GrowL, GrowV, GrowR
<1>4. /\ \A m \in NodeId \ {new} : M[m] = L[m] /\ T[m] = R[m]
      /\ W[NULL] = <<new>> /\ W[new] = V[NULL]
      /\ \A m \in Parents \ {NULL, new} : W[m] = V[m]
  BY <1>1, <1>2 DEF GrowL, GrowV, GrowR, Parents
<1> HIDE DEF M, W, T
<1>5. \A m \in B : Looks(u, m, M, T)
  <2> SUFFICES ASSUME NEW m \in A, m # new PROVE Looks(u, m, M, T)
    BY DEF M, T
  <2>1. m \in NodeId \ {new} /\ Looks(t, m, L, R) /\ M[m] = L[m] /\ T[m] = R[m]
    BY <1>1, <1>4 DEF Stands
  <2> QED  BY <2>1 DEF Looks, Same, Alike
<1>6. ASSUME NEW m \in (B \cup {NULL}) \ E PROVE W[m] = Kids(u, m)
  <2>1. CASE m = NULL
    BY <1>4, <1>6, <2>1
  <2>2. CASE m = new
    BY <1>4, <1>6, <2>2
  <2>3. CASE m # NULL /\ m # new
    <3>1. m \in (A \cup {NULL}) \ D /\ m \in Parents /\ m \in NodeId \ {new}
      BY <1>1, <1>6, <2>3 DEF Parents
    <3>2. W[m] = Kids(t, m)
      BY <1>4, <2>3, <3>1 DEF Stands
    <3>3. Kids(u, m) = Kids(t, m)
      BY <2>3, <3>1 DEF Kids, Same, Alike
    <3> QED  BY <3>2, <3>3
  <2> QED  BY <2>1, <2>2, <2>3
<1>7. ASSUME NEW m \in NodeId \ (B \cup E) PROVE u.node[m] = Free
  BY <1>2, NullApart DEF Stands, Same
<1> QED  BY <1>3, <1>5, <1>6, <1>7 DEF Stands, M, W, T

MergeV(V, par, i, l, r) ==
  [V EXCEPT ![par] = RemoveAt(V[par], i + 1), ![l] = V[l] \o V[r], ![r] = <<>>]
MergeR(R, l, r) == [R EXCEPT ![l] = R[r]]

(* A tree in which r was emptied into l: it stands but for r, and for the  *)
(* parent, which still lists it.                                           *)
LEMMA MergeStands ==
  ASSUME NEW t, NEW A, NEW L, NEW V, NEW R, Stands(t, A, L, V, R, {}),
         NEW par, NEW i, NEW l, NEW r, Neighbours(V, par, i, l, r),
         NEW u, Merged(u, t, l, r), L[l] = L[r],
         L[l] # 0 => Len(u.node[l].childid) = slotuse(u.node[l]) + 1
  PROVE  Stands(u, A \ {r}, L, MergeV(V, par, i, l, r), MergeR(R, l, r), {par, r})
<1> DEFINE B == A \ {r}
           W == MergeV(V, par, i, l, r)
           T == MergeR(R, l, r)
<1>1. /\ Family(A, L, V) /\ A \subseteq NodeId /\ L \in [NodeId -> Int]
      /\ R \in [NodeId -> Parents] /\ V \in [Parents -> Seq(A)] /\ Forest(A, L, V, R)
  <2>1. Forest(A, L, V, R)
    BY DEF Stands
  <2>2. /\ Family(A, L, V) /\ A \subseteq NodeId /\ L \in [NodeId -> Int]
        /\ R \in [NodeId -> Parents] /\ V \in [Parents -> Seq(A)]
    BY StandsFacts
  <2> QED  BY <2>1, <2>2
<1>2. /\ l \in A /\ l \in NodeId /\ l # NULL /\ l # par /\ l # r
      /\ r \in A /\ r \in NodeId /\ r # NULL /\ r # par
  BY <1>1, NeighboursApart
<1>3. Forest(B, L, W, T)
  BY <1>1, MergeForest DEF MergeV, MergeR
<1>4. /\ T[l] = R[r] /\ \A m \in NodeId \ {l} : T[m] = R[m]
      /\ W[l] = V[l] \o V[r] /\ \A m \in Parents \ {par, l, r} : W[m] = V[m]
  BY <1>1, <1>2 DEF MergeV, MergeR, Parents
<1> HIDE DEF W, T
<1>5. Looks(u, l, L, T)
  <2>1. Looks(t, l, L, R) /\ Looks(t, r, L, R)
    BY <1>2 DEF Stands
  <2> QED  BY <1>4, <2>1 DEF Looks, Merged
<1>6. \A m \in B : Looks(u, m, L, T)
  <2> SUFFICES ASSUME NEW m \in A, m # l, m # r PROVE Looks(u, m, L, T)
    BY <1>5
  <2>1. m \in NodeId \ {l, r} /\ Looks(t, m, L, R) /\ T[m] = R[m]
    BY <1>1, <1>4 DEF Stands
  <2> QED  BY <2>1 DEF Looks, Same, Alike, Merged
<1>7. ASSUME NEW m \in (B \cup {NULL}) \ {par, r} PROVE W[m] = Kids(u, m)
  <2>1. CASE m = l
    <3>1. V[l] = t.node[l].childid /\ V[r] = t.node[r].childid
      BY <1>2 DEF Stands, Kids
    <3> QED  BY <1>2, <1>4, <2>1, <3>1 DEF Kids, Merged
  <2>2. CASE m # l
    <3>1. m \in A \cup {NULL} /\ m # par /\ m # r /\ m \in Parents
      BY <1>1, <1>7 DEF Parents
    <3>2. W[m] = Kids(t, m)
      BY <1>4, <2>2, <3>1 DEF Stands
    <3>3. CASE m = NULL
      BY <3>2, <3>3 DEF Kids, Tops, Merged
    <3>4. CASE m # NULL
      BY <1>1, <2>2, <3>1, <3>2, <3>4 DEF Kids, Same, Alike, Merged
    <3> QED  BY <3>3, <3>4
  <2> QED  BY <2>1, <2>2
<1>8. ASSUME NEW m \in NodeId \ (B \cup {par, r}) PROVE u.node[m] = Free
  BY <1>2 DEF Stands, Same, Merged
<1>9. IsTree(u)
  BY DEF Merged
<1> QED  BY <1>3, <1>6, <1>7, <1>8, <1>9 DEF Stands, W, T

(* The parts of a sequence of B are sequences of B.                        *)
LEMMA PartsIn ==
  ASSUME NEW S, NEW B, NEW p \in Seq(S), NEW q \in Seq(S), p \o q \in Seq(B)
  PROVE  p \in Seq(B) /\ q \in Seq(B)
<1> DEFINE s == p \o q
<1>1. /\ Len(s) = Len(p) + Len(q) /\ Len(p) \in Nat /\ Len(q) \in Nat
      /\ \A i \in 1..Len(p) : s[i] = p[i]
      /\ \A i \in 1..Len(q) : s[Len(p) + i] = q[i]
  OBVIOUS
<1>2. s \in Seq(B)
  OBVIOUS
<1> HIDE DEF s
<1>3. \A i \in 1..Len(s) : s[i] \in B
  BY <1>2
<1>4. \A i \in 1..Len(p) : p[i] \in B
  <2> SUFFICES ASSUME NEW i \in 1..Len(p) PROVE p[i] \in B
    OBVIOUS
  <2>1. i \in 1..Len(s)
    BY <1>1
  <2> QED  BY <1>1, <1>3, <2>1
<1>5. \A i \in 1..Len(q) : q[i] \in B
  <2> SUFFICES ASSUME NEW i \in 1..Len(q) PROVE q[i] \in B
    OBVIOUS
  <2>1. Len(p) + i \in 1..Len(s)
    BY <1>1
  <2> QED  BY <1>1, <1>3, <2>1
<1>6. ToSet(p) \subseteq B /\ ToSet(q) \subseteq B
  <2>1. DOMAIN p = 1..Len(p) /\ DOMAIN q = 1..Len(q)
    OBVIOUS
  <2> QED  BY <2>1, <1>4, <1>5 DEF ToSet
<1> QED  BY <1>6, Within

(* The types of what is counted.                                           *)
LEMMA Sizes ==
  ASSUME NEW t, IsTree(t), NEW n \in NodeId
  PROVE  /\ slotuse(t.node[n]) \in Nat /\ t.node[n].childid \in Seq(NodeId)
         /\ Len(t.node[n].childid) \in Nat
<1>1. t.node[n].slotkey \in Seq(Int) /\ t.node[n].childid \in Seq(NodeId)
  BY DEF IsTree, IsNode
<1> QED  BY <1>1 DEF slotuse

ShiftV(V, l, r, x, y) == [V EXCEPT ![l] = x, ![r] = y]

(* A tree in which neighbours were evened out.                             *)
LEMMA ShiftStands ==
  ASSUME NEW t, NEW A, NEW L, NEW V, NEW R, Stands(t, A, L, V, R, {}),
         NEW par, NEW i, NEW l, NEW r, Neighbours(V, par, i, l, r), par \in A,
         NEW u, Shifted(u, t, l, r)
  PROVE  Stands(u, A, L, ShiftV(V, l, r, u.node[l].childid, u.node[r].childid), R, {})
<1> DEFINE x == u.node[l].childid
           y == u.node[r].childid
           W == ShiftV(V, l, r, x, y)
<1>1. /\ Family(A, L, V) /\ A \subseteq NodeId /\ L \in [NodeId -> Int]
      /\ R \in [NodeId -> Parents] /\ V \in [Parents -> Seq(A)] /\ Forest(A, L, V, R)
      /\ IsTree(t) /\ \A n \in A : L[n] = 0 <=> V[n] = <<>>
  <2>1. Forest(A, L, V, R)
    BY DEF Stands
  <2>2. /\ Family(A, L, V) /\ A \subseteq NodeId /\ L \in [NodeId -> Int]
        /\ R \in [NodeId -> Parents] /\ V \in [Parents -> Seq(A)]
        /\ IsTree(t) /\ \A n \in A : L[n] = 0 <=> V[n] = <<>>
    BY StandsFacts
  <2> QED  BY <2>1, <2>2
<1>2. par \in Parents /\ par \in NodeId
  BY <1>1 DEF Parents
<1>4. /\ l \in A /\ l \in NodeId /\ l # NULL /\ l # par /\ l \in Sets(V)[par]
      /\ r \in A /\ r \in NodeId /\ r # NULL /\ r # par /\ r \in Sets(V)[par]
      /\ l # r
  BY <1>1, NeighboursApart
<1>7. L[l] = L[r] /\ l \in Parents /\ r \in Parents
  <2>1. L[par] = L[l] + 1 /\ L[par] = L[r] + 1
    BY <1>1, <1>2, <1>4 DEF Family, Kin
  <2>2. L[l] \in Int /\ L[r] \in Int
    BY <1>1, <1>4
  <2>3. l \in Parents /\ r \in Parents
    BY <1>4 DEF Parents
  <2>4. L[l] = L[r]
    BY <2>1, <2>2
  <2> QED  BY <2>3, <2>4
<1>8. V[l] = t.node[l].childid /\ V[r] = t.node[r].childid
  BY <1>4 DEF Stands, Kids
<1>9. x \o y = V[l] \o V[r] /\ IsTree(u)
  BY <1>8, Zenon DEF Shifted
<1>10. V[l] \o V[r] \in Seq(A) /\ V[l] \in Seq(A) /\ V[r] \in Seq(A)
  BY <1>1, <1>7
<1>11. x \in Seq(A) /\ y \in Seq(A)
  <2>1. x \in Seq(NodeId) /\ y \in Seq(NodeId)
    BY <1>4, <1>9 DEF IsTree, IsNode
  <2>2. x \o y \in Seq(A)
    BY <1>9, <1>10
  <2> HIDE DEF x, y
  <2> QED  BY <2>1, <2>2, PartsIn
<1>12. t.node[l].level = L[l] /\ t.node[r].level = L[r] /\ Looks(t, l, L, R) /\ Looks(t, r, L, R)
  BY <1>4 DEF Stands, Looks
<1>15. (x = <<>> <=> y = <<>>) /\ Looks(u, l, L, R) /\ Looks(u, r, L, R)
  <2>1. CASE L[l] = 0
    <3>1. IsLeaf(t.node[l]) /\ V[l] = <<>> /\ V[r] = <<>>
      BY <1>1, <1>4, <1>7, <1>12, <2>1, Zenon DEF IsLeaf
    <3>2. x = <<>> /\ y = <<>>
      BY <3>1, <1>8, Zenon DEF Shifted
    <3>3. Looks(u, l, L, R) /\ Looks(u, r, L, R)
      BY <1>12, <2>1, <1>7 DEF Looks, Shifted
    <3> QED  BY <3>2, <3>3
  <2>2. CASE L[l] # 0
    <3>1. ~IsLeaf(t.node[l])
      BY <1>12, <2>2 DEF IsLeaf
    <3>2. Len(x) = slotuse(u.node[l]) + 1 /\ Len(y) = slotuse(u.node[r]) + 1
      BY <3>1, Zenon DEF Shifted
    <3>3. slotuse(u.node[l]) \in Nat /\ slotuse(u.node[r]) \in Nat
      BY <1>4, <1>9, Sizes
    <3>4. Len(x) # 0 /\ Len(y) # 0
      BY <3>2, <3>3
    <3>5. x # <<>> /\ y # <<>>
      BY <3>4
    <3>6. Looks(u, l, L, R) /\ Looks(u, r, L, R)
      BY <1>12, <2>2, <1>7, <3>2, Zenon DEF Looks, Shifted
    <3> QED  BY <3>5, <3>6
  <2> QED  BY <2>1, <2>2
<1> HIDE DEF x, y
<1>16. Forest(A, L, W, R)
  <2>1. Shares(A, V[l] \o V[r], x, y)
    BY <1>9, <1>11, <1>15 DEF Shares
  <2> QED  BY <1>1, <2>1, ShiftForest DEF ShiftV
<1>17. W[l] = x /\ W[r] = y /\ \A m \in Parents \ {l, r} : W[m] = V[m]
  BY <1>1, <1>4, <1>7 DEF ShiftV
<1> HIDE DEF W
<1>18. \A m \in A : Looks(u, m, L, R)
  <2> SUFFICES ASSUME NEW m \in A, m # l, m # r PROVE Looks(u, m, L, R)
    BY <1>15
  <2>1. m \in NodeId \ {l, r} /\ Looks(t, m, L, R)
    BY <1>1 DEF Stands
  <2> QED  BY <2>1 DEF Looks, Same, Alike, Shifted
<1>19. ASSUME NEW m \in A \cup {NULL} PROVE W[m] = Kids(u, m)
  <2>1. CASE m = l \/ m = r
    BY <1>4, <1>17, <2>1 DEF Kids, x, y
  <2>2. CASE m # l /\ m # r
    <3>1. m \in Parents /\ W[m] = V[m] /\ V[m] = Kids(t, m)
      BY <1>1, <1>17, <2>2 DEF Parents, Stands
    <3>2. CASE m = NULL
      BY <3>1, <3>2, Zenon DEF Kids, Tops, Shifted
    <3>3. CASE m # NULL
      BY <1>1, <2>2, <3>1, <3>3, Zenon DEF Kids, Same, Alike, Shifted
    <3> QED  BY <3>2, <3>3
  <2> QED  BY <2>1, <2>2
<1>20. ASSUME NEW m \in NodeId \ A PROVE u.node[m] = Free
  <2>1. m # l /\ m # r /\ t.node[m] = Free
    BY <1>4 DEF Stands
  <2> QED  BY <2>1 DEF Same, Shifted
<1> QED  BY <1>9, <1>16, <1>18, <1>19, <1>20 DEF Stands, W, x, y

DropV(V, n) == [V EXCEPT ![NULL] = V[n], ![n] = <<>>]

(* A tree without its old root.                                            *)
LEMMA DropStands ==
  ASSUME NEW t, NEW A, NEW L, NEW V, NEW R, Stands(t, A, L, V, R, {}),
         NEW n \in A, V[NULL] = <<n>>,
         NEW u, IsTree(u), u.node[n] = Free, \A id \in NodeId \ {n} : u.node[id] = t.node[id],
         Tops(u) = V[n]
  PROVE  Stands(u, A \ {n}, L, DropV(V, n), R, {})
<1> DEFINE W == DropV(V, n)
<1>1. Forest(A, L, V, R) /\ A \subseteq NodeId /\ V \in [Parents -> Seq(A)]
  <2>1. Forest(A, L, V, R)
    BY DEF Stands
  <2>2. A \subseteq NodeId /\ V \in [Parents -> Seq(A)]
    BY StandsFacts
  <2> QED  BY <2>1, <2>2
<1>2. n \in NodeId /\ n # NULL /\ NULL \notin A
  BY <1>1, NullApart
<1>3. Forest(A \ {n}, L, W, R)
  BY <1>1, DropForest DEF DropV
<1>4. W[NULL] = V[n] /\ \A m \in Parents \ {NULL, n} : W[m] = V[m]
  BY <1>1, <1>2 DEF DropV, Parents
<1> HIDE DEF W
<1>5. \A m \in A \ {n} : Looks(u, m, L, R)
  BY <1>1 DEF Stands, Looks
<1>6. ASSUME NEW m \in (A \ {n}) \cup {NULL} PROVE W[m] = Kids(u, m)
  <2>1. CASE m = NULL
    BY <1>4, <2>1 DEF Kids
  <2>2. CASE m # NULL
    <3>1. m \in A /\ m \in Parents \ {NULL, n} /\ m \in NodeId \ {n}
      BY <1>1, <2>2 DEF Parents
    <3> QED  BY <1>4, <2>2, <3>1 DEF Kids, Stands
  <2> QED  BY <2>1, <2>2
<1>7. ASSUME NEW m \in NodeId \ (A \ {n}) PROVE u.node[m] = Free
  BY DEF Stands
<1> QED  BY <1>3, <1>5, <1>6, <1>7 DEF Stands, W

(* Sizes: nodes that a step leaves alone keep to their bounds.             *)
LEMMA FilledKept ==
  ASSUME NEW t, IsTree(t), NEW A, NEW few, Filled(t, A, few),
         NEW u, u.root = t.root, NEW B, B \subseteq NodeId, NEW lack,
         \A n \in B : Fits(u, n, lack) \/ (n \in A /\ Same(u, t, n) /\ (n = few => n = lack))
  PROVE  Filled(u, B, lack)
<1> SUFFICES ASSUME NEW n \in B PROVE Fits(u, n, lack)
  BY DEF Filled
<1>1. CASE n \in A /\ Same(u, t, n) /\ (n = few => n = lack)
  <2>1. Fits(t, n, few) /\ n \in NodeId
    BY <1>1 DEF Filled
  <2>2. slotuse(t.node[n]) \in Nat
    BY <2>1 DEF IsTree, IsNode, slotuse
  <2>3. slotuse(u.node[n]) = slotuse(t.node[n]) /\ SlotMax(u.node[n]) = SlotMax(t.node[n])
        /\ Low(u, n) = Low(t, n)
    BY <1>1 DEF Same, Alike, Low, SlotMin, SlotMax, IsLeaf
  <2>4. Low(t, n) \in Int
    <3>1. SlotMax(t.node[n]) \in Nat
      BY BTreeAssumption DEF SlotMax
    <3> QED  BY <3>1 DEF Low, SlotMin
  <2>5. slotuse(t.node[n]) >= Low(t, n) => slotuse(t.node[n]) + 1 >= Low(t, n)
    BY <2>2, <2>4
  <2> QED  BY <1>1, <2>1, <2>3, <2>5 DEF Fits
<1> QED  BY <1>1
=============================================================================
