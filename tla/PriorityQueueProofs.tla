------------------------ MODULE PriorityQueueProofs ------------------------
(***************************************************************************)
(* The heap of PriorityQueue is in order between calls, for any records,   *)
(* values, versions and size of the array.                                 *)
(***************************************************************************)
EXTENDS PriorityQueue, FiniteSetTheorems, WellFoundedInduction, TLAPS

(* MayPrecede with what is known of ties as an argument.                   *)
Precedes(t, e, f) ==
  /\ Value[e.data] <= Value[f.data]
  /\ ~t => Value[e.data] < Value[f.data] \/ (e.data = f.data /\ e.version <= f.version)

(* Without ties, records with the same value are the same record.          *)
Untied(t, s) ==
  ~t => \A i, j \in DOMAIN s : Value[s[i].data] = Value[s[j].data] => s[i].data = s[j].data

(* While a call moves the entry at slot k of s: only that entry may be in  *)
(* the wrong place, above its parent (push) or below a child (pop), and    *)
(* what is around it is in order without it.                               *)
Around(t, s, k) ==
  \A i \in 1..(Len(s) - 1) : parent(i) = k /\ k # 0 => Precedes(t, s[parent(k) + 1], s[i + 1])
InPush(t, s, k) ==
  /\ \A i \in 1..(Len(s) - 1) : i # k => Precedes(t, s[parent(i) + 1], s[i + 1])
  /\ Around(t, s, k)
InPop(t, s, k) ==
  /\ \A i \in 1..(Len(s) - 1) : parent(i) # k => Precedes(t, s[parent(i) + 1], s[i + 1])
  /\ Around(t, s, k)
InOrder(t, s) ==
  \A i \in 1..(Len(s) - 1) : Precedes(t, s[parent(i) + 1], s[i + 1])

HeapInv ==
  /\ HeapTypeOK
  /\ Untied(tied, data)
  /\ step = "idle" => InOrder(tied, data)
  /\ step = "push" => InPush(tied, data, idx)
  /\ step = "pop"  => InPop(tied, data, idx)

LEMMA Slots ==
  ASSUME NEW i \in Nat \ {0}
  PROVE  /\ parent(i) \in Nat /\ parent(i) < i
         /\ i = left_child(parent(i)) \/ i = right_child(parent(i))
BY DEF parent, left_child, right_child

LEMMA Children ==
  ASSUME NEW i \in Nat
  PROVE  /\ left_child(i) \in Nat /\ right_child(i) \in Nat
         /\ i < left_child(i) /\ i < right_child(i)
         /\ parent(left_child(i)) = i /\ parent(right_child(i)) = i
BY DEF parent, left_child, right_child

LEMMA Numbers ==
  ASSUME NEW e \in QueueRecord
  PROVE  Value[e.data] \in Int /\ e.version \in Int
<1>1. e.data \in Rec /\ e.version \in Version
  BY DEF QueueRecord
<1>2. Value \in [Rec -> Int] /\ Version \subseteq Nat
  BY HeapAssumption DEF HeapAssumption
<1>3. Value[e.data] \in Int
  BY <1>1, <1>2
<1>4. e.version \in Nat
  BY <1>1, <1>2
<1> QED  BY <1>3, <1>4

LEMMA Transitive ==
  ASSUME NEW t \in BOOLEAN, NEW e \in QueueRecord, NEW f \in QueueRecord, NEW g \in QueueRecord,
         Precedes(t, e, f), Precedes(t, f, g)
  PROVE  Precedes(t, e, g)
<1>1. /\ Value[e.data] \in Int /\ Value[f.data] \in Int /\ Value[g.data] \in Int
      /\ e.version \in Int /\ f.version \in Int /\ g.version \in Int
  BY Numbers
<1> QED  BY <1>1 DEF Precedes

(* heap_cmp() decides the order, within a heap that may have ties.         *)
LEMMA Decides ==
  ASSUME NEW t \in BOOLEAN, NEW e \in QueueRecord, NEW f \in QueueRecord,
         ~t /\ Value[e.data] = Value[f.data] => e.data = f.data
  PROVE  IF Compare(e, f) THEN Precedes(t, e, f) ELSE Precedes(t, f, e)
<1>1. /\ Value[e.data] \in Int /\ Value[f.data] \in Int
      /\ e.version \in Int /\ f.version \in Int
  BY Numbers
<1> QED  BY <1>1 DEF Precedes, Compare

LEMMA SwappedSlots ==
  ASSUME NEW s \in Seq(QueueRecord), NEW a \in 0..(Len(s) - 1), NEW b \in 0..(Len(s) - 1)
  PROVE  /\ Swapped(s, a, b) \in Seq(QueueRecord)
         /\ Len(Swapped(s, a, b)) = Len(s)
         /\ \A i \in 0..(Len(s) - 1) :
              Swapped(s, a, b)[i + 1] = IF i = a THEN s[b + 1]
                                        ELSE IF i = b THEN s[a + 1] ELSE s[i + 1]
<1>1. a + 1 \in 1..Len(s) /\ b + 1 \in 1..Len(s) /\ Len(s) \in Nat
  OBVIOUS
<1>2. s[a + 1] \in QueueRecord /\ s[b + 1] \in QueueRecord
  BY <1>1
<1> QED  BY <1>1, <1>2 DEF Swapped

LEMMA SwappedUntied ==
  ASSUME NEW t \in BOOLEAN, NEW s \in Seq(QueueRecord), Untied(t, s),
         NEW a \in 0..(Len(s) - 1), NEW b \in 0..(Len(s) - 1)
  PROVE  Untied(t, Swapped(s, a, b))
<1> DEFINE u == Swapped(s, a, b)
<1>1. DOMAIN u = DOMAIN s /\ DOMAIN s = 1..Len(s)
  BY DEF Swapped
<1>2. \A i \in DOMAIN s : \E j \in DOMAIN s : u[i] = s[j]
  BY <1>1 DEF Swapped
<1> HIDE DEF u
<1>3. Untied(t, u)
  <2> SUFFICES ASSUME ~t, NEW i \in DOMAIN u, NEW j \in DOMAIN u,
                      Value[u[i].data] = Value[u[j].data]
               PROVE  u[i].data = u[j].data
    BY DEF Untied
  <2>1. PICK m \in DOMAIN s : u[i] = s[m]
    BY <1>1, <1>2
  <2>2. PICK n \in DOMAIN s : u[j] = s[n]
    BY <1>1, <1>2
  <2> QED  BY <2>1, <2>2 DEF Untied
<1> QED  BY <1>3 DEF u

(* What the comparison in the code tells about two slots.                  *)
LEMMA SlotsDecided ==
  ASSUME HeapInv, NEW a \in 0..(Len(data) - 1), NEW b \in 0..(Len(data) - 1)
  PROVE  /\ data[a + 1] \in QueueRecord
         /\ IF heap_cmp(a, b) THEN Precedes(tied, data[a + 1], data[b + 1])
                              ELSE Precedes(tied, data[b + 1], data[a + 1])
<1>1. data \in Seq(QueueRecord) /\ tied \in BOOLEAN
  BY DEF HeapInv, HeapTypeOK
<1>2. a + 1 \in DOMAIN data /\ b + 1 \in DOMAIN data
  BY <1>1
<1>3. data[a + 1] \in QueueRecord /\ data[b + 1] \in QueueRecord
  BY <1>1, <1>2
<1>4. ~tied /\ Value[data[a + 1].data] = Value[data[b + 1].data]
        => data[a + 1].data = data[b + 1].data
  BY <1>2 DEF HeapInv, Untied
<1> QED  BY <1>1, <1>3, <1>4, Decides DEF heap_cmp, At

LEMMA PushKeeps ==
  ASSUME HeapInv, NEW e \in QueueRecord, push(e)
  PROVE  HeapInv'
<1>1. /\ data \in Seq(QueueRecord) /\ Len(data) \in Nat /\ Len(data) # Capacity
      /\ Len(data) <= Capacity /\ Capacity \in Nat /\ tied \in BOOLEAN
      /\ Untied(tied, data) /\ InOrder(tied, data)
  BY HeapAssumption DEF HeapInv, HeapTypeOK, push, tail
<1>2. /\ data' = Append(data, e) /\ idx' = Len(data) /\ step' = "push"
      /\ tied' = (tied \/ TiesWith(e))
  BY DEF push, tail
<1>3. /\ data' \in Seq(QueueRecord) /\ Len(data') = Len(data) + 1
      /\ \A i \in 1..Len(data) : data'[i] = data[i]
      /\ data'[Len(data) + 1] = e
      /\ DOMAIN data = 1..Len(data) /\ DOMAIN data' = 1..(Len(data) + 1)
  BY <1>1, <1>2
<1>4. HeapTypeOK'
  <2>1. TiesWith(e) \in BOOLEAN
    BY DEF TiesWith
  <2> QED  BY <1>1, <1>2, <1>3, <2>1 DEF HeapTypeOK
<1>5. Untied(tied', data')
  <2> SUFFICES ASSUME ~tied', NEW i \in DOMAIN data', NEW j \in DOMAIN data',
                      Value[data'[i].data] = Value[data'[j].data]
               PROVE  data'[i].data = data'[j].data
    BY DEF Untied
  <2>1. \A m \in DOMAIN data : Value[data[m].data] = Value[e.data] => data[m].data = e.data
    BY <1>2 DEF TiesWith
  <2>2. \A m, n \in DOMAIN data : Value[data[m].data] = Value[data[n].data]
                                    => data[m].data = data[n].data
    BY <1>1, <1>2 DEF Untied
  <2>3. CASE i \in DOMAIN data /\ j \in DOMAIN data
    BY <1>3, <2>2, <2>3
  <2>4. CASE i \in DOMAIN data /\ j = Len(data) + 1
    BY <1>3, <2>1, <2>4
  <2>5. CASE i = Len(data) + 1 /\ j \in DOMAIN data
    BY <1>3, <2>1, <2>5
  <2>6. CASE i = j
    BY <2>6
  <2> DEFINE n == Len(data)
  <2>7. n \in Nat /\ DOMAIN data = 1..n /\ DOMAIN data' = 1..(n + 1)
    BY <1>1, <1>3
  <2> HIDE DEF n
  <2>8. \A m \in DOMAIN data' : m \in DOMAIN data \/ m = n + 1
    BY <2>7
  <2> QED  BY <2>3, <2>4, <2>5, <2>6, <2>8 DEF n
<1>6. \A x, y \in QueueRecord : Precedes(tied, x, y) => Precedes(tied', x, y)
  BY <1>2 DEF Precedes
<1>7. ASSUME NEW i \in 1..(Len(data') - 1), i # idx'
      PROVE  Precedes(tied', data'[parent(i) + 1], data'[i + 1])
  <2>1. i \in 1..(Len(data) - 1) /\ parent(i) \in Nat /\ parent(i) < i
    BY <1>1, <1>2, <1>3, <1>7, Slots
  <2>2. parent(i) + 1 \in 1..Len(data) /\ i + 1 \in 1..Len(data)
    BY <1>1, <2>1
  <2>3. data[parent(i) + 1] \in QueueRecord /\ data[i + 1] \in QueueRecord
    BY <1>1, <2>2
  <2>4. Precedes(tied, data[parent(i) + 1], data[i + 1])
    BY <1>1, <2>1 DEF InOrder
  <2> QED  BY <1>3, <1>6, <2>2, <2>3, <2>4
<1>8. \A i \in 1..(Len(data') - 1) : parent(i) # idx'
  BY <1>1, <1>2, <1>3, Slots
<1>9. InPush(tied', data', idx')
  BY <1>7, <1>8 DEF InPush, Around
<1> QED  BY <1>2, <1>4, <1>5, <1>9 DEF HeapInv

LEMMA SiftUpKeeps ==
  ASSUME HeapInv, SiftUp
  PROVE  HeapInv'
<1> DEFINE p == parent(idx)
<1>1. /\ data \in Seq(QueueRecord) /\ Len(data) \in Nat /\ Len(data) <= Capacity
      /\ tied \in BOOLEAN /\ Untied(tied, data) /\ InPush(tied, data, idx)
      /\ idx \in Nat /\ idx < Len(data) /\ idx # 0
      /\ data' = Swapped(data, p, idx) /\ idx' = p /\ step' = "push" /\ tied' = tied
      /\ ~heap_cmp(p, idx)
  BY DEF HeapInv, HeapTypeOK, SiftUp, Rises
<1>2. p \in Nat /\ p < idx
  BY <1>1, Slots
<1> HIDE DEF p
<1>3. /\ data' \in Seq(QueueRecord) /\ Len(data') = Len(data)
      /\ \A i \in 0..(Len(data) - 1) :
           data'[i + 1] = IF i = p THEN data[idx + 1]
                          ELSE IF i = idx THEN data[p + 1] ELSE data[i + 1]
  BY <1>1, <1>2, SwappedSlots
<1>4. Untied(tied', data')
  BY <1>1, <1>2, SwappedUntied
<1>5. HeapTypeOK'
  BY <1>1, <1>2, <1>3 DEF HeapTypeOK
<1>6. \A i \in 0..(Len(data) - 1) : data[i + 1] \in QueueRecord
  BY <1>1
<1>7. Precedes(tied, data[idx + 1], data[p + 1])
  BY <1>1, <1>2, SlotsDecided
<1>8. \A i \in 1..(Len(data) - 1) : i # idx => Precedes(tied, data[parent(i) + 1], data[i + 1])
  BY <1>1 DEF InPush
<1>9. \A i \in 1..(Len(data) - 1) : parent(i) = idx => Precedes(tied, data[p + 1], data[i + 1])
  BY <1>1 DEF InPush, Around, p
<1>10. ASSUME NEW i \in 1..(Len(data) - 1), i # p
       PROVE  Precedes(tied, data'[parent(i) + 1], data'[i + 1])
  <2>1. parent(i) \in Nat /\ parent(i) < i
    BY Slots
  <2>2. CASE i = idx
    BY <1>1, <1>2, <1>3, <1>7, <2>2 DEF p
  <2>3. CASE i # idx /\ parent(i) = p
    <3>1. Precedes(tied, data[p + 1], data[i + 1])
      BY <1>8, <2>3
    <3>2. Precedes(tied, data[idx + 1], data[i + 1])
      BY <1>1, <1>2, <1>6, <1>7, <3>1, Transitive
    <3> QED  BY <1>1, <1>2, <1>3, <1>10, <2>3, <3>2
  <2>4. CASE parent(i) = idx
    BY <1>1, <1>2, <1>3, <1>9, <1>10, <2>1, <2>4
  <2>5. CASE i # idx /\ parent(i) # p /\ parent(i) # idx
    BY <1>1, <1>3, <1>8, <1>10, <2>1, <2>5
  <2> QED  BY <2>2, <2>3, <2>4, <2>5
<1>11. ASSUME NEW i \in 1..(Len(data) - 1), parent(i) = p, p # 0
       PROVE  Precedes(tied, data'[parent(p) + 1], data'[i + 1])
  <2>1. parent(p) \in Nat /\ parent(p) < p
    BY <1>2, <1>11, Slots
  <2>2. Precedes(tied, data[parent(p) + 1], data[p + 1])
    BY <1>1, <1>2, <1>8, <1>11
  <2>3. data'[parent(p) + 1] = data[parent(p) + 1]
    BY <1>1, <1>2, <1>3, <2>1
  <2>4. CASE i = idx
    BY <1>1, <1>2, <1>3, <2>2, <2>3, <2>4
  <2>5. CASE i # idx
    <3>1. Precedes(tied, data[p + 1], data[i + 1])
      BY <1>8, <1>11, <2>5
    <3>2. parent(p) \in 0..(Len(data) - 1) /\ p \in 0..(Len(data) - 1) /\ i \in 0..(Len(data) - 1)
      BY <1>1, <1>2, <2>1
    <3>3. Precedes(tied, data[parent(p) + 1], data[i + 1])
      BY <1>1, <1>6, <2>2, <3>1, <3>2, Transitive
    <3>4. i # p
      BY <1>11, <2>1
    <3> QED  BY <1>3, <2>3, <2>5, <3>2, <3>3, <3>4
  <2> QED  BY <2>4, <2>5
<1>12. InPush(tied', data', idx')
  BY <1>1, <1>3, <1>10, <1>11 DEF InPush, Around
<1> QED  BY <1>1, <1>4, <1>5, <1>12 DEF HeapInv

LEMMA PushEndKeeps ==
  ASSUME HeapInv, PushEnd
  PROVE  HeapInv'
<1>1. /\ data' = data /\ idx' = idx /\ tied' = tied /\ step' = "idle" /\ step = "push"
      /\ data \in Seq(QueueRecord) /\ Len(data) \in Nat
      /\ idx \in Nat /\ idx < Len(data) /\ InPush(tied, data, idx)
      /\ idx = 0 \/ heap_cmp(parent(idx), idx)
  BY DEF PushEnd, HeapInv, HeapTypeOK, Rises
<1>2. HeapTypeOK' /\ Untied(tied', data')
  BY <1>1 DEF HeapInv, HeapTypeOK
<1>3. ASSUME NEW i \in 1..(Len(data) - 1)
      PROVE  Precedes(tied, data[parent(i) + 1], data[i + 1])
  <2>1. CASE i # idx
    BY <1>1, <2>1 DEF InPush
  <2>2. CASE i = idx
    <3>1. parent(idx) \in 0..(Len(data) - 1) /\ idx \in 0..(Len(data) - 1)
      BY <1>1, <2>2, Slots
    <3> QED  BY <1>1, <2>2, <3>1, SlotsDecided
  <2> QED  BY <2>1, <2>2
<1> QED  BY <1>1, <1>2, <1>3 DEF HeapInv, InOrder

LEMMA PopKeeps ==
  ASSUME HeapInv, pop
  PROVE  HeapInv'
<1> DEFINE n == Len(data)
           u == Swapped(data, 0, n - 1)
<1>1. /\ data \in Seq(QueueRecord) /\ n \in Nat /\ n > 1 /\ n <= Capacity
      /\ tied \in BOOLEAN /\ Untied(tied, data) /\ InOrder(tied, data)
      /\ data' = SubSeq(u, 1, n - 1) /\ idx' = 0 /\ step' = "pop" /\ tied' = tied
  BY DEF HeapInv, HeapTypeOK, pop, tail
<1>2. /\ u \in Seq(QueueRecord) /\ Len(u) = n
      /\ \A i \in 0..(n - 1) : u[i + 1] = IF i = 0 THEN data[n - 1 + 1]
                                          ELSE IF i = n - 1 THEN data[0 + 1] ELSE data[i + 1]
  BY <1>1, SwappedSlots
<1>3. Untied(tied, u)
  BY <1>1, SwappedUntied
<1> HIDE DEF u
<1>4. /\ data' \in Seq(QueueRecord) /\ Len(data') = n - 1
      /\ \A i \in 1..(n - 1) : data'[i] = u[i]
      /\ DOMAIN data' = 1..(n - 1) /\ DOMAIN u = 1..n
  BY <1>1, <1>2
<1>5. Untied(tied', data')
  BY <1>1, <1>3, <1>4 DEF Untied
<1>6. HeapTypeOK'
  BY <1>1, <1>4, HeapAssumption DEF HeapTypeOK
<1>7. ASSUME NEW i \in 1..(Len(data') - 1), parent(i) # 0
      PROVE  Precedes(tied', data'[parent(i) + 1], data'[i + 1])
  <2>1. parent(i) \in Nat /\ parent(i) < i /\ i < n - 1
    BY <1>1, <1>4, Slots
  <2>2. parent(i) + 1 \in 1..(n - 1) /\ i + 1 \in 1..(n - 1)
    BY <1>1, <2>1
  <2>3. ASSUME NEW k \in Nat, k # 0, k < n - 1
        PROVE  data'[k + 1] = data[k + 1]
    <3>1. k + 1 \in 1..(n - 1) /\ k \in 0..(n - 1)
      BY <1>1, <2>3
    <3>2. data'[k + 1] = u[k + 1]
      BY <1>4, <3>1
    <3>3. u[k + 1] = data[k + 1]
      BY <1>2, <2>3, <3>1
    <3> QED  BY <3>2, <3>3
  <2>4. data'[parent(i) + 1] = data[parent(i) + 1] /\ data'[i + 1] = data[i + 1]
    <3>1. parent(i) < n - 1 /\ i \in Nat /\ i # 0
      BY <1>1, <2>1
    <3>2. data'[parent(i) + 1] = data[parent(i) + 1]
      BY <1>7, <2>1, <2>3, <3>1
    <3>3. data'[i + 1] = data[i + 1]
      BY <2>1, <2>3, <3>1
    <3> QED  BY <3>2, <3>3
  <2>5. Precedes(tied, data[parent(i) + 1], data[i + 1])
    BY <1>1, <2>1 DEF InOrder
  <2> QED  BY <1>1, <2>4, <2>5
<1>8. InPop(tied', data', idx')
  BY <1>1, <1>7 DEF InPop, Around
<1> QED  BY <1>1, <1>5, <1>6, <1>8 DEF HeapInv

(* The child that is compared precedes its sibling.                        *)
LEMMA MinChild ==
  ASSUME HeapInv, NEW k \in Nat, NEW i \in 1..(Len(data) - 1), parent(i) = k
  PROVE  LET c == min_child(k)
         IN  /\ c \in 1..(Len(data) - 1) /\ parent(c) = k
             /\ i = c \/ Precedes(tied, data[c + 1], data[i + 1])
<1> DEFINE l == left_child(k)
           r == right_child(k)
<1>1. data \in Seq(QueueRecord) /\ Len(data) \in Nat
  BY DEF HeapInv, HeapTypeOK
<1>2. /\ l \in Nat /\ r \in Nat /\ l = 2 * k + 1 /\ r = 2 * k + 2
      /\ parent(l) = k /\ parent(r) = k
  BY Children DEF left_child, right_child
<1>3. i = l \/ i = r
  BY Slots
<1>4. l < Len(data)
  BY <1>1, <1>2, <1>3
<1>5. min_child(k) = IF r >= Len(data) \/ heap_cmp(l, r) THEN l ELSE r
  BY <1>1, <1>2, <1>4 DEF min_child, tail
<1> HIDE DEF l, r
<1>6. CASE r >= Len(data)
  BY <1>1, <1>2, <1>3, <1>4, <1>5, <1>6
<1>7. CASE r < Len(data)
  <2>1. IF heap_cmp(l, r) THEN Precedes(tied, data[l + 1], data[r + 1])
                          ELSE Precedes(tied, data[r + 1], data[l + 1])
    BY <1>1, <1>2, <1>4, <1>7, SlotsDecided
  <2> QED  BY <1>1, <1>2, <1>3, <1>4, <1>5, <1>7, <2>1
<1> QED  BY <1>1, <1>2, <1>6, <1>7

LEMMA SiftDownKeeps ==
  ASSUME HeapInv, SiftDown
  PROVE  HeapInv'
<1> DEFINE c == min_child(idx)
<1>1. /\ data \in Seq(QueueRecord) /\ Len(data) \in Nat /\ Len(data) <= Capacity
      /\ tied \in BOOLEAN /\ Untied(tied, data) /\ InPop(tied, data, idx)
      /\ idx \in Nat /\ idx < Len(data)
      /\ data' = Swapped(data, idx, c) /\ idx' = c /\ step' = "pop" /\ tied' = tied
      /\ c # -1 /\ heap_cmp(c, idx)
  BY DEF HeapInv, HeapTypeOK, SiftDown, Sinks
<1>2. left_child(idx) \in 1..(Len(data) - 1)
  <2>1. left_child(idx) \in Nat /\ idx < left_child(idx)
    BY <1>1, Children
  <2>2. left_child(idx) < Len(data)
    BY <1>1, <2>1 DEF min_child, tail
  <2> QED  BY <1>1, <2>1, <2>2
<1>3. c \in 1..(Len(data) - 1) /\ parent(c) = idx /\ idx < c
  <2>1. parent(left_child(idx)) = idx
    BY <1>1, Children
  <2>2. c \in 1..(Len(data) - 1) /\ parent(c) = idx
    BY <1>1, <1>2, <2>1, MinChild
  <2>3. c \in Nat \ {0}
    BY <1>1, <2>2
  <2> HIDE DEF c
  <2> QED  BY <2>2, <2>3, Slots
<1>4. \A i \in 1..(Len(data) - 1) : parent(i) = idx /\ i # c
                                      => Precedes(tied, data[c + 1], data[i + 1])
  BY <1>1, MinChild
<1> HIDE DEF c
<1>5. /\ data' \in Seq(QueueRecord) /\ Len(data') = Len(data)
      /\ \A i \in 0..(Len(data) - 1) :
           data'[i + 1] = IF i = idx THEN data[c + 1]
                          ELSE IF i = c THEN data[idx + 1] ELSE data[i + 1]
  BY <1>1, <1>3, SwappedSlots
<1>6. Untied(tied', data')
  BY <1>1, <1>3, SwappedUntied
<1>7. HeapTypeOK'
  BY <1>1, <1>3, <1>5 DEF HeapTypeOK
<1>8. Precedes(tied, data[c + 1], data[idx + 1])
  BY <1>1, <1>3, SlotsDecided
<1>9. \A i \in 1..(Len(data) - 1) : parent(i) # idx
                                      => Precedes(tied, data[parent(i) + 1], data[i + 1])
  BY <1>1 DEF InPop
<1>10. ASSUME NEW i \in 1..(Len(data) - 1), parent(i) # c
       PROVE  Precedes(tied, data'[parent(i) + 1], data'[i + 1])
  <2>1. parent(i) \in 0..(Len(data) - 1) /\ i \in 0..(Len(data) - 1) /\ parent(i) < i
    BY <1>1, Slots
  <2>2. CASE i = c
    BY <1>1, <1>3, <1>5, <1>8, <2>1, <2>2
  <2>3. CASE i # c /\ parent(i) = idx
    <3>1. Precedes(tied, data[c + 1], data[i + 1])
      BY <1>4, <2>3
    <3> QED  BY <1>1, <1>3, <1>5, <2>1, <2>3, <3>1
  <2>4. CASE i = idx
    <3>1. Precedes(tied, data[parent(idx) + 1], data[c + 1])
      BY <1>1, <1>3, <2>4 DEF InPop, Around
    <3> QED  BY <1>1, <1>3, <1>5, <1>10, <2>1, <2>4, <3>1
  <2>5. CASE i # c /\ i # idx /\ parent(i) # idx
    BY <1>5, <1>9, <1>10, <2>1, <2>5
  <2> QED  BY <2>2, <2>3, <2>4, <2>5
<1>11. ASSUME NEW i \in 1..(Len(data) - 1), parent(i) = c, c # 0
       PROVE  Precedes(tied, data'[parent(c) + 1], data'[i + 1])
  <2>1. i \in 0..(Len(data) - 1) /\ c < i
    BY <1>11, Slots
  <2>2. Precedes(tied, data[c + 1], data[i + 1])
    BY <1>1, <1>3, <1>9, <1>11
  <2> QED  BY <1>1, <1>3, <1>5, <2>1, <2>2
<1>12. InPop(tied', data', idx')
  BY <1>1, <1>5, <1>10, <1>11 DEF InPop, Around
<1> QED  BY <1>1, <1>6, <1>7, <1>12 DEF HeapInv

LEMMA PopEndKeeps ==
  ASSUME HeapInv, PopEnd
  PROVE  HeapInv'
<1>1. /\ data' = data /\ idx' = idx /\ tied' = tied /\ step' = "idle" /\ step = "pop"
      /\ data \in Seq(QueueRecord) /\ Len(data) \in Nat /\ tied \in BOOLEAN
      /\ idx \in Nat /\ idx < Len(data) /\ InPop(tied, data, idx)
      /\ min_child(idx) = -1 \/ ~heap_cmp(min_child(idx), idx)
  BY DEF PopEnd, HeapInv, HeapTypeOK, Sinks
<1>2. HeapTypeOK' /\ Untied(tied', data')
  BY <1>1 DEF HeapInv, HeapTypeOK
<1>3. ASSUME NEW i \in 1..(Len(data) - 1)
      PROVE  Precedes(tied, data[parent(i) + 1], data[i + 1])
  <2>1. CASE parent(i) # idx
    BY <1>1, <2>1 DEF InPop
  <2>2. CASE parent(i) = idx
    <3> DEFINE c == min_child(idx)
    <3>1. c \in 1..(Len(data) - 1) /\ (i = c \/ Precedes(tied, data[c + 1], data[i + 1]))
      BY <1>1, <2>2, MinChild
    <3>2. ~heap_cmp(c, idx)
      BY <1>1, <3>1
    <3> HIDE DEF c
    <3>3. Precedes(tied, data[idx + 1], data[c + 1])
      BY <1>1, <3>1, <3>2, SlotsDecided
    <3>4. \A k \in 0..(Len(data) - 1) : data[k + 1] \in QueueRecord
      BY <1>1
    <3>5. Precedes(tied, data[idx + 1], data[i + 1])
      BY <1>1, <3>1, <3>3, <3>4, Transitive
    <3> QED  BY <2>2, <3>5
  <2> QED  BY <2>1, <2>2
<1> QED  BY <1>1, <1>2, <1>3 DEF HeapInv, InOrder

(* peek(1) is the lesser child of the root.                                *)
LEMMA PeekOne ==
  ASSUME HeapInv, NEW i \in 1..(Len(data) - 1), parent(i) = 0
  PROVE  PeekSlot(1) = min_child(0)
<1> DEFINE c == min_child(0)
           path == [d \in 0..1 |-> IF d = 0 THEN 0 ELSE c]
           Ends(j) == \E p \in [0..1 -> 0..(tail - 1)] :
                        /\ p[0] = 0 /\ p[1] = j
                        /\ \A d \in 1..1 : p[d] = min_child(p[d - 1])
<1>1. c \in 1..(Len(data) - 1)
  BY MinChild
<1>2. tail \in Nat /\ Len(data) = tail
  BY DEF HeapInv, HeapTypeOK, tail
<1>3. PeekSlot(1) = CHOOSE j \in 0..(tail - 1) : Ends(j)
  BY DEF PeekSlot
<1>4. path \in [0..1 -> 0..(tail - 1)] /\ path[0] = 0 /\ path[1] = c
  <2> HIDE DEF c
  <2> QED  BY <1>1, <1>2
<1>5. \A d \in 1..1 : path[d] = min_child(path[d - 1])
  BY <1>4 DEF c
<1>6. Ends(c)
  BY <1>4, <1>5
<1>7. \A j : Ends(j) => j = c
  BY DEF c
<1> HIDE DEF Ends, c, path
<1> QED  BY <1>1, <1>2, <1>3, <1>6, <1>7 DEF c

LEMMA AlwaysHeapInv == HeapSpec => []HeapInv
<1>1. HeapInit => HeapInv
  <2> SUFFICES ASSUME HeapInit  PROVE HeapInv
    OBVIOUS
  <2>1. data \in Seq(QueueRecord) /\ Len(data) = 0 /\ DOMAIN data = {}
    BY DEF HeapInit
  <2>2. 0 <= Capacity
    BY HeapAssumption DEF HeapAssumption
  <2>3. InOrder(tied, data) /\ Untied(tied, data)
    BY <2>1 DEF InOrder, Untied
  <2> QED  BY <2>1, <2>2, <2>3 DEF HeapInit, HeapInv, HeapTypeOK
<1>2. ASSUME HeapInv, [HeapNext]_heap  PROVE HeapInv'
  <2>1. ASSUME NEW e \in QueueRecord, push(e)  PROVE HeapInv'
    BY <1>2, <2>1, PushKeeps
  <2>2. CASE SiftUp
    BY <1>2, <2>2, SiftUpKeeps
  <2>3. CASE PushEnd
    BY <1>2, <2>3, PushEndKeeps
  <2>4. CASE PopOnly
    <3>1. data' \in Seq(QueueRecord) /\ Len(data') = 0 /\ DOMAIN data' = {}
      BY <2>4 DEF PopOnly
    <3>2. step' = "idle" /\ idx' = idx /\ tied' = FALSE
      BY <2>4 DEF PopOnly
    <3>3. 0 <= Capacity
      BY HeapAssumption DEF HeapAssumption
    <3>4. InOrder(tied', data') /\ Untied(tied', data')
      BY <3>1 DEF InOrder, Untied
    <3>5. idx' \in Nat
      BY <1>2, <3>2 DEF HeapInv, HeapTypeOK
    <3> QED  BY <3>1, <3>2, <3>3, <3>4, <3>5 DEF HeapInv, HeapTypeOK
  <2>5. CASE pop
    BY <1>2, <2>5, PopKeeps
  <2>6. CASE SiftDown
    BY <1>2, <2>6, SiftDownKeeps
  <2>7. CASE PopEnd
    BY <1>2, <2>7, PopEndKeeps
  <2>8. CASE UNCHANGED heap
    BY <1>2, <2>8 DEF heap, HeapInv, HeapTypeOK, Untied, InOrder, InPush, InPop, Around, Precedes
  <2> QED  BY <1>2, <2>1, <2>2, <2>3, <2>4, <2>5, <2>6, <2>7, <2>8 DEF HeapNext
<1> QED  BY <1>1, <1>2, PTL DEF HeapSpec

(* Between calls no entry stands below one it should precede, in a tie     *)
(* by value, and without ties down to the versions.                        *)
THEOREM AlwaysOrdered == HeapSpec => []HeapOrdered
<1>1. ASSUME HeapInv  PROVE HeapOrdered
  <2> SUFFICES ASSUME step = "idle"  PROVE HeapOrdered
    BY DEF HeapOrdered
  <2>1. \A i \in 1..(tail - 1) : MayPrecede(At(parent(i)), At(i))
    BY <1>1 DEF HeapInv, InOrder, MayPrecede, Precedes, At, tail
  <2>2. ASSUME NEW i \in {1, 2}, i < tail  PROVE MayPrecede(peek(1), At(i))
    <3>1. tail \in Nat /\ Len(data) = tail /\ data \in Seq(QueueRecord) /\ tied \in BOOLEAN
      BY <1>1 DEF HeapInv, HeapTypeOK, tail
    <3>2. i \in 1..(Len(data) - 1) /\ parent(i) = 0
      BY <2>2, <3>1 DEF parent
    <3>3. PeekSlot(1) = min_child(0)
      BY <1>1, <3>2, PeekOne
    <3>4. /\ min_child(0) \in 1..(Len(data) - 1)
          /\ i = min_child(0) \/ Precedes(tied, data[min_child(0) + 1], data[i + 1])
      BY <1>1, <3>2, MinChild
    <3>5. data[i + 1] \in QueueRecord
      BY <3>1, <3>2
    <3>6. Precedes(tied, data[i + 1], data[i + 1])
      BY <3>5, Numbers DEF Precedes
    <3>7. Precedes(tied, data[PeekSlot(1) + 1], data[i + 1])
      BY <3>3, <3>4, <3>6
    <3> QED  BY <3>7 DEF peek, At, MayPrecede, Precedes
  <2> QED  BY <2>1, <2>2 DEF HeapOrdered
<1> QED  BY AlwaysHeapInv, <1>1, PTL
-----------------------------------------------------------------------------
(* The slots of an entry, and how often it occurs.                         *)
Slotted(s, e) == {i \in DOMAIN s : s[i] = e}
Count(s, e) == Cardinality(Slotted(s, e))

LEMMA SlottedFinite ==
  ASSUME NEW s \in Seq(QueueRecord), NEW e
  PROVE  IsFiniteSet(Slotted(s, e)) /\ Count(s, e) \in Nat
<1>1. Slotted(s, e) \subseteq 1..Len(s) /\ Len(s) \in Nat /\ 1 \in Int
  BY DEF Slotted
<1>2. IsFiniteSet(1..Len(s))
  BY <1>1, FS_Interval
<1>3. IsFiniteSet(Slotted(s, e))
  BY <1>1, <1>2, FS_Subset
<1> QED  BY <1>3, FS_CardinalityType DEF Count

LEMMA CountPushed ==
  ASSUME NEW s \in Seq(QueueRecord), NEW e \in QueueRecord, NEW f \in QueueRecord
  PROVE  Count(Append(s, e), f) = IF f = e THEN Count(s, f) + 1 ELSE Count(s, f)
<1> DEFINE u == Append(s, e)
           n == Len(s)
<1>1. /\ n \in Nat /\ DOMAIN s = 1..n /\ DOMAIN u = 1..(n + 1)
      /\ u[n + 1] = e /\ \A i \in 1..n : u[i] = s[i]
  OBVIOUS
<1> HIDE DEF u, n
<1>2. Slotted(u, f) = IF f = e THEN Slotted(s, f) \cup {n + 1} ELSE Slotted(s, f)
  <2>1. \A i \in DOMAIN u : i \in DOMAIN s \/ i = n + 1
    BY <1>1
  <2>2. DOMAIN s \subseteq DOMAIN u /\ n + 1 \in DOMAIN u /\ n + 1 \notin DOMAIN s
    BY <1>1
  <2> QED  BY <1>1, <2>1, <2>2 DEF Slotted
<1>3. n + 1 \notin Slotted(s, f)
  BY <1>1 DEF Slotted
<1>4. IsFiniteSet(Slotted(s, f))
  BY SlottedFinite
<1>5. Cardinality(Slotted(s, f) \cup {n + 1}) = Cardinality(Slotted(s, f)) + 1
  BY <1>3, <1>4, FS_AddElement
<1> QED  BY <1>2, <1>5 DEF Count, u

(* One element given for another leaves the size of a finite set.          *)
LEMMA Exchanged ==
  ASSUME NEW S, IsFiniteSet(S), NEW x \in S, NEW y, y \notin S
  PROVE  Cardinality((S \ {x}) \cup {y}) = Cardinality(S)
<1>1. IsFiniteSet(S \ {x}) /\ Cardinality(S \ {x}) = Cardinality(S) - 1
  BY FS_RemoveElement
<1>2. Cardinality((S \ {x}) \cup {y}) = Cardinality(S \ {x}) + 1
  BY <1>1, FS_AddElement
<1>3. Cardinality(S) \in Nat
  BY FS_CardinalityType
<1> QED  BY <1>1, <1>2, <1>3

LEMMA CountSwapped ==
  ASSUME NEW s \in Seq(QueueRecord), NEW a \in 0..(Len(s) - 1), NEW b \in 0..(Len(s) - 1), NEW e
  PROVE  Count(Swapped(s, a, b), e) = Count(s, e)
<1> DEFINE u == Swapped(s, a, b)
           x == a + 1
           y == b + 1
<1>1. /\ DOMAIN u = DOMAIN s /\ x \in DOMAIN s /\ y \in DOMAIN s
      /\ \A i \in DOMAIN s : u[i] = IF i = y THEN s[x] ELSE IF i = x THEN s[y] ELSE s[i]
  BY DEF Swapped
<1> HIDE DEF u, x, y
<1>2. CASE s[x] = s[y]
  BY <1>1, <1>2 DEF Count, Slotted, u
<1>3. CASE s[x] # s[y] /\ e = s[x]
  <2>1. Slotted(u, e) = (Slotted(s, e) \ {x}) \cup {y} /\ x \in Slotted(s, e) /\ y \notin Slotted(s, e)
    BY <1>1, <1>3 DEF Slotted
  <2> QED  BY <2>1, SlottedFinite, Exchanged DEF Count, u
<1>4. CASE s[x] # s[y] /\ e = s[y]
  <2>1. Slotted(u, e) = (Slotted(s, e) \ {y}) \cup {x} /\ y \in Slotted(s, e) /\ x \notin Slotted(s, e)
    BY <1>1, <1>4 DEF Slotted
  <2> QED  BY <2>1, SlottedFinite, Exchanged DEF Count, u
<1>5. CASE e # s[x] /\ e # s[y]
  BY <1>1, <1>5 DEF Count, Slotted, u
<1> QED  BY <1>2, <1>3, <1>4, <1>5

LEMMA CountCut ==
  ASSUME NEW s \in Seq(QueueRecord), Len(s) # 0, NEW e
  PROVE  Count(SubSeq(s, 1, Len(s) - 1), e) =
           IF e = s[Len(s)] THEN Count(s, e) - 1 ELSE Count(s, e)
<1> DEFINE n == Len(s)
           u == SubSeq(s, 1, n - 1)
<1>1. /\ n \in Nat /\ n > 0 /\ DOMAIN s = 1..n /\ DOMAIN u = 1..(n - 1)
      /\ \A i \in 1..(n - 1) : u[i] = s[i]
  OBVIOUS
<1> HIDE DEF u, n
<1>2. DOMAIN u = DOMAIN s \ {n} /\ n \in DOMAIN s
  BY <1>1
<1>3. Slotted(u, e) = IF e = s[n] THEN Slotted(s, e) \ {n} ELSE Slotted(s, e)
  BY <1>1, <1>2 DEF Slotted
<1>4. CASE e = s[n]
  <2>1. n \in Slotted(s, e)
    BY <1>2, <1>4 DEF Slotted
  <2> QED  BY <1>3, <1>4, <2>1, SlottedFinite, FS_RemoveElement DEF Count, u, n
<1>5. CASE e # s[n]
  BY <1>3, <1>5 DEF Count, u, n
<1> QED  BY <1>4, <1>5

LEMMA FirstSlot ==
  ASSUME NEW T, T \subseteq Nat, T # {}
  PROVE  \E x \in T : \A y \in T : x <= y
<1>1. PICK x \in T : \A y \in T : ~(<<y, x>> \in OpToRel(<, Nat))
  BY NatLessThanWellFounded, WFMin
<1>2. \A y \in T : ~(y < x)
  BY <1>1 DEF OpToRel
<1> QED  BY <1>2

(* In a heap in order the root precedes every entry.                       *)
LEMMA RootPrecedes ==
  ASSUME HeapTypeOK, InOrder(tied, data), NEW k \in 0..(Len(data) - 1)
  PROVE  Precedes(tied, data[1], data[k + 1])
<1>1. data \in Seq(QueueRecord) /\ Len(data) \in Nat /\ tied \in BOOLEAN
  BY DEF HeapTypeOK
<1> DEFINE T == {i \in 0..(Len(data) - 1) : ~Precedes(tied, data[1], data[i + 1])}
<1>2. SUFFICES ASSUME T # {} PROVE FALSE
  OBVIOUS
<1>3. PICK i \in T : \A j \in T : i <= j
  <2>1. T \subseteq Nat
    BY <1>1
  <2> HIDE DEF T
  <2> QED  BY <1>2, <2>1, FirstSlot
<1>4. \A j \in 0..(Len(data) - 1) : j < i => j \notin T
  <2>1. T \subseteq Nat
    BY <1>1
  <2> HIDE DEF T
  <2> QED  BY <1>1, <1>3, <2>1
<1>5. \A j \in 0..(Len(data) - 1) : data[j + 1] \in QueueRecord
  BY <1>1
<1>6. i # 0
  <2>1. data[1] \in QueueRecord
    BY <1>1, <1>5
  <2>2. Precedes(tied, data[1], data[1])
    BY <2>1, Numbers DEF Precedes
  <2> QED  BY <2>2
<1>7. parent(i) \in 0..(Len(data) - 1) /\ parent(i) < i /\ i \in 1..(Len(data) - 1)
  BY <1>1, <1>6, Slots
<1>8. Precedes(tied, data[1], data[parent(i) + 1])
  BY <1>4, <1>7
<1>9. Precedes(tied, data[parent(i) + 1], data[i + 1])
  BY <1>7 DEF InOrder
<1>10. data[0 + 1] \in QueueRecord
  BY <1>1, <1>5, <1>7
<1>11. Precedes(tied, data[1], data[i + 1])
  BY <1>1, <1>5, <1>7, <1>8, <1>9, <1>10, Transitive
<1> QED  BY <1>11

LEMMA ContentsCounts == \A e \in QueueRecord : Contents[e] = Count(data, e)
  BY DEF Contents, Count, Slotted

LEMMA SameContents ==
  ASSUME HeapInv, NEW a \in 0..(Len(data) - 1), NEW b \in 0..(Len(data) - 1),
         data' = Swapped(data, a, b)
  PROVE  Contents' = Contents
<1>1. data \in Seq(QueueRecord)
  BY DEF HeapInv, HeapTypeOK
<1>2. \A e \in QueueRecord : Count(data', e) = Count(data, e)
  BY <1>1, CountSwapped
<1> QED  BY <1>2 DEF Contents, Count, Slotted

(* A pop takes the first entry, one of the least value.                    *)
LEMMA RootIsTop ==
  ASSUME HeapInv, step = "idle", Len(data) # 0
  PROVE  data[1] \in QueueRecord /\ Promised!IsTop(data[1])
<1>1. /\ data \in Seq(QueueRecord) /\ Len(data) \in Nat /\ Len(data) > 0
      /\ HeapTypeOK /\ InOrder(tied, data)
  BY DEF HeapInv, HeapTypeOK
<1>2. data[1] \in QueueRecord /\ 1 \in DOMAIN data
  BY <1>1
<1>3. ASSUME NEW f \in QueueRecord, Contents[f] > 0
      PROVE  Value[data[1].data] <= Value[f.data]
  <2>1. Slotted(data, f) # {}
    <3>1. Count(data, f) > 0
      BY <1>3, ContentsCounts
    <3>2. Count(data, f) # 0
      BY <3>1
    <3>3. Cardinality({}) = 0
      BY FS_EmptySet
    <3> QED  BY <3>2, <3>3 DEF Count
  <2>2. PICK i \in DOMAIN data : data[i] = f
    BY <2>1 DEF Slotted
  <2>3. i - 1 \in 0..(Len(data) - 1) /\ i - 1 + 1 = i
    BY <1>1
  <2> QED  BY <1>1, <2>2, <2>3, RootPrecedes DEF Precedes
<1>4. Contents[data[1]] > 0
  <2>1. Slotted(data, data[1]) # {} /\ IsFiniteSet(Slotted(data, data[1]))
    BY <1>1, <1>2, SlottedFinite DEF Slotted
  <2>2. Count(data, data[1]) \in Nat /\ Count(data, data[1]) # 0
    BY <1>1, <2>1, FS_EmptySet, SlottedFinite DEF Count
  <2> QED  BY <1>2, <2>2, ContentsCounts
<1> QED  BY <1>2, <1>3, <1>4 DEF Promised!IsTop, Promised!Members

LEMMA Pushes ==
  ASSUME HeapInv, NEW e \in QueueRecord, push(e)
  PROVE  Promised!Push(e)
<1>1. data \in Seq(QueueRecord) /\ data' = Append(data, e)
  BY DEF HeapInv, HeapTypeOK, push
<1>2. \A f \in QueueRecord : Count(data', f) = IF f = e THEN Count(data, f) + 1 ELSE Count(data, f)
  BY <1>1, CountPushed
<1>3. Contents' = [f \in QueueRecord |-> Count(data', f)]
  BY DEF Contents, Count, Slotted
<1>4. Contents = [f \in QueueRecord |-> Count(data, f)]
  BY DEF Contents, Count, Slotted
<1>5. Contents' = [Contents EXCEPT ![e] = @ + 1]
  BY <1>2, <1>3, <1>4
<1> QED  BY <1>5 DEF Promised!Push

LEMMA Pops ==
  ASSUME HeapInv, pop \/ PopOnly
  PROVE  \E e \in QueueRecord : Promised!Pop(e)
<1> DEFINE n == Len(data)
           u == Swapped(data, 0, n - 1)
           e == data[1]
<1>1. /\ data \in Seq(QueueRecord) /\ n \in Nat /\ n > 0 /\ step = "idle"
      /\ data' = IF n = 1 THEN <<>> ELSE SubSeq(u, 1, n - 1)
  <2>1. data \in Seq(QueueRecord) /\ n \in Nat
    BY DEF HeapInv, HeapTypeOK
  <2>2. CASE pop
    BY <2>1, <2>2 DEF pop, tail
  <2>3. CASE PopOnly
    BY <2>1, <2>3 DEF PopOnly, tail
  <2> QED  BY <2>1, <2>2, <2>3
<1>2. /\ u \in Seq(QueueRecord) /\ Len(u) = n /\ u[n] = e
  <2>1. 0 \in 0..(n - 1) /\ n - 1 \in 0..(n - 1) /\ n - 1 + 1 = n
    BY <1>1
  <2>2. /\ u \in Seq(QueueRecord) /\ Len(u) = n
        /\ u[n - 1 + 1] = IF n - 1 = 0 THEN data[n - 1 + 1] ELSE data[0 + 1]
    BY <1>1, <2>1, SwappedSlots
  <2> QED  BY <1>1, <2>1, <2>2
<1>3. e \in QueueRecord /\ Promised!IsTop(e)
  BY <1>1, RootIsTop
<1> HIDE DEF u, n, e
<1>4. SubSeq(u, 1, n - 1) = data'
  BY <1>1, <1>2
<1>5. ASSUME NEW f \in QueueRecord
      PROVE  Count(data', f) = IF f = e THEN Count(data, f) - 1 ELSE Count(data, f)
  <2>1. Count(u, f) = Count(data, f)
    <3>1. 0 \in 0..(n - 1) /\ n - 1 \in 0..(n - 1)
      BY <1>1
    <3> QED  BY <1>1, <3>1, CountSwapped DEF u, n
  <2>2. Count(SubSeq(u, 1, Len(u) - 1), f) =
          IF f = u[Len(u)] THEN Count(u, f) - 1 ELSE Count(u, f)
    BY <1>1, <1>2, CountCut
  <2> QED  BY <1>2, <1>4, <2>1, <2>2
<1>6. Contents' = [f \in QueueRecord |-> Count(data', f)]
  BY DEF Contents, Count, Slotted
<1>7. Contents = [f \in QueueRecord |-> Count(data, f)]
  BY DEF Contents, Count, Slotted
<1>8. Contents' = [Contents EXCEPT ![e] = @ - 1]
  BY <1>3, <1>5, <1>6, <1>7
<1> QED  BY <1>3, <1>8 DEF Promised!Pop

LEMMA SunkSlots ==
  ASSUME HeapInv, SiftDown
  PROVE  /\ data' = Swapped(data, idx, min_child(idx))
         /\ idx \in 0..(Len(data) - 1) /\ min_child(idx) \in 0..(Len(data) - 1)
<1>1. /\ data \in Seq(QueueRecord) /\ Len(data) \in Nat
      /\ idx \in Nat /\ idx < Len(data)
      /\ data' = Swapped(data, idx, min_child(idx)) /\ min_child(idx) # -1
  BY DEF HeapInv, HeapTypeOK, SiftDown, Sinks
<1>2. left_child(idx) \in Nat /\ right_child(idx) \in Nat
  BY <1>1, Children
<1>3. min_child(idx) \in 0..(Len(data) - 1)
  BY <1>1, <1>2 DEF min_child, tail
<1> QED  BY <1>1, <1>3

(* The queue is a priority bag, whatever its capacity and however records  *)
(* tie: push() adds the entry given, pop() takes one of the least value,   *)
(* and the swaps in between change nothing.                                *)
THEOREM Implements == HeapSpec => ImplementsPriority
<1>1. HeapInit => Promised!Init
  <2> SUFFICES ASSUME HeapInit, NEW e \in QueueRecord PROVE Contents[e] = 0
    BY DEF Promised!Init, Contents
  <2>1. DOMAIN data = {}
    BY DEF HeapInit
  <2>2. Slotted(data, e) = {}
    BY <2>1 DEF Slotted
  <2> QED  BY <2>2, ContentsCounts, FS_EmptySet DEF Count
<1>2. HeapInv /\ [HeapNext]_heap => [Promised!Next]_Contents
  <2> SUFFICES ASSUME HeapInv, [HeapNext]_heap PROVE Promised!Next \/ Contents' = Contents
    OBVIOUS
  <2>1. ASSUME NEW e \in QueueRecord, push(e) PROVE Promised!Next
    BY <2>1, Pushes DEF Promised!Next
  <2>2. CASE SiftUp
    <3>1. /\ data' = Swapped(data, parent(idx), idx)
          /\ idx \in 0..(Len(data) - 1) /\ parent(idx) \in 0..(Len(data) - 1)
      BY <2>2, Slots DEF SiftUp, Rises, HeapInv, HeapTypeOK
    <3> QED  BY <3>1, SameContents
  <2>3. CASE pop \/ PopOnly
    BY <2>3, Pops DEF Promised!Next
  <2>4. CASE SiftDown
    <3>1. /\ data' = Swapped(data, idx, min_child(idx))
          /\ idx \in 0..(Len(data) - 1) /\ min_child(idx) \in 0..(Len(data) - 1)
      BY <2>4, SunkSlots
    <3> QED  BY <3>1, SameContents
  <2>5. CASE data' = data
    BY <2>5 DEF Contents
  <2> QED  BY <2>1, <2>2, <2>3, <2>4, <2>5 DEF HeapNext, PushEnd, PopEnd, heap
<1> QED  BY AlwaysHeapInv, <1>1, <1>2, PTL DEF HeapSpec, ImplementsPriority, Promised!Spec
=============================================================================
