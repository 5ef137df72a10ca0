---------------------------- MODULE BTreeProofs ----------------------------
(***************************************************************************)
(* Each step of a call on the tree, for all sizes of nodes and any records *)
(* and bulk loads: no node ever has more keys than slots, between calls    *)
(* the tree is balanced and no node is lost, and the siblings an erasing   *)
(* activation was given are still where a repair takes them to be.         *)
(***************************************************************************)
EXTENDS BTreeForest

(* What the case analysis of a repair comes to for a node with a parent:   *)
(* it merges with a sibling that has few keys, or shifts keys from one     *)
(* that has more.                                                          *)
WithSibling(t, f) ==
  LET what == Repair(t, f)
  IN  \/ what = "merge_left" /\ f.left_parent = f.parent /\ IsFew(t.node[f.left])
      \/ what = "merge_right" /\ f.right_parent = f.parent /\ IsFew(t.node[f.right])
      \/ what = "shift_left" /\ f.right_parent = f.parent /\ ~IsFew(t.node[f.right])
      \/ what = "shift_right" /\ f.left_parent = f.parent /\ ~IsFew(t.node[f.left])

(* A node with too few keys that has a sibling under its parent is merged  *)
(* or evened out with one.                                                 *)
LEMMA RepairChoice ==
  ASSUME NEW t, NEW f, Underflows(t, f.n),
         f.left_parent = f.parent => f.left # NULL,
         f.right_parent = f.parent => f.right # NULL,
         f.left_parent = f.parent \/ f.right_parent = f.parent,
         f.left_parent = f.right_parent => f.left_parent = f.parent
  PROVE  WithSibling(t, f)
<1> DEFINE what == Repair(t, f)
           a == Few(t, f.left)
           b == Few(t, f.right)
           x == f.left_parent = f.parent
           y == f.right_parent = f.parent
<1>1. ~(f.left = NULL /\ f.right = NULL) /\ (x \/ y)
  OBVIOUS
<1>2. CASE a /\ b
  <2>1. what = IF x THEN "merge_left" ELSE "merge_right"
    BY <1>1, <1>2 DEF Repair, HasMore, Few
  <2> QED  BY <1>1, <1>2, <2>1 DEF WithSibling, Few
<1>3. CASE f.left # NULL /\ a /\ ~b
  <2>1. what = IF y THEN "shift_left" ELSE "merge_left"
    BY <1>1, <1>3 DEF Repair, HasMore, Few
  <2> QED  BY <1>1, <1>3, <2>1 DEF WithSibling, Few
<1>4. CASE f.right # NULL /\ b /\ ~a
  <2>1. what = IF x THEN "shift_right" ELSE "merge_right"
    BY <1>1, <1>4 DEF Repair, HasMore, Few
  <2> QED  BY <1>1, <1>4, <2>1 DEF WithSibling, Few
<1>5. CASE \/ ~a /\ ~b
           \/ f.left = NULL /\ ~b
           \/ f.right = NULL /\ ~a
  <2>1. /\ ~(a /\ b)
        /\ ~(f.left # NULL /\ a /\ HasMore(t, f.right))
        /\ ~(HasMore(t, f.left) /\ f.right # NULL /\ b)
    BY <1>5 DEF HasMore, Few
  <2>2. \/ f.left_parent = f.right_parent /\ what \in {"shift_left", "shift_right"}
        \/ f.left_parent # f.right_parent /\ what = IF x THEN "shift_right" ELSE "shift_left"
    BY <1>1, <2>1 DEF Repair
  <2>3. (x => f.left # NULL) /\ (y => f.right # NULL)
    OBVIOUS
  <2>4. (x => ~IsFew(t.node[f.left])) /\ (y => ~IsFew(t.node[f.right]))
    BY <1>5, <2>3 DEF Few
  <2>5. CASE f.left_parent = f.right_parent /\ what \in {"shift_left", "shift_right"}
    BY <2>4, <2>5 DEF WithSibling
  <2>6. CASE f.left_parent # f.right_parent /\ what = IF x THEN "shift_right" ELSE "shift_left"
    BY <1>1, <2>4, <2>6 DEF WithSibling
  <2> QED  BY <2>2, <2>5, <2>6
<1> QED  BY <1>2, <1>3, <1>4, <1>5 DEF Few

(* The activation on top is for child slot + 1 of the one below, which has *)
(* at least two children: a sibling there is one with the same parent.     *)
Sized(t, n) == SlotMin(t.node[n]) <= slotuse(t.node[n]) /\ slotuse(t.node[n]) <= SlotMax(t.node[n])
Beside(t, A, L, V, st) ==
  LET f == Last(st)
      p == f.parent
      k == f.parentslot
      c == t.node[p].childid
  IN  /\ p = Last(Front(st)).n /\ k = Last(Front(st)).slot /\ k \in Nat
      /\ p \in A /\ p \in NodeId /\ c = V[p] /\ Len(c) = slotuse(t.node[p]) + 1
      /\ slotuse(t.node[p]) \in Nat \ {0}
      /\ k + 1 \in 1..Len(c) /\ c[k + 1] = f.n
      /\ f.n # t.root /\ f.n # p
      /\ \A i \in 1..Len(c) : /\ c[i] \in A /\ c[i] \in NodeId /\ c[i] # p /\ c[i] # NULL
                              /\ L[p] = L[c[i]] + 1 /\ c[i] # t.root
                              /\ c[i] # f.n => Sized(t, c[i])
                              /\ \A j \in 1..Len(c) : c[j] = c[i] => i = j
      /\ f.left_parent = p <=> k # 0
      /\ k # 0 => f.left = c[k]
      /\ f.right_parent = p <=> k + 1 # Len(c)
      /\ k + 1 # Len(c) => f.right = c[k + 2]
      /\ f.left_parent = f.right_parent => f.left_parent = p

(* It has one: where the siblings of the last activation are.              *)
LEMMA BesideFacts ==
  ASSUME NEW t, NEW A, NEW L, NEW V, NEW R, Stands(t, A, L, V, R, {}),
         NEW st, st # <<>>, Path(t, A, L, st), Siblings(t, L, st), Front(st) # <<>>,
         Filled(t, A, Last(st).n)
  PROVE  Beside(t, A, L, V, st)
<1> DEFINE f == Last(st)
           b == Front(st)
           p == f.parent
           k == f.parentslot
           c == t.node[p].childid
<1>0. PICK S : st \in Seq(S)
  BY DEF Path
<1>1. /\ A \subseteq NodeId /\ L \in [NodeId -> Int] /\ Family(A, L, V) /\ IsTree(t)
      /\ V \in [Parents -> Seq(A)] /\ NULL \notin A /\ NULL \notin NodeId
  <2>1. A \subseteq NodeId /\ L \in [NodeId -> Int] /\ Family(A, L, V) /\ IsTree(t)
        /\ V \in [Parents -> Seq(A)]
    BY StandsFacts
  <2> QED  BY <2>1, NullApart
<1>2. Meets(t, A, L, st)
  BY <1>1, TopMeets
<1>3. Len(st) # 1 /\ Last(b) = st[Len(st) - 1] /\ Last(b).n \in A /\ Len(b) \in Nat
      /\ Above(b, Len(b)) = Last(b).n /\ Place(b, Len(b)) = Last(b).slot + 1
      /\ Down(t, b, Len(b)) /\ Kids(t, Above(b, Len(b)))[Place(b, Len(b))] = f.n
      /\ L[Last(b).n] = L[f.n] + 1 /\ f.n \in A
  BY <1>2 DEF Meets
<1>4. Sides(t, L, f, Last(b))
  <2>1. f = st[Len(st)] /\ Len(st) \in 1..Len(st)
    BY <1>0, FrontIs
  <2> QED  BY <1>3, <2>1 DEF Siblings
<1>5. p = Last(b).n /\ k = Last(b).slot
  BY <1>4 DEF Sides
<1>6. p \in A /\ p \in NodeId /\ p # NULL /\ p \in Parents
  BY <1>1, <1>3, <1>5 DEF Parents
<1>7. /\ c = V[p] /\ c = Kids(t, p)
      /\ \A i \in 1..Len(c) : /\ c[i] \in A /\ c[i] \in NodeId /\ c[i] # p
                              /\ L[p] = L[c[i]] + 1
                              /\ \A j \in 1..Len(c) : c[j] = c[i] => i = j
      /\ L[p] # 0 => Len(c) = slotuse(t.node[p]) + 1
      /\ slotuse(t.node[p]) \in Nat
  BY <1>6, ChildrenFacts
<1>8. k + 1 \in 1..Len(c) /\ c[k + 1] = f.n
  BY <1>3, <1>5, <1>7 DEF Down
<1>9. k \in Nat
  <2>1. Path(t, A, L, b) /\ Len(b) \in 1..Len(b)
    BY <1>2, <1>3 DEF Meets
  <2>2. Last(b) = b[Len(b)]
    BY DEF Last
  <2> QED  BY <1>5, <2>1, <2>2 DEF Path
<1>10. L[p] = L[f.n] + 1 /\ L[f.n] >= 0 /\ L[f.n] \in Int
  <2>1. L[f.n] >= 0 /\ L[f.n] \in Int
    BY <1>1, <1>3, StandsFacts
  <2> QED  BY <2>1, <1>3, <1>5
<1>11. Len(c) = slotuse(t.node[p]) + 1
  <2>1. L[p] # 0
    BY <1>10
  <2> QED  BY <1>7, <2>1
<1>12. \A i \in 1..Len(c) : c[i] # t.root
  <2> SUFFICES ASSUME NEW i \in 1..Len(c), c[i] = t.root PROVE FALSE
    OBVIOUS
  <2>1. c[i] \in NodeId /\ c[i] # NULL /\ i \in 1..Len(V[p])
    BY <1>7, <1>1
  <2>2. V[NULL] = <<t.root>>
    BY <2>1 DEF Stands, Kids, Tops
  <2>3. NULL \in Parents /\ 1 \in 1..Len(V[NULL]) /\ V[NULL][1] = V[p][i]
    BY <1>7, <2>2 DEF Parents
  <2>4. V[p][i] \in Sets(V)[p]
    BY <1>1, <1>6, <2>1, ChildApart
  <2>5. V[NULL][1] \in Sets(V)[p]
    BY <2>3, <2>4
  <2>6. p = NULL
    BY <1>1, <1>6, <2>3, <2>5, ChildApart
  <2> QED  BY <2>6, <1>6
<1>13. f.n # p /\ f.n # t.root
  BY <1>7, <1>8, <1>12
<1> HIDE DEF f, p, k, c, b
<1>14. \A i \in 1..Len(c) : c[i] # f.n => Sized(t, c[i])
  <2> SUFFICES ASSUME NEW i \in 1..Len(c), c[i] # f.n PROVE Sized(t, c[i])
    OBVIOUS
  <2>1. c[i] \in A /\ c[i] # t.root
    BY <1>7, <1>12
  <2>2. Fits(t, c[i], f.n)
    BY <2>1 DEF Filled, f
  <2> DEFINE x == SlotMin(t.node[c[i]])
             y == slotuse(t.node[c[i]])
  <2>3. x \in Int /\ y \in Nat
    <3>1. SlotMax(t.node[c[i]]) \in Nat
      BY BTreeAssumption DEF SlotMax
    <3> QED  BY <2>1, <1>1, <3>1, Sizes DEF SlotMin
  <2>4. y >= x /\ y <= SlotMax(t.node[c[i]])
    BY <2>1, <2>2 DEF Fits, Low
  <2> HIDE DEF x, y
  <2>5. x <= y
    BY <2>3, <2>4
  <2> QED  BY <2>4, <2>5 DEF Sized, x, y
<1>15. slotuse(t.node[p]) \in Nat \ {0}
  <2>1. Fits(t, p, f.n) /\ p # f.n
    BY <1>6, <1>13 DEF Filled, f
  <2>2. slotuse(t.node[p]) >= Low(t, p)
    BY <2>1 DEF Fits
  <2>3. Low(t, p) >= 1 /\ Low(t, p) \in Int
    <3>1. SlotMax(t.node[p]) \in Nat /\ SlotMax(t.node[p]) >= 2
      BY BTreeAssumption DEF SlotMax
    <3> QED  BY <3>1 DEF Low, SlotMin
  <2>4. slotuse(t.node[p]) # 0
    BY <1>7, <2>2, <2>3
  <2> QED  BY <1>7, <2>4
<1>16. /\ k # 0 => f.left = c[k] /\ f.left_parent = p
       /\ k = 0 => Higher(L, f.left_parent, p)
       /\ k + 1 # Len(c) => f.right = c[k + 2] /\ f.right_parent = p
       /\ k + 1 = Len(c) => Higher(L, f.right_parent, p)
  <2>1. (k - 1) + 1 = k /\ (k + 1) + 1 = k + 2
    BY <1>9
  <2>2. k + 1 = Len(c) <=> k = slotuse(t.node[p])
    BY <1>7, <1>9, <1>11
  <2> QED  BY <1>4, <1>5, <2>1, <2>2 DEF Sides, At, c
<1>17. ~Higher(L, p, p)
  BY <1>6, <1>1 DEF Higher
<1>18. ~(k = 0 /\ k + 1 = Len(c))
  BY <1>7, <1>11, <1>15
<1>19. f.left_parent = p <=> k # 0
  BY <1>16, <1>17
<1>20. f.right_parent = p <=> k + 1 # Len(c)
  BY <1>16, <1>17
<1>21. f.left_parent = f.right_parent => f.left_parent = p
  BY <1>18, <1>19, <1>20
<1>22. \A i \in 1..Len(c) : c[i] # NULL
  BY <1>1, <1>7
<1> QED  BY <1>5, <1>6, <1>7, <1>8, <1>9, <1>11, <1>12, <1>13, <1>14, <1>15, <1>16, <1>19, <1>20, <1>21, <1>22
         DEF Beside, f, p, k, c, b

(* The erasing activations on the stack as they are returned to with the   *)
(* tree t and these flags.                                                 *)
Climbs(t, A, L, V, R, st, flags) ==
  Path(t, A, L, st) /\ Siblings(t, L, st) /\ Filled(t, A, NULL) /\ Shrunk(t, A, L, V, R, st, flags)
Returned(t, st, flags) ==
  /\ \E A, L, V, R : Climbs(t, A, L, V, R, st, flags)
  /\ t.root = NULL => t.tail_leaf = NULL

(* All that is known of the stack when the innermost activation looks at   *)
(* its node's number of keys.                                              *)
Erases(t, A, L, V, R, st) ==
  /\ Stands(t, A, L, V, R, {}) /\ st # <<>> /\ Path(t, A, L, st) /\ Siblings(t, L, st)
  /\ Filled(t, A, Last(st).n)

(* A path starts at the root.                                              *)
LEMMA RootThere ==
  ASSUME NEW t, NEW A, NEW L, NEW st, Path(t, A, L, st), st # <<>>
  PROVE  t.root # NULL /\ st[1].n = t.root
<1>1. PICK S : st \in Seq(S)
  BY DEF Path
<1>2. Len(st) \in Nat \ {0}
  BY <1>1
<1>3. 1 \in 1..Len(st) /\ 1 - 1 = 0
  BY <1>2
<1>4. Down(t, st, 0) /\ Kids(t, Above(st, 0))[Place(st, 0)] = st[1].n
  BY <1>3 DEF Path
<1>5. Above(st, 0) = NULL /\ Place(st, 0) = 1
  BY DEF Above, Place
<1>6. 1 \in 1..Len(Tops(t)) /\ Tops(t)[1] = st[1].n
  BY <1>4, <1>5 DEF Down, Kids
<1>7. t.root # NULL
  <2> SUFFICES ASSUME t.root = NULL PROVE FALSE
    OBVIOUS
  <2>1. Tops(t) = <<>>
    BY DEF Tops
  <2> QED  BY <1>6, <2>1
<1>8. Tops(t) = <<t.root>>
  BY <1>7 DEF Tops
<1> QED  BY <1>6, <1>7, <1>8

(* The children i and i + 1 of the parent, one of them the node on top.    *)
Pair(t, A, L, st, l, r) ==
  LET b == Front(st)
      p == Last(b).n
  IN  /\ l \in A /\ l \in NodeId /\ l # NULL /\ l # p /\ l # t.root
      /\ r \in A /\ r \in NodeId /\ r # NULL /\ r # p /\ r # t.root
      /\ l # r /\ L[l] = L[r] /\ L[l] \in Int /\ L[l] >= 0
      /\ t.node[l].level = L[l] /\ t.node[r].level = L[r]
      /\ \A j \in 1..Len(b) : b[j].n \in A \ {l, r} /\ b[j].n \in NodeId
      /\ Last(st).n \in {l, r}
      /\ \A n \in {l, r} : /\ slotuse(t.node[n]) \in Nat
                           /\ n # Last(st).n => Sized(t, n)
                           /\ slotuse(t.node[n]) + 1 >= SlotMin(t.node[n])
      /\ L[l] # 0 => /\ Len(t.node[l].childid) = slotuse(t.node[l]) + 1
                     /\ Len(t.node[r].childid) = slotuse(t.node[r]) + 1

(* l and r are the children i and i + 1 of the parent of the node on top,  *)
(* and that node, child parentslot + 1, is one of them.                    *)
Twins(V, st, i, l, r) ==
  LET c == V[Last(Front(st)).n]
  IN  /\ i \in {Last(st).parentslot, Last(st).parentslot + 1}
      /\ i \in 1..Len(c) /\ i + 1 <= Len(c) /\ l = c[i] /\ r = c[i + 1]

(* Two neighbours one of which is the last activation's node.              *)
LEMMA PairFound ==
  ASSUME NEW t, NEW A, NEW L, NEW V, NEW R, NEW st, Erases(t, A, L, V, R, st), Front(st) # <<>>,
         NEW i, NEW l, NEW r, Twins(V, st, i, l, r)
  PROVE  Pair(t, A, L, st, l, r)
<1> DEFINE f == Last(st)
           b == Front(st)
           p == f.parent
           k == f.parentslot
           c == V[Last(b).n]
           n == f.n
<1>0. i \in {k, k + 1} /\ i \in 1..Len(c) /\ i + 1 <= Len(c) /\ l = c[i] /\ r = c[i + 1]
  BY DEF Twins
<1>1. Beside(t, A, L, V, st)
  BY BesideFacts DEF Erases
<1>2. /\ p = Last(b).n /\ k \in Nat /\ p \in A /\ p \in NodeId
      /\ c = V[p] /\ c = t.node[p].childid
      /\ k + 1 \in 1..Len(c) /\ c[k + 1] = n /\ n # t.root
      /\ \A j \in 1..Len(c) : /\ c[j] \in A /\ c[j] \in NodeId /\ c[j] # p /\ c[j] # NULL
                              /\ L[p] = L[c[j]] + 1 /\ c[j] # t.root
                              /\ c[j] # n => Sized(t, c[j])
                              /\ \A m \in 1..Len(c) : c[m] = c[j] => j = m
  BY <1>1 DEF Beside
<1>3. i + 1 \in 1..Len(c) /\ i # i + 1
  <2>1. Len(c) \in Nat
    BY <1>1 DEF Beside
  <2> HIDE DEF c
  <2> QED  BY <1>0, <2>1
<1>4. l # r
  BY <1>0, <1>2, <1>3, Zenon
<1>5. n \in {l, r}
  <2>1. CASE i = k
    BY <1>0, <1>2, <2>1, Zenon
  <2>2. CASE i = k + 1
    BY <1>0, <1>2, <2>2, Zenon
  <2> QED  BY <1>0, <2>1, <2>2
<1>6. /\ A \subseteq NodeId /\ L \in [NodeId -> Int] /\ IsTree(t)
      /\ \A m \in A : t.node[m].level = L[m] /\ L[m] >= 0
  <2>1. Stands(t, A, L, V, R, {})
    BY DEF Erases
  <2> QED  BY <2>1, StandsFacts
<1>7. /\ l \in A /\ l \in NodeId /\ l # NULL /\ l # p /\ l # t.root
      /\ r \in A /\ r \in NodeId /\ r # NULL /\ r # p /\ r # t.root
  BY <1>0, <1>2, <1>3, Zenon
<1>8. L[l] = L[r] /\ L[l] \in Int /\ L[l] >= 0 /\ L[r] \in Int
  <2>1. L[l] \in Int /\ L[r] \in Int /\ L[l] >= 0
    BY <1>6, <1>7
  <2>2. L[p] = L[l] + 1 /\ L[p] = L[r] + 1
    BY <1>0, <1>2, <1>3, Zenon
  <2> DEFINE x == L[l]
             y == L[r]
  <2>3. x \in Int /\ y \in Int /\ x + 1 = y + 1
    BY <2>1, <2>2
  <2> HIDE DEF x, y
  <2>4. x = y
    BY <2>3
  <2> QED  BY <2>1, <2>4 DEF x, y
<1>9. Meets(t, A, L, st)
  BY <1>6, TopMeets DEF Erases
<1>10. \A j \in 1..Len(b) : b[j].n \in A \ {l, r} /\ b[j].n \in NodeId
  <2> SUFFICES ASSUME NEW j \in 1..Len(b) PROVE b[j].n \in A \ {l, r} /\ b[j].n \in NodeId
    OBVIOUS
  <2>1. b[j].n \in A /\ L[b[j].n] > L[n]
    BY <1>9 DEF Meets
  <2>2. L[n] = L[l] /\ L[n] = L[r]
    BY <1>5, <1>8
  <2>3. L[b[j].n] # L[n]
    BY <2>1, <2>2, <1>8, <1>6
  <2> QED  BY <2>1, <2>2, <2>3, <1>6
<1>11. ASSUME NEW m \in {l, r}
       PROVE  /\ slotuse(t.node[m]) \in Nat
              /\ m # n => Sized(t, m)
              /\ slotuse(t.node[m]) + 1 >= SlotMin(t.node[m])
  <2>1. m \in A /\ m \in NodeId /\ m # t.root
    BY <1>7
  <2>2. Fits(t, m, n)
    BY <2>1 DEF Erases, Filled
  <2>3. slotuse(t.node[m]) \in Nat
    BY <1>6, <2>1, Sizes
  <2>4. SlotMin(t.node[m]) \in Int
    <3>1. SlotMax(t.node[m]) \in Nat
      BY BTreeAssumption DEF SlotMax
    <3> QED  BY <3>1 DEF SlotMin
  <2>5. m # n => Sized(t, m)
    BY <1>0, <1>2, <1>3, Zenon
  <2> DEFINE x == slotuse(t.node[m])
             y == SlotMin(t.node[m])
  <2>6. x + 1 >= y \/ x >= y
    BY <2>1, <2>2 DEF Fits, Low
  <2> HIDE DEF x, y
  <2>7. x + 1 >= y
    BY <2>6, <2>3, <2>4 DEF x, y
  <2> QED  BY <2>3, <2>5, <2>7 DEF x, y
<1>12. L[l] # 0 => /\ Len(t.node[l].childid) = slotuse(t.node[l]) + 1
                   /\ Len(t.node[r].childid) = slotuse(t.node[r]) + 1
  <2>1. Looks(t, l, L, R) /\ Looks(t, r, L, R)
    BY <1>7 DEF Erases, Stands
  <2> QED  BY <2>1, <1>8 DEF Looks
<1>13. t.node[l].level = L[l] /\ t.node[r].level = L[r]
  BY <1>6, <1>7
<1> HIDE DEF f, b, p, k, n
<1>14. l # Last(b).n /\ r # Last(b).n
  BY <1>2, <1>7
<1>15. Pair(t, A, L, st, l, r)
  <2>1. Last(st).n \in {l, r} /\ \A m \in {l, r} :
          /\ slotuse(t.node[m]) \in Nat
          /\ m # Last(st).n => Sized(t, m)
          /\ slotuse(t.node[m]) + 1 >= SlotMin(t.node[m])
    <3>1. Last(st).n = n
      BY DEF f, n
    <3>2. \A m \in {l, r} : /\ slotuse(t.node[m]) \in Nat
                            /\ m # n => Sized(t, m)
                            /\ slotuse(t.node[m]) + 1 >= SlotMin(t.node[m])
      BY <1>11
    <3> QED  BY <1>5, <3>1, <3>2
  <2> QED  BY <1>4, <1>7, <1>8, <1>10, <1>12, <1>13, <1>14, <2>1 DEF Pair, b
<1> QED  BY <1>15

(* A node of slotmin - 1 keys and a sibling of slotmin fit into one node;  *)
(* with a sibling that has more they share evenly.                         *)
LEMMA MergedFits ==
  ASSUME NEW mx \in Nat, mx >= 2, NEW x \in Nat, NEW y \in Nat, NEW e \in {0, 1},
         x + 1 >= mx \div 2, y + 1 >= mx \div 2,
         \/ x < mx \div 2 /\ y <= mx \div 2
         \/ x <= mx \div 2 /\ y < mx \div 2,
         x >= mx \div 2 \/ y >= mx \div 2
  PROVE  /\ x + y + e <= mx /\ x + y + e >= mx \div 2
         /\ x + y >= mx \div 2
OBVIOUS

(* Too few keys and more than half, shared, are enough for both.           *)
LEMMA SharedFits ==
  ASSUME NEW mx \in Nat, mx >= 2, NEW x \in Nat, NEW y \in Nat, NEW v \in Nat, NEW w \in Nat,
         x + 1 >= mx \div 2, y + 1 >= mx \div 2,
         \/ x < mx \div 2 /\ y > mx \div 2 /\ y <= mx
         \/ y < mx \div 2 /\ x > mx \div 2 /\ x <= mx,
         v + w = x + y, v - w \in -1..1
  PROVE  v >= mx \div 2 /\ v <= mx /\ w >= mx \div 2 /\ w <= mx
<1> DEFINE z == mx \div 2
<1>1. z \in Nat /\ 2 * z <= mx /\ mx <= 2 * z + 1
  OBVIOUS
<1>2. x + y >= 2 * z /\ x + y <= mx + z - 1
  <2>1. x + 1 >= z /\ y + 1 >= z /\ ((x < z /\ y > z /\ y <= mx) \/ (y < z /\ x > z /\ x <= mx))
    OBVIOUS
  <2> HIDE DEF z
  <2> QED  BY <1>1, <2>1
<1>3. v - w = -1 \/ v - w = 0 \/ v - w = 1
  OBVIOUS
<1> HIDE DEF z
<1>4. v >= z /\ v <= mx /\ w >= z /\ w <= mx
  BY <1>1, <1>2, <1>3
<1> QED  BY <1>4 DEF z

(* Activations whose nodes a repair did not touch go on as before.         *)
LEMMA BelowKept ==
  ASSUME NEW t, NEW A, NEW L, NEW V, NEW R, NEW st, Erases(t, A, L, V, R, st),
         NEW u, NEW B, u.root = t.root,
         \A i \in 1..Len(Front(st)) : Front(st)[i].n \in B /\ Same(u, t, Front(st)[i].n)
  PROVE  /\ Path(u, B, L, Front(st)) /\ Siblings(u, L, Front(st))
         /\ Down(u, Front(st), Len(Front(st)))
<1> DEFINE b == Front(st)
<1>1. A \subseteq NodeId /\ L \in [NodeId -> Int] /\ NULL \notin A
  <2>1. Stands(t, A, L, V, R, {})
    BY DEF Erases
  <2>2. A \subseteq NodeId /\ L \in [NodeId -> Int]
    BY <2>1, StandsFacts
  <2> QED  BY <2>2, NullApart
<1>2. Meets(t, A, L, st)
  BY <1>1, TopMeets DEF Erases
<1>3. Path(t, A, L, b) /\ Down(t, b, Len(b)) /\ Len(b) \in Nat /\ Len(b) = Len(st) - 1
  BY <1>2 DEF Meets
<1>4. Siblings(t, L, b)
  <2>1. PICK S : st \in Seq(S)
    BY DEF Erases, Path
  <2>2. \A i \in 1..(Len(st) - 1) : b[i] = st[i]
    BY <2>1, FrontIs DEF Erases
  <2>3. Len(st) \in Nat
    BY <2>1
  <2> HIDE DEF b
  <2>4. ASSUME NEW i \in 1..Len(b)
        PROVE  /\ Args \subseteq DOMAIN b[i]
               /\ IF i = 1 THEN Alone(b[i]) ELSE Sides(t, L, b[i], b[i - 1])
    <3>1. i \in 1..Len(st) /\ i \in 1..(Len(st) - 1) /\ (i # 1 => i - 1 \in 1..(Len(st) - 1))
      BY <1>3, <2>3
    <3>2. /\ Args \subseteq DOMAIN st[i]
          /\ IF i = 1 THEN Alone(st[i]) ELSE Sides(t, L, st[i], st[i - 1])
      BY <3>1 DEF Erases, Siblings
    <3> QED  BY <2>2, <3>1, <3>2
  <2> QED  BY <2>4 DEF Siblings
<1> HIDE DEF b
<1>5. \A i \in 1..Len(b) : /\ b[i].n \in B /\ L[b[i].n] = L[b[i].n]
                           /\ u.node[b[i].n].childid = t.node[b[i].n].childid
                           /\ slotuse(u.node[b[i].n]) = slotuse(t.node[b[i].n])
  BY DEF Same, Alike, b
<1>6. Path(u, B, L, b) /\ Down(u, b, Len(b))
  BY <1>1, <1>3, <1>5, PathKept
<1>7. Siblings(u, L, b)
  <2>1. \A i \in 1..(Len(b) - 1) : /\ u.node[b[i].n].childid = t.node[b[i].n].childid
                                   /\ slotuse(u.node[b[i].n]) = slotuse(t.node[b[i].n])
    BY <1>3, <1>5
  <2> QED  BY <1>3, <1>4, <2>1, SiblingsKept
<1> QED  BY <1>6, <1>7 DEF b

(* After a merge the activation below is returned to with one child        *)
(* emptied.                                                                *)
LEMMA MergeReturned ==
  ASSUME NEW t, NEW A, NEW L, NEW V, NEW R, NEW st, Erases(t, A, L, V, R, st), Front(st) # <<>>,
         IsUnderflow(t.node[Last(st).n]),
         NEW i, NEW l, NEW r, Twins(V, st, i, l, r),
         \A m \in {l, r} : m # Last(st).n => IsFew(t.node[m]),
         NEW u, Merged(u, t, l, r), NEW flags, "fixmerge" \in flags
  PROVE  Returned(u, Front(st), flags)
<1> DEFINE b == Front(st)
           p == Last(b).n
           c == V[p]
           B == A \ {r}
           W == MergeV(V, p, i, l, r)
           T == MergeR(R, l, r)
<1>0. /\ i \in {Last(st).parentslot, Last(st).parentslot + 1} /\ i \in 1..Len(c) /\ i + 1 <= Len(c)
      /\ l = c[i] /\ r = c[i + 1]
  BY DEF Twins
<1>1. Pair(t, A, L, st, l, r)
  BY PairFound
<1>2. Beside(t, A, L, V, st)
  BY BesideFacts DEF Erases
<1>3. /\ p \in A /\ p \in NodeId /\ c = t.node[p].childid
      /\ Last(st).parentslot = Last(b).slot /\ Last(b).slot \in Nat
  BY <1>2 DEF Beside
<1>4. /\ A \subseteq NodeId /\ IsTree(t) /\ V \in [Parents -> Seq(A)] /\ NULL \notin A
      /\ p \in Parents /\ c \in Seq(A)
  <2>1. Stands(t, A, L, V, R, {})
    BY DEF Erases
  <2>2. A \subseteq NodeId /\ IsTree(t) /\ V \in [Parents -> Seq(A)]
    BY <2>1, StandsFacts
  <2>3. p \in Parents
    BY <1>3 DEF Parents
  <2> QED  BY <2>2, <2>3, NullApart
<1>5. /\ l \in A /\ l \in NodeId /\ l # NULL /\ l # p /\ l # t.root
      /\ r \in A /\ r \in NodeId /\ r # NULL /\ r # p /\ r # t.root
      /\ l # r /\ L[l] = L[r] /\ L[l] \in Int
      /\ t.node[l].level = L[l] /\ t.node[r].level = L[r]
      /\ \A j \in 1..Len(b) : b[j].n \in A \ {l, r} /\ b[j].n \in NodeId
      /\ Last(st).n \in {l, r}
      /\ L[l] # 0 => /\ Len(t.node[l].childid) = slotuse(t.node[l]) + 1
                     /\ Len(t.node[r].childid) = slotuse(t.node[r]) + 1
  BY <1>1 DEF Pair
<1>6. \A n \in {l, r} : /\ slotuse(t.node[n]) \in Nat
                        /\ n # Last(st).n => Sized(t, n)
                        /\ slotuse(t.node[n]) + 1 >= SlotMin(t.node[n])
  BY <1>1 DEF Pair
<1>7. /\ IsTree(u) /\ u.root = t.root
      /\ u.node[l].level = t.node[l].level
      /\ u.node[l].childid = t.node[l].childid \o t.node[r].childid
      /\ slotuse(u.node[l]) = slotuse(t.node[l]) + slotuse(t.node[r])
                                + IF IsLeaf(t.node[l]) THEN 0 ELSE 1
      /\ slotuse(u.node[r]) = 0
      /\ \A id \in NodeId \ {l, r} : Same(u, t, id)
  BY DEF Merged
<1>8. L[l] # 0 => Len(u.node[l].childid) = slotuse(u.node[l]) + 1
  <2> SUFFICES ASSUME L[l] # 0 PROVE Len(u.node[l].childid) = slotuse(u.node[l]) + 1
    OBVIOUS
  <2> DEFINE x == t.node[l].childid
             y == t.node[r].childid
  <2>1. x \in Seq(NodeId) /\ y \in Seq(NodeId)
    BY <1>4, <1>5, Sizes
  <2>2. Len(x \o y) = Len(x) + Len(y)
    BY <2>1
  <2>3. Len(x) = slotuse(t.node[l]) + 1 /\ Len(y) = slotuse(t.node[r]) + 1
    BY <1>5
  <2>4. slotuse(u.node[l]) = slotuse(t.node[l]) + slotuse(t.node[r]) + 1
    BY <1>5, <1>7 DEF IsLeaf
  <2>5. slotuse(t.node[l]) \in Nat /\ slotuse(t.node[r]) \in Nat
    BY <1>6
  <2>6. Len(u.node[l].childid) = Len(x) + Len(y)
    BY <2>2, <1>7
  <2> HIDE DEF x, y
  <2> DEFINE a == slotuse(t.node[l])
             d == slotuse(t.node[r])
             e == slotuse(u.node[l])
             z == Len(u.node[l].childid)
  <2>7. a \in Nat /\ d \in Nat /\ e = a + d + 1 /\ z = (a + 1) + (d + 1)
    BY <2>3, <2>4, <2>5, <2>6
  <2> HIDE DEF a, d, e, z
  <2>8. z = e + 1
    BY <2>7
  <2> QED  BY <2>8 DEF z, e
<1>9. Stands(u, B, L, W, T, {p, r})
  <2>1. Neighbours(V, p, i, l, r)
    BY <1>0, <1>4 DEF Neighbours
  <2>2. Stands(t, A, L, V, R, {}) /\ Merged(u, t, l, r)
    BY DEF Erases
  <2> QED  BY <1>5, <1>8, <2>1, <2>2, MergeStands
<1>10. Path(u, B, L, b) /\ Siblings(u, L, b) /\ Down(u, b, Len(b))
  <2>1. \A j \in 1..Len(b) : b[j].n \in B /\ Same(u, t, b[j].n)
    BY <1>5, <1>7
  <2> QED  BY <1>7, <2>1, BelowKept
<1>11. Filled(u, B, NULL)
  <2>1. Fits(u, l, NULL)
    <3> DEFINE mx == SlotMax(t.node[l])
               x  == slotuse(t.node[l])
               y  == slotuse(t.node[r])
               e  == IF IsLeaf(t.node[l]) THEN 0 ELSE 1
               h  == mx \div 2
    <3>1. SlotMax(t.node[r]) = mx /\ SlotMax(u.node[l]) = mx
      BY <1>5, <1>7 DEF SlotMax, IsLeaf
    <3>2. mx \in Nat /\ mx >= 2
      BY BTreeAssumption DEF SlotMax
    <3>3. x \in Nat /\ y \in Nat /\ e \in {0, 1} /\ x + 1 >= h /\ y + 1 >= h
      BY <1>6, <3>1 DEF SlotMin
    <3>4. \/ x < h /\ y <= h /\ y >= h
          \/ x <= h /\ y < h /\ x >= h
      <4>1. CASE Last(st).n = l
        <5>1. x < h
          BY <4>1 DEF IsUnderflow, SlotMin
        <5>2. IsFew(t.node[r]) /\ Sized(t, r)
          BY <4>1, <1>5, <1>6
        <5>3. y <= h /\ h <= y
          BY <3>1, <5>2 DEF IsFew, Sized, SlotMin
        <5> QED  BY <3>2, <3>3, <5>1, <5>3
      <4>2. CASE Last(st).n = r
        <5>1. y < h
          BY <3>1, <4>2 DEF IsUnderflow, SlotMin
        <5>2. IsFew(t.node[l]) /\ Sized(t, l)
          BY <4>2, <1>5, <1>6
        <5>3. x <= h /\ h <= x
          BY <5>2 DEF IsFew, Sized, SlotMin
        <5> QED  BY <3>2, <3>3, <5>1, <5>3
      <4> QED  BY <4>1, <4>2, <1>5
    <3>5. slotuse(u.node[l]) = x + y + e
      BY <1>7
    <3> HIDE DEF mx, x, y, e
    <3>6. x + y + e <= mx /\ x + y + e >= h
      BY <3>2, <3>3, <3>4, MergedFits
    <3> HIDE DEF h
    <3>7. l # u.root /\ SlotMin(u.node[l]) = h /\ SlotMax(u.node[l]) = mx
      BY <1>5, <1>7, <3>1 DEF SlotMin, h
    <3> QED  BY <1>5, <3>5, <3>6, <3>7 DEF Fits, Low
  <2>2. \A n \in B : Fits(u, n, NULL) \/ (n \in A /\ Same(u, t, n) /\ (n = Last(st).n => n = NULL))
    <3> SUFFICES ASSUME NEW n \in B, n # l
                 PROVE  n \in A /\ Same(u, t, n) /\ (n = Last(st).n => n = NULL)
      BY <2>1
    <3>1. n \in NodeId \ {l, r} /\ n # Last(st).n
      BY <1>4, <1>5
    <3> QED  BY <1>7, <3>1
  <2>3. Filled(t, A, Last(st).n) /\ B \subseteq NodeId
    BY <1>4 DEF Erases
  <2>4. IsTree(t) /\ u.root = t.root
    BY <1>4, <1>7
  <2> HIDE DEF B
  <2> QED  BY <2>2, <2>3, <2>4, FilledKept
<1>12. Gap(u, B, W, b, i + 1) /\ u.node[p].childid[i + 1] = r
  <2>1. u.node[p].childid = c
    BY <1>3, <1>5, <1>7 DEF Same, Alike
  <2>2. i + 1 \in 2..Len(c) /\ i + 1 \in {Last(b).slot + 1, Last(b).slot + 2} /\ i + 1 \in Nat
    <3>1. Len(c) \in Nat
      BY <1>4
    <3>2. i = Last(b).slot \/ i = Last(b).slot + 1
      BY <1>0, <1>3, Zenon
    <3>3. i + 1 \in {Last(b).slot + 1, Last(b).slot + 2}
      BY <1>3, <3>2
    <3>4. i + 1 \in 2..Len(c) /\ i + 1 \in Nat
      <4> HIDE DEF c
      <4> QED  BY <1>0, <3>1
    <3> QED  BY <3>3, <3>4
  <2>3. W[p] = RemoveAt(c, i + 1)
    BY <1>4, <1>5 DEF MergeV
  <2>4. r \in NodeId \ B /\ slotuse(u.node[r]) = 0
    BY <1>5, <1>7
  <2> HIDE DEF b, B, W
  <2> QED  BY <1>0, <2>1, <2>2, <2>3, <2>4 DEF Gap, b, p
<1>13. Shrunk(u, B, L, W, T, b, flags)
  <2>1. i + 1 \in Nat
    BY <1>0, <1>4
  <2>2. \E k \in Nat : /\ Gap(u, B, W, b, k)
                       /\ Stands(u, B, L, W, T, {Last(b).n, u.node[Last(b).n].childid[k]})
    BY <1>9, <1>12, <2>1
  <2> QED  BY <1>10, <2>2 DEF Shrunk
<1>14. Climbs(u, B, L, W, T, b, flags)
  BY <1>10, <1>11, <1>13 DEF Climbs
<1>15. u.root # NULL
  BY <1>7, RootThere DEF Erases
<1> QED  BY <1>14, <1>15 DEF Returned

(* After a shift it is returned to with nothing left to do.                *)
LEMMA ShiftReturned ==
  ASSUME NEW t, NEW A, NEW L, NEW V, NEW R, NEW st, Erases(t, A, L, V, R, st), Front(st) # <<>>,
         IsUnderflow(t.node[Last(st).n]),
         NEW i, NEW l, NEW r, Twins(V, st, i, l, r),
         \A m \in {l, r} : m # Last(st).n => ~IsFew(t.node[m]),
         NEW u, Shifted(u, t, l, r), NEW flags, "fixmerge" \notin flags
  PROVE  Returned(u, Front(st), flags)
<1> DEFINE b == Front(st)
           p == Last(b).n
           W == ShiftV(V, l, r, u.node[l].childid, u.node[r].childid)
<1>1. Pair(t, A, L, st, l, r)
  BY PairFound
<1>2. Beside(t, A, L, V, st)
  BY BesideFacts DEF Erases
<1>3. p \in A /\ p \in NodeId
  BY <1>2 DEF Beside
<1>4. A \subseteq NodeId /\ IsTree(t) /\ NULL \notin A
  <2>1. Stands(t, A, L, V, R, {})
    BY DEF Erases
  <2>2. A \subseteq NodeId /\ IsTree(t)
    BY <2>1, StandsFacts
  <2> QED  BY <2>2, NullApart
<1>5. /\ l \in A /\ l \in NodeId /\ l # NULL /\ l # p /\ l # t.root
      /\ r \in A /\ r \in NodeId /\ r # NULL /\ r # p /\ r # t.root
      /\ l # r /\ L[l] = L[r] /\ L[l] \in Int
      /\ t.node[l].level = L[l] /\ t.node[r].level = L[r]
      /\ \A j \in 1..Len(b) : b[j].n \in A \ {l, r} /\ b[j].n \in NodeId
      /\ Last(st).n \in {l, r}
  BY <1>1 DEF Pair
<1>6. \A n \in {l, r} : /\ slotuse(t.node[n]) \in Nat
                        /\ n # Last(st).n => Sized(t, n)
                        /\ slotuse(t.node[n]) + 1 >= SlotMin(t.node[n])
  BY <1>1 DEF Pair
<1>7. /\ IsTree(u) /\ u.root = t.root
      /\ u.node[l].level = t.node[l].level /\ u.node[r].level = t.node[r].level
      /\ slotuse(u.node[l]) + slotuse(u.node[r]) = slotuse(t.node[l]) + slotuse(t.node[r])
      /\ slotuse(u.node[l]) - slotuse(u.node[r]) \in -1..1
      /\ \A id \in NodeId \ {l, r} : Same(u, t, id)
  BY Zenon DEF Shifted
<1>9. Stands(u, A, L, W, R, {})
  <2>1. Neighbours(V, p, i, l, r)
    BY <1>3, NullApart DEF Neighbours, Twins, Parents
  <2>2. Stands(t, A, L, V, R, {}) /\ Shifted(u, t, l, r)
    BY DEF Erases
  <2> QED  BY <1>3, <2>1, <2>2, ShiftStands
<1>10. Path(u, A, L, b) /\ Siblings(u, L, b) /\ Down(u, b, Len(b))
  <2>1. \A j \in 1..Len(b) : b[j].n \in A /\ Same(u, t, b[j].n)
    BY <1>5, <1>7
  <2> QED  BY <1>7, <2>1, BelowKept
<1>11. Filled(u, A, NULL)
  <2>1. Fits(u, l, NULL) /\ Fits(u, r, NULL)
    <3> DEFINE mx == SlotMax(t.node[l])
               x  == slotuse(t.node[l])
               y  == slotuse(t.node[r])
               v  == slotuse(u.node[l])
               w  == slotuse(u.node[r])
               h  == mx \div 2
    <3>1. SlotMax(t.node[r]) = mx /\ SlotMax(u.node[l]) = mx /\ SlotMax(u.node[r]) = mx
      BY <1>5, <1>7 DEF SlotMax, IsLeaf
    <3>2. mx \in Nat /\ mx >= 2
      BY BTreeAssumption DEF SlotMax
    <3>3. x \in Nat /\ y \in Nat /\ x + 1 >= h /\ y + 1 >= h
      BY <1>6, <3>1 DEF SlotMin
    <3>4. \/ x < h /\ y > h /\ y <= mx
          \/ y < h /\ x > h /\ x <= mx
      <4>1. CASE Last(st).n = l
        <5>1. x < h
          BY <4>1 DEF IsUnderflow, SlotMin
        <5>2. ~IsFew(t.node[r]) /\ Sized(t, r)
          BY <4>1, <1>5, <1>6
        <5>3. ~(y <= h) /\ y <= mx
          BY <3>1, <5>2 DEF IsFew, Sized, SlotMin
        <5> QED  BY <3>2, <3>3, <5>1, <5>3
      <4>2. CASE Last(st).n = r
        <5>1. y < h
          BY <3>1, <4>2 DEF IsUnderflow, SlotMin
        <5>2. ~IsFew(t.node[l]) /\ Sized(t, l)
          BY <4>2, <1>5, <1>6
        <5>3. ~(x <= h) /\ x <= mx
          BY <5>2 DEF IsFew, Sized, SlotMin
        <5> QED  BY <3>2, <3>3, <5>1, <5>3
      <4> QED  BY <4>1, <4>2, <1>5
    <3>5. v \in Nat /\ w \in Nat /\ v + w = x + y /\ v - w \in -1..1
      BY <1>5, <1>7, Sizes
    <3> HIDE DEF mx, x, y, v, w
    <3>6. v >= h /\ v <= mx /\ w >= h /\ w <= mx
      BY <3>2, <3>3, <3>4, <3>5, SharedFits
    <3> HIDE DEF h
    <3>7. /\ l # u.root /\ SlotMin(u.node[l]) = h /\ SlotMax(u.node[l]) = mx
          /\ r # u.root /\ SlotMin(u.node[r]) = h /\ SlotMax(u.node[r]) = mx
      BY <1>5, <1>7, <3>1 DEF SlotMin, h
    <3> QED  BY <1>5, <3>6, <3>7 DEF Fits, Low, v, w
  <2>2. \A n \in A : Fits(u, n, NULL) \/ (n \in A /\ Same(u, t, n) /\ (n = Last(st).n => n = NULL))
    <3> SUFFICES ASSUME NEW n \in A, n # l, n # r
                 PROVE  n \in A /\ Same(u, t, n) /\ (n = Last(st).n => n = NULL)
      BY <2>1
    <3>1. n \in NodeId \ {l, r} /\ n # Last(st).n
      BY <1>4, <1>5
    <3> QED  BY <1>7, <3>1
  <2>3. Filled(t, A, Last(st).n)
    BY DEF Erases
  <2> QED  BY <1>4, <1>7, <2>2, <2>3, FilledKept
<1>13. Shrunk(u, A, L, W, R, b, flags)
  BY <1>9, <1>10 DEF Shrunk
<1>14. Climbs(u, A, L, W, R, b, flags)
  BY <1>10, <1>11, <1>13 DEF Climbs
<1>15. u.root # NULL
  BY <1>7, RootThere DEF Erases
<1> QED  BY <1>14, <1>15 DEF Returned

(* As it is when the node needed no repair.                                *)
LEMMA NoneReturned ==
  ASSUME NEW t, NEW A, NEW L, NEW V, NEW R, NEW st, Erases(t, A, L, V, R, st),
         ~Underflows(t, Last(st).n), NEW flags, "fixmerge" \notin flags
  PROVE  Returned(t, Front(st), flags)
<1> DEFINE n == Last(st).n
<1>1. Stands(t, A, L, V, R, {}) /\ Filled(t, A, n) /\ Path(t, A, L, st) /\ st # <<>>
  BY DEF Erases
<1>2. A \subseteq NodeId /\ L \in [NodeId -> Int] /\ IsTree(t)
  BY <1>1, StandsFacts
<1>3. Meets(t, A, L, st)
  BY <1>1, <1>2, TopMeets
<1>4. n \in A /\ n \in NodeId
  BY <1>2, <1>3 DEF Meets
<1>5. Path(t, A, L, Front(st)) /\ Siblings(t, L, Front(st)) /\ Down(t, Front(st), Len(Front(st)))
  <2>1. \A i \in 1..Len(Front(st)) : Front(st)[i].n \in A
    BY <1>3 DEF Meets
  <2>2. \A i \in 1..Len(Front(st)) : Front(st)[i].n \in A /\ Same(t, t, Front(st)[i].n)
    BY <2>1 DEF Same, Alike
  <2> QED  BY <2>2, BelowKept
<1> HIDE DEF n
<1>6. Fits(t, n, NULL)
  <2>1. Fits(t, n, n)
    BY <1>1, <1>4 DEF Filled
  <2>2. slotuse(t.node[n]) \in Nat
    BY <1>2, <1>4, Sizes
  <2>3. SlotMax(t.node[n]) \in Nat
    BY BTreeAssumption DEF SlotMax
  <2> DEFINE x == slotuse(t.node[n])
             y == SlotMin(t.node[n])
  <2>4. y \in Int
    BY <2>3 DEF SlotMin
  <2>5. ~(x < y) \/ (n = t.root /\ x >= 1)
    BY DEF Underflows, IsUnderflow, n
  <2>6. y >= 1
    <3>1. SlotMax(t.node[n]) >= 2
      BY BTreeAssumption DEF SlotMax
    <3> QED  BY <2>3, <3>1 DEF SlotMin
  <2> HIDE DEF x, y
  <2>7. IF n = t.root THEN x >= 1 ELSE x >= y
    BY <2>2, <2>4, <2>5, <2>6 DEF x
  <2>8. x >= Low(t, n)
    BY <2>7 DEF Low, y
  <2> QED  BY <2>1, <2>8 DEF Fits, x
<1>7. Filled(t, A, NULL)
  <2>1. \A m \in A : Fits(t, m, NULL) \/ (m \in A /\ Same(t, t, m) /\ (m = n => m = NULL))
    BY <1>6 DEF Same, Alike
  <2> QED  BY <1>1, <1>2, <2>1, FilledKept
<1>8. Shrunk(t, A, L, V, R, Front(st), flags)
  BY <1>1, <1>5 DEF Shrunk
<1>9. t.root # NULL
  BY <1>1, RootThere
<1> QED  BY <1>5, <1>7, <1>8, <1>9 DEF Climbs, Returned

(* The root had too few keys and was dropped.                              *)
LEMMA DropReturned ==
  ASSUME NEW t, NEW A, NEW L, NEW V, NEW R, NEW st, Erases(t, A, L, V, R, st),
         Underflows(t, Last(st).n), Front(st) = <<>>
  PROVE  Returned(DropRoot(t, Last(st).n), Front(st), {})
<1> DEFINE n == Last(st).n
           u == DropRoot(t, n)
           B == A \ {n}
           W == DropV(V, n)
<1>1. Stands(t, A, L, V, R, {}) /\ Filled(t, A, n) /\ Path(t, A, L, st) /\ st # <<>>
  BY DEF Erases
<1>2. A \subseteq NodeId /\ L \in [NodeId -> Int] /\ IsTree(t) /\ V \in [Parents -> Seq(A)]
  BY <1>1, StandsFacts
<1>3. Meets(t, A, L, st)
  BY <1>1, <1>2, TopMeets
<1>4. n \in A /\ n \in NodeId /\ n # NULL
  BY <1>2, <1>3, NullApart DEF Meets
<1>5. n = t.root
  <2>1. PICK S : st \in Seq(S)
    BY <1>1 DEF Path
  <2>2. Len(Front(st)) = Len(st) - 1 /\ Last(st) = st[Len(st)] /\ Len(st) \in Nat
    BY <1>1, <2>1, FrontIs
  <2>3. Len(st) = 1
    BY <2>2
  <2> QED  BY <1>1, <2>2, <2>3, RootThere
<1>6. slotuse(t.node[n]) = 0
  <2>1. slotuse(t.node[n]) \in Nat
    BY <1>2, <1>4, Sizes
  <2>2. ~(slotuse(t.node[n]) >= 1)
    BY <1>5 DEF Underflows
  <2> QED  BY <2>1, <2>2
<1>7. V[NULL] = <<n>> /\ V[n] = t.node[n].childid /\ (L[n] = 0 <=> V[n] = <<>>)
      /\ t.node[n].level = L[n]
  <2>1. V[NULL] = Kids(t, NULL) /\ V[n] = Kids(t, n)
    BY <1>1, <1>4 DEF Stands
  <2>2. V[NULL] = <<n>> /\ V[n] = t.node[n].childid
    BY <1>4, <1>5, <2>1 DEF Kids, Tops
  <2>3. (L[n] = 0 <=> V[n] = <<>>) /\ t.node[n].level = L[n]
    BY <1>1, <1>4, StandsFacts
  <2> QED  BY <2>2, <2>3
<1>8. /\ IsTree(u) /\ u.node[n] = Free
      /\ \A id \in NodeId \ {n} : u.node[id] = t.node[id]
      /\ Tops(u) = V[n] /\ (u.root = NULL => u.tail_leaf = NULL)
      /\ u.root # n
  <2>1. CASE L[n] = 0
    <3>1. /\ IsTree(DropRoot(t, n)) /\ DropRoot(t, n).root = NULL
          /\ DropRoot(t, n).tail_leaf = NULL /\ DropRoot(t, n).node[n] = Free
          /\ \A id \in NodeId \ {n} : DropRoot(t, n).node[id] = t.node[id]
      <4> HIDE DEF n, u
      <4>1. t.node[n].level = 0
        BY <1>7, <2>1
      <4> QED  BY <1>2, <1>4, <4>1, DropLeafEffect
    <3>2. Tops(u) = V[n]
      BY <1>7, <2>1, <3>1 DEF Tops
    <3> QED  BY <1>4, <3>1, <3>2
  <2>2. CASE L[n] # 0
    <3>1. /\ IsTree(DropRoot(t, n)) /\ DropRoot(t, n).root = t.node[n].childid[1]
          /\ DropRoot(t, n).node[n] = Free
          /\ \A id \in NodeId \ {n} : DropRoot(t, n).node[id] = t.node[id]
      <4> HIDE DEF n, u
      <4>1. t.node[n].level # 0
        BY <1>7, <2>2
      <4> QED  BY <1>2, <1>4, <4>1, DropInnerEffect
    <3>2. /\ Len(V[n]) = 1 /\ V[n] \in Seq(A) /\ V[n][1] \in NodeId /\ V[n][1] # n
      <4>1. Len(V[n]) = slotuse(t.node[n]) + 1
        BY <1>1, <1>4, <1>7, <2>2 DEF Stands, Looks
      <4>2. Len(V[n]) = 1 /\ n \in Parents
        BY <4>1, <1>6, <1>4 DEF Parents
      <4>3. 1 \in 1..Len(V[n]) /\ Family(A, L, V)
        BY <4>2, <1>1, StandsFacts
      <4>4. V[n][1] \in NodeId /\ V[n][1] # n
        BY <4>2, <4>3, ChildApart
      <4> QED  BY <4>2, <4>4, <1>2
    <3>3. V[n] = <<V[n][1]>>
      <4> DEFINE s == V[n]
      <4>1. s \in Seq(A) /\ Len(s) = 1
        BY <3>2
      <4> HIDE DEF s
      <4>2. s = <<s[1]>>
        BY <4>1
      <4> QED  BY <4>2 DEF s
    <3>4. u.root = V[n][1] /\ u.root # NULL
      BY <1>7, <3>1, <3>2, NullApart
    <3>5. Tops(u) = <<V[n][1]>>
      BY <3>4 DEF Tops
    <3> QED  BY <3>1, <3>2, <3>3, <3>4, <3>5
  <2> QED  BY <2>1, <2>2
<1> HIDE DEF u, n
<1>9. Stands(u, B, L, W, R, {})
  BY <1>1, <1>4, <1>7, <1>8, DropStands
<1>10. Path(u, B, L, <<>>) /\ Siblings(u, L, <<>>)
  <2>1. <<>> \in Seq({}) /\ \A i \in 1..Len(<<>>) : FALSE
    OBVIOUS
  <2> QED  BY <2>1 DEF Path, Siblings
<1>11. Filled(u, B, NULL)
  <2> SUFFICES ASSUME NEW m \in B PROVE Fits(u, m, NULL)
    BY DEF Filled
  <2>1. m \in A /\ m # n /\ m \in NodeId /\ m # NULL
    BY <1>2, NullApart
  <2>2. Fits(t, m, n) /\ m # t.root /\ u.node[m] = t.node[m]
    BY <1>1, <1>5, <1>8, <2>1 DEF Filled
  <2>3. slotuse(t.node[m]) >= SlotMin(t.node[m]) /\ slotuse(t.node[m]) <= SlotMax(t.node[m])
    BY <2>1, <2>2 DEF Fits, Low
  <2>4. SlotMin(t.node[m]) >= 1 /\ SlotMin(t.node[m]) \in Nat
    <3>1. SlotMax(t.node[m]) >= 2 /\ SlotMax(t.node[m]) \in Nat
      BY BTreeAssumption DEF SlotMax
    <3> QED  BY <3>1 DEF SlotMin
  <2>5. slotuse(t.node[m]) \in Nat
    BY <1>2, <2>1, Sizes
  <2>6. slotuse(t.node[m]) >= 1
    BY <2>3, <2>4, <2>5
  <2> QED  BY <2>1, <2>2, <2>3, <2>6 DEF Fits, Low
<1>12. Climbs(u, B, L, W, R, <<>>, {})
  BY <1>9, <1>10, <1>11 DEF Climbs, Shrunk
<1> QED  BY <1>8, <1>12 DEF Returned, u, n

(* Whichever merge fits the node merges the pair.                          *)
LEMMA MergeDone ==
  ASSUME NEW t, NEW A, NEW L, NEW V, NEW R, NEW st, Erases(t, A, L, V, R, st), Front(st) # <<>>,
         NEW l, NEW r, Pair(t, A, L, st, l, r),
         NEW pr, pr.left = l, pr.right = r, pr.parent = Last(Front(st)).n,
         pr.parent \in NodeId, pr.slot \in 0..(slotuse(t.node[pr.parent]) - 1)
  PROVE  Merged(IF IsLeaf(t.node[Last(st).n]) THEN MergeLeaves(t, pr) ELSE MergeInner(t, pr),
                t, l, r)
<1>1. /\ l \in A /\ l \in NodeId /\ r \in A /\ r \in NodeId /\ l # r
      /\ t.node[l].level = L[l] /\ t.node[r].level = L[r] /\ L[l] = L[r]
      /\ Last(st).n \in {l, r}
  BY DEF Pair
<1>2. /\ Stands(t, A, L, V, R, {}) /\ IsTree(t) /\ Forest(A, L, V, R)
      /\ \A n \in A : t.node[n].level = L[n] /\ L[n] >= 0 /\ t.node[n] # Free
      /\ \A n \in A : L[n] = 0 <=> V[n] = <<>>
  <2>1. Stands(t, A, L, V, R, {}) /\ Forest(A, L, V, R)
    BY DEF Erases, Stands
  <2>2. /\ IsTree(t)
        /\ \A n \in A : t.node[n].level = L[n] /\ L[n] >= 0 /\ t.node[n] # Free
        /\ \A n \in A : L[n] = 0 <=> V[n] = <<>>
    BY <2>1, StandsFacts
  <2> QED  BY <2>1, <2>2
<1>3. IsLeaf(t.node[Last(st).n]) <=> L[l] = 0
  BY <1>1 DEF IsLeaf
<1>4. CASE L[l] = 0
  <2>1. t.node[r].next_leaf = R[r]
    BY <1>1, <1>2, <1>4 DEF Stands, Looks
  <2>2. R[r] \in NodeId => t.node[R[r]] # Free
    <3>1. R[r] # NULL => R[r] \in A
      BY <1>1, <1>2 DEF Forest, Chain
    <3> QED  BY <1>2, <3>1, NullApart
  <2>3. t.node[r].childid = <<>>
    BY <1>1, <1>2, <1>4, NullApart DEF Stands, Kids
  <2>4. Merged(MergeLeaves(t, pr), t, l, r)
    BY <1>1, <1>2, <1>4, <2>1, <2>2, <2>3, MergeLeavesEffect
  <2> QED  BY <1>3, <1>4, <2>4
<1>5. CASE L[l] # 0
  <2>1. Merged(MergeInner(t, pr), t, l, r)
    BY <1>1, <1>2, <1>5, MergeInnerEffect
  <2> QED  BY <1>3, <1>5, <2>1
<1> QED  BY <1>4, <1>5

(* Whichever shift fits the node and the side evens out the pair.          *)
LEMMA ShiftDone ==
  ASSUME NEW t, NEW A, NEW L, NEW V, NEW R, NEW st, Erases(t, A, L, V, R, st), Front(st) # <<>>,
         NEW l, NEW r, Pair(t, A, L, st, l, r),
         NEW pr, pr.left = l, pr.right = r, pr.parent = Last(Front(st)).n,
         pr.parent \in NodeId, pr.slot \in 0..(slotuse(t.node[pr.parent]) - 1)
  PROVE  /\ slotuse(t.node[r]) - slotuse(t.node[l]) >= 2 =>
              Shifted(IF IsLeaf(t.node[Last(st).n]) THEN ShiftLeftLeaf(t, pr)
                      ELSE ShiftLeftInner(t, pr), t, l, r)
         /\ slotuse(t.node[l]) - slotuse(t.node[r]) >= 2 =>
              Shifted(IF IsLeaf(t.node[Last(st).n]) THEN ShiftRightLeaf(t, pr)
                      ELSE ShiftRightInner(t, pr), t, l, r)
<1> DEFINE q == pr.parent
<1>1. /\ l \in A /\ l \in NodeId /\ r \in A /\ r \in NodeId /\ l # r
      /\ t.node[l].level = L[l] /\ t.node[r].level = L[r] /\ L[l] = L[r]
      /\ Last(st).n \in {l, r}
      /\ L[l] # 0 => /\ Len(t.node[l].childid) = slotuse(t.node[l]) + 1
                     /\ Len(t.node[r].childid) = slotuse(t.node[r]) + 1
  BY DEF Pair
<1>2. Between(t, pr, l, r, q)
  BY DEF Pair, Between
<1>3. IsTree(t)
  BY DEF Erases, Stands
<1>4. IsLeaf(t.node[Last(st).n]) <=> L[l] = 0
  BY <1>1 DEF IsLeaf
<1> HIDE DEF q
<1>5. ASSUME slotuse(t.node[r]) - slotuse(t.node[l]) >= 2
      PROVE  Shifted(IF IsLeaf(t.node[Last(st).n]) THEN ShiftLeftLeaf(t, pr)
                     ELSE ShiftLeftInner(t, pr), t, l, r)
  <2>1. CASE L[l] = 0
    <3>1. t.node[l].level = 0
      BY <1>1, <2>1
    <3>2. Shifted(ShiftLeftLeaf(t, pr), t, l, r)
      BY <1>2, <1>3, <1>5, <3>1, ShiftLeftLeafEffect
    <3> QED  BY <1>4, <2>1, <3>2
  <2>2. CASE L[l] # 0
    <3>1. t.node[l].level # 0 /\ Len(t.node[l].childid) = slotuse(t.node[l]) + 1
          /\ Len(t.node[r].childid) = slotuse(t.node[r]) + 1
      BY <1>1, <2>2
    <3>2. Shifted(ShiftLeftInner(t, pr), t, l, r)
      BY <1>2, <1>3, <1>5, <3>1, ShiftLeftInnerEffect
    <3> QED  BY <1>4, <2>2, <3>2
  <2> QED  BY <2>1, <2>2
<1>6. ASSUME slotuse(t.node[l]) - slotuse(t.node[r]) >= 2
      PROVE  Shifted(IF IsLeaf(t.node[Last(st).n]) THEN ShiftRightLeaf(t, pr)
                     ELSE ShiftRightInner(t, pr), t, l, r)
  <2>1. CASE L[l] = 0
    <3>1. t.node[l].level = 0
      BY <1>1, <2>1
    <3>2. Shifted(ShiftRightLeaf(t, pr), t, l, r)
      BY <1>2, <1>3, <1>6, <3>1, ShiftRightLeafEffect
    <3> QED  BY <1>4, <2>1, <3>2
  <2>2. CASE L[l] # 0
    <3>1. t.node[l].level # 0 /\ Len(t.node[l].childid) = slotuse(t.node[l]) + 1
          /\ Len(t.node[r].childid) = slotuse(t.node[r]) + 1
      BY <1>1, <2>2
    <3>2. Shifted(ShiftRightInner(t, pr), t, l, r)
      BY <1>2, <1>3, <1>6, <3>1, ShiftRightInnerEffect
    <3> QED  BY <1>4, <2>2, <3>2
  <2> QED  BY <2>1, <2>2
<1> QED  BY <1>5, <1>6

(* The node on top has slotmin - 1 keys; it and its left or right sibling  *)
(* are a pair of neighbours in their parent.                               *)
NextTo(t, A, L, st, c, i, pr) ==
  /\ i \in {Last(st).parentslot, Last(st).parentslot + 1} /\ i \in 1..Len(c) /\ i + 1 <= Len(c)
  /\ pr.left = c[i] /\ pr.right = c[i + 1] /\ pr.parent = Last(Front(st)).n
  /\ pr.parent \in NodeId /\ pr.slot \in 0..(slotuse(t.node[pr.parent]) - 1)
  /\ Pair(t, A, L, st, c[i], c[i + 1])

(* The left sibling with the same parent is the neighbour on the left.     *)
LEMMA LeftPair ==
  ASSUME NEW t, NEW A, NEW L, NEW V, NEW R, NEW st, Erases(t, A, L, V, R, st), Front(st) # <<>>,
         NEW f, f = Last(st), f.left_parent = f.parent,
         NEW c, c = V[Last(Front(st)).n]
  PROVE  /\ NextTo(t, A, L, st, c, f.parentslot, WithLeft(f))
         /\ c[f.parentslot] = f.left /\ c[f.parentslot + 1] = f.n
<1> DEFINE k == f.parentslot
           p == f.parent
<1>1. Beside(t, A, L, V, st)
  BY BesideFacts DEF Erases
<1>2. /\ p = Last(Front(st)).n /\ k \in Nat /\ k # 0 /\ p \in NodeId
      /\ Len(c) = slotuse(t.node[p]) + 1 /\ slotuse(t.node[p]) \in Nat
      /\ k + 1 \in 1..Len(c) /\ c[k + 1] = f.n /\ f.left = c[k]
  BY <1>1 DEF Beside
<1> HIDE DEF k, p
<1>3. k \in 1..Len(c) /\ k + 1 <= Len(c) /\ k - 1 \in 0..(slotuse(t.node[p]) - 1)
  BY <1>2
<1>4. Pair(t, A, L, st, c[k], c[k + 1])
  BY <1>3, PairFound DEF Twins, k
<1>5. WithLeft(f).left = f.left /\ WithLeft(f).right = f.n /\ WithLeft(f).parent = p
      /\ WithLeft(f).slot = k - 1
  BY DEF WithLeft, p, k
<1>6. k = Last(st).parentslot
  BY DEF k
<1>7. NextTo(t, A, L, st, c, k, WithLeft(f))
  BY <1>2, <1>3, <1>4, <1>5, <1>6 DEF NextTo
<1> QED  BY <1>2, <1>7 DEF k

(* And the right one the neighbour on the right.                           *)
LEMMA RightPair ==
  ASSUME NEW t, NEW A, NEW L, NEW V, NEW R, NEW st, Erases(t, A, L, V, R, st), Front(st) # <<>>,
         NEW f, f = Last(st), f.right_parent = f.parent,
         NEW c, c = V[Last(Front(st)).n]
  PROVE  /\ NextTo(t, A, L, st, c, f.parentslot + 1, WithRight(f))
         /\ c[f.parentslot + 1] = f.n /\ c[f.parentslot + 1 + 1] = f.right
<1> DEFINE k == f.parentslot
           p == f.parent
<1>1. Beside(t, A, L, V, st)
  BY BesideFacts DEF Erases
<1>2. /\ p = Last(Front(st)).n /\ k \in Nat /\ p \in NodeId
      /\ Len(c) = slotuse(t.node[p]) + 1 /\ slotuse(t.node[p]) \in Nat
      /\ k + 1 \in 1..Len(c) /\ k + 1 # Len(c) /\ c[k + 1] = f.n /\ f.right = c[k + 2]
  BY <1>1 DEF Beside
<1> HIDE DEF k, p
<1>3. /\ k + 1 \in 1..Len(c) /\ k + 1 + 1 <= Len(c) /\ k \in 0..(slotuse(t.node[p]) - 1)
      /\ k + 1 + 1 = k + 2
  BY <1>2
<1>4. Pair(t, A, L, st, c[k + 1], c[k + 1 + 1])
  <2>1. k + 1 \in {Last(st).parentslot, Last(st).parentslot + 1}
    BY DEF k
  <2> QED  BY <1>3, <2>1, PairFound DEF Twins
<1>5. WithRight(f).left = f.n /\ WithRight(f).right = f.right /\ WithRight(f).slot = k
  BY DEF WithRight, k
<1>6. WithRight(f).parent = p
  BY DEF WithRight, p
<1>7. k = Last(st).parentslot
  BY DEF k
<1>8. NextTo(t, A, L, st, c, k + 1, WithRight(f))
  BY <1>2, <1>3, <1>4, <1>5, <1>6, <1>7 DEF NextTo
<1> QED  BY <1>2, <1>3, <1>8 DEF k

(* Every case of the repair, in one.                                       *)
LEMMA RepairedReturned ==
  ASSUME NEW t, NEW A, NEW L, NEW V, NEW R, NEW st, Erases(t, A, L, V, R, st),
         NEW flags \in {{}, {"update_lastkey"}}
  PROVE  LET rep == Repaired(t, Last(st), flags)
         IN  /\ Returned(rep.tree, Front(st), rep.flags)
             /\ "not_found" \notin rep.flags
<1> DEFINE f    == Last(st)
           rep  == Repaired(t, f, flags)
           what == Repair(t, f)
           leaf == IsLeaf(t.node[f.n])
           p    == Last(Front(st)).n
           c    == V[p]
<1>0. "fixmerge" \notin flags /\ "not_found" \notin flags /\ "fixmerge" \notin {}
  OBVIOUS
<1>1. CASE ~Underflows(t, f.n)
  <2>1. what = "none"
    BY <1>1 DEF Repair
  <2>2. rep = [tree |-> t, flags |-> flags]
    BY <2>1 DEF Repaired
  <2>3. Returned(t, Front(st), flags)
    BY <1>0, <1>1, NoneReturned
  <2> QED  BY <1>0, <2>2, <2>3
<1>2. CASE Underflows(t, f.n) /\ Front(st) = <<>>
  <2>1. f.left = NULL /\ f.right = NULL
    <3>1. PICK S : st \in Seq(S)
      BY DEF Erases, Path
    <3>2. Len(Front(st)) = Len(st) - 1 /\ f = st[Len(st)] /\ Len(st) \in Nat \ {0}
      BY <3>1, FrontIs DEF Erases
    <3>3. Len(st) = 1 /\ 1 \in 1..Len(st)
      BY <1>2, <3>2
    <3> QED  BY <3>2, <3>3 DEF Erases, Siblings, Alone
  <2>2. what = "drop_root"
    BY <1>2, <2>1 DEF Repair
  <2>3. rep = [tree |-> DropRoot(t, f.n), flags |-> {}]
    BY <2>2 DEF Repaired
  <2>4. Returned(DropRoot(t, f.n), Front(st), {})
    BY <1>2, DropReturned
  <2> QED  BY <2>3, <2>4
<1>3. CASE Underflows(t, f.n) /\ Front(st) # <<>>
  <2>1. Beside(t, A, L, V, st)
    BY <1>3, BesideFacts DEF Erases
  <2>2. /\ p = f.parent /\ f.n # t.root
        /\ f.left_parent = f.parent => f.left # NULL
        /\ f.right_parent = f.parent => f.right # NULL
        /\ f.left_parent = f.parent \/ f.right_parent = f.parent
        /\ f.left_parent = f.right_parent => f.left_parent = f.parent
    <3> DEFINE k == f.parentslot
               m == t.node[f.parent].childid
    <3>1. /\ p = f.parent /\ f.n # t.root
          /\ k \in Nat /\ k + 1 \in 1..Len(m)
          /\ \A i \in 1..Len(m) : m[i] # NULL
          /\ f.left_parent = f.parent <=> k # 0
          /\ k # 0 => f.left = m[k]
          /\ f.right_parent = f.parent <=> k + 1 # Len(m)
          /\ k + 1 # Len(m) => f.right = m[k + 2]
          /\ f.left_parent = f.right_parent => f.left_parent = f.parent
          /\ Len(m) = slotuse(t.node[f.parent]) + 1
          /\ slotuse(t.node[f.parent]) \in Nat \ {0}
      BY <2>1 DEF Beside
    <3> HIDE DEF k, m, f, p
    <3>2. k # 0 => k \in 1..Len(m)
      BY <3>1
    <3>3. k + 1 # Len(m) => k + 2 \in 1..Len(m)
      BY <3>1
    <3>4. k # 0 \/ k + 1 # Len(m)
      BY <3>1
    <3> QED  BY <3>1, <3>2, <3>3, <3>4
  <2>3. IsUnderflow(t.node[f.n])
    BY <1>3 DEF Underflows
  <2>4. WithSibling(t, f)
    <3> HIDE DEF f, p
    <3> QED  BY <1>3, <2>2, RepairChoice
  <2>5. ASSUME NEW i, NEW pr, NextTo(t, A, L, st, c, i, pr), NEW l, NEW r, l = c[i], r = c[i + 1],
               \A m \in {l, r} : m # f.n => IsFew(t.node[m])
        PROVE  Returned(IF leaf THEN MergeLeaves(t, pr) ELSE MergeInner(t, pr),
                        Front(st), flags \cup {"fixmerge"})
    <3> DEFINE u == IF leaf THEN MergeLeaves(t, pr) ELSE MergeInner(t, pr)
    <3>1. Merged(u, t, l, r)
      BY <1>3, <2>5, MergeDone DEF NextTo
    <3>2. "fixmerge" \in flags \cup {"fixmerge"}
      OBVIOUS
    <3>3. Twins(V, st, i, l, r)
      BY <2>5 DEF NextTo, Twins
    <3> HIDE DEF u, c
    <3>4. Returned(u, Front(st), flags \cup {"fixmerge"})
      BY <1>3, <2>3, <2>5, <3>1, <3>2, <3>3, MergeReturned
    <3> QED  BY <3>4 DEF u
  <2>6. ASSUME NEW i, NEW pr, NextTo(t, A, L, st, c, i, pr), NEW l, NEW r, l = c[i], r = c[i + 1],
               \A m \in {l, r} : m # f.n => ~IsFew(t.node[m]),
               NEW u, Shifted(u, t, l, r)
        PROVE  Returned(u, Front(st), flags \cup {"shift"})
    <3>2. "fixmerge" \notin flags \cup {"shift"}
      OBVIOUS
    <3>3. Twins(V, st, i, l, r)
      BY <2>6 DEF NextTo, Twins
    <3> HIDE DEF c
    <3> QED  BY <1>3, <2>3, <2>6, <3>2, <3>3, ShiftReturned
  <2>7. ASSUME NEW m, ~IsFew(t.node[m]), NEW l, NEW r, Pair(t, A, L, st, l, r), m \in {l, r},
               m # f.n
        PROVE  slotuse(t.node[m]) - slotuse(t.node[f.n]) >= 2
    <3> DEFINE x == slotuse(t.node[m])
               y == slotuse(t.node[f.n])
               z == SlotMin(t.node[m])
    <3>1. t.node[m].level = t.node[f.n].level /\ x \in Nat /\ y \in Nat
      BY <2>7 DEF Pair
    <3>2. z = SlotMin(t.node[f.n])
      BY <3>1 DEF SlotMin, SlotMax, IsLeaf
    <3>3. ~(x <= z) /\ y < z
      BY <2>3, <2>7, <3>2 DEF IsFew, IsUnderflow
    <3>4. z \in Nat
      <4>1. SlotMax(t.node[m]) \in Nat
        BY BTreeAssumption DEF SlotMax
      <4> QED  BY <4>1 DEF SlotMin
    <3> HIDE DEF x, y, z
    <3>5. x - y >= 2
      BY <3>1, <3>3, <3>4
    <3> QED  BY <3>5 DEF x, y
  <2>8. /\ "not_found" \notin flags \cup {"fixmerge"}
        /\ "not_found" \notin flags \cup {"shift"}
    OBVIOUS
  <2>9. CASE what = "merge_left" /\ f.left_parent = f.parent /\ IsFew(t.node[f.left])
    <3>1. rep = [tree |-> IF leaf THEN MergeLeaves(t, WithLeft(f)) ELSE MergeInner(t, WithLeft(f)),
                 flags |-> flags \cup {"fixmerge"}]
      BY <2>9 DEF Repaired
    <3>2. /\ NextTo(t, A, L, st, c, f.parentslot, WithLeft(f))
          /\ c[f.parentslot] = f.left /\ c[f.parentslot + 1] = f.n
      BY <1>3, <2>9, LeftPair
    <3> HIDE DEF f, rep, what, leaf, c
    <3>3. Returned(IF leaf THEN MergeLeaves(t, WithLeft(f)) ELSE MergeInner(t, WithLeft(f)),
                   Front(st), flags \cup {"fixmerge"})
      BY <2>5, <2>9, <3>2
    <3> QED  BY <2>8, <3>1, <3>3 DEF rep, f
  <2>10. CASE what = "merge_right" /\ f.right_parent = f.parent /\ IsFew(t.node[f.right])
    <3>1. rep = [tree |-> IF leaf THEN MergeLeaves(t, WithRight(f)) ELSE MergeInner(t, WithRight(f)),
                 flags |-> flags \cup {"fixmerge"}]
      BY <2>10 DEF Repaired
    <3>2. /\ NextTo(t, A, L, st, c, f.parentslot + 1, WithRight(f))
          /\ c[f.parentslot + 1] = f.n /\ c[f.parentslot + 1 + 1] = f.right
      BY <1>3, <2>10, RightPair
    <3> HIDE DEF f, rep, what, leaf, c
    <3>3. Returned(IF leaf THEN MergeLeaves(t, WithRight(f)) ELSE MergeInner(t, WithRight(f)),
                   Front(st), flags \cup {"fixmerge"})
      BY <2>5, <2>10, <3>2
    <3> QED  BY <2>8, <3>1, <3>3 DEF rep, f
  <2>11. CASE what = "shift_left" /\ f.right_parent = f.parent /\ ~IsFew(t.node[f.right])
    <3>1. rep = [tree |-> IF leaf THEN ShiftLeftLeaf(t, WithRight(f)) ELSE ShiftLeftInner(t, WithRight(f)),
                 flags |-> flags \cup {"shift"}]
      BY <2>11 DEF Repaired
    <3>2. /\ NextTo(t, A, L, st, c, f.parentslot + 1, WithRight(f))
          /\ c[f.parentslot + 1] = f.n /\ c[f.parentslot + 1 + 1] = f.right
      BY <1>3, <2>11, RightPair
    <3> DEFINE u == IF leaf THEN ShiftLeftLeaf(t, WithRight(f)) ELSE ShiftLeftInner(t, WithRight(f))
    <3>3. slotuse(t.node[f.right]) - slotuse(t.node[f.n]) >= 2 /\ Pair(t, A, L, st, f.n, f.right)
      <4>1. Pair(t, A, L, st, f.n, f.right)
        BY <3>2 DEF NextTo
      <4>2. f.n # f.right
        BY <4>1 DEF Pair
      <4> HIDE DEF f
      <4> QED  BY <2>7, <2>11, <4>1, <4>2
    <3>4. Shifted(u, t, f.n, f.right)
      <4> DEFINE pr == WithRight(f)
      <4>1. /\ pr.left = f.n /\ pr.right = f.right /\ pr.parent = Last(Front(st)).n
            /\ pr.parent \in NodeId /\ pr.slot \in 0..(slotuse(t.node[pr.parent]) - 1)
        BY <3>2 DEF NextTo
      <4>2. leaf <=> IsLeaf(t.node[Last(st).n])
        OBVIOUS
      <4> HIDE DEF pr, f, leaf
      <4>3. Shifted(IF IsLeaf(t.node[Last(st).n]) THEN ShiftLeftLeaf(t, pr)
                    ELSE ShiftLeftInner(t, pr), t, f.n, f.right)
        BY <1>3, <3>3, <4>1, ShiftDone
      <4> QED  BY <4>2, <4>3 DEF pr
    <3> HIDE DEF f, rep, what, leaf, c, u
    <3>5. Returned(u, Front(st), flags \cup {"shift"})
      BY <2>6, <2>11, <3>2, <3>4
    <3> QED  BY <2>8, <3>1, <3>5 DEF rep, f, u
  <2>12. CASE what = "shift_right" /\ f.left_parent = f.parent /\ ~IsFew(t.node[f.left])
    <3>1. rep = [tree |-> IF leaf THEN ShiftRightLeaf(t, WithLeft(f)) ELSE ShiftRightInner(t, WithLeft(f)),
                 flags |-> flags \cup {"shift"}]
      BY <2>12 DEF Repaired
    <3>2. /\ NextTo(t, A, L, st, c, f.parentslot, WithLeft(f))
          /\ c[f.parentslot] = f.left /\ c[f.parentslot + 1] = f.n
      BY <1>3, <2>12, LeftPair
    <3> DEFINE u == IF leaf THEN ShiftRightLeaf(t, WithLeft(f)) ELSE ShiftRightInner(t, WithLeft(f))
    <3>3. slotuse(t.node[f.left]) - slotuse(t.node[f.n]) >= 2 /\ Pair(t, A, L, st, f.left, f.n)
      <4>1. Pair(t, A, L, st, f.left, f.n)
        BY <3>2 DEF NextTo
      <4>2. f.n # f.left
        BY <4>1 DEF Pair
      <4> HIDE DEF f
      <4> QED  BY <2>7, <2>12, <4>1, <4>2
    <3>4. Shifted(u, t, f.left, f.n)
      <4> DEFINE pr == WithLeft(f)
      <4>1. /\ pr.left = f.left /\ pr.right = f.n /\ pr.parent = Last(Front(st)).n
            /\ pr.parent \in NodeId /\ pr.slot \in 0..(slotuse(t.node[pr.parent]) - 1)
        BY <3>2 DEF NextTo
      <4>2. leaf <=> IsLeaf(t.node[Last(st).n])
        OBVIOUS
      <4> HIDE DEF pr, f, leaf
      <4>3. Shifted(IF IsLeaf(t.node[Last(st).n]) THEN ShiftRightLeaf(t, pr)
                    ELSE ShiftRightInner(t, pr), t, f.left, f.n)
        BY <1>3, <3>3, <4>1, ShiftDone
      <4> QED  BY <4>2, <4>3 DEF pr
    <3> HIDE DEF f, rep, what, leaf, c, u
    <3>5. Returned(u, Front(st), flags \cup {"shift"})
      BY <2>6, <2>12, <3>2, <3>4
    <3> QED  BY <2>8, <3>1, <3>5 DEF rep, f, u
  <2> HIDE DEF f, rep, what
  <2>13. \/ what = "merge_left" /\ f.left_parent = f.parent /\ IsFew(t.node[f.left])
         \/ what = "merge_right" /\ f.right_parent = f.parent /\ IsFew(t.node[f.right])
         \/ what = "shift_left" /\ f.right_parent = f.parent /\ ~IsFew(t.node[f.right])
         \/ what = "shift_right" /\ f.left_parent = f.parent /\ ~IsFew(t.node[f.left])
    BY <2>4 DEF WithSibling, what
  <2> QED  BY <2>9, <2>10, <2>11, <2>12, <2>13
<1> QED  BY <1>1, <1>2, <1>3

(* What holds before and after each step of a call.                        *)
Resting(t) ==
  /\ \E A, L, V, R : Stands(t, A, L, V, R, {}) /\ Filled(t, A, NULL)
  /\ t.root = NULL => t.tail_leaf = NULL

(* An inserting activation may find the root leaf empty.                   *)
TopLeaf(t, st) ==
  IF IsLeaf(t.node[Last(st).n]) /\ slotuse(t.node[Last(st).n]) = 0 THEN Last(st).n ELSE NULL
InsertsDown(t, st) ==
  /\ st # <<>>
  /\ \E A, L, V, R : /\ Stands(t, A, L, V, R, {}) /\ Path(t, A, L, st)
                     /\ Filled(t, A, TopLeaf(t, st))
InsertsUp(t, st, child) ==
  \E A, L, V, R : /\ Grown(t, A, L, V, R, st, child) /\ Path(t, A, L, st)
                  /\ Filled(t, A, NULL)
                  /\ st = <<>> /\ child # NULL => Sized(t, t.root)

ErasesDown(t, st) ==
  /\ st # <<>>
  /\ \E A, L, V, R : /\ Stands(t, A, L, V, R, {}) /\ Path(t, A, L, st) /\ Siblings(t, L, st)
                     /\ Filled(t, A, NULL)
ErasesUp(t, st, flags) ==
  Returned(t, st, flags) /\ ("not_found" \in flags => "fixmerge" \notin flags)

(* The bounds on the number of keys.                                       *)
LEMMA MinMax == \A m : /\ SlotMax(m) \in Nat /\ SlotMax(m) >= 2
                       /\ SlotMin(m) \in Nat /\ SlotMin(m) >= 1 /\ SlotMin(m) <= SlotMax(m)
<1> SUFFICES ASSUME NEW m
             PROVE  /\ SlotMax(m) \in Nat /\ SlotMax(m) >= 2
                    /\ SlotMin(m) \in Nat /\ SlotMin(m) >= 1 /\ SlotMin(m) <= SlotMax(m)
  OBVIOUS
<1>1. SlotMax(m) \in Nat /\ SlotMax(m) >= 2
  BY BTreeAssumption DEF SlotMax
<1> QED  BY <1>1 DEF SlotMin

(* A node within the bounds of inner nodes fits as the root, too.          *)
LEMMA SizedFits ==
  ASSUME NEW t, NEW n, slotuse(t.node[n]) \in Nat, Sized(t, n), NEW few
  PROVE  Fits(t, n, few)
<1> DEFINE x == slotuse(t.node[n])
           y == SlotMin(t.node[n])
           z == Low(t, n)
<1>1. y \in Nat /\ y >= 1 /\ y <= x /\ x <= SlotMax(t.node[n])
  BY MinMax DEF Sized
<1>2. z = 1 \/ z = y
  BY DEF Low
<1> HIDE DEF x, y, z
<1>3. x >= z /\ x + 1 >= z
  BY <1>1, <1>2 DEF x
<1> QED  BY <1>1, <1>3 DEF Fits, x, z

(* A node other than the root stays filled when another becomes the root.  *)
LEMMA FitsMoved ==
  ASSUME NEW t, IsTree(t), NEW A, NEW few, Filled(t, A, few), NEW n \in A, n \in NodeId,
         n # t.root, n # few, NEW u, Same(u, t, n), NEW lack
  PROVE  Fits(u, n, lack)
<1>1. Fits(t, n, few)
  BY DEF Filled
<1>2. slotuse(u.node[n]) = slotuse(t.node[n]) /\ SlotMax(u.node[n]) = SlotMax(t.node[n])
      /\ SlotMin(u.node[n]) = SlotMin(t.node[n])
  BY DEF Same, Alike, SlotMin, SlotMax, IsLeaf
<1>3. slotuse(t.node[n]) \in Nat
  BY Sizes
<1>4. slotuse(t.node[n]) >= SlotMin(t.node[n]) /\ slotuse(t.node[n]) <= SlotMax(t.node[n])
  BY <1>1 DEF Fits, Low
<1>5. SlotMin(t.node[n]) <= slotuse(t.node[n])
  BY <1>3, <1>4, MinMax
<1>6. Sized(u, n)
  BY <1>2, <1>4, <1>5 DEF Sized
<1> QED  BY <1>2, <1>3, <1>6, SizedFits

(* Allowing one node less than its share.                                  *)
LEMMA FilledWeaker ==
  ASSUME NEW t, IsTree(t), NEW A, A \subseteq NodeId, Filled(t, A, NULL), NEW few
  PROVE  Filled(t, A, few)
<1>1. \A n \in A : Fits(t, n, few) \/ (n \in A /\ Same(t, t, n) /\ (n = NULL => n = few))
  BY NullApart DEF Same, Alike
<1> QED  BY <1>1, FilledKept

(* A node of A never has no keys, unless it is few.                        *)
LEMMA SomeKeys ==
  ASSUME NEW t, IsTree(t), NEW A, NEW few, Filled(t, A, few), NEW n \in A, n \in NodeId, n # few
  PROVE  slotuse(t.node[n]) \in Nat /\ slotuse(t.node[n]) >= 1
<1>1. slotuse(t.node[n]) \in Nat
  BY Sizes
<1>2. slotuse(t.node[n]) >= Low(t, n)
  BY DEF Filled, Fits
<1>3. Low(t, n) \in Nat /\ Low(t, n) >= 1
  BY MinMax DEF Low
<1> QED  BY <1>1, <1>2, <1>3

(* Only the size of a tree changes.                                        *)
LEMMA SizeEffect ==
  ASSUME NEW t, IsTree(t), NEW s
  PROVE  LET u == [t EXCEPT !.size = s]
         IN  /\ IsTree(u) /\ u.root = t.root /\ u.tail_leaf = t.tail_leaf
             /\ \A id \in NodeId : u.node[id] = t.node[id] /\ Same(u, t, id)
<1> DEFINE u == [t EXCEPT !.size = s]
<1>1. u.node = t.node /\ u.root = t.root /\ u.tail_leaf = t.tail_leaf
  BY DEF IsTree
<1>2. u = [f \in {"node", "root", "head_leaf", "tail_leaf", "size"} |-> u[f]]
  BY DEF IsTree
<1> HIDE DEF u
<1>3. IsTree(u)
  BY <1>1, <1>2 DEF IsTree
<1> QED  BY <1>1, <1>3 DEF Same, Alike, u

(* A leaf changes nothing but its records.                                 *)
LEMMA LeafStands ==
  ASSUME NEW t, NEW A, NEW L, NEW V, NEW R, NEW D, Stands(t, A, L, V, R, D),
         NEW n \in A, t.node[n].level = 0, NEW u, IsTree(u), u.root = t.root,
         u.node[n].level = t.node[n].level, u.node[n].childid = t.node[n].childid,
         u.node[n].next_leaf = t.node[n].next_leaf,
         \A id \in NodeId \ {n} : Same(u, t, id)
  PROVE  Stands(u, A, L, V, R, D)
<1>1. A \subseteq NodeId
  BY StandsFacts
<1>2. \A m \in A : Looks(u, m, L, R)
  <2> SUFFICES ASSUME NEW m \in A PROVE Looks(u, m, L, R)
    OBVIOUS
  <2>1. Looks(t, m, L, R)
    BY DEF Stands
  <2>2. CASE m = n
    BY <2>1, <2>2 DEF Looks
  <2>3. CASE m # n
    <3>1. m \in NodeId \ {n}
      BY <1>1, <2>3
    <3> QED  BY <2>1, <3>1 DEF Looks, Same, Alike
  <2> QED  BY <2>2, <2>3
<1>3. \A m \in (A \cup {NULL}) \ D : V[m] = Kids(u, m)
  <2> SUFFICES ASSUME NEW m \in (A \cup {NULL}) \ D PROVE V[m] = Kids(u, m)
    OBVIOUS
  <2>1. V[m] = Kids(t, m)
    BY DEF Stands
  <2>2. CASE m = NULL
    BY <2>1, <2>2 DEF Kids, Tops
  <2>3. CASE m # NULL
    BY <1>1, <2>1, <2>3 DEF Kids, Same, Alike
  <2> QED  BY <2>2, <2>3
<1>4. \A m \in NodeId \ (A \cup D) : u.node[m] = Free
  BY DEF Stands, Same
<1> QED  BY <1>2, <1>3, <1>4 DEF Stands

(* A call starts at the root.                                              *)
LEMMA StartPath ==
  ASSUME NEW t, NEW A, NEW L, NEW V, NEW R, Stands(t, A, L, V, R, {}), t.root # NULL,
         NEW g, {"n", "slot"} \subseteq DOMAIN g, g.n = t.root, g.slot = 0
  PROVE  Path(t, A, L, <<g>>) /\ t.root \in A
<1>1. V[NULL] = <<t.root>>
  BY DEF Stands, Kids, Tops
<1>2. t.root \in A
  <2>1. V[NULL] \in Seq(A) /\ NULL \in Parents
    BY StandsFacts DEF Parents
  <2>2. Len(V[NULL]) = 1 /\ V[NULL][1] = t.root
    BY <1>1
  <2> QED  BY <2>1, <2>2
<1> DEFINE st == <<g>>
<1>3. st \in Seq({g}) /\ Len(st) = 1 /\ st[1] = g
  OBVIOUS
<1>4. Above(st, 0) = NULL /\ Place(st, 0) = 1 /\ Kids(t, NULL) = <<t.root>>
  BY DEF Above, Place, Kids, Tops
<1>5. Down(t, st, 0) /\ Kids(t, Above(st, 0))[Place(st, 0)] = st[1].n
  BY <1>3, <1>4 DEF Down
<1>6. 1 - 1 = 0 /\ \A i \in 1..1 : i = 1
  OBVIOUS
<1>7. \E S : st \in Seq(S)
  BY <1>3
<1> HIDE DEF st
<1>8. Path(t, A, L, st)
  <2> SUFFICES ASSUME NEW i \in 1..Len(st)
               PROVE  /\ {"n", "slot"} \subseteq DOMAIN st[i]
                      /\ st[i].n \in A /\ st[i].slot \in Nat
                      /\ L[st[i].n] + i = L[st[1].n] + 1
                      /\ Down(t, st, i - 1)
                      /\ Kids(t, Above(st, i - 1))[Place(st, i - 1)] = st[i].n
    BY <1>7 DEF Path
  <2>1. i = 1 /\ i - 1 = 0
    BY <1>3, <1>6
  <2> QED  BY <1>2, <1>3, <1>5, <2>1
<1> QED  BY <1>2, <1>8 DEF st

(* The nodes in D get the children that V has for them, or go.             *)
LEMMA CatchUp ==
  ASSUME NEW t, NEW A, NEW L, NEW V, NEW R, NEW par \in A, NEW D, D \subseteq NodeId, par \in D,
         Stands(t, A, L, V, R, D),
         NEW u, IsTree(u), u.root = t.root, Is(u.node[par], t.node[par].level, V[par]),
         \A e \in D \ {par} : e \notin A /\ u.node[e] = Free,
         \A id \in NodeId \ D : u.node[id] = t.node[id]
  PROVE  Stands(u, A, L, V, R, {})
<1>1. Forest(A, L, V, R) /\ A \subseteq NodeId /\ (L[par] = 0 <=> V[par] = <<>>)
  <2>1. Forest(A, L, V, R)
    BY DEF Stands
  <2>2. A \subseteq NodeId /\ (L[par] = 0 <=> V[par] = <<>>)
    BY StandsFacts
  <2> QED  BY <2>1, <2>2
<1>2. par \in NodeId /\ par # NULL /\ NULL \notin A /\ NULL \notin D
  BY <1>1, NullApart
<1>3. L[par] # 0
  <2>1. slotuse(u.node[par]) \in Nat
    BY <1>2, Sizes
  <2>2. Len(V[par]) = slotuse(u.node[par]) + 1
    BY DEF Is
  <2>3. Len(V[par]) # 0
    BY <2>1, <2>2
  <2>4. V[par] # <<>>
    BY <2>3
  <2> QED  BY <1>1, <2>4
<1>4. Looks(u, par, L, R)
  BY <1>3 DEF Looks, Is, Stands
<1>5. \A m \in A : Looks(u, m, L, R)
  <2> SUFFICES ASSUME NEW m \in A, m # par PROVE Looks(u, m, L, R)
    BY <1>4
  <2>1. m \in NodeId \ D
    BY <1>1
  <2> QED  BY <2>1 DEF Stands, Looks
<1>6. ASSUME NEW m \in A \cup {NULL} PROVE V[m] = Kids(u, m)
  <2>1. CASE m = par
    BY <1>2, <2>1 DEF Kids, Is
  <2>2. CASE m # par
    <3>1. m \notin D /\ V[m] = Kids(t, m)
      BY <1>2, <2>2 DEF Stands
    <3>2. CASE m = NULL
      BY <3>1, <3>2 DEF Kids, Tops
    <3>3. CASE m # NULL
      BY <1>1, <2>2, <3>1, <3>3 DEF Kids
    <3> QED  BY <3>2, <3>3
  <2> QED  BY <2>1, <2>2
<1>7. ASSUME NEW m \in NodeId \ A PROVE u.node[m] = Free
  BY DEF Stands
<1> QED  BY <1>1, <1>5, <1>6, <1>7 DEF Stands

(* No step has changed the children of the activations b.                  *)
Untouched(u, t, B, L, M, b) ==
  \A i \in 1..Len(b) : /\ b[i].n \in B /\ M[b[i].n] = L[b[i].n]
                       /\ u.node[b[i].n].childid = t.node[b[i].n].childid
(* What is done to the last activation's node leaves the path of the       *)
(* others as it is.                                                        *)
LEMMA PathBelow ==
  ASSUME NEW t, NEW A, A \subseteq NodeId, NEW L \in [NodeId -> Int], NEW st, st # <<>>,
         Path(t, A, L, st), NEW u, u.root = t.root, NEW B, NEW M, NEW b, b = Front(st),
         Untouched(u, t, B, L, M, b)
  PROVE  Path(u, B, M, b) /\ Down(u, b, Len(b))
<1>1. NULL \notin A
  BY NullApart
<1>2. Path(t, A, L, b) /\ Down(t, b, Len(b))
  BY TopMeets DEF Meets
<1> QED  BY <1>1, <1>2, PathKept DEF Untouched

(* n, the node on top, is split into n and new.                            *)
Halved(u, t, L, R, n, new, p, q) ==
  /\ IsTree(u) /\ u.root = t.root /\ new \in NodeId /\ new # n /\ t.node[new] = Free
  /\ u.node[n].level = L[n] /\ u.node[new].level = L[n]
  /\ u.node[n].childid = p /\ u.node[new].childid = q
  /\ L[n] = 0 => u.node[n].next_leaf = new /\ u.node[new].next_leaf = R[n]
  /\ L[n] # 0 => Len(p) = slotuse(u.node[n]) + 1 /\ Len(q) = slotuse(u.node[new]) + 1
  /\ Sized(u, n) /\ Sized(u, new)
  /\ \A id \in NodeId \ {n, new} : Same(u, t, id)

(* A node was split: the activation below is returned to with a new child. *)
LEMMA SplitUp ==
  ASSUME NEW t, NEW A, NEW L, NEW V, NEW R, NEW D, Stands(t, A, L, V, R, D),
         NEW st, st # <<>>, Path(t, A, L, st), NEW n, n = Last(st).n, D = {} \/ D = {n},
         NEW few, few = NULL \/ few = n, Filled(t, A, few),
         NEW p, NEW q, Shares(A, V[n], p, q),
         NEW u, NEW new, Halved(u, t, L, R, n, new, p, q)
  PROVE  InsertsUp(u, Front(st), new)
<1> DEFINE b   == Front(st)
           par == Above(b, Len(b))
           i   == Place(b, Len(b))
           B == A \cup {new}
           M == SplitL(L, n, new)
           W == SplitV(V, par, i, n, new, p, q)
           T == SplitR(R, n, new)
<1>0. p \in Seq(A) /\ q \in Seq(A) /\ V[n] = p \o q /\ (p = <<>> <=> q = <<>>)
  BY DEF Shares
<1>1. /\ A \subseteq NodeId /\ L \in [NodeId -> Int] /\ R \in [NodeId -> Parents]
      /\ V \in [Parents -> Seq(A)] /\ NULL \notin A /\ Family(A, L, V) /\ IsTree(t)
      /\ \A m \in A : t.node[m] # Free
  <2>1. /\ A \subseteq NodeId /\ L \in [NodeId -> Int] /\ R \in [NodeId -> Parents]
        /\ V \in [Parents -> Seq(A)] /\ Family(A, L, V) /\ IsTree(t)
        /\ \A m \in A : t.node[m] # Free
    BY StandsFacts
  <2> QED  BY <2>1, NullApart
<1>2. Meets(t, A, L, st)
  BY <1>1, TopMeets
<1>3. /\ n \in A /\ n \in NodeId /\ n # NULL
      /\ Down(t, b, Len(b)) /\ Kids(t, par)[i] = n /\ Len(b) \in Nat
      /\ \A j \in 1..Len(b) : b[j].n \in A /\ L[b[j].n] > L[n]
      /\ b = <<>> => par = NULL
      /\ b # <<>> => par \in A /\ L[par] = L[n] + 1
  BY <1>1, <1>2 DEF Meets
<1>4. /\ IsTree(u) /\ u.root = t.root /\ new \in NodeId /\ new # n /\ t.node[new] = Free
      /\ new \notin A
      /\ \A id \in NodeId \ {n, new} : Same(u, t, id)
  BY <1>1 DEF Halved
<1>5. par \in Parents /\ par # n /\ par # new
  <2>1. L[n] \in Int
    BY <1>1, <1>3
  <2>2. L[par] = L[n] + 1 => par # n
    BY <2>1
  <2> QED  BY <1>1, <1>3, <1>4, <2>2, NullApart DEF Parents
<1>6. V[par] = Kids(t, par)
  <2>1. par \in (A \cup {NULL}) \ D
    BY <1>3, <1>5
  <2> QED  BY <2>1 DEF Stands
<1>7. i \in 1..Len(V[par]) /\ n = V[par][i]
  BY <1>3, <1>6 DEF Down
<1> HIDE DEF b, par, i
<1>8. M[n] = L[n] /\ M[new] = L[n] /\ T[n] = new /\ T[new] = R[n]
      /\ \A m \in NodeId \ {new} : M[m] = L[m]
  BY <1>1, <1>3, <1>4 DEF SplitL, SplitR
<1>9. Stands(u, B, M, W, T, {par})
  <2>1. Looks(u, n, M, T) /\ Looks(u, new, M, T)
    BY <1>8 DEF Looks, Halved
  <2>2. Kids(u, n) = p /\ Kids(u, new) = q
    BY <1>3, <1>4, NullApart DEF Kids, Halved
  <2>3. D \ {n} \subseteq {par} /\ par \in {par}
    OBVIOUS
  <2> HIDE DEF M, W, T, B
  <2>4. Looks(u, n, SplitL(L, n, new), SplitR(R, n, new))
        /\ Looks(u, new, SplitL(L, n, new), SplitR(R, n, new))
    BY <2>1 DEF M, T
  <2>5. Stands(u, A \cup {new}, SplitL(L, n, new), SplitV(V, par, i, n, new, p, q),
                SplitR(R, n, new), {par})
    BY <1>0, <1>4, <1>5, <1>7, <2>2, <2>3, <2>4, SplitStands
  <2> QED  BY <2>5 DEF M, W, T, B
<1> HIDE DEF M, T
<1>10. W[par] = InsertAt(V[par], i + 1, new)
  BY <1>1, <1>5 DEF SplitV
<1> HIDE DEF W
<1>11. Untouched(u, t, B, L, M, b)
  <2> SUFFICES ASSUME NEW j \in 1..Len(b)
               PROVE  /\ b[j].n \in B /\ M[b[j].n] = L[b[j].n]
                      /\ u.node[b[j].n].childid = t.node[b[j].n].childid
    BY DEF Untouched
  <2>1. b[j].n \in A /\ b[j].n \in NodeId /\ L[b[j].n] > L[n] /\ L[n] \in Int
    BY <1>1, <1>3
  <2>2. b[j].n # n /\ b[j].n # new
    BY <1>4, <2>1
  <2> QED  BY <1>4, <1>8, <2>1, <2>2 DEF Same, Alike
<1>12. Path(u, B, M, b) /\ Down(u, b, Len(b))
  <2>1. b = Front(st)
    BY DEF b
  <2>2. A \subseteq NodeId /\ L \in [NodeId -> Int] /\ u.root = t.root
    BY <1>1, <1>4
  <2> HIDE DEF B
  <2> QED  BY <1>11, <2>1, <2>2, PathBelow
<1>13. Kids(u, par) = Kids(t, par)
  <2>1. CASE par = NULL
    BY <1>4, <2>1 DEF Kids, Tops
  <2>2. CASE par # NULL
    <3>1. par \in NodeId \ {n, new}
      BY <1>5, <2>2 DEF Parents
    <3> QED  BY <1>4, <2>2, <3>1 DEF Kids, Same, Alike
  <2> QED  BY <2>1, <2>2
<1>14. Grown(u, B, M, W, T, b, new)
  <2>1. new # NULL
    BY <1>4, NullApart
  <2> QED  BY <1>4, <1>6, <1>9, <1>10, <1>12, <1>13, <2>1 DEF Grown, par, i
<1>15. Filled(u, B, NULL)
  <2>1. Sized(u, n) /\ Sized(u, new)
    BY DEF Halved
  <2>2. slotuse(u.node[n]) \in Nat /\ slotuse(u.node[new]) \in Nat
    BY <1>3, <1>4, Sizes
  <2>3. Fits(u, n, NULL) /\ Fits(u, new, NULL)
    BY <2>1, <2>2, SizedFits
  <2>4. \A m \in B : Fits(u, m, NULL) \/ (m \in A /\ Same(u, t, m) /\ (m = few => m = NULL))
    <3> SUFFICES ASSUME NEW m \in A, m # n, m # new
                 PROVE  Same(u, t, m) /\ (m = few => m = NULL)
      BY <2>3
    <3> QED  BY <1>1, <1>4
  <2>5. B \subseteq NodeId
    BY <1>1, <1>4
  <2> HIDE DEF B
  <2>6. IsTree(t) /\ u.root = t.root
    BY <1>1, <1>4
  <2> QED  BY <2>4, <2>5, <2>6, FilledKept
<1>16. b = <<>> => Sized(u, u.root)
  <2> SUFFICES ASSUME b = <<>> PROVE Sized(u, u.root)
    OBVIOUS
  <2>1. PICK S : st \in Seq(S)
    BY DEF Path
  <2>2. Len(b) = Len(st) - 1 /\ Last(st) = st[Len(st)] /\ Len(st) \in Nat
    BY <2>1, FrontIs DEF b
  <2>3. Len(b) = 0
    OBVIOUS
  <2>4. Len(st) = 1
    BY <2>2, <2>3
  <2>5. n = t.root
    BY <2>2, <2>4, RootThere
  <2> QED  BY <1>4, <2>5 DEF Halved
<1> QED  BY <1>12, <1>14, <1>15, <1>16 DEF InsertsUp, b

(* A key more in n, the node on top, which was not full.                   *)
OneMore(u, t, n) ==
  /\ u.root = t.root /\ u.node[n].level = t.node[n].level /\ ~IsFull(t.node[n])
  /\ slotuse(u.node[n]) = slotuse(t.node[n]) + 1
  /\ \A id \in NodeId \ {n} : Same(u, t, id)

(* A node took what was inserted: it is returned to without one.           *)
LEMMA MoreUp ==
  ASSUME NEW t, IsTree(t), NEW A, A \subseteq NodeId, NEW L \in [NodeId -> Int], NEW st, st # <<>>,
         Path(t, A, L, st), NEW n, n = Last(st).n, NEW few, few = NULL \/ few = n,
         Filled(t, A, few), NEW V, NEW R, NEW u, OneMore(u, t, n), Stands(u, A, L, V, R, {})
  PROVE  InsertsUp(u, Front(st), NULL)
<1> DEFINE b == Front(st)
<1>1. Meets(t, A, L, st)
  BY TopMeets
<1>2. n \in A /\ n \in NodeId /\ n # NULL
  BY <1>1, NullApart DEF Meets
<1>3. Path(u, A, L, b) /\ Down(u, b, Len(b))
  <2>1. Untouched(u, t, A, L, L, b)
    <3> SUFFICES ASSUME NEW j \in 1..Len(b)
                 PROVE  b[j].n \in A /\ u.node[b[j].n].childid = t.node[b[j].n].childid
      BY DEF Untouched
    <3>1. b[j].n \in A /\ b[j].n \in NodeId /\ L[b[j].n] > L[n] /\ L[n] \in Int
      BY <1>1, <1>2 DEF Meets
    <3>2. b[j].n # n
      BY <3>1
    <3> QED  BY <3>1, <3>2 DEF Same, Alike, OneMore
  <2>2. u.root = t.root /\ b = Front(st)
    BY DEF OneMore
  <2> HIDE DEF b
  <2> QED  BY <2>1, <2>2, PathBelow
<1>4. Fits(u, n, NULL)
  <2> DEFINE x == slotuse(t.node[n])
             y == SlotMax(t.node[n])
             z == Low(t, n)
  <2>1. x \in Nat /\ y \in Nat /\ z \in Nat /\ x <= y /\ x # y /\ x + 1 >= z
    <3>1. x \in Nat /\ y \in Nat /\ z \in Nat
      BY <1>2, Sizes, MinMax DEF Low
    <3>2. Fits(t, n, few) /\ x # y
      BY <1>2 DEF Filled, IsFull, OneMore
    <3>3. x <= y /\ (x >= z \/ x + 1 >= z)
      BY <3>2 DEF Fits
    <3> HIDE DEF x, y, z
    <3> QED  BY <3>1, <3>2, <3>3
  <2>2. SlotMax(u.node[n]) = y /\ Low(u, n) = z /\ slotuse(u.node[n]) = x + 1
    BY DEF SlotMin, SlotMax, IsLeaf, Low, OneMore
  <2> HIDE DEF x, y, z
  <2>3. x + 1 <= y /\ x + 1 >= z
    BY <2>1
  <2> QED  BY <1>2, <2>2, <2>3 DEF Fits
<1>5. Filled(u, A, NULL)
  <2>1. \A m \in A : Fits(u, m, NULL) \/ (m \in A /\ Same(u, t, m) /\ (m = few => m = NULL))
    BY <1>4 DEF OneMore
  <2>2. u.root = t.root
    BY DEF OneMore
  <2> QED  BY <2>1, <2>2, FilledKept
<1>6. Grown(u, A, L, V, R, b, NULL)
  BY <1>3 DEF Grown
<1> QED  BY <1>3, <1>5, <1>6 DEF InsertsUp

(* Both cases at a leaf.                                                   *)
LEMMA InsertLeafUp ==
  ASSUME NEW t, NEW st, InsertsDown(t, st), NEW n, n = Last(st).n, IsLeaf(t.node[n]),
         FreeIds(t) # {}, NEW k \in Int, NEW w
  PROVE  LET into == InsertIntoLeaf(t, n, k, w)
         IN  /\ InsertsUp(into.tree, Front(st), into.newchild)
             /\ into.newchild # NULL => into.newkey \in Int
<1> DEFINE into == InsertIntoLeaf(t, n, k, w)
           u    == into.tree
           new  == into.newchild
           b    == Front(st)
<1>1. PICK A, L, V, R : Stands(t, A, L, V, R, {}) /\ Path(t, A, L, st) /\ Filled(t, A, n)
  <2>1. PICK A, L, V, R : Stands(t, A, L, V, R, {}) /\ Path(t, A, L, st)
                          /\ Filled(t, A, TopLeaf(t, st))
    BY DEF InsertsDown
  <2>2. Filled(t, A, n)
    BY <2>1, StandsFacts, FilledWeaker DEF TopLeaf
  <2> QED  BY <2>1, <2>2
<1>0. st # <<>>
  BY DEF InsertsDown
<1>2. /\ A \subseteq NodeId /\ L \in [NodeId -> Int] /\ IsTree(t)
      /\ \A m \in A : t.node[m].level = L[m] /\ L[m] >= 0 /\ t.node[m] # Free
      /\ \A m \in A : L[m] = 0 <=> V[m] = <<>>
  BY <1>1, StandsFacts
<1>3. Meets(t, A, L, st)
  BY <1>0, <1>1, <1>2, TopMeets
<1>4. n \in A /\ n \in NodeId /\ L[n] = 0 /\ t.node[n].level = 0 /\ V[n] = <<>>
      /\ t.node[n].childid = <<>>
  <2>1. n \in A /\ n \in NodeId /\ t.node[n].level = 0
    BY <1>2, <1>3 DEF Meets, IsLeaf
  <2>2. L[n] = 0 /\ V[n] = <<>>
    BY <1>2, <2>1
  <2>3. t.node[n].childid = <<>>
    BY <1>1, <2>1, <2>2, NullApart DEF Stands, Kids
  <2> QED  BY <2>1, <2>2, <2>3
<1>5. Fits(t, n, n) /\ SlotMax(t.node[n]) = LeafSlots /\ SlotMin(t.node[n]) = LeafSlots \div 2
  BY <1>1, <1>4 DEF Filled, SlotMin, SlotMax, IsLeaf
<1>6. CASE ~IsFull(t.node[n])
  <2>1. /\ IsTree(u) /\ u.root = t.root /\ new = NULL
        /\ u.node[n].level = t.node[n].level /\ u.node[n].childid = t.node[n].childid
        /\ u.node[n].next_leaf = t.node[n].next_leaf
        /\ slotuse(u.node[n]) = slotuse(t.node[n]) + 1
        /\ \A id \in NodeId \ {n} : Same(u, t, id)
    <3>1. /\ IsTree(InsertIntoLeaf(t, n, k, w).tree) /\ InsertIntoLeaf(t, n, k, w).tree.root = t.root
          /\ InsertIntoLeaf(t, n, k, w).newchild = NULL
          /\ InsertIntoLeaf(t, n, k, w).tree.node[n].level = t.node[n].level
          /\ InsertIntoLeaf(t, n, k, w).tree.node[n].childid = t.node[n].childid
          /\ InsertIntoLeaf(t, n, k, w).tree.node[n].next_leaf = t.node[n].next_leaf
          /\ slotuse(InsertIntoLeaf(t, n, k, w).tree.node[n]) = slotuse(t.node[n]) + 1
          /\ \A id \in NodeId \ {n} : Same(InsertIntoLeaf(t, n, k, w).tree, t, id)
      <4> HIDE DEF into
      <4> QED  BY <1>2, <1>4, <1>6, InsertIntoRoomEffect
    <3> QED  BY <3>1
  <2> HIDE DEF into
  <2>2. Stands(u, A, L, V, R, {})
    BY <1>1, <1>4, <2>1, LeafStands
  <2>3. OneMore(u, t, n)
    BY <1>6, <2>1 DEF OneMore
  <2>4. InsertsUp(u, Front(st), NULL)
    BY <1>0, <1>1, <1>2, <2>2, <2>3, MoreUp
  <2>7. InsertsUp(u, Front(st), new)
    BY <2>1, <2>4
  <2> QED  BY <2>1, <2>7 DEF into
<1>7. CASE IsFull(t.node[n])
  <2>1. t.node[n].next_leaf = R[n] /\ (R[n] \in NodeId => t.node[R[n]] # Free)
    <3>1. Looks(t, n, L, R)
      BY <1>1, <1>4 DEF Stands
    <3>2. R[n] # NULL => R[n] \in A
      BY <1>1, <1>4 DEF Stands, Forest, Chain
    <3> QED  BY <1>2, <1>4, <3>1, <3>2, NullApart DEF Looks
  <2>2. /\ IsTree(u) /\ u.root = t.root /\ new \in NodeId /\ new # n
        /\ t.node[new] = Free /\ into.newkey \in Int
        /\ u.node[n].level = 0 /\ u.node[n].childid = t.node[n].childid
        /\ u.node[n].next_leaf = new
        /\ slotuse(u.node[n]) \in (LeafSlots \div 2)..LeafSlots
        /\ u.node[new].level = 0 /\ u.node[new].childid = <<>>
        /\ u.node[new].next_leaf = R[n]
        /\ slotuse(u.node[new]) \in (LeafSlots \div 2)..LeafSlots
        /\ \A id \in NodeId \ {n, new} : Same(u, t, id)
    <3>1. /\ IsTree(InsertIntoLeaf(t, n, k, w).tree) /\ InsertIntoLeaf(t, n, k, w).tree.root = t.root
          /\ InsertIntoLeaf(t, n, k, w).newchild \in NodeId /\ InsertIntoLeaf(t, n, k, w).newchild # n
          /\ t.node[InsertIntoLeaf(t, n, k, w).newchild] = Free
          /\ InsertIntoLeaf(t, n, k, w).newkey \in Int
          /\ InsertIntoLeaf(t, n, k, w).tree.node[n].level = 0
          /\ InsertIntoLeaf(t, n, k, w).tree.node[n].childid = t.node[n].childid
          /\ InsertIntoLeaf(t, n, k, w).tree.node[n].next_leaf = InsertIntoLeaf(t, n, k, w).newchild
          /\ slotuse(InsertIntoLeaf(t, n, k, w).tree.node[n]) \in (LeafSlots \div 2)..LeafSlots
          /\ InsertIntoLeaf(t, n, k, w).tree.node[InsertIntoLeaf(t, n, k, w).newchild].level = 0
          /\ InsertIntoLeaf(t, n, k, w).tree.node[InsertIntoLeaf(t, n, k, w).newchild].childid = <<>>
          /\ InsertIntoLeaf(t, n, k, w).tree.node[InsertIntoLeaf(t, n, k, w).newchild].next_leaf = R[n]
          /\ slotuse(InsertIntoLeaf(t, n, k, w).tree.node[InsertIntoLeaf(t, n, k, w).newchild])
               \in (LeafSlots \div 2)..LeafSlots
          /\ \A id \in NodeId \ {n, InsertIntoLeaf(t, n, k, w).newchild} :
               Same(InsertIntoLeaf(t, n, k, w).tree, t, id)
      <4> HIDE DEF into
      <4>1. R[n] = t.node[n].next_leaf
        BY <2>1
      <4> QED  BY <1>2, <1>4, <1>7, <2>1, <4>1, InsertIntoFullEffect
    <3> QED  BY <3>1
  <2> HIDE DEF into
  <2>3. Sized(u, n) /\ Sized(u, new)
    <3>1. /\ SlotMax(u.node[n]) = LeafSlots /\ SlotMin(u.node[n]) = LeafSlots \div 2
          /\ SlotMax(u.node[new]) = LeafSlots /\ SlotMin(u.node[new]) = LeafSlots \div 2
      BY <2>2 DEF SlotMin, SlotMax, IsLeaf
    <3> HIDE DEF u, new
    <3>2. LeafSlots \in Nat /\ LeafSlots \div 2 \in Nat
      BY BTreeAssumption
    <3> QED  BY <2>2, <3>1, <3>2 DEF Sized
  <2>4. Halved(u, t, L, R, n, new, <<>>, <<>>)
    BY <1>4, <2>2, <2>3 DEF Halved
  <2>5. <<>> \in Seq(A) /\ V[n] = <<>> \o <<>>
    BY <1>4
  <2>6. InsertsUp(u, b, new)
    <3> HIDE DEF u, new, b
    <3>1. n = Last(st).n /\ Shares(A, V[n], <<>>, <<>>)
      BY <2>5 DEF Shares
    <3>3. Stands(t, A, L, V, R, {}) /\ Path(t, A, L, st) /\ Filled(t, A, n) /\ st # <<>>
      BY <1>0, <1>1
    <3>2. InsertsUp(u, Front(st), new)
      BY <2>4, <3>1, <3>3, SplitUp
    <3> QED  BY <3>2 DEF b
  <2> QED  BY <2>2, <2>6 DEF into
<1> QED  BY <1>6, <1>7

(* Back in the activation of n below which nothing was split: only weights *)
(* change.                                                                 *)
LEMMA UpSame ==
  ASSUME NEW t, NEW st, st # <<>>, InsertsUp(t, st, NULL), NEW n, n = Last(st).n
  PROVE  /\ n \in NodeId /\ IsTree(t) /\ slotuse(t.node[n]) >= 1
         /\ \A u : IsTree(u) /\ u.root = t.root /\ (\A id \in NodeId : Same(u, t, id))
                     => InsertsUp(u, Front(st), NULL)
<1>1. PICK A, L, V, R : Grown(t, A, L, V, R, st, NULL) /\ Path(t, A, L, st) /\ Filled(t, A, NULL)
  BY DEF InsertsUp
<1>2. Stands(t, A, L, V, R, {})
  BY <1>1 DEF Grown
<1>3. /\ A \subseteq NodeId /\ L \in [NodeId -> Int] /\ IsTree(t)
  BY <1>2, StandsFacts
<1>4. Meets(t, A, L, st)
  BY <1>1, <1>3, TopMeets
<1>5. n \in A /\ n \in NodeId /\ n # NULL
  BY <1>3, <1>4, NullApart DEF Meets
<1>6. slotuse(t.node[n]) >= 1
  BY <1>1, <1>3, <1>5, SomeKeys
<1>7. ASSUME NEW u, IsTree(u), u.root = t.root, \A id \in NodeId : Same(u, t, id)
      PROVE  InsertsUp(u, Front(st), NULL)
  <2> DEFINE b == Front(st)
  <2>1. Stands(u, A, L, V, R, {})
    BY <1>2, <1>7, StandsSame
  <2>2. Filled(u, A, NULL)
    BY <1>1, <1>3, <1>7, FilledSame
  <2>3. Untouched(u, t, A, L, L, b)
    <3> SUFFICES ASSUME NEW j \in 1..Len(b)
                 PROVE  b[j].n \in A /\ u.node[b[j].n].childid = t.node[b[j].n].childid
      BY DEF Untouched
    <3>1. b[j].n \in A /\ b[j].n \in NodeId
      BY <1>3, <1>4 DEF Meets
    <3> QED  BY <1>7, <3>1 DEF Same, Alike
  <2>4. b = Front(st)
    OBVIOUS
  <2> HIDE DEF b
  <2>5. Path(u, A, L, b) /\ Down(u, b, Len(b))
    BY <1>1, <1>3, <1>7, <2>3, <2>4, PathBelow
  <2>6. Grown(u, A, L, V, R, b, NULL)
    BY <2>1, <2>5 DEF Grown
  <2>7. InsertsUp(u, b, NULL)
    BY <2>2, <2>5, <2>6 DEF InsertsUp
  <2> QED  BY <2>4, <2>7
<1> QED  BY <1>3, <1>5, <1>6, <1>7

(* Below child slot of n, the node on top, a new node has appeared.        *)
Widened(t, A, L, V, R, n, slot, child) ==
  LET c == t.node[n].childid
  IN  /\ Stands(t, A, L, V, R, {n})
      /\ A \subseteq NodeId /\ L \in [NodeId -> Int] /\ IsTree(t)
      /\ n \in A /\ n \in NodeId /\ n # NULL /\ child \in NodeId
      /\ t.node[n].level = L[n] /\ L[n] > 0 /\ V[n] \in Seq(A)
      /\ Len(c) = slotuse(t.node[n]) + 1 /\ slot \in 0..slotuse(t.node[n])
      /\ V[n] = InsertAt(c, slot + 2, child)

(* What the activation returned to finds: its node, with a child to be     *)
(* added.                                                                  *)
LEMMA UpTop ==
  ASSUME NEW t, NEW A, NEW L, NEW V, NEW R, NEW st, st # <<>>, NEW child, child # NULL,
         Grown(t, A, L, V, R, st, child), Path(t, A, L, st), NEW n, n = Last(st).n
  PROVE  Widened(t, A, L, V, R, n, Last(st).slot, child)
<1> DEFINE slot == Last(st).slot
           c    == t.node[n].childid
<1>1. /\ A \subseteq NodeId /\ L \in [NodeId -> Int] /\ IsTree(t)
      /\ V \in [Parents -> Seq(A)]
      /\ \A m \in A : t.node[m].level = L[m] /\ L[m] >= 0
      /\ \A m \in A : L[m] = 0 <=> V[m] = <<>>
  <2>1. PICK D : Stands(t, A, L, V, R, D)
    BY DEF Grown
  <2> QED  BY <2>1, StandsFacts
<1>2. Meets(t, A, L, st)
  BY <1>1, TopMeets
<1>3. n \in A /\ n \in NodeId /\ n # NULL /\ slot \in Nat
  BY <1>1, <1>2, NullApart DEF Meets
<1> HIDE DEF slot, c
<1>4. Len(st) # 0 /\ Last(st) = st[Len(st)]
  <2>1. PICK S : st \in Seq(S)
    BY DEF Path
  <2> QED  BY <2>1, FrontIs
<1>5. Above(st, Len(st)) = n /\ Place(st, Len(st)) = slot + 1 /\ Kids(t, n) = c
  BY <1>3, <1>4 DEF Above, Place, Kids, slot, c
<1>6. /\ Stands(t, A, L, V, R, {n}) /\ child \in NodeId
      /\ V[n] = InsertAt(c, (slot + 1) + 1, child) /\ slot + 1 \in 1..Len(c)
  BY <1>5 DEF Grown, Down
<1>7. c \in Seq(NodeId) /\ slotuse(t.node[n]) \in Nat
  BY <1>1, <1>3, Sizes DEF c
<1>8. Len(InsertAt(c, slot + 2, child)) = Len(c) + 1 /\ Len(c) \in Nat
  <2>1. slot + 2 \in 1..(Len(c) + 1) /\ Len(c) \in Nat
    BY <1>3, <1>6, <1>7
  <2>2. child \in NodeId /\ c \in Seq(NodeId)
    BY <1>6, <1>7
  <2> DEFINE at == slot + 2
  <2> HIDE DEF at
  <2>3. at \in 1..(Len(c) + 1)
    BY <2>1 DEF at
  <2>4. Len(InsertAt(c, at, child)) = Len(c) + 1
    BY <2>2, <2>3, InsertedLen
  <2> QED  BY <2>1, <2>4 DEF at
<1>9. V[n] = InsertAt(c, slot + 2, child)
  BY <1>3, <1>6
<1>10. V[n] # <<>>
  BY <1>8, <1>9
<1>11. L[n] # 0 /\ L[n] > 0 /\ V[n] \in Seq(A)
  BY <1>1, <1>3, <1>10 DEF Parents
<1>12. Len(c) = slotuse(t.node[n]) + 1
  BY <1>3, <1>6, <1>11 DEF Stands, Looks, c
<1>13. slot \in 0..slotuse(t.node[n])
  <2> DEFINE x == slotuse(t.node[n])
             y == Len(c)
  <2>1. x \in Nat /\ y = x + 1 /\ slot \in Nat /\ slot + 1 \in 1..y
    BY <1>3, <1>6, <1>7, <1>12
  <2> HIDE DEF x, y
  <2>2. slot \in 0..x
    BY <2>1
  <2> QED  BY <2>2 DEF x
<1>14. t.node[n].level = L[n]
  BY <1>1, <1>3
<1> QED  BY <1>1, <1>3, <1>6, <1>9, <1>11, <1>12, <1>13, <1>14 DEF Widened, slot, c

(* The node on top has room for it.                                        *)
LEMMA RoomUp ==
  ASSUME NEW t, NEW A, NEW L, NEW V, NEW R, NEW st, st # <<>>, NEW child, child # NULL,
         Grown(t, A, L, V, R, st, child), Path(t, A, L, st), Filled(t, A, NULL),
         NEW n, n = Last(st).n, ~IsFull(t.node[n]), NEW key \in Int
  PROVE  LET put == AddChild(t, n, Last(st).slot, key, child)
         IN  InsertsUp(put.tree, Front(st), put.newchild)
<1> DEFINE put  == AddChild(t, n, Last(st).slot, key, child)
           slot == Last(st).slot
           c    == t.node[n].childid
           u    == put.tree
<1>1. /\ Stands(t, A, L, V, R, {n})
      /\ A \subseteq NodeId /\ L \in [NodeId -> Int] /\ IsTree(t)
      /\ n \in A /\ n \in NodeId /\ n # NULL /\ child \in NodeId
      /\ t.node[n].level = L[n] /\ L[n] > 0
      /\ Len(c) = slotuse(t.node[n]) + 1 /\ slot \in 0..slotuse(t.node[n])
      /\ V[n] = InsertAt(c, slot + 2, child)
  <2>1. Widened(t, A, L, V, R, n, slot, child)
    BY UpTop
  <2> QED  BY <2>1 DEF Widened
<1>2. /\ IsTree(u) /\ u.root = t.root /\ put.newchild = NULL
      /\ Is(u.node[n], t.node[n].level, V[n])
      /\ slotuse(u.node[n]) = slotuse(t.node[n]) + 1
      /\ \A id \in NodeId \ {n} : u.node[id] = t.node[id]
  <2>1. c = t.node[n].childid
    OBVIOUS
  <2>2. /\ IsTree(AddChild(t, n, slot, key, child).tree)
        /\ AddChild(t, n, slot, key, child).tree.root = t.root
        /\ AddChild(t, n, slot, key, child).newchild = NULL
        /\ Is(AddChild(t, n, slot, key, child).tree.node[n], t.node[n].level,
              InsertAt(c, slot + 2, child))
        /\ slotuse(AddChild(t, n, slot, key, child).tree.node[n]) = slotuse(t.node[n]) + 1
        /\ \A id \in NodeId \ {n} : AddChild(t, n, slot, key, child).tree.node[id] = t.node[id]
    <3> HIDE DEF c, slot
    <3> QED  BY <1>1, <2>1, AddToRoomEffect
  <2> QED  BY <1>1, <2>2
<1> HIDE DEF put
<1>3. Stands(u, A, L, V, R, {})
  <2>1. {n} \subseteq NodeId /\ n \in {n}
    BY <1>1
  <2>2. \A e \in {n} \ {n} : e \notin A /\ u.node[e] = Free
    OBVIOUS
  <2> QED  BY <1>1, <1>2, <2>1, <2>2, CatchUp
<1>4. OneMore(u, t, n)
  BY <1>2 DEF OneMore, Is, Same, Alike
<1>5. InsertsUp(u, Front(st), NULL)
  BY <1>1, <1>3, <1>4, MoreUp
<1>6. InsertsUp(put.tree, Front(st), put.newchild)
  BY <1>2, <1>5
<1> QED  BY <1>6 DEF put

(* The node on top is full and is split in its turn.                       *)
LEMMA FullUp ==
  ASSUME NEW t, NEW A, NEW L, NEW V, NEW R, NEW st, st # <<>>, NEW child, child # NULL,
         Grown(t, A, L, V, R, st, child), Path(t, A, L, st), Filled(t, A, NULL),
         NEW n, n = Last(st).n, IsFull(t.node[n]), NEW key \in Int, FreeIds(t) # {}
  PROVE  LET put == AddChild(t, n, Last(st).slot, key, child)
         IN  InsertsUp(put.tree, Front(st), put.newchild) /\ put.newkey \in Int
<1> DEFINE put  == AddChild(t, n, Last(st).slot, key, child)
           slot == Last(st).slot
           c    == t.node[n].childid
           u    == put.tree
           new  == put.newchild
           p    == u.node[n].childid
           q    == u.node[new].childid
<1>1. /\ Stands(t, A, L, V, R, {n})
      /\ A \subseteq NodeId /\ L \in [NodeId -> Int] /\ IsTree(t)
      /\ n \in A /\ n \in NodeId /\ n # NULL /\ child \in NodeId
      /\ t.node[n].level = L[n] /\ L[n] > 0 /\ V[n] \in Seq(A)
      /\ Len(c) = slotuse(t.node[n]) + 1 /\ slot \in 0..slotuse(t.node[n])
      /\ V[n] = InsertAt(c, slot + 2, child)
  <2>1. Widened(t, A, L, V, R, n, slot, child)
    BY UpTop
  <2> QED  BY <2>1 DEF Widened
<1>2. /\ IsTree(u) /\ u.root = t.root /\ put.newkey \in Int
      /\ new \in NodeId /\ new # n /\ t.node[new] = Free
      /\ Is(u.node[n], t.node[n].level, p)
      /\ Is(u.node[new], t.node[n].level, q)
      /\ p \o q = V[n]
      /\ slotuse(u.node[n]) \in (InnerSlots \div 2)..InnerSlots
      /\ slotuse(u.node[new]) \in (InnerSlots \div 2)..InnerSlots
      /\ \A id \in NodeId \ {n, new} : u.node[id] = t.node[id]
  <2>1. c = t.node[n].childid
    OBVIOUS
  <2>2. AddSplits(AddChild(t, n, slot, key, child), t, n, InsertAt(c, slot + 2, child))
    <3>1. /\ IsTree(t) /\ n \in NodeId /\ t.node[n].level > 0 /\ child \in NodeId
          /\ slot \in 0..slotuse(t.node[n]) /\ Len(c) = slotuse(t.node[n]) + 1
      BY <1>1
    <3> HIDE DEF c, slot
    <3> QED  BY <2>1, <3>1, AddToFullEffect
  <2>3. AddSplits(put, t, n, V[n])
    BY <1>1, <2>2
  <2> HIDE DEF put
  <2> QED  BY <2>3, Zenon DEF AddSplits, Is
<1> HIDE DEF put, c
<1>3. Shares(A, V[n], p, q)
  <2>1. p \in Seq(NodeId) /\ q \in Seq(NodeId)
    BY <1>1, <1>2, Sizes, Zenon
  <2>2. slotuse(u.node[n]) \in Nat /\ slotuse(u.node[new]) \in Nat
    BY <1>1, <1>2, Sizes, Zenon
  <2>3. Len(p) = slotuse(u.node[n]) + 1 /\ Len(q) = slotuse(u.node[new]) + 1
    BY <1>2, Zenon DEF Is
  <2> HIDE DEF p, q
  <2>4. p # <<>> /\ q # <<>>
    <3>1. Len(p) # 0 /\ Len(q) # 0
      BY <2>2, <2>3
    <3> QED  BY <3>1
  <2>5. p \in Seq(A) /\ q \in Seq(A)
    <3>1. p \o q \in Seq(A)
      BY <1>1, <1>2
    <3> QED  BY <2>1, <3>1, PartsIn
  <2> QED  BY <1>2, <2>4, <2>5 DEF Shares
<1>4. Halved(u, t, L, R, n, new, p, q)
  <2>1. /\ u.node[n].level = L[n] /\ u.node[new].level = L[n] /\ L[n] # 0
        /\ Len(p) = slotuse(u.node[n]) + 1 /\ Len(q) = slotuse(u.node[new]) + 1
    <3>1. L[n] # 0
      BY <1>1
    <3> QED  BY <1>1, <1>2, <3>1, Zenon DEF Is
  <2>2. /\ SlotMax(u.node[n]) = InnerSlots /\ SlotMin(u.node[n]) = InnerSlots \div 2
        /\ SlotMax(u.node[new]) = InnerSlots /\ SlotMin(u.node[new]) = InnerSlots \div 2
    BY <2>1 DEF SlotMin, SlotMax, IsLeaf
  <2>3. Sized(u, n) /\ Sized(u, new)
    <3> HIDE DEF u, new
    <3>1. InnerSlots \in Nat /\ InnerSlots \div 2 \in Nat
      BY BTreeAssumption
    <3>2. /\ slotuse(u.node[n]) \in (InnerSlots \div 2)..InnerSlots
          /\ slotuse(u.node[new]) \in (InnerSlots \div 2)..InnerSlots
      BY <1>2
    <3> DEFINE x == slotuse(u.node[n])
               y == slotuse(u.node[new])
               m == InnerSlots \div 2
    <3>3. x \in m..InnerSlots /\ y \in m..InnerSlots /\ m \in Nat
      BY <3>1, <3>2
    <3> HIDE DEF x, y, m
    <3>4. m <= x /\ x <= InnerSlots /\ m <= y /\ y <= InnerSlots
      BY <3>1, <3>3
    <3> QED  BY <2>2, <3>4 DEF Sized, x, y, m
  <2>4. \A id \in NodeId \ {n, new} : Same(u, t, id)
    BY <1>2, Zenon DEF Same, Alike
  <2> QED  BY <1>2, <2>1, <2>3, <2>4, Zenon DEF Halved
<1>5. InsertsUp(u, Front(st), new)
  <2> HIDE DEF u, new, p, q
  <2>1. {n} = {n} /\ NULL = NULL
    OBVIOUS
  <2> DEFINE D == {n}
             few == NULL
  <2>2. Stands(t, A, L, V, R, D) /\ D = {n} /\ few = NULL /\ Filled(t, A, few)
    BY <1>1
  <2> HIDE DEF D, few
  <2> QED  BY <1>3, <1>4, <2>2, SplitUp
<1> QED  BY <1>2, <1>5, Zenon DEF put

(* Both cases at an inner node.                                            *)
LEMMA InsertReturnUp ==
  ASSUME NEW t, NEW st, st # <<>>, NEW child, child # NULL, InsertsUp(t, st, child),
         NEW key \in Int, FreeIds(t) # {}
  PROVE  LET put == AddChild(t, Last(st).n, Last(st).slot, key, child)
         IN  /\ InsertsUp(put.tree, Front(st), put.newchild)
             /\ put.newchild # NULL => put.newkey \in Int
<1> DEFINE put == AddChild(t, Last(st).n, Last(st).slot, key, child)
<1>1. PICK A, L, V, R : Grown(t, A, L, V, R, st, child) /\ Path(t, A, L, st) /\ Filled(t, A, NULL)
  BY DEF InsertsUp
<1>2. CASE IsFull(t.node[Last(st).n])
  <2>1. InsertsUp(put.tree, Front(st), put.newchild) /\ put.newkey \in Int
    BY <1>1, <1>2, FullUp
  <2> QED  BY <2>1
<1>3. CASE ~IsFull(t.node[Last(st).n])
  <2>1. InsertsUp(put.tree, Front(st), put.newchild)
    BY <1>1, <1>3, RoomUp
  <2>2. put.newchild = NULL
    BY <1>3 DEF AddChild
  <2> QED  BY <2>1, <2>2
<1> QED  BY <1>2, <1>3

(* Between calls the size counted is of no account for the nodes.          *)
Counted(t, s) == [t EXCEPT !.size = s]

(* The size counted is no matter of shape.                                 *)
LEMMA RestingSize ==
  ASSUME NEW t, Resting(t), NEW s
  PROVE  Resting(Counted(t, s))
<1> DEFINE u == [t EXCEPT !.size = s]
<1>1. PICK A, L, V, R : Stands(t, A, L, V, R, {}) /\ Filled(t, A, NULL)
  BY DEF Resting
<1>2. IsTree(t) /\ A \subseteq NodeId
  BY <1>1, StandsFacts
<1>3. IsTree(u) /\ u.root = t.root /\ u.tail_leaf = t.tail_leaf
      /\ \A id \in NodeId : Same(u, t, id)
  BY <1>2, SizeEffect
<1> HIDE DEF u
<1>4. Stands(u, A, L, V, R, {}) /\ Filled(u, A, NULL)
  BY <1>1, <1>2, <1>3, StandsSame, FilledSame
<1>5. u.root = NULL => u.tail_leaf = NULL
  BY <1>3 DEF Resting
<1>6. Resting(u)
  BY <1>4, <1>5 DEF Resting
<1> QED  BY <1>6 DEF u, Counted

(* A second child.                                                         *)
LEMMA AfterOne ==
  ASSUME NEW a, NEW b
  PROVE  InsertAt(<<a>>, 2, b) = <<a, b>>
<1> DEFINE S == {a, b}
           s == <<a>>
           i == 2
           v == InsertAt(s, i, b)
<1>1. s \in Seq(S) /\ b \in S /\ Len(s) = 1 /\ s[1] = a
  OBVIOUS
<1> HIDE DEF S, s
<1>2. i \in 1..(Len(s) + 1)
  BY <1>1
<1> HIDE DEF i
<1>3. v \in Seq(S) /\ Len(v) = Len(s) + 1
  BY <1>1, <1>2, InsertedLen
<1>4. \A j \in 1..(Len(s) + 1) : v[j] = IF j < i THEN s[j] ELSE IF j = i THEN b ELSE s[j - 1]
  BY <1>1, <1>2, InsertedPlaces
<1> HIDE DEF v
<1>5. v[1] = a /\ v[2] = b /\ Len(v) = 2
  BY <1>1, <1>3, <1>4 DEF i
<1>6. v = <<a, b>>
  <2> DEFINE w == <<a, b>>
  <2>1. w \in Seq(S) /\ Len(w) = 2 /\ w[1] = a /\ w[2] = b
    BY DEF S
  <2> HIDE DEF w
  <2>2. \A j \in 1..Len(v) : v[j] = w[j]
    BY <1>5, <2>1
  <2>3. v = w
    BY <1>3, <1>5, <2>1, <2>2, SeqEqual
  <2> QED  BY <2>3 DEF w
<1> QED  BY <1>6 DEF v, s, i

(* An insertion that grows the tree by a level.                            *)
LEMMA RootGrown ==
  ASSUME NEW t, NEW child, child # NULL, InsertsUp(t, <<>>, child), NEW key \in Int,
         FreeIds(t) # {}
  PROVE  Resting(GrowRoot(t, key, child))
<1> DEFINE u   == GrowRoot(t, key, child)
           new == u.root
           old == t.root
<1>1. PICK A, L, V, R : /\ Grown(t, A, L, V, R, <<>>, child) /\ Filled(t, A, NULL)
                        /\ Sized(t, t.root)
  BY DEF InsertsUp
<1>2. /\ Stands(t, A, L, V, R, {NULL}) /\ child \in NodeId
      /\ V[NULL] = InsertAt(Tops(t), 2, child) /\ 1 \in 1..Len(Tops(t))
  BY <1>1 DEF Grown, Above, Place, Down, Kids
<1>3. /\ A \subseteq NodeId /\ L \in [NodeId -> Int] /\ IsTree(t) /\ NULL \notin A
      /\ V \in [Parents -> Seq(A)] /\ Family(A, L, V)
      /\ \A m \in A : t.node[m].level = L[m] /\ L[m] >= 0 /\ t.node[m] # Free
  BY <1>2, StandsFacts, NullApart
<1>4. old # NULL /\ Tops(t) = <<old>>
  BY <1>2 DEF Tops
<1>5. V[NULL] = <<old, child>>
  BY <1>2, <1>4, AfterOne
<1>6. old \in A /\ child \in A /\ old \in NodeId
  <2>1. V[NULL] \in Seq(A) /\ Len(V[NULL]) = 2
    BY <1>3, <1>5 DEF Parents
  <2>2. V[NULL][1] \in A /\ V[NULL][2] \in A
    BY <2>1
  <2> QED  BY <1>3, <1>5, <2>2
<1>7. L[old] = L[child] /\ Sets(V)[NULL] = {old, child} /\ L[old] \in Int /\ L[old] >= 0
  <2>1. Sets(V)[NULL] = ToSet(<<old, child>>)
    BY <1>5 DEF Sets, Parents
  <2>2. ToSet(<<old, child>>) = {old, child}
    BY DEF ToSet
  <2>3. \A c \in {old, child} : \A n \in A : L[n] <= L[c]
    <3> DEFINE C == Sets(V)
    <3>1. Kin(A, L, C) /\ C[NULL] = {old, child}
      BY <1>3, <2>1, <2>2 DEF Family
    <3> HIDE DEF C
    <3>2. \A c \in C[NULL] : \A n \in A : L[n] <= L[c]
      BY <3>1 DEF Kin
    <3> QED  BY <3>1, <3>2
  <2>4. L[old] <= L[child] /\ L[child] <= L[old]
    BY <1>6, <2>3
  <2>5. L[old] \in Int /\ L[child] \in Int /\ L[old] >= 0
    BY <1>3, <1>6
  <2> QED  BY <2>1, <2>2, <2>4, <2>5
<1>8. /\ IsTree(u) /\ new \in NodeId /\ t.node[new] = Free
      /\ Is(u.node[new], L[old] + 1, <<old, child>>)
      /\ slotuse(u.node[new]) = 1
      /\ \A id \in NodeId \ {new} : u.node[id] = t.node[id]
  <2>1. t.node[old].level = L[old]
    BY <1>3, <1>6
  <2> QED  BY <1>2, <1>3, <1>6, <2>1, GrowRootEffect
<1> HIDE DEF u
<1>9. \A id \in NodeId \ {new} : Same(u, t, id)
  BY <1>8 DEF Same, Alike
<1>10. new \notin A
  BY <1>3, <1>8
<1> DEFINE h == L[old] + 1
<1>11. h \in Nat /\ h # 0
  BY <1>7
<1>12. PICK B, M, W, T : Stands(u, B, M, W, T, {}) /\ B = A \cup {new}
  <2>1. Looks(u, new, GrowL(L, new, h), GrowR(R, new))
    BY <1>3, <1>8, <1>11 DEF Looks, GrowL, GrowR, Is
  <2>2. \A c \in Sets(V)[NULL] : h = L[c] + 1
    BY <1>7
  <2>3. V[NULL] # <<>>
    BY <1>5
  <2>4. Kids(u, new) = V[NULL] /\ Kids(u, NULL) = <<new>>
    BY <1>5, <1>8, NullApart DEF Kids, Tops, Is
  <2>5. {NULL} \ {NULL} \subseteq {}
    OBVIOUS
  <2> HIDE DEF h, new
  <2>6. Stands(u, A \cup {new}, GrowL(L, new, h), GrowV(V, new), GrowR(R, new), {})
    BY <1>2, <1>8, <1>9, <1>10, <1>11, <2>1, <2>2, <2>3, <2>4, <2>5, GrowStands
  <2> QED  BY <2>6
<1>13. Filled(u, B, NULL)
  <2> SUFFICES ASSUME NEW n \in B PROVE Fits(u, n, NULL)
    BY DEF Filled
  <2>1. CASE n = new
    <3>1. ~IsLeaf(u.node[n])
      BY <1>8, <1>11, <2>1 DEF Is, IsLeaf
    <3>2. Low(u, n) = 1 /\ SlotMax(u.node[n]) >= 2 /\ n # NULL /\ slotuse(u.node[n]) = 1
      BY <1>8, <2>1, <3>1, NullApart, BTreeAssumption DEF Low, SlotMax
    <3>3. SlotMax(u.node[n]) \in Nat
      BY MinMax
    <3> QED  BY <3>2, <3>3 DEF Fits
  <2>2. CASE n = old /\ n # new
    <3>1. Same(u, t, old) /\ slotuse(u.node[old]) \in Nat
      BY <1>6, <1>8, <1>9, <2>2, Sizes
    <3>2. Sized(u, old)
      BY <1>1, <3>1 DEF Sized, Same, Alike, SlotMin, SlotMax, IsLeaf
    <3> QED  BY <2>2, <3>1, <3>2, SizedFits
  <2>3. CASE n # old /\ n # new
    <3>1. n \in A /\ n \in NodeId /\ n # NULL /\ Same(u, t, n)
      BY <1>3, <1>9, <1>12, <2>3
    <3> QED  BY <1>1, <1>3, <2>3, <3>1, FitsMoved
  <2> QED  BY <2>1, <2>2, <2>3
<1>14. u.root # NULL
  BY <1>8, NullApart
<1> QED  BY <1>12, <1>13, <1>14 DEF Resting, u

(* insert_start() grows the tree if the root was split; then the call is   *)
(* over.                                                                   *)
LEMMA InsertEnds ==
  ASSUME NEW t, NEW child, InsertsUp(t, <<>>, child), NEW key,
         child # NULL => key \in Int /\ FreeIds(t) # {}
  PROVE  Resting(IF child # NULL THEN GrowRoot(t, key, child) ELSE t)
<1>1. CASE child # NULL
  BY <1>1, RootGrown
<1>2. CASE child = NULL
  <2>1. PICK A, L, V, R : Grown(t, A, L, V, R, <<>>, NULL) /\ Filled(t, A, NULL)
    BY <1>2 DEF InsertsUp
  <2>2. Stands(t, A, L, V, R, {}) /\ 1 \in 1..Len(Tops(t))
    BY <2>1 DEF Grown, Above, Place, Down, Kids
  <2>3. t.root # NULL
    BY <2>2 DEF Tops
  <2>4. Resting(t)
    BY <2>1, <2>2, <2>3 DEF Resting
  <2> QED  BY <1>2, <2>4
<1> QED  BY <1>1, <1>2

(* The tree with its first leaf.                                           *)
FirstLeaf(t) ==
  LET new == Fresh(t)
  IN  [t EXCEPT !.node[new] = NewLeaf, !.root = new, !.head_leaf = new, !.tail_leaf = new]

(* insert_start() gives an empty tree a leaf.                              *)
LEMMA FirstLeafEffect ==
  ASSUME NEW t, IsTree(t), FreeIds(t) # {}
  PROVE  /\ IsTree(FirstLeaf(t)) /\ FirstLeaf(t).root \in NodeId
         /\ t.node[FirstLeaf(t).root] = Free
         /\ FirstLeaf(t).node[FirstLeaf(t).root] = NewLeaf
         /\ \A id \in NodeId \ {FirstLeaf(t).root} : FirstLeaf(t).node[id] = t.node[id]
<1> DEFINE u   == FirstLeaf(t)
           new == Fresh(t)
<1>1. new \in NodeId /\ t.node[new] = Free
  BY FreshFound
<1> HIDE DEF new
<1>2. u.node = [t.node EXCEPT ![new] = NewLeaf] /\ u.root = new
  BY DEF IsTree, FirstLeaf, new
<1>3. u = [f \in {"node", "root", "head_leaf", "tail_leaf", "size"} |-> u[f]]
  BY DEF IsTree, FirstLeaf
<1> HIDE DEF u
<1>4. t.node = [id \in NodeId |-> t.node[id]]
  BY DEF IsTree
<1>5. u.node = [id \in NodeId |-> u.node[id]]
  BY <1>1, <1>2, <1>4
<1>6. \A id \in NodeId : u.node[id] = IF id = new THEN NewLeaf ELSE t.node[id]
  BY <1>1, <1>2, <1>4
<1>7. \A id \in NodeId : IsNode(u.node[id])
  BY <1>6, NewLeafIs DEF IsTree
<1> QED  BY <1>1, <1>2, <1>3, <1>5, <1>6, <1>7 DEF IsTree, u

(* insert() into an empty tree.                                            *)
LEMMA InsertBegins ==
  ASSUME NEW t, Resting(t), t.root = NULL, FreeIds(t) # {}
  PROVE  InsertsDown(FirstLeaf(t), <<[n |-> FirstLeaf(t).root, slot |-> 0]>>)
<1> DEFINE u   == FirstLeaf(t)
           new == u.root
           g   == [n |-> new, slot |-> 0]
           h   == 0
<1>1. PICK A, L, V, R : Stands(t, A, L, V, R, {}) /\ Filled(t, A, NULL)
  BY DEF Resting
<1>2. /\ A \subseteq NodeId /\ IsTree(t) /\ Family(A, L, V) /\ V \in [Parents -> Seq(A)]
      /\ \A m \in A : t.node[m] # Free
  BY <1>1, StandsFacts
<1>3. /\ IsTree(u) /\ new \in NodeId /\ t.node[new] = Free /\ u.node[new] = NewLeaf
      /\ \A id \in NodeId \ {new} : u.node[id] = t.node[id]
  BY <1>2, FirstLeafEffect
<1> HIDE DEF u
<1>4. V[NULL] = <<>>
  <2>1. NULL \in (A \cup {NULL}) \ {}
    OBVIOUS
  <2> QED  BY <1>1, <2>1 DEF Stands, Kids, Tops
<1>5. Sets(V)[NULL] = {} /\ A = {}
  <2> DEFINE C == Sets(V)
  <2>1. C[NULL] = {}
    BY <1>4 DEF Sets, Parents, ToSet
  <2>2. Kin(A, L, C)
    BY <1>2 DEF Family
  <2> HIDE DEF C
  <2>3. A = {}
    BY <2>1, <2>2 DEF Kin
  <2> QED  BY <2>1, <2>3 DEF C
<1>6. new \notin A /\ new # NULL
  BY <1>2, <1>3, NullApart
<1>7. PICK B, M, W, T : Stands(u, B, M, W, T, {}) /\ B = A \cup {new}
  <2>1. Looks(u, new, GrowL(L, new, h), GrowR(R, new))
    <3>1. L \in [NodeId -> Int] /\ R \in [NodeId -> Parents]
      BY <1>1, StandsFacts
    <3>2. GrowL(L, new, h)[new] = 0 /\ GrowR(R, new)[new] = NULL
      BY <1>3, <3>1 DEF GrowL, GrowR
    <3>3. u.node[new].level = 0 /\ u.node[new].next_leaf = NULL
      BY <1>3 DEF NewLeaf, Free
    <3> QED  BY <3>2, <3>3 DEF Looks
  <2>2. \A c \in Sets(V)[NULL] : h = L[c] + 1
    BY <1>5
  <2>3. h \in Nat /\ (h = 0 <=> V[NULL] = <<>>)
    BY <1>4
  <2>4. Kids(u, new) = V[NULL] /\ Kids(u, NULL) = <<new>>
    BY <1>3, <1>4, <1>6, NewLeafIs DEF Kids, Tops
  <2>5. {} \ {NULL} \subseteq {}
    OBVIOUS
  <2>6. \A id \in NodeId \ {new} : Same(u, t, id)
    BY <1>3 DEF Same, Alike
  <2> HIDE DEF h, new
  <2>7. Stands(u, A \cup {new}, GrowL(L, new, h), GrowV(V, new), GrowR(R, new), {})
    BY <1>1, <1>3, <1>6, <2>1, <2>2, <2>3, <2>4, <2>5, <2>6, GrowStands
  <2> QED  BY <2>7
<1>8. slotuse(u.node[new]) = 0 /\ IsLeaf(u.node[new])
  BY <1>3, NewLeafIs DEF slotuse, IsLeaf, NewLeaf, Free
<1>9. Filled(u, B, new)
  <2> SUFFICES Fits(u, new, new)
    BY <1>5, <1>7 DEF Filled
  <2>1. SlotMax(u.node[new]) \in Nat /\ Low(u, new) = 1
    BY MinMax DEF Low
  <2> QED  BY <1>8, <2>1 DEF Fits
<1>10. {"n", "slot"} \subseteq DOMAIN g /\ g.n = new /\ g.slot = 0
  OBVIOUS
<1>11. Last(<<g>>) = g /\ <<g>> # <<>>
  BY DEF Last
<1>12. TopLeaf(u, <<g>>) = new
  BY <1>8, <1>10, <1>11 DEF TopLeaf
<1> HIDE DEF g
<1>13. Path(u, B, M, <<g>>)
  BY <1>6, <1>7, <1>10, StartPath
<1>14. InsertsDown(u, <<g>>)
  BY <1>7, <1>9, <1>11, <1>12, <1>13 DEF InsertsDown
<1> QED  BY <1>14 DEF u, g

(* insert() into a tree with a root.                                       *)
LEMMA InsertGoesOn ==
  ASSUME NEW t, Resting(t), t.root # NULL
  PROVE  InsertsDown(t, <<[n |-> t.root, slot |-> 0]>>)
<1> DEFINE g == [n |-> t.root, slot |-> 0]
<1>1. PICK A, L, V, R : Stands(t, A, L, V, R, {}) /\ Filled(t, A, NULL)
  BY DEF Resting
<1>2. IsTree(t) /\ A \subseteq NodeId
  BY <1>1, StandsFacts
<1>3. {"n", "slot"} \subseteq DOMAIN g /\ g.n = t.root /\ g.slot = 0 /\ <<g>> # <<>>
  OBVIOUS
<1> HIDE DEF g
<1>4. Path(t, A, L, <<g>>)
  BY <1>1, <1>3, StartPath
<1>5. Filled(t, A, TopLeaf(t, <<g>>))
  BY <1>1, <1>2, FilledWeaker
<1>6. InsertsDown(t, <<g>>)
  BY <1>1, <1>3, <1>4, <1>5 DEF InsertsDown
<1> QED  BY <1>6 DEF g

(* insert_descend() goes on in a child.                                    *)
LEMMA InsertDescends ==
  ASSUME NEW t, NEW st, InsertsDown(t, st), ~IsLeaf(t.node[Last(st).n]), NEW k \in Int
  PROVE  LET slot == FindLower(t.node[Last(st).n], k)
         IN  InsertsDown(t, Into(st, [Last(st) EXCEPT !.slot = slot],
                                 [n |-> At(t.node[Last(st).n].childid, slot), slot |-> 0]))
<1> DEFINE slot == FindLower(t.node[Last(st).n], k)
           f  == [Last(st) EXCEPT !.slot = slot]
           g  == [n |-> At(t.node[Last(st).n].childid, slot), slot |-> 0]
           to == Into(st, f, g)
<1>1. PICK A, L, V, R : /\ Stands(t, A, L, V, R, {}) /\ Path(t, A, L, st)
                        /\ Filled(t, A, NULL) /\ st # <<>>
  BY DEF InsertsDown, TopLeaf
<1>2. IsTree(t) /\ A \subseteq NodeId /\ L \in [NodeId -> Int]
  BY <1>1, StandsFacts
<1>3. Meets(t, A, L, st)
  BY <1>1, <1>2, TopMeets
<1>4. slot \in 0..slotuse(t.node[Last(st).n])
  <2>1. Last(st).n \in NodeId
    BY <1>2, <1>3 DEF Meets
  <2>2. t.node[Last(st).n].slotkey \in Seq(Int)
    BY <1>2, <2>1 DEF IsTree, IsNode
  <2> QED  BY <2>2, FindLowerFound
<1>5. Path(t, A, L, to)
  <2> HIDE DEF slot
  <2>1. Path(t, A, L, Into(st, [Last(st) EXCEPT !.slot = slot],
                            [n |-> At(t.node[Last(st).n].childid, slot), slot |-> 0]))
    BY <1>1, <1>4, InsertInto
  <2> QED  BY <2>1
<1> HIDE DEF f, g
<1>6. to # <<>>
  <2>1. PICK S : st \in Seq(S)
    BY <1>1 DEF Path
  <2>2. Len(to) = Len(st) + 1 /\ Len(st) \in Nat \ {0}
    BY <1>1, <2>1, IntoIs
  <2> HIDE DEF to
  <2>3. Len(to) # 0
    BY <2>2
  <2> QED  BY <2>3
<1> HIDE DEF to
<1>7. Filled(t, A, TopLeaf(t, to))
  BY <1>1, <1>2, FilledWeaker
<1>8. InsertsDown(t, to)
  BY <1>1, <1>5, <1>6, <1>7 DEF InsertsDown
<1> QED  BY <1>8 DEF to, f, g

(* The node on top may change as it likes: the path leads to it.           *)
LEMMA TopOnly ==
  ASSUME NEW t, NEW A, A \subseteq NodeId, NEW L \in [NodeId -> Int], NEW st, st # <<>>,
         Path(t, A, L, st), Siblings(t, L, st), NEW n, n = Last(st).n,
         NEW u, u.root = t.root, \A id \in A \ {n} : Same(u, t, id)
  PROVE  Path(u, A, L, st) /\ Siblings(u, L, st)
<1>1. PICK S : st \in Seq(S)
  BY DEF Path
<1>2. /\ Len(st) \in Nat \ {0} /\ Len(Front(st)) = Len(st) - 1
      /\ \A i \in 1..(Len(st) - 1) : Front(st)[i] = st[i]
  BY <1>1, FrontIs
<1>3. \A i \in 1..(Len(st) - 1) : st[i].n \in A \ {n} /\ Same(u, t, st[i].n) /\ st[i].n # NULL
  <2> SUFFICES ASSUME NEW i \in 1..(Len(st) - 1) PROVE st[i].n \in A \ {n} /\ st[i].n # NULL
    OBVIOUS
  <2>1. Meets(t, A, L, st)
    BY TopMeets
  <2>2. st[i].n \in A /\ L[st[i].n] > L[n] /\ n \in A
    BY <1>2, <2>1 DEF Meets
  <2>3. L[n] \in Int
    BY <2>2
  <2> QED  BY <2>2, <2>3, NullApart
<1>4. \A i \in 0..(Len(st) - 1) : Kids(u, Above(st, i)) = Kids(t, Above(st, i))
  <2> SUFFICES ASSUME NEW i \in 0..(Len(st) - 1)
               PROVE  Kids(u, Above(st, i)) = Kids(t, Above(st, i))
    OBVIOUS
  <2>1. CASE i = 0
    BY <2>1 DEF Above, Kids, Tops
  <2>2. CASE i # 0
    <3>1. i \in 1..(Len(st) - 1)
      BY <1>2, <2>2
    <3> QED  BY <1>3, <2>2, <3>1 DEF Above, Kids, Same, Alike
  <2> QED  BY <2>1, <2>2
<1>5. \A i \in 1..Len(st) : i - 1 \in 0..(Len(st) - 1)
  BY <1>2
<1>6. Path(u, A, L, st)
  BY <1>1, <1>4, <1>5 DEF Path, Down
<1>7. Siblings(u, L, st)
  BY <1>3, SiblingsKept DEF Same, Alike
<1> QED  BY <1>6, <1>7

(* An erasing call starts at the root.                                     *)
LEMMA EraseBegins ==
  ASSUME NEW t, Resting(t), t.root # NULL
  PROVE  ErasesDown(t, <<RootArgs(t)>>)
<1> DEFINE g == RootArgs(t)
<1>1. PICK A, L, V, R : Stands(t, A, L, V, R, {}) /\ Filled(t, A, NULL)
  BY DEF Resting
<1>2. /\ {"n", "slot"} \subseteq DOMAIN g /\ g.n = t.root /\ g.slot = 0 /\ <<g>> # <<>>
      /\ Args \subseteq DOMAIN g /\ Alone(g) /\ <<g>>[1] = g /\ Len(<<g>>) = 1
  BY DEF RootArgs, Args, Alone
<1> HIDE DEF g
<1>3. Path(t, A, L, <<g>>)
  BY <1>1, <1>2, StartPath
<1>4. Siblings(t, L, <<g>>)
  BY <1>2 DEF Siblings
<1>5. ErasesDown(t, <<g>>)
  BY <1>1, <1>2, <1>3, <1>4 DEF ErasesDown
<1> QED  BY <1>5 DEF g

(* It goes on in a child.                                                  *)
LEMMA EraseDescends ==
  ASSUME NEW t, NEW st, ErasesDown(t, st), ~IsLeaf(t.node[Last(st).n]),
         NEW slot \in 0..slotuse(t.node[Last(st).n])
  PROVE  ErasesDown(t, Into(st, [Last(st) EXCEPT !.slot = slot], ChildArgs(t, Last(st), slot)))
<1> DEFINE to == Into(st, [Last(st) EXCEPT !.slot = slot], ChildArgs(t, Last(st), slot))
<1>1. PICK A, L, V, R : /\ Stands(t, A, L, V, R, {}) /\ Path(t, A, L, st) /\ Siblings(t, L, st)
                        /\ Filled(t, A, NULL) /\ st # <<>>
  BY DEF ErasesDown
<1>2. Path(t, A, L, to) /\ Siblings(t, L, to)
  BY <1>1, EraseIntoPath
<1>3. to # <<>>
  <2>1. PICK S : st \in Seq(S)
    BY <1>1 DEF Path
  <2>2. Len(to) = Len(st) + 1 /\ Len(st) \in Nat \ {0}
    BY <1>1, <2>1, IntoIs
  <2> HIDE DEF to
  <2>3. Len(to) # 0
    BY <2>2
  <2> QED  BY <2>3
<1> HIDE DEF to
<1>4. ErasesDown(t, to)
  BY <1>1, <1>2, <1>3 DEF ErasesDown
<1> QED  BY <1>4 DEF to

(* Nothing was found below: the activation on top gives up as well ...     *)
LEMMA EraseMisses ==
  ASSUME NEW t, NEW st, ErasesDown(t, st), NEW flags, "fixmerge" \notin flags
  PROVE  ErasesUp(t, Front(st), flags)
<1> DEFINE b == Front(st)
<1>1. PICK A, L, V, R : /\ Stands(t, A, L, V, R, {}) /\ Path(t, A, L, st) /\ Siblings(t, L, st)
                        /\ Filled(t, A, NULL) /\ st # <<>>
  BY DEF ErasesDown
<1>2. IsTree(t) /\ A \subseteq NodeId /\ L \in [NodeId -> Int]
  BY <1>1, StandsFacts
<1>3. Erases(t, A, L, V, R, st)
  BY <1>1, <1>2, FilledWeaker DEF Erases
<1>4. Meets(t, A, L, st)
  BY <1>1, <1>2, TopMeets
<1>5. \A i \in 1..Len(Front(st)) : Front(st)[i].n \in A /\ Same(t, t, Front(st)[i].n)
  BY <1>4 DEF Meets, Same, Alike
<1>6. Path(t, A, L, b) /\ Siblings(t, L, b) /\ Down(t, b, Len(b))
  BY <1>3, <1>5, BelowKept
<1>7. t.root # NULL
  BY <1>1, RootThere
<1> HIDE DEF b
<1>8. Climbs(t, A, L, V, R, b, flags)
  BY <1>1, <1>6 DEF Climbs, Shrunk
<1>9. ErasesUp(t, b, flags)
  BY <1>7, <1>8 DEF ErasesUp, Returned
<1> QED  BY <1>9 DEF b

(* ... or goes on in the child to the right.                               *)
LEMMA EraseMissed ==
  ASSUME NEW t, NEW st, NEW flags, ErasesUp(t, st, flags), "not_found" \in flags, st # <<>>
  PROVE  ErasesDown(t, st) /\ ~IsLeaf(t.node[Last(st).n]) /\ Last(st).slot \in Nat
         /\ slotuse(t.node[Last(st).n]) \in Nat
<1> DEFINE n == Last(st).n
<1>1. PICK A, L, V, R : Climbs(t, A, L, V, R, st, flags)
  BY DEF ErasesUp, Returned
<1>2. /\ Stands(t, A, L, V, R, {}) /\ Path(t, A, L, st) /\ Siblings(t, L, st)
      /\ Filled(t, A, NULL) /\ Down(t, st, Len(st))
  BY <1>1 DEF ErasesUp, Climbs, Shrunk
<1>3. A \subseteq NodeId /\ L \in [NodeId -> Int] /\ IsTree(t)
  BY <1>2, StandsFacts
<1>4. Meets(t, A, L, st)
  BY <1>2, <1>3, TopMeets
<1>5. n \in A /\ n \in NodeId /\ n # NULL /\ Last(st).slot \in Nat
  BY <1>3, <1>4, NullApart DEF Meets
<1>6. Len(st) # 0 /\ Last(st) = st[Len(st)]
  <2>1. PICK S : st \in Seq(S)
    BY <1>2 DEF Path
  <2> QED  BY <2>1, FrontIs
<1>7. t.node[n].childid # <<>>
  BY <1>2, <1>5, <1>6 DEF Down, Kids, Above, Place
<1>8. ~IsLeaf(t.node[n])
  <2>1. n \notin {}
    OBVIOUS
  <2>2. V[n] = t.node[n].childid
    BY <1>2, <1>5 DEF Stands, Kids
  <2>3. L[n] # 0 /\ t.node[n].level = L[n]
    BY <1>2, <1>5, <1>7, <2>2, StandsFacts
  <2> QED  BY <2>3 DEF IsLeaf
<1>9. slotuse(t.node[n]) \in Nat
  BY <1>3, <1>5, Sizes
<1> QED  BY <1>2, <1>5, <1>8, <1>9 DEF ErasesDown

(* It is over when the root was returned from.                             *)
LEMMA EraseEnds ==
  ASSUME NEW t, NEW flags, ErasesUp(t, <<>>, flags)
  PROVE  Resting(t)
<1>1. PICK A, L, V, R : Climbs(t, A, L, V, R, <<>>, flags)
  BY DEF ErasesUp, Returned
<1>2. Stands(t, A, L, V, R, {}) /\ Filled(t, A, NULL)
  BY <1>1 DEF Climbs, Shrunk, Gap
<1> QED  BY <1>2 DEF ErasesUp, Returned, Resting

(* What TellParent() needs of the activation on top.                       *)
LEMMA TopArgs ==
  ASSUME NEW t, NEW A, A \subseteq NodeId, NEW L \in [NodeId -> Int], NEW st, st # <<>>,
         Path(t, A, L, st), Siblings(t, L, st), NEW f, f = Last(st)
  PROVE  f.parent \in Parents /\ f.parentslot \in Nat
<1>1. PICK S : st \in Seq(S)
  BY DEF Path
<1>2. Len(st) \in Nat \ {0} /\ f = st[Len(st)]
  BY <1>1, FrontIs
<1>3. CASE Len(st) = 1
  BY <1>2, <1>3 DEF Siblings, Alone, Parents
<1>4. CASE Len(st) # 1
  <2> DEFINE i == Len(st)
  <2>1. i \in 1..Len(st) /\ i # 1 /\ i - 1 \in 1..Len(st)
    <3>1. i \in Nat /\ i # 0 /\ i # 1 /\ Len(st) = i
      BY <1>2, <1>4
    <3> HIDE DEF i
    <3>2. i \in 1..i /\ i - 1 \in 1..i
      BY <3>1
    <3> QED  BY <3>1, <3>2
  <2>2. Sides(t, L, st[i], st[i - 1])
    BY <2>1 DEF Siblings
  <2>3. st[i - 1].n \in A /\ st[i - 1].slot \in Nat
    BY <2>1 DEF Path
  <2>4. f.parent = st[i - 1].n /\ f.parentslot = st[i - 1].slot
    BY <1>2, <2>2 DEF Sides
  <2> QED  BY <2>3, <2>4 DEF Parents
<1> QED  BY <1>3, <1>4

(* The parent has taken a last key, or it has to be told further up.       *)
Told(told, t) ==
  /\ IsTree(told.tree) /\ told.tree.root = t.root /\ \A id \in NodeId : Same(told.tree, t, id)
  /\ told.flags \in {{}, {"update_lastkey"}}

(* Telling the parent, in the words of Told.                               *)
LEMMA TellSame ==
  ASSUME NEW t, IsTree(t), NEW f, f.parent \in Parents, f.parentslot \in Nat, NEW key \in Int
  PROVE  Told(TellParent(t, f, key), t)
<1>1. IsTree(TellParent(t, f, key).tree)
  BY TellEffect
<1>2. TellParent(t, f, key).tree.root = t.root
  BY TellEffect
<1>3. \A id \in NodeId : Same(TellParent(t, f, key).tree, t, id)
  BY TellEffect
<1>4. TellParent(t, f, key).flags \in {{}, {"update_lastkey"}}
  BY TellEffect
<1> QED  BY <1>1, <1>2, <1>3, <1>4 DEF Told

(* A key less in n, the node on top, and news of its last key perhaps:     *)
(* what follows is the repair.                                             *)
LEMMA LessReturned ==
  ASSUME NEW t, NEW A, A \subseteq NodeId, NEW L \in [NodeId -> Int], IsTree(t),
         NEW st, st # <<>>, Path(t, A, L, st), Siblings(t, L, st), Filled(t, A, NULL),
         NEW n, n = Last(st).n,
         NEW u, NEW V, NEW R, Stands(u, A, L, V, R, {}), u.root = t.root,
         u.node[n].level = t.node[n].level, slotuse(u.node[n]) = slotuse(t.node[n]) - 1,
         \A id \in A \ {n} : Same(u, t, id)
  PROVE  Erases(u, A, L, V, R, st)
<1>1. Path(u, A, L, st) /\ Siblings(u, L, st)
  BY TopOnly
<1>2. Meets(t, A, L, st)
  BY TopMeets
<1>3. n \in A /\ n \in NodeId /\ n # NULL
  BY <1>2, NullApart DEF Meets
<1>4. Fits(u, n, n)
  <2> DEFINE x == slotuse(t.node[n])
             y == SlotMax(t.node[n])
             z == Low(t, n)
  <2>1. x \in Nat /\ y \in Nat /\ z \in Nat
    BY <1>3, Sizes, MinMax DEF Low
  <2>2. x <= y /\ x >= z
    BY <1>3 DEF Filled, Fits
  <2>3. SlotMax(u.node[n]) = y /\ Low(u, n) = z /\ slotuse(u.node[n]) = x - 1
    BY DEF SlotMin, SlotMax, IsLeaf, Low
  <2> HIDE DEF x, y, z
  <2>4. x - 1 <= y /\ (x - 1) + 1 >= z
    BY <2>1, <2>2
  <2> QED  BY <2>3, <2>4 DEF Fits
<1>5. Filled(u, A, n)
  <2>1. \A m \in A : Fits(u, m, n) \/ (m \in A /\ Same(u, t, m) /\ (m = NULL => m = n))
    BY <1>3, <1>4, NullApart
  <2>2. NULL = NULL
    OBVIOUS
  <2> QED  BY <2>1, FilledKept
<1> QED  BY <1>1, <1>5 DEF Erases

(* An erasing activation does not notice a change that is none of shape.   *)
LEMMA SameErases ==
  ASSUME NEW t, NEW A, NEW L, NEW V, NEW R, NEW st, Erases(t, A, L, V, R, st),
         NEW u, IsTree(u), u.root = t.root, \A id \in NodeId : Same(u, t, id)
  PROVE  Erases(u, A, L, V, R, st)
<1>1. Stands(u, A, L, V, R, {})
  BY StandsSame DEF Erases
<1>2. A \subseteq NodeId /\ L \in [NodeId -> Int]
  BY <1>1, StandsFacts
<1>3. Filled(u, A, Last(st).n)
  BY <1>2, FilledSame DEF Erases
<1>4. \A id \in A \ {Last(st).n} : Same(u, t, id)
  BY <1>2
<1>5. Path(u, A, L, st) /\ Siblings(u, L, st)
  BY <1>2, <1>4, TopOnly DEF Erases
<1> QED  BY <1>1, <1>3, <1>5 DEF Erases

(* The leaf on top has the record.                                         *)
LEMMA EraseHits ==
  ASSUME NEW t, NEW st, ErasesDown(t, st), IsLeaf(t.node[Last(st).n]),
         NEW slot \in Nat, slot < slotuse(t.node[Last(st).n])
  PROVE  LET done == EraseFromLeaf(t, Last(st), slot)
         IN  /\ ErasesUp(done.tree, Front(st), done.flags)
             /\ "not_found" \notin done.flags
<1> DEFINE f    == Last(st)
           n    == f.n
           cut  == [t EXCEPT !.node[n] = Without(@, slot)]
           leaf == cut.node[n]
           last == slot = slotuse(leaf) /\ slotuse(leaf) >= 1
           told == IF last THEN TellParent(cut, f, LastKey(leaf))
                   ELSE [tree |-> cut, flags |-> {}]
           done == Repaired(told.tree, f, told.flags)
<1>1. PICK A, L, V, R : /\ Stands(t, A, L, V, R, {}) /\ Path(t, A, L, st) /\ Siblings(t, L, st)
                        /\ Filled(t, A, NULL) /\ st # <<>>
  BY DEF ErasesDown
<1>2. A \subseteq NodeId /\ L \in [NodeId -> Int] /\ IsTree(t)
  BY <1>1, StandsFacts
<1>3. Meets(t, A, L, st)
  BY <1>1, <1>2, TopMeets
<1>4. n \in A /\ n \in NodeId /\ t.node[n].level = 0
  BY <1>2, <1>3 DEF Meets, IsLeaf
<1>5. slot \in 0..(slotuse(t.node[n]) - 1)
  <2>1. slotuse(t.node[n]) \in Nat
    BY <1>2, <1>4, Sizes
  <2> QED  BY <2>1
<1>6. /\ IsTree(cut) /\ cut.root = t.root
      /\ cut.node[n].level = t.node[n].level /\ cut.node[n].childid = t.node[n].childid
      /\ cut.node[n].next_leaf = t.node[n].next_leaf
      /\ slotuse(cut.node[n]) = slotuse(t.node[n]) - 1
      /\ \A id \in NodeId \ {n} : cut.node[id] = t.node[id]
  <2> HIDE DEF n
  <2> QED  BY <1>2, <1>4, <1>5, WithoutEffect
<1> HIDE DEF cut
<1>7. \A id \in NodeId \ {n} : Same(cut, t, id)
  BY <1>6 DEF Same, Alike
<1>8. Stands(cut, A, L, V, R, {})
  BY <1>1, <1>4, <1>6, <1>7, LeafStands
<1>9. Erases(cut, A, L, V, R, st)
  <2>1. \A id \in A \ {n} : Same(cut, t, id)
    BY <1>2, <1>7
  <2> QED  BY <1>1, <1>2, <1>6, <1>8, <2>1, LessReturned
<1>10. Erases(told.tree, A, L, V, R, st) /\ told.flags \in {{}, {"update_lastkey"}}
  <2>1. CASE ~last
    BY <1>9, <2>1
  <2>2. CASE last
    <3>1. LastKey(leaf) \in Int
      <4>1. leaf.slotkey \in Seq(Int) /\ Len(leaf.slotkey) >= 1
        BY <1>4, <1>6, <2>2 DEF IsTree, IsNode, slotuse
      <4> HIDE DEF leaf
      <4> QED  BY <4>1 DEF LastKey, At, slotuse
    <3>2. Told(TellParent(cut, f, LastKey(leaf)), cut)
      <4>1. f.parent \in Parents /\ f.parentslot \in Nat
        BY <1>1, <1>2, TopArgs
      <4> HIDE DEF leaf, f
      <4> QED  BY <1>6, <3>1, <4>1, TellSame
    <3>3. Told(told, cut)
      BY <2>2, <3>2
    <3> HIDE DEF told
    <3>4. Erases(told.tree, A, L, V, R, st)
      BY <1>9, <3>3, SameErases DEF Told
    <3> QED  BY <3>3, <3>4 DEF Told
  <2> QED  BY <2>1, <2>2
<1> HIDE DEF told
<1>11. Returned(done.tree, Front(st), done.flags) /\ "not_found" \notin done.flags
  BY <1>10, RepairedReturned
<1> HIDE DEF done
<1>12. ErasesUp(done.tree, Front(st), done.flags) /\ "not_found" \notin done.flags
  BY <1>11 DEF ErasesUp
<1>13. EraseFromLeaf(t, Last(st), slot) = done
  BY DEF EraseFromLeaf, done, told, cut
<1> QED  BY <1>12, <1>13

(* Back in an activation below which nothing was merged.                   *)
LEMMA ClimbsPlain ==
  ASSUME NEW t, NEW A, NEW L, NEW V, NEW R, NEW st, st # <<>>,
         Path(t, A, L, st), Siblings(t, L, st), Filled(t, A, NULL), Stands(t, A, L, V, R, {}),
         NEW n, n = Last(st).n
  PROVE  /\ Erases(t, A, L, V, R, st)
         /\ \A i, d : Erases(NewWeight(t, n, i, d), A, L, V, R, st)
<1>1. A \subseteq NodeId /\ L \in [NodeId -> Int] /\ IsTree(t)
  BY StandsFacts
<1>2. Filled(t, A, n)
  BY <1>1, FilledWeaker
<1>3. Erases(t, A, L, V, R, st)
  BY <1>2 DEF Erases
<1>4. Meets(t, A, L, st)
  BY <1>1, TopMeets
<1>5. n \in A /\ n \in NodeId /\ n # NULL
  BY <1>1, <1>4, NullApart DEF Meets
<1>6. slotuse(t.node[n]) >= 1
  BY <1>1, <1>5, SomeKeys
<1>7. ASSUME NEW i, NEW d
      PROVE  Erases(NewWeight(t, n, i, d), A, L, V, R, st)
  BY <1>1, <1>3, <1>5, <1>6, NewWeightEffect, SameErases
<1> QED  BY <1>3, <1>7

(* Back in an activation below which child k was emptied.                  *)
LEMMA ClimbsMerged ==
  ASSUME NEW t, NEW A, NEW L, NEW V, NEW R, NEW st, st # <<>>,
         Path(t, A, L, st), Siblings(t, L, st), Filled(t, A, NULL),
         NEW k \in Nat, Gap(t, A, V, st, k), NEW n, n = Last(st).n,
         NEW e, e = t.node[n].childid[k], Stands(t, A, L, V, R, {n, e})
  PROVE  Erases(FixMerge(t, n, Last(st).slot), A, L, V, R, st)
<1> DEFINE c    == t.node[n].childid
           slot == Last(st).slot
           u    == FixMerge(t, n, slot)
<1>1. /\ A \subseteq NodeId /\ L \in [NodeId -> Int] /\ IsTree(t) /\ V \in [Parents -> Seq(A)]
      /\ \A m \in A : t.node[m].level = L[m] /\ (L[m] = 0 <=> V[m] = <<>>)
  BY StandsFacts
<1>2. Meets(t, A, L, st)
  BY <1>1, TopMeets
<1>3. n \in A /\ n \in NodeId /\ n # NULL /\ slot \in Nat
  BY <1>1, <1>2, NullApart DEF Meets
<1>4. c \in Seq(NodeId) /\ slotuse(t.node[n]) \in Nat /\ Len(c) \in Nat
  BY <1>1, <1>3, Sizes
<1>5. /\ k \in {slot + 1, slot + 2} /\ k >= 2 /\ k <= Len(c) /\ k \in 1..Len(c)
      /\ e \in NodeId \ A /\ slotuse(t.node[e]) = 0 /\ V[n] = RemoveAt(c, k)
  <2>1. k \in {slot + 1, slot + 2} /\ k \in 2..Len(c) /\ e \in NodeId \ A
        /\ slotuse(t.node[e]) = 0 /\ V[n] = RemoveAt(c, k)
    BY DEF Gap
  <2> HIDE DEF c, slot
  <2>2. k >= 2 /\ k <= Len(c) /\ k \in 1..Len(c)
    BY <1>4, <2>1
  <2> QED  BY <2>1, <2>2
<1>6. Len(V[n]) = Len(c) - 1 /\ V[n][k - 1] = c[k - 1] /\ k - 1 \in 1..Len(V[n])
  <2> HIDE DEF c
  <2>1. /\ Len(RemoveAt(c, k)) = Len(c) - 1
        /\ \A j \in 1..(Len(c) - 1) : RemoveAt(c, k)[j] = IF j < k THEN c[j] ELSE c[j + 1]
    BY <1>4, <1>5, Removed
  <2>2. k - 1 \in 1..(Len(c) - 1) /\ k - 1 < k
    BY <1>4, <1>5
  <2> QED  BY <1>5, <2>1, <2>2
<1>7. c[k - 1] \in A /\ slotuse(t.node[c[k - 1]]) \in Nat /\ slotuse(t.node[c[k - 1]]) >= 1
  <2>1. V[n] \in Seq(A)
    BY <1>1, <1>3 DEF Parents
  <2>2. V[n][k - 1] \in A
    BY <1>6, <2>1
  <2>3. c[k - 1] \in A /\ c[k - 1] \in NodeId /\ c[k - 1] # NULL
    BY <1>1, <1>6, <2>2, NullApart
  <2> HIDE DEF c
  <2> QED  BY <1>1, <2>3, SomeKeys
<1>8. L[n] # 0 /\ Len(c) = slotuse(t.node[n]) + 1
  <2>1. V[n] # <<>>
    BY <1>6
  <2> QED  BY <1>1, <1>3, <2>1 DEF Stands, Looks
<1>9. Emptied(t, n, slot, k)
  <2>1. e # n /\ c[k] = e
    BY <1>3, <1>5
  <2>3. k = slot + 2 => slotuse(t.node[c[slot + 1]]) # 0
    <3> SUFFICES ASSUME k = slot + 2 PROVE slotuse(t.node[c[slot + 1]]) # 0
      OBVIOUS
    <3> HIDE DEF c, slot
    <3>1. k - 1 = slot + 1
      BY <1>3
    <3>2. slotuse(t.node[c[k - 1]]) # 0
      BY <1>7
    <3> QED  BY <3>1, <3>2
  <2> QED  BY <1>5, <1>7, <1>8, <2>1, <2>3 DEF Emptied
<1>10. /\ IsTree(u) /\ u.root = t.root
       /\ Is(u.node[n], t.node[n].level, V[n])
       /\ slotuse(u.node[n]) = slotuse(t.node[n]) - 1
       /\ u.node[e] = Free
       /\ \A id \in NodeId \ {n, e} : u.node[id] = t.node[id]
  <2> HIDE DEF slot
  <2>1. IsTree(t) /\ n \in NodeId /\ slot \in Nat /\ k \in Nat /\ Emptied(t, n, slot, k)
    BY <1>1, <1>3, <1>9
  <2>2. IsTree(u) /\ u.root = t.root
    BY <2>1, FixMergeEffect
  <2>3. Is(u.node[n], t.node[n].level, RemoveAt(t.node[n].childid, k))
    BY <2>1, FixMergeEffect
  <2>4. slotuse(u.node[n]) = slotuse(t.node[n]) - 1
    BY <2>1, FixMergeEffect
  <2>5. u.node[t.node[n].childid[k]] = Free
    BY <2>1, FixMergeEffect
  <2>6. \A id \in NodeId \ {n, t.node[n].childid[k]} : u.node[id] = t.node[id]
    BY <2>1, FixMergeEffect
  <2> QED  BY <1>5, <2>2, <2>3, <2>4, <2>5, <2>6
<1> HIDE DEF u, c, slot
<1>11. Stands(u, A, L, V, R, {})
  <2> DEFINE D == {n, e}
  <2>1. D \subseteq NodeId /\ n \in D
    BY <1>3, <1>5
  <2>2. \A x \in D \ {n} : x \notin A /\ u.node[x] = Free
    BY <1>5, <1>10
  <2>3. \A id \in NodeId \ D : u.node[id] = t.node[id]
    BY <1>10
  <2>4. Stands(t, A, L, V, R, D)
    OBVIOUS
  <2> HIDE DEF D
  <2> QED  BY <1>3, <1>10, <2>1, <2>2, <2>3, <2>4, CatchUp
<1>12. \A id \in A \ {n} : Same(u, t, id)
  BY <1>1, <1>5, <1>10 DEF Same, Alike
<1>13. u.node[n].level = t.node[n].level
  BY <1>10 DEF Is
<1>14. Erases(u, A, L, V, R, st)
  BY <1>1, <1>10, <1>11, <1>12, <1>13, LessReturned
<1> QED  BY <1>14 DEF u, slot

(* An erasing activation takes over from the one it called.                *)
LEMMA EraseClimbs ==
  ASSUME NEW t, NEW st, NEW op, NEW r, ErasesUp(t, st, r.flags), "not_found" \notin r.flags,
         st # <<>>, r.key \in Int
  PROVE  LET done == EraseFromInner(t, Last(st), op, r)
         IN  /\ ErasesUp(done.tree, Front(st), done.flags)
             /\ "not_found" \notin done.flags
<1> DEFINE f     == Last(st)
           n     == f.n
           told  == IF "update_lastkey" \in r.flags THEN TellParent(t, f, r.key)
                    ELSE [tree |-> t, flags |-> {}]
           a     == told.tree
           lost  == LoseWeight(a, n, f.slot, r.carry)
           fixed == IF "fixmerge" \in r.flags THEN FixMerge(a, n, f.slot)
                    ELSE IF op = "erase_one" /\ "shift" \in r.flags THEN a
                    ELSE lost
           done  == Repaired(fixed, f, told.flags)
<1>1. PICK A, L, V, R : Climbs(t, A, L, V, R, st, r.flags)
  BY DEF ErasesUp, Returned
<1>2. PICK D : Stands(t, A, L, V, R, D)
  BY <1>1 DEF Climbs, Shrunk
<1>3. A \subseteq NodeId /\ L \in [NodeId -> Int] /\ IsTree(t)
  BY <1>2, StandsFacts
<1>4. Path(t, A, L, st) /\ Siblings(t, L, st) /\ Filled(t, A, NULL)
  BY <1>1 DEF Climbs
<1>5. Meets(t, A, L, st)
  BY <1>3, <1>4, TopMeets
<1>6. n \in A /\ n \in NodeId
  BY <1>3, <1>5 DEF Meets
<1>7. Told(told, t)
  <2>1. f.parent \in Parents /\ f.parentslot \in Nat
    BY <1>3, <1>4, TopArgs
  <2> HIDE DEF f
  <2>2. Told(TellParent(t, f, r.key), t)
    BY <1>3, <2>1, TellSame
  <2>3. Told([tree |-> t, flags |-> {}], t)
    BY <1>3 DEF Told, Same, Alike
  <2> QED  BY <2>2, <2>3
<1> HIDE DEF told
<1>8. IsTree(a) /\ a.root = t.root /\ \A id \in NodeId : Same(a, t, id)
  BY <1>7 DEF Told
<1>9. Path(a, A, L, st) /\ Siblings(a, L, st) /\ Filled(a, A, NULL)
  <2>1. \A id \in A \ {n} : Same(a, t, id)
    BY <1>3, <1>8
  <2> HIDE DEF a
  <2> QED  BY <1>3, <1>4, <1>8, <2>1, TopOnly, FilledSame
<1>10. Erases(fixed, A, L, V, R, st)
  <2>1. CASE "fixmerge" \in r.flags
    <3>1. PICK k \in Nat : /\ Gap(t, A, V, st, k)
                           /\ Stands(t, A, L, V, R, {n, t.node[n].childid[k]})
      BY <1>1, <2>1 DEF Climbs, Shrunk
    <3> DEFINE e == a.node[n].childid[k]
    <3>2. a.node[n].childid = t.node[n].childid
      BY <1>6, <1>8 DEF Same, Alike
    <3>3. Gap(a, A, V, st, k)
      <4>1. t.node[n].childid[k] \in NodeId
        BY <3>1 DEF Gap
      <4>2. slotuse(a.node[t.node[n].childid[k]]) = slotuse(t.node[t.node[n].childid[k]])
        BY <1>8, <4>1 DEF Same, Alike
      <4> QED  BY <3>1, <3>2, <4>2 DEF Gap
    <3>4. Stands(a, A, L, V, R, {n, e})
      BY <1>8, <3>1, <3>2, StandsSame
    <3>5. e = a.node[n].childid[k] /\ n = Last(st).n
      OBVIOUS
    <3> HIDE DEF e, n, a
    <3>6. Erases(FixMerge(a, n, Last(st).slot), A, L, V, R, st)
      BY <1>9, <3>3, <3>4, <3>5, ClimbsMerged
    <3> QED  BY <2>1, <3>6
  <2>2. CASE "fixmerge" \notin r.flags
    <3>1. Stands(t, A, L, V, R, {})
      BY <1>1, <2>2 DEF Climbs, Shrunk
    <3>2. Stands(a, A, L, V, R, {})
      BY <1>8, <3>1, StandsSame
    <3>3. n = Last(st).n
      OBVIOUS
    <3>4. lost = NewWeight(a, n, f.slot + 1, a.node[n].weight[f.slot + 1] - r.carry)
      BY DEF LoseWeight, NewWeight
    <3> HIDE DEF n, a, lost
    <3>5. /\ Erases(a, A, L, V, R, st)
          /\ \A i, d : Erases(NewWeight(a, n, i, d), A, L, V, R, st)
      BY <1>9, <3>2, <3>3, ClimbsPlain
    <3> QED  BY <2>2, <3>4, <3>5
  <2> QED  BY <2>1, <2>2
<1> HIDE DEF fixed
<1>11. Returned(done.tree, Front(st), done.flags) /\ "not_found" \notin done.flags
  <2>1. told.flags \in {{}, {"update_lastkey"}}
    BY <1>7 DEF Told
  <2> QED  BY <1>10, <2>1, RepairedReturned
<1> HIDE DEF done
<1>12. ErasesUp(done.tree, Front(st), done.flags) /\ "not_found" \notin done.flags
  BY <1>11 DEF ErasesUp
<1>13. EraseFromInner(t, Last(st), op, r) = done
  BY DEF EraseFromInner, done, fixed, told
<1> QED  BY <1>12, <1>13

(* Appending is inserting at the end.                                      *)
LEMMA AppendedIs ==
  ASSUME NEW S, NEW s \in Seq(S), NEW e \in S
  PROVE  /\ InsertAt(s, Len(s) + 1, e) = Append(s, e)
         /\ Append(s, e) \in Seq(S) /\ Len(Append(s, e)) = Len(s) + 1
         /\ Last(Append(s, e)) = e /\ Append(s, e) # <<>>
         /\ ToSet(Append(s, e)) = ToSet(s) \cup {e}
<1> DEFINE i == Len(s) + 1
           v == InsertAt(s, i, e)
           w == Append(s, e)
<1>1. i \in 1..(Len(s) + 1) /\ Len(s) \in Nat /\ i = Len(s) + 1
  OBVIOUS
<1>2. w \in Seq(S) /\ Len(w) = Len(s) + 1 /\ w[Len(s) + 1] = e
      /\ \A j \in 1..Len(s) : w[j] = s[j]
  OBVIOUS
<1> HIDE DEF i, w
<1>3. v \in Seq(S) /\ Len(v) = Len(s) + 1
  BY <1>1, InsertedLen
<1>4. \A j \in 1..(Len(s) + 1) : v[j] = IF j < i THEN s[j] ELSE IF j = i THEN e ELSE s[j - 1]
  BY <1>1, InsertedPlaces
<1> HIDE DEF v
<1>5. \A j \in 1..Len(v) : v[j] = w[j]
  BY <1>1, <1>2, <1>3, <1>4
<1>6. v = w
  BY <1>2, <1>3, <1>5, SeqEqual
<1>7. Last(w) = e /\ w # <<>>
  <2>1. Len(w) # 0
    BY <1>1, <1>2
  <2> QED  BY <1>2, <2>1 DEF Last
<1>8. ToSet(w) = ToSet(s) \cup {e}
  <2>1. \A S2, x : x \in ToSet(w) => \E j \in 1..Len(w) : w[j] = x
    BY <1>2 DEF ToSet
  <2>2. \A j \in 1..Len(w) : w[j] \in ToSet(w)
    BY <1>2 DEF ToSet
  <2>3. \A j \in 1..Len(s) : s[j] \in ToSet(s)
    BY DEF ToSet
  <2>4. \A x : x \in ToSet(s) => \E j \in 1..Len(s) : s[j] = x
    BY DEF ToSet
  <2>5. ASSUME NEW x \in ToSet(w) PROVE x \in ToSet(s) \cup {e}
    BY <1>1, <1>2, <2>1, <2>3
  <2>6. ASSUME NEW x \in ToSet(s) PROVE x \in ToSet(w)
    BY <1>1, <1>2, <2>2, <2>4
  <2>7. e \in ToSet(w)
    BY <1>1, <1>2, <2>2
  <2> QED  BY <2>5, <2>6, <2>7
<1> QED  BY <1>2, <1>6, <1>7, <1>8 DEF v, w, i

(* The tree while bulk_load() is at a level: the nodes `done` of the level *)
(* and the nodes `below` of the level under it that have no parent yet.    *)
(* The last of `done` stands in for their parent.                          *)
Open(level, done) == IF level # 0 /\ done # <<>> THEN {Last(done)} ELSE {}
Loading(t, A, L, V, R, level, below, done) ==
  /\ Stands(t, A, L, V, R, {NULL} \cup Open(level, done))
  /\ level \in Nat /\ below \in Seq(NodeId) /\ done \in Seq(NodeId)
  /\ level = 0 => below = <<>>
  /\ V[NULL] = IF done = <<>> THEN below ELSE done
  /\ \A n \in Open(level, done) : V[n] = t.node[n].childid \o below
  /\ \A c \in ToSet(V[NULL]) : L[c] = IF done = <<>> THEN level - 1 ELSE level
  /\ t.root = NULL
(* A new node with the children `mine`, to the right of those done.        *)
Makes(u, t, level, mine, done, new) ==
  /\ IsTree(u) /\ u.root = NULL /\ new \in NodeId /\ t.node[new] = Free
  /\ u.node[new].level = level /\ u.node[new].childid = mine
  /\ level # 0 => Len(mine) = slotuse(u.node[new]) + 1
  /\ level = 0 => u.node[new].next_leaf = NULL
  /\ IF level = 0 /\ done # <<>>
     THEN /\ \A id \in NodeId \ {new, Last(done)} : Same(u, t, id)
          /\ u.node[Last(done)] = [t.node[Last(done)] EXCEPT !.next_leaf = new]
     ELSE \A id \in NodeId \ {new} : Same(u, t, id)

Parts(level, below, mine, rest) ==
  /\ mine \in Seq(NodeId) /\ rest \in Seq(NodeId) /\ below = mine \o rest
  /\ level # 0 => mine # <<>>
MakesOne(u, A, level, rest, done, new) ==
  \E B, M, W, T : Loading(u, B, M, W, T, level, rest, Append(done, new)) /\ B = A \cup {new}

(* bulk_load() makes the first node of a level, which stands in for a      *)
(* parent of all the nodes below.                                          *)
LEMMA LoadFirst ==
  ASSUME NEW t, NEW A, NEW L, NEW V, NEW R, NEW level, NEW below, NEW done,
         Loading(t, A, L, V, R, level, below, done), done = <<>>,
         NEW mine, NEW rest, Parts(level, below, mine, rest),
         NEW u, NEW new, Makes(u, t, level, mine, done, new)
  PROVE  MakesOne(u, A, level, rest, done, new)
<1>0. /\ mine \in Seq(NodeId) /\ rest \in Seq(NodeId) /\ below = mine \o rest
      /\ level # 0 => mine # <<>>
  BY DEF Parts
<1> DEFINE M == GrowL(L, new, level)
           W == GrowV(V, new)
           T == GrowR(R, new)
           E == {NULL} \cup Open(level, <<new>>)
<1>1. /\ Stands(t, A, L, V, R, {NULL} \cup {}) /\ level \in Nat
      /\ V[NULL] = below /\ (level = 0 => below = <<>>) /\ t.root = NULL
      /\ \A c \in ToSet(V[NULL]) : L[c] = level - 1
  BY DEF Loading, Open
<1>2. /\ A \subseteq NodeId /\ L \in [NodeId -> Int] /\ R \in [NodeId -> Parents]
      /\ V \in [Parents -> Seq(A)] /\ \A m \in A : t.node[m] # Free
  <2> DEFINE D == {NULL} \cup {}
  <2>1. Stands(t, A, L, V, R, D)
    BY <1>1
  <2> HIDE DEF D
  <2> QED  BY <2>1, StandsFacts
<1>3. /\ IsTree(u) /\ u.root = NULL /\ new \in NodeId /\ t.node[new] = Free
      /\ u.node[new].level = level /\ u.node[new].childid = mine
      /\ level # 0 => Len(mine) = slotuse(u.node[new]) + 1
      /\ level = 0 => u.node[new].next_leaf = NULL
      /\ \A id \in NodeId \ {new} : Same(u, t, id)
  BY DEF Makes
<1>4. new \notin A /\ new # NULL
  BY <1>2, <1>3, NullApart
<1>5. Append(done, new) = <<new>> /\ <<new>> # <<>> /\ Last(<<new>>) = new
  BY DEF Last
<1>6. (level = 0 => mine = <<>> /\ rest = <<>>) /\ (level # 0 => below # <<>>)
  <2>1. (mine \o rest = <<>>) <=> (mine = <<>> /\ rest = <<>>)
    BY <1>0, ConcatFirstLast
  <2> QED  BY <1>0, <1>1, <2>1
<1>7. Stands(u, A \cup {new}, M, W, T, E)
  <2>1. Looks(u, new, M, T)
    <3>1. M[new] = level /\ T[new] = NULL
      BY <1>2, <1>3 DEF GrowL, GrowR
    <3> HIDE DEF M, T
    <3> QED  BY <1>3, <3>1 DEF Looks
  <2>2. \A c \in Sets(V)[NULL] : level = L[c] + 1
    <3>1. Sets(V)[NULL] = ToSet(V[NULL])
      BY DEF Sets, Parents
    <3>2. \A c \in ToSet(V[NULL]) : c \in A /\ L[c] \in Int
      BY <1>2 DEF ToSet, Parents
    <3>3. \A c \in ToSet(V[NULL]) : L[c] = level - 1
      BY <1>1
    <3>4. level \in Nat
      BY <1>1
    <3>5. ASSUME NEW c \in ToSet(V[NULL]) PROVE level = L[c] + 1
      <4>1. L[c] = level - 1
        BY <3>3
      <4> HIDE DEF M, W, T, E
      <4> QED  BY <3>4, <4>1
    <3> QED  BY <3>1, <3>5
  <2>3. level \in Nat /\ (level = 0 <=> V[NULL] = <<>>)
    BY <1>1, <1>6
  <2>4. ({NULL} \cup {}) \ {NULL} \subseteq E
    OBVIOUS
  <2>5. new \in E \/ Kids(u, new) = V[NULL]
    <3>1. CASE level = 0
      BY <1>1, <1>3, <1>4, <1>6, <3>1 DEF Kids
    <3>2. CASE level # 0
      BY <1>5, <3>2 DEF Open
    <3> QED  BY <3>1, <3>2
  <2>6. NULL \in E \/ Kids(u, NULL) = <<new>>
    OBVIOUS
  <2> HIDE DEF E
  <2>7. Stands(u, A \cup {new}, GrowL(L, new, level), GrowV(V, new), GrowR(R, new), E)
    BY <1>1, <1>3, <1>4, <2>1, <2>2, <2>3, <2>4, <2>5, <2>6, GrowStands
  <2> QED  BY <2>7
<1>8. W[NULL] = <<new>> /\ W[new] = below /\ M[new] = level
  BY <1>1, <1>2, <1>3, <1>4 DEF GrowV, GrowL, Parents
<1> HIDE DEF M, W, T
<1>9. \A n \in Open(level, <<new>>) : W[n] = u.node[n].childid \o rest
  BY <1>0, <1>3, <1>5, <1>8 DEF Open
<1>10. \A c \in ToSet(W[NULL]) : M[c] = level
  <2>1. ToSet(<<new>>) = {new}
    BY <1>3, One
  <2> QED  BY <1>8, <2>1
<1>11. <<new>> \in Seq(NodeId) /\ (level = 0 => rest = <<>>)
  BY <1>3, <1>6
<1>12. Loading(u, A \cup {new}, M, W, T, level, rest, <<new>>)
  BY <1>0, <1>1, <1>3, <1>5, <1>7, <1>8, <1>9, <1>10, <1>11 DEF Loading
<1> QED  BY <1>5, <1>12 DEF MakesOne

(* It makes the next one: the node that stood in passes on what it held    *)
(* for it.                                                                 *)
LEMMA LoadNext ==
  ASSUME NEW t, NEW A, NEW L, NEW V, NEW R, NEW level, NEW below, NEW done,
         Loading(t, A, L, V, R, level, below, done), done # <<>>,
         NEW mine, NEW rest, Parts(level, below, mine, rest),
         NEW u, NEW new, Makes(u, t, level, mine, done, new)
  PROVE  MakesOne(u, A, level, rest, done, new)
<1>0. /\ mine \in Seq(NodeId) /\ rest \in Seq(NodeId) /\ below = mine \o rest
      /\ level # 0 => mine # <<>>
  BY DEF Parts
<1> DEFINE n == Last(done)
           i == Len(done)
           p == t.node[n].childid
           E == {NULL} \cup Open(level, Append(done, new))
           D == {NULL} \cup Open(level, done)
           M == SplitL(L, n, new)
           W == SplitV(V, NULL, i, n, new, p, below)
           T == SplitR(R, n, new)
<1>1. /\ Stands(t, A, L, V, R, D) /\ level \in Nat
      /\ below \in Seq(NodeId) /\ done \in Seq(NodeId)
      /\ V[NULL] = done /\ (level = 0 => below = <<>>) /\ t.root = NULL
      /\ \A c \in ToSet(V[NULL]) : L[c] = level
      /\ level # 0 => V[n] = p \o below
  BY DEF Loading, Open
<1>2. /\ IsTree(t) /\ A \subseteq NodeId /\ L \in [NodeId -> Int] /\ R \in [NodeId -> Parents]
      /\ V \in [Parents -> Seq(A)]
      /\ \A m \in A : t.node[m] # Free /\ t.node[m].level = L[m]
      /\ \A m \in A : L[m] = 0 <=> V[m] = <<>>
  <2> HIDE DEF D
  <2> QED  BY <1>1, StandsFacts
<1>3. /\ IsTree(u) /\ u.root = NULL /\ new \in NodeId /\ t.node[new] = Free
      /\ u.node[new].level = level /\ u.node[new].childid = mine
      /\ level # 0 => Len(mine) = slotuse(u.node[new]) + 1
      /\ level = 0 => u.node[new].next_leaf = NULL
      /\ \A id \in NodeId \ {new, n} : Same(u, t, id)
      /\ level # 0 => Same(u, t, n) \/ n = new \/ n \notin NodeId
      /\ level = 0 => u.node[n] = [t.node[n] EXCEPT !.next_leaf = new]
  BY DEF Makes
<1>4. new \notin A /\ new # NULL
  BY <1>2, <1>3, NullApart
<1>5. /\ done \in Seq(A) /\ i \in Nat \ {0} /\ i \in 1..Len(V[NULL]) /\ n = V[NULL][i]
      /\ n \in A /\ n \in NodeId /\ n # new /\ n \in ToSet(V[NULL]) /\ n # NULL
  <2>1. done \in Seq(A)
    BY <1>1, <1>2 DEF Parents
  <2>2. i \in Nat \ {0} /\ i \in 1..Len(V[NULL]) /\ n = V[NULL][i]
    BY <1>1, <2>1 DEF Last
  <2>3. n \in A /\ n \in ToSet(V[NULL])
    BY <1>1, <2>1, <2>2 DEF ToSet
  <2> QED  BY <1>2, <1>4, <2>1, <2>2, <2>3, NullApart
<1>6. L[n] = level
  BY <1>1, <1>5
<1>7. (level = 0 => mine = <<>> /\ rest = <<>>) /\ (level # 0 => below # <<>>)
  <2>1. (mine \o rest = <<>>) <=> (mine = <<>> /\ rest = <<>>)
    BY <1>0, ConcatFirstLast
  <2> QED  BY <1>0, <1>1, <2>1
<1>8. IsNode(t.node[n]) /\ p \in Seq(NodeId) /\ Looks(t, n, L, R)
  BY <1>1, <1>2, <1>5 DEF IsTree, IsNode, Stands
<1>9. level = 0 => p = <<>>
  <2> SUFFICES ASSUME level = 0 PROVE p = <<>>
    OBVIOUS
  <2>1. n \notin D
    BY <1>5 DEF Open
  <2>2. n \in (A \cup {NULL}) \ D
    BY <1>5, <2>1
  <2> HIDE DEF D
  <2>3. V[n] = Kids(t, n)
    BY <1>1, <2>2 DEF Stands
  <2> QED  BY <1>2, <1>5, <1>6, <2>3 DEF Kids
<1>10. V[n] = p \o below /\ (p = <<>> <=> below = <<>>)
  <2>1. CASE level = 0
    <3>1. V[n] = <<>> /\ p = <<>> /\ below = <<>>
      BY <1>1, <1>2, <1>5, <1>6, <1>9, <2>1
    <3>2. p \o below = <<>>
      <4> HIDE DEF p
      <4> QED  BY <1>1, <1>8, <3>1, ConcatFirstLast
    <3> QED  BY <3>1, <3>2
  <2>2. CASE level # 0
    <3>1. Len(p) = slotuse(t.node[n]) + 1
      BY <1>6, <1>8, <2>2 DEF Looks
    <3>2. slotuse(t.node[n]) \in Nat
      BY <1>2, <1>5, Sizes
    <3>3. Len(p) # 0
      BY <3>1, <3>2
    <3> QED  BY <1>1, <1>7, <2>2, <3>3
  <2> QED  BY <2>1, <2>2
<1>11. p \in Seq(A) /\ below \in Seq(A)
  <2>1. V[n] \in Seq(A)
    BY <1>2, <1>5 DEF Parents
  <2> HIDE DEF p
  <2> QED  BY <1>1, <1>8, <1>10, <2>1, PartsIn
<1>12. level = 0 => R[n] = NULL
  <2>1. Forest(A, L, V, R)
    BY <1>1 DEF Stands
  <2> QED  BY <1>1, <2>1, ChainFacts
<1>13. /\ M[n] = level /\ M[new] = level /\ T[n] = new /\ T[new] = R[n]
       /\ \A c \in A : M[c] = L[c]
  <2>1. M = [L EXCEPT ![new] = L[n]] /\ T = [R EXCEPT ![n] = new, ![new] = R[n]]
    BY DEF SplitL, SplitR
  <2> HIDE DEF M, T, n
  <2> QED  BY <1>2, <1>3, <1>4, <1>5, <1>6, <2>1
<1>14. IsNode(u.node[n]) /\ u.node[n].childid = p /\ u.node[n].level = level
       /\ slotuse(u.node[n]) = slotuse(t.node[n]) /\ (level = 0 => u.node[n].next_leaf = new)
  <2>1. IsNode(u.node[n])
    BY <1>3, <1>5 DEF IsTree
  <2>2. t.node[n].level = level
    BY <1>2, <1>5, <1>6
  <2>3. CASE level = 0
    <3>1. u.node[n] = [t.node[n] EXCEPT !.next_leaf = new]
      BY <1>3, <2>3
    <3>2. t.node[n] = [f \in Fields |-> t.node[n][f]]
      BY <1>8 DEF IsNode
    <3>3. /\ u.node[n].childid = t.node[n].childid /\ u.node[n].level = t.node[n].level
          /\ u.node[n].slotkey = t.node[n].slotkey /\ u.node[n].next_leaf = new
      BY <3>1, <3>2 DEF Fields
    <3> QED  BY <2>1, <2>2, <3>3 DEF slotuse
  <2>4. CASE level # 0
    <3>1. Same(u, t, n)
      BY <1>3, <1>5, <2>4
    <3> QED  BY <2>1, <2>2, <2>4, <3>1 DEF Same, Alike
  <2> QED  BY <2>3, <2>4
<1>15. Looks(u, n, M, T) /\ Looks(u, new, M, T)
  <2>1. level # 0 => Len(p) = slotuse(t.node[n]) + 1
    BY <1>6, <1>8 DEF Looks
  <2> HIDE DEF M, T, p, n
  <2> QED  BY <1>3, <1>12, <1>13, <1>14, <2>1 DEF Looks
<1>16. /\ Append(done, new) \in Seq(NodeId) /\ Append(done, new) # <<>>
       /\ Last(Append(done, new)) = new
       /\ InsertAt(V[NULL], i + 1, new) = Append(done, new)
       /\ ToSet(Append(done, new)) = ToSet(done) \cup {new}
  <2>1. done \in Seq(NodeId) /\ V[NULL] = done /\ new \in NodeId
    BY <1>1, <1>3
  <2> QED  BY <2>1, AppendedIs
<1>17. Stands(u, A \cup {new}, M, W, T, E)
  <2>1. D \ {n} \subseteq E /\ NULL \in E
    BY DEF Open
  <2>2. new \in E \/ Kids(u, new) = below
    <3>1. CASE level = 0
      BY <1>1, <1>3, <1>4, <1>7, <3>1 DEF Kids
    <3>2. CASE level # 0
      BY <1>16, <3>2 DEF Open
    <3> QED  BY <3>1, <3>2
  <2>3. Kids(u, n) = p
    BY <1>5, <1>14 DEF Kids
  <2>4. NULL \in Parents
    BY DEF Parents
  <2> HIDE DEF E, D, n, p, i
  <2>5. Stands(u, A \cup {new}, SplitL(L, n, new), SplitV(V, NULL, i, n, new, p, below),
               SplitR(R, n, new), E)
    BY <1>1, <1>3, <1>4, <1>5, <1>10, <1>11, <1>15, <2>1, <2>2, <2>3, <2>4, SplitStands
  <2> QED  BY <2>5
<1>18. W[NULL] = Append(done, new) /\ W[new] = below
  <2>1. W = [V EXCEPT ![NULL] = InsertAt(V[NULL], i + 1, new), ![n] = p, ![new] = below]
    BY DEF SplitV
  <2> HIDE DEF W, n, p, i
  <2>2. W[NULL] = InsertAt(V[NULL], i + 1, new) /\ W[new] = below
    BY <1>2, <1>3, <1>4, <1>5, <2>1 DEF Parents
  <2> QED  BY <1>16, <2>2
<1> HIDE DEF M, W, T, n, p, i
<1>19. \A m \in Open(level, Append(done, new)) : W[m] = u.node[m].childid \o rest
  BY <1>0, <1>3, <1>16, <1>18 DEF Open
<1>20. \A c \in ToSet(W[NULL]) : M[c] = level
  <2>1. \A c \in ToSet(done) : c \in A
    BY <1>5 DEF ToSet
  <2> QED  BY <1>1, <1>13, <1>16, <1>18, <2>1
<1>21. Loading(u, A \cup {new}, M, W, T, level, rest, Append(done, new))
  BY <1>0, <1>1, <1>3, <1>7, <1>16, <1>17, <1>18, <1>19, <1>20 DEF Loading
<1> QED  BY <1>21 DEF MakesOne

(* The nodes bulk_load() has made, each with the greatest key below it.    *)
Made == [n : NodeId, maxkey : Int]
Names(s) == [i \in 1..Len(s) |-> s[i].n]

(* The nodes of a list of [n, maxkey].                                     *)
LEMMA NamesAre ==
  ASSUME NEW s \in Seq(Made)
  PROVE  /\ Names(s) \in Seq(NodeId) /\ Len(Names(s)) = Len(s)
         /\ Names(s) = <<>> <=> s = <<>>
         /\ s # <<>> => Last(s) \in Made /\ Last(Names(s)) = Last(s).n
<1> DEFINE v == Names(s)
<1>1. \A i \in 1..Len(s) : s[i] \in Made /\ s[i].n \in NodeId
  <2>1. \A i \in 1..Len(s) : s[i] \in Made
    OBVIOUS
  <2>2. \A m \in Made : m.n \in NodeId
    BY DEF Made
  <2> QED  BY <2>1, <2>2
<1>2. v = [i \in 1..Len(s) |-> s[i].n] /\ Len(s) \in Nat
  BY DEF Names
<1> HIDE DEF v
<1>3. v \in Seq(NodeId) /\ Len(v) = Len(s) /\ \A i \in 1..Len(s) : v[i] = s[i].n
  BY <1>1, <1>2
<1>4. v = <<>> <=> s = <<>>
  BY <1>3
<1>5. s # <<>> => Len(s) \in 1..Len(s)
  BY <1>2
<1>6. s # <<>> => Last(s) \in Made /\ Last(v) = Last(s).n
  BY <1>1, <1>3, <1>5 DEF Last
<1> QED  BY <1>3, <1>4, <1>6 DEF v

(* Cutting the list cuts the nodes.                                        *)
LEMMA NamesCut ==
  ASSUME NEW s \in Seq(Made), NEW i \in 0..Len(s)
  PROVE  Names(s) = Names(First(s, i)) \o Names(From(s, i))
<1> DEFINE p == First(s, i)
           q == From(s, i)
           a == Names(p)
           b == Names(q)
           v == Names(s)
<1>1. /\ p \in Seq(Made) /\ Len(p) = i /\ q \in Seq(Made) /\ Len(q) = Len(s) - i
      /\ \A j \in 1..i : p[j] = s[j]
      /\ \A j \in 1..(Len(s) - i) : q[j] = s[i + j]
  BY Halves
<1> HIDE DEF p, q
<1>2. a \in Seq(NodeId) /\ Len(a) = i /\ b \in Seq(NodeId) /\ Len(b) = Len(s) - i
      /\ v \in Seq(NodeId) /\ Len(v) = Len(s) /\ Len(s) \in Nat
  BY <1>1, NamesAre
<1>3. /\ \A j \in 1..i : a[j] = s[j].n
      /\ \A j \in 1..(Len(s) - i) : b[j] = s[i + j].n
      /\ \A j \in 1..Len(s) : v[j] = s[j].n
  BY <1>1 DEF Names
<1> HIDE DEF a, b, v
<1>4. a \o b \in Seq(NodeId) /\ Len(a \o b) = Len(v)
      /\ \A j \in 1..Len(v) : (a \o b)[j] = IF j <= i THEN a[j] ELSE b[j - i]
  BY <1>2
<1>5. \A j \in 1..Len(v) : (a \o b)[j] = v[j]
  <2> SUFFICES ASSUME NEW j \in 1..Len(v) PROVE (a \o b)[j] = v[j]
    OBVIOUS
  <2>1. CASE j <= i
    <3>1. j \in 1..i
      BY <1>2, <2>1
    <3>2. (a \o b)[j] = a[j] /\ v[j] = s[j].n
      BY <1>2, <1>3, <1>4, <2>1
    <3> QED  BY <1>3, <3>1, <3>2
  <2>2. CASE ~(j <= i)
    <3>1. j - i \in 1..(Len(s) - i) /\ i + (j - i) = j
      BY <1>2, <2>2
    <3>2. (a \o b)[j] = b[j - i] /\ v[j] = s[j].n
      BY <1>2, <1>3, <1>4, <2>2
    <3> QED  BY <1>3, <3>1, <3>2
  <2> QED  BY <2>1, <2>2
<1>6. v = a \o b
  BY <1>2, <1>4, <1>5, SeqEqual
<1> QED  BY <1>6 DEF v, a, b, p, q

(* Appending to it appends a node.                                         *)
LEMMA NamesMore ==
  ASSUME NEW s \in Seq(Made), NEW m \in Made
  PROVE  Names(Append(s, m)) = Append(Names(s), m.n) /\ Append(s, m) \in Seq(Made)
         /\ Len(Append(s, m)) = Len(s) + 1
<1> DEFINE w == Append(s, m)
           a == Names(w)
           b == Append(Names(s), m.n)
<1>1. w \in Seq(Made) /\ Len(w) = Len(s) + 1 /\ Len(s) \in Nat
      /\ w[Len(s) + 1] = m /\ \A j \in 1..Len(s) : w[j] = s[j]
  OBVIOUS
<1> HIDE DEF w
<1>2. a \in Seq(NodeId) /\ Len(a) = Len(s) + 1 /\ \A j \in 1..(Len(s) + 1) : a[j] = w[j].n
  BY <1>1, NamesAre DEF Names
<1>3. Names(s) \in Seq(NodeId) /\ Len(Names(s)) = Len(s) /\ m.n \in NodeId
  BY NamesAre DEF Made
<1>4. \A j \in 1..Len(s) : Names(s)[j] = s[j].n
  BY DEF Names
<1>5. b \in Seq(NodeId) /\ Len(b) = Len(s) + 1 /\ b[Len(s) + 1] = m.n
      /\ \A j \in 1..Len(s) : b[j] = s[j].n
  BY <1>1, <1>3, <1>4
<1> HIDE DEF a, b
<1>6. \A j \in 1..Len(a) : a[j] = b[j]
  <2> SUFFICES ASSUME NEW j \in 1..(Len(s) + 1) PROVE a[j] = b[j]
    BY <1>2
  <2>1. CASE j = Len(s) + 1
    BY <1>1, <1>2, <1>5, <2>1
  <2>2. CASE j # Len(s) + 1
    <3>1. j \in 1..Len(s)
      BY <1>1, <2>2
    <3> QED  BY <1>1, <1>2, <1>5, <3>1
  <2> QED  BY <2>1, <2>2
<1>7. a = b
  BY <1>2, <1>5, <1>6, SeqEqual
<1> QED  BY <1>1, <1>7 DEF a, b, w

(* The trees BulkLoadLeaf and BulkLoadInner leave.                         *)
LeafOf(t, items, num) ==
  [NewLeaf EXCEPT !.slotkey = First(items, num), !.weight = [i \in 1..num |-> 1],
                  !.prev_leaf = t.tail_leaf]
WithLeaf(t, leaf) ==
  LET new  == Fresh(t)
      tail == t.tail_leaf
  IN  [t EXCEPT !.node = [id \in NodeId |->
                            IF id = new THEN leaf
                            ELSE IF id = tail THEN [t.node[id] EXCEPT !.next_leaf = new]
                            ELSE t.node[id]],
                !.tail_leaf = new,
                !.head_leaf = IF tail = NULL THEN new ELSE @]
InnerOf(t, level, mine, num) ==
  [Free EXCEPT !.level = level,
               !.slotkey = [i \in 1..(num - 1) |-> mine[i].maxkey],
               !.childid = [i \in 1..num |-> mine[i].n],
               !.weight = [i \in 1..num |-> CalculateWeight(t.node[mine[i].n])]]
WithInner(t, inner) == [t EXCEPT !.node[Fresh(t)] = inner]

(* What bulk_load() builds as a leaf is one, linked behind the last.       *)
LEMMA LeafMade ==
  ASSUME NEW t, IsTree(t), t.root = NULL, FreeIds(t) # {},
         NEW items \in Seq(Int), NEW num \in 1..Len(items),
         NEW done \in Seq(NodeId),
         t.tail_leaf = IF done = <<>> THEN NULL ELSE Last(done),
         done # <<>> => Last(done) \in NodeId /\ t.node[Last(done)] # Free
  PROVE  LET leaf == LeafOf(t, items, num)
             u    == WithLeaf(t, leaf)
             new  == Fresh(t)
         IN  /\ Makes(u, t, 0, <<>>, done, new)
             /\ u.node[new].level = 0 /\ slotuse(u.node[new]) = num
             /\ u.tail_leaf = new /\ LastKey(leaf) \in Int
<1> DEFINE leaf == LeafOf(t, items, num)
           u    == WithLeaf(t, leaf)
           new  == Fresh(t)
           tail == t.tail_leaf
<1>1. new \in NodeId /\ t.node[new] = Free
  BY FreshFound
<1>2. First(items, num) \in Seq(Int) /\ Len(First(items, num)) = num /\ num \in Nat \ {0}
  BY Halves
<1>3. /\ leaf = [f \in Fields |-> leaf[f]] /\ leaf.level = 0 /\ leaf.childid = <<>>
      /\ leaf.slotkey = First(items, num) /\ leaf.next_leaf = NULL
  BY DEF LeafOf, NewLeaf, Free, Fields
<1> HIDE DEF leaf, new
<1>4. IsNode(leaf) /\ slotuse(leaf) = num /\ LastKey(leaf) \in Int
  <2>1. leaf.slotkey \in Seq(Int) /\ Len(leaf.slotkey) = num
    BY <1>2, <1>3
  <2>2. IsNode(leaf)
    <3>1. leaf.level = 0 /\ leaf.childid = <<>> /\ leaf.slotkey \in Seq(Int)
      BY <1>3, <2>1
    <3>2. leaf.level \in Int /\ leaf.childid \in Seq(NodeId)
      BY <3>1
    <3>3. leaf = [f \in Fields |-> leaf[f]]
      BY <1>3
    <3> QED  BY <3>1, <3>2, <3>3 DEF IsNode
  <2>3. (num - 1) + 1 \in 1..Len(leaf.slotkey)
    BY <1>2, <2>1
  <2>4. At(leaf.slotkey, num - 1) \in Int
    BY <2>1, <2>3 DEF At
  <2> QED  BY <2>1, <2>2, <2>4 DEF slotuse, LastKey
<1>5. /\ u.node = [id \in NodeId |->
                     IF id = new THEN leaf
                     ELSE IF id = tail THEN [t.node[id] EXCEPT !.next_leaf = new]
                     ELSE t.node[id]]
      /\ u.root = NULL /\ u.tail_leaf = new
      /\ u = [f \in {"node", "root", "head_leaf", "tail_leaf", "size"} |-> u[f]]
  BY DEF WithLeaf, IsTree, new
<1> HIDE DEF u
<1>6. u.node = [id \in NodeId |-> u.node[id]]
  BY <1>5
<1>7. u.node[new] = leaf
  BY <1>1, <1>5
<1>8. \A id \in NodeId : IsNode(t.node[id])
  BY DEF IsTree
<1>9. tail \in NodeId => /\ tail # new => u.node[tail] = [t.node[tail] EXCEPT !.next_leaf = new]
                         /\ IsNode([t.node[tail] EXCEPT !.next_leaf = new])
  <2> SUFFICES ASSUME tail \in NodeId
               PROVE  /\ tail # new => u.node[tail] = [t.node[tail] EXCEPT !.next_leaf = new]
                      /\ IsNode([t.node[tail] EXCEPT !.next_leaf = new])
    OBVIOUS
  <2> DEFINE o == t.node[tail]
             m == [o EXCEPT !.next_leaf = new]
  <2>1. IsNode(o)
    BY <1>8
  <2> HIDE DEF o
  <2>2. o = [f \in Fields |-> o[f]]
    BY <2>1 DEF IsNode
  <2>3. m = [f \in Fields |-> m[f]] /\ m.level = o.level /\ m.slotkey = o.slotkey
        /\ m.childid = o.childid
    BY <2>2 DEF Fields
  <2> HIDE DEF m
  <2>4. IsNode(m)
    BY <2>1, <2>3 DEF IsNode
  <2> QED  BY <1>5, <2>4 DEF m, o
<1>10. \A id \in NodeId \ {new} : id # tail => u.node[id] = t.node[id]
  BY <1>5
<1>11. IsTree(u)
  <2>1. ASSUME NEW id \in NodeId PROVE IsNode(u.node[id])
    <3>1. CASE id = new
      BY <1>4, <1>7, <3>1
    <3>2. CASE id # new /\ id = tail
      BY <1>9, <3>2
    <3>3. CASE id # new /\ id # tail
      BY <1>8, <1>10, <3>3
    <3> QED  BY <3>1, <3>2, <3>3
  <2> QED  BY <1>5, <1>6, <2>1 DEF IsTree
<1>12. ASSUME done = <<>> PROVE Makes(u, t, 0, <<>>, done, new)
  <2>1. \A id \in NodeId \ {new} : Same(u, t, id)
    BY <1>10, <1>12, NullApart DEF Same, Alike
  <2>2. Makes(u, t, 0, <<>>, done, new)
    BY <1>1, <1>3, <1>5, <1>7, <1>11, <1>12, <2>1 DEF Makes
  <2> QED  BY <2>2
<1>13. ASSUME done # <<>> PROVE Makes(u, t, 0, <<>>, done, new)
  <2>1. tail = Last(done) /\ tail \in NodeId /\ tail # new
    BY <1>1, <1>13
  <2>2. \A id \in NodeId \ {new, Last(done)} : Same(u, t, id)
    BY <1>10, <2>1 DEF Same, Alike
  <2>3. u.node[Last(done)] = [t.node[Last(done)] EXCEPT !.next_leaf = new]
    BY <1>9, <2>1
  <2>4. Makes(u, t, 0, <<>>, done, new)
    BY <1>1, <1>3, <1>5, <1>7, <1>11, <1>13, <2>2, <2>3 DEF Makes
  <2> QED  BY <2>4
<1>14. Makes(u, t, 0, <<>>, done, new)
  BY <1>12, <1>13
<1> QED  BY <1>3, <1>4, <1>5, <1>7, <1>14 DEF u, leaf, new

(* What it builds as an inner node is one, over its share of children.     *)
LEMMA InnerMade ==
  ASSUME NEW t, IsTree(t), t.root = NULL, FreeIds(t) # {}, NEW level \in Nat, level # 0,
         NEW mine \in Seq(Made), NEW num, num = Len(mine), mine # <<>>, NEW done
  PROVE  LET u   == WithInner(t, InnerOf(t, level, mine, num))
             new == Fresh(t)
         IN  /\ Makes(u, t, level, Names(mine), done, new)
             /\ u.node[new].level = level /\ slotuse(u.node[new]) + 1 = num
<1> DEFINE inner == InnerOf(t, level, mine, num)
           u     == WithInner(t, inner)
           new   == Fresh(t)
<1>1. new \in NodeId /\ t.node[new] = Free
  BY FreshFound
<1>2. /\ Names(mine) \in Seq(NodeId) /\ Len(Names(mine)) = num /\ num \in Nat \ {0}
      /\ Names(mine) = [i \in 1..num |-> mine[i].n]
  <2>1. Names(mine) \in Seq(NodeId) /\ Len(Names(mine)) = num
    BY NamesAre
  <2>2. Len(mine) \in Nat /\ Len(mine) # 0
    OBVIOUS
  <2> QED  BY <2>1, <2>2 DEF Names
<1>3. /\ inner = [f \in Fields |-> inner[f]] /\ inner.level = level
      /\ inner.childid = Names(mine)
      /\ inner.slotkey = [i \in 1..(num - 1) |-> mine[i].maxkey]
  BY <1>2 DEF InnerOf, Free, Fields
<1> HIDE DEF inner, new
<1>4. IsNode(inner) /\ slotuse(inner) + 1 = num
  <2>1. \A i \in 1..(num - 1) : mine[i].maxkey \in Int
    <3> SUFFICES ASSUME NEW i \in 1..(num - 1) PROVE mine[i].maxkey \in Int
      OBVIOUS
    <3>1. i \in 1..Len(mine)
      BY <1>2
    <3>2. mine[i] \in Made
      BY <3>1
    <3> QED  BY <3>2 DEF Made
  <2>2. num - 1 \in Nat
    BY <1>2
  <2>3. inner.slotkey \in Seq(Int) /\ Len(inner.slotkey) = num - 1
    BY <1>3, <2>1, <2>2
  <2>4. IsNode(inner)
    <3>1. inner.level \in Int /\ inner.childid \in Seq(NodeId)
      <4>1. inner.level = level /\ inner.childid = Names(mine)
        BY <1>3
      <4>2. Names(mine) \in Seq(NodeId)
        BY <1>2
      <4> QED  BY <4>1, <4>2
    <3>2. inner = [f \in Fields |-> inner[f]]
      BY <1>3
    <3> HIDE DEF inner
    <3> QED  BY <2>3, <3>1, <3>2 DEF IsNode
  <2> QED  BY <1>2, <2>3, <2>4 DEF slotuse
<1>5. u.node = [t.node EXCEPT ![new] = inner] /\ u.root = NULL
      /\ u = [f \in {"node", "root", "head_leaf", "tail_leaf", "size"} |-> u[f]]
  BY DEF WithInner, IsTree, new
<1> HIDE DEF u
<1>6. t.node = [id \in NodeId |-> t.node[id]] /\ \A id \in NodeId : IsNode(t.node[id])
  BY DEF IsTree
<1>7. u.node = [id \in NodeId |-> u.node[id]]
      /\ u.node[new] = inner /\ \A id \in NodeId \ {new} : u.node[id] = t.node[id]
  BY <1>1, <1>5, <1>6
<1>8. IsTree(u)
  <2>1. \A id \in NodeId : IsNode(u.node[id])
    BY <1>4, <1>6, <1>7
  <2> QED  BY <1>5, <1>7, <2>1 DEF IsTree
<1>9. \A id \in NodeId \ {new} : Same(u, t, id)
  BY <1>7 DEF Same, Alike
<1>10. Makes(u, t, level, Names(mine), done, new)
  <2>1. Len(Names(mine)) = slotuse(u.node[new]) + 1
    BY <1>2, <1>4, <1>7
  <2> QED  BY <1>1, <1>3, <1>5, <1>7, <1>8, <1>9, <2>1 DEF Makes
<1> QED  BY <1>3, <1>4, <1>7, <1>10 DEF u, new, inner

(* Division of whole numbers.                                              *)
LEMMA Quotient ==
  ASSUME NEW a \in Nat, NEW b \in Nat, b # 0
  PROVE  /\ a \div b \in Nat /\ a % b \in Nat /\ a % b < b
         /\ a = b * (a \div b) + (a % b)
  OBVIOUS

(* Among p parts of at least lo and at most hi each, N can be shared.      *)
Shareable(N, p, lo, hi) == p \in Nat \ {0} /\ N \in Nat /\ p * lo <= N /\ N <= p * hi

(* Multiplication keeps order.                                             *)
LEMMA Product ==
  ASSUME NEW p \in Nat, NEW a \in Nat, NEW b \in Nat, a <= b
  PROVE  p * a <= p * b /\ p * a \in Nat
  OBVIOUS

(* One share is within the bounds, and the rest can be shared out.         *)
LEMMA ShareOut ==
  ASSUME NEW N, NEW p, NEW lo \in Nat, NEW hi \in Nat, Shareable(N, p, lo, hi)
  PROVE  /\ N \div p \in lo..hi /\ N \div p <= N
         /\ p = 1 => N \div p = N
         /\ p > 1 => Shareable(N - N \div p, p - 1, lo, hi)
<1> DEFINE q == N \div p
           r == N % p
<1>1. p \in Nat \ {0} /\ N \in Nat /\ p * lo <= N /\ N <= p * hi
  BY DEF Shareable
<1>2. q \in Nat /\ r \in Nat /\ r < p /\ N = p * q + r
  BY <1>1, Quotient
<1> HIDE DEF q, r
<1>3. q >= lo
  <2> SUFFICES ASSUME q + 1 <= lo PROVE FALSE
    BY <1>2
  <2>1. p * (q + 1) <= p * lo
    BY <1>1, <1>2, Product
  <2>2. p * (q + 1) = p * q + p
    BY <1>1, <1>2
  <2>3. p * q \in Nat /\ p * lo \in Nat
    BY <1>1, <1>2
  <2> QED  BY <1>1, <1>2, <2>1, <2>2, <2>3
<1>4. q <= hi /\ (q = hi => r = 0)
  <2>1. p * q <= p * hi /\ p * q \in Nat /\ p * hi \in Nat
    BY <1>1, <1>2
  <2> QED  BY <1>1, <1>2, <2>1
<1>5. q <= N
  BY <1>1, <1>2
<1>6. p = 1 => q = N
  BY <1>1, <1>2
<1>7. ASSUME p > 1 PROVE Shareable(N - q, p - 1, lo, hi)
  <2>1. (p - 1) * q = p * q - q /\ (p - 1) * q + r = N - q
    BY <1>1, <1>2
  <2>2. (p - 1) * lo <= (p - 1) * q
    BY <1>1, <1>2, <1>3, <1>7
  <2>3. N - q <= (p - 1) * hi
    <3>1. CASE q = hi
      <4>1. (p - 1) * q = (p - 1) * hi
        BY <3>1
      <4>2. (p - 1) * q \in Int
        BY <1>1, <1>2
      <4> HIDE DEF r
      <4> QED  BY <1>1, <1>2, <1>4, <2>1, <3>1, <4>1, <4>2
    <3>2. CASE q + 1 <= hi
      <4>1. (p - 1) * (q + 1) <= (p - 1) * hi
        BY <1>1, <1>2, <1>7, <3>2, Product
      <4>2. (p - 1) * (q + 1) = (p - 1) * q + (p - 1)
        BY <1>1, <1>2
      <4> QED  BY <1>1, <1>2, <2>1, <4>1, <4>2
    <3> QED  BY <1>2, <1>4, <3>1, <3>2
  <2>4. p - 1 \in Nat \ {0} /\ N - q \in Nat
    BY <1>1, <1>2, <1>5, <1>7
  <2> QED  BY <1>1, <1>2, <2>1, <2>2, <2>3, <2>4 DEF Shareable
<1> QED  BY <1>1, <1>2, <1>3, <1>4, <1>5, <1>6, <1>7 DEF q

(* So can all, with as few parts as hold them.                             *)
LEMMA EvenShares ==
  ASSUME NEW N \in Nat, N >= 1, NEW lo \in Nat, NEW hi \in Nat, hi >= 1, 2 * lo <= hi + 1
  PROVE  LET p == SharedEvenly(N, hi)
         IN  /\ p \in Nat \ {0}
             /\ p = 1 => N <= hi
             /\ p # 1 => Shareable(N, p, lo, hi)
<1> DEFINE p == SharedEvenly(N, hi)
           a == N + hi - 1
           r == a % hi
<1>1. p \in Nat /\ r \in Nat /\ r < hi /\ a = hi * p + r
  <2>1. a \in Nat /\ hi # 0
    OBVIOUS
  <2> HIDE DEF a
  <2> QED  BY <2>1, Quotient DEF SharedEvenly, a
<1> HIDE DEF p, r
<1>2. N <= hi * p
  <2>1. hi * p \in Nat
    BY <1>1
  <2> QED  BY <1>1, <2>1
<1>3. p # 0
  BY <1>2
<1>4. hi * p + 1 <= N + hi
  <2>1. hi * p \in Nat
    BY <1>1
  <2> QED  BY <1>1, <2>1
<1>5. ASSUME p # 1 PROVE p * lo <= N
  <2> DEFINE x == p * lo
             y == p * hi
             z == p - 2
  <2>1. z \in Nat /\ p = z + 2 /\ hi - 1 \in Nat
    BY <1>1, <1>3, <1>5
  <2>2. 2 * x <= y + p
    <3>1. p * (2 * lo) <= p * (hi + 1)
      BY <1>1, Product
    <3>2. p * (2 * lo) = 2 * x /\ p * (hi + 1) = y + p
      BY <1>1
    <3> QED  BY <3>1, <3>2
  <2>3. z * (hi - 1) \in Nat /\ z * (hi - 1) = y - 2 * hi - z
    <3>1. p * hi = (z + 2) * hi
      BY <2>1
    <3>2. z * (hi - 1) \in Nat
      BY <2>1
    <3> HIDE DEF z
    <3>3. z * (hi - 1) = z * hi - z /\ (z + 2) * hi = z * hi + 2 * hi
      BY <2>1
    <3>4. z * hi \in Int /\ 2 * hi \in Int
      BY <2>1
    <3> QED  BY <2>1, <3>1, <3>2, <3>3, <3>4 DEF y
  <2>4. hi * p = y /\ x \in Nat /\ y \in Nat
    BY <1>1
  <2> HIDE DEF x, y
  <2>5. y - 2 * hi - z >= 0
    BY <2>3
  <2> HIDE DEF z
  <2> QED  BY <1>1, <1>4, <2>1, <2>2, <2>4, <2>5 DEF x
<1>6. p = 1 => N <= hi
  BY <1>2
<1>7. hi * p = p * hi
  BY <1>1
<1> QED  BY <1>1, <1>2, <1>3, <1>5, <1>6, <1>7 DEF p, Shareable

(* The sizes of the parts bulk_load() shares a level among.                *)
MinPart(level)  == IF level = 0 THEN LeafSlots \div 2 ELSE InnerSlots \div 2 + 1
MaxPart(level)  == IF level = 0 THEN LeafSlots ELSE InnerSlots + 1
OnlyPart(level) == IF level = 0 THEN 1 ELSE 2
Remain(level, N, parts, done) ==
  /\ parts \in Nat \ {0} /\ N \in Nat
  /\ IF done = <<>> /\ parts = 1 THEN N \in OnlyPart(level)..MaxPart(level)
     ELSE Shareable(N, parts, MinPart(level), MaxPart(level))

(* Half-full nodes can be combined or split within the bounds.             *)
LEMMA Bounds ==
  ASSUME NEW level \in Nat
  PROVE  /\ MinPart(level) \in Nat /\ MaxPart(level) \in Nat /\ OnlyPart(level) \in Nat
         /\ MinPart(level) >= OnlyPart(level) /\ OnlyPart(level) >= 1 /\ MaxPart(level) >= 1
         /\ 2 * MinPart(level) <= MaxPart(level) + 1
BY BTreeAssumption DEF MinPart, MaxPart, OnlyPart

(* The next part.                                                          *)
LEMMA NextPart ==
  ASSUME NEW level \in Nat, NEW N, NEW parts, NEW done, Remain(level, N, parts, done),
         NEW num, num = N \div parts
  PROVE  /\ num \in Nat \ {0} /\ num <= N /\ num <= MaxPart(level) /\ num >= OnlyPart(level)
         /\ parts = 1 => num = N
         /\ ~(done = <<>> /\ parts = 1) => num >= MinPart(level)
         /\ parts # 1 => \A more : more # <<>> => Remain(level, N - num, parts - 1, more)
<1> DEFINE lo == MinPart(level)
           hi == MaxPart(level)
           only == OnlyPart(level)
<1>1. /\ lo \in Nat /\ hi \in Nat /\ only \in Nat /\ lo >= only /\ only >= 1
  BY Bounds
<1>2. parts \in Nat \ {0} /\ N \in Nat
  BY DEF Remain
<1>3. parts = 1 => num = N
  BY <1>2
<1>4. CASE done = <<>> /\ parts = 1
  <2>1. N \in only..hi
    BY <1>4 DEF Remain
  <2> HIDE DEF lo, hi, only
  <2>2. num \in Nat \ {0} /\ num <= N /\ num <= hi /\ num >= only
    BY <1>1, <1>2, <1>3, <1>4, <2>1
  <2> QED  BY <1>3, <1>4, <2>2 DEF hi, only
<1>5. CASE ~(done = <<>> /\ parts = 1)
  <2>1. Shareable(N, parts, lo, hi)
    BY <1>5 DEF Remain
  <2> HIDE DEF lo, hi, only
  <2>2. /\ num \in lo..hi /\ num <= N
        /\ parts > 1 => Shareable(N - num, parts - 1, lo, hi)
    BY <1>1, <2>1, ShareOut
  <2>3. num \in Nat \ {0} /\ num <= hi /\ num >= only /\ num >= lo
    BY <1>1, <2>2
  <2>4. ASSUME parts # 1, NEW more, more # <<>> PROVE Remain(level, N - num, parts - 1, more)
    <3>1. parts > 1 /\ parts - 1 \in Nat \ {0} /\ N - num \in Nat
      BY <1>2, <2>2, <2>3, <2>4
    <3> QED  BY <2>2, <2>4, <3>1 DEF Remain, lo, hi
  <2> QED  BY <1>3, <2>2, <2>3, <2>4 DEF lo, hi, only
<1> QED  BY <1>4, <1>5

(* The parts of a level.                                                   *)
LEMMA FirstPart ==
  ASSUME NEW level \in Nat, NEW N \in Nat, N >= OnlyPart(level)
  PROVE  Remain(level, N, SharedEvenly(N, MaxPart(level)), <<>>)
<1> DEFINE lo == MinPart(level)
           hi == MaxPart(level)
           only == OnlyPart(level)
           p  == SharedEvenly(N, hi)
<1>1. /\ lo \in Nat /\ hi \in Nat /\ only \in Nat /\ only >= 1 /\ hi >= 1
      /\ 2 * lo <= hi + 1
  BY Bounds
<1>2. N >= only
  OBVIOUS
<1> HIDE DEF lo, hi, only
<1>3. N >= 1
  BY <1>1, <1>2
<1>4. /\ p \in Nat \ {0} /\ (p = 1 => N <= hi) /\ (p # 1 => Shareable(N, p, lo, hi))
  BY <1>1, <1>3, EvenShares
<1> HIDE DEF p
<1>5. p = 1 => N \in only..hi
  BY <1>1, <1>2, <1>4
<1>6. Remain(level, N, p, <<>>)
  BY <1>4, <1>5 DEF Remain, lo, hi, only
<1> QED  BY <1>6 DEF p, hi

(* What holds before and after each step of bulk_load().                   *)
Loads(t, level, N, parts, below, done) ==
  /\ Remain(level, N, parts, done)
  /\ IF level = 0 THEN t.tail_leaf = IF done = <<>> THEN NULL ELSE Last(done)
     ELSE N = Len(below)
  /\ \E A, L, V, R : Loading(t, A, L, V, R, level, below, done) /\ \A m \in A : Sized(t, m)

(* The sizes of the nodes made before, and of the new one.                 *)
LEMMA MakesSizes ==
  ASSUME NEW t, IsTree(t), NEW level, NEW mine, NEW done, NEW u, NEW new,
         Makes(u, t, level, mine, done, new), NEW A, A \subseteq NodeId, new \notin A,
         \A m \in A : Sized(t, m)
  PROVE  \A m \in A : Sized(u, m)
<1> SUFFICES ASSUME NEW m \in A PROVE Sized(u, m)
  OBVIOUS
<1>1. m \in NodeId /\ m # new /\ Sized(t, m)
  OBVIOUS
<1>2. slotuse(u.node[m]) = slotuse(t.node[m]) /\ u.node[m].level = t.node[m].level
  <2>1. CASE Same(u, t, m)
    BY <2>1 DEF Same, Alike
  <2>2. CASE m = Last(done) /\ u.node[m] = [t.node[m] EXCEPT !.next_leaf = new]
    <3>1. t.node[m] = [f \in Fields |-> t.node[m][f]]
      BY <1>1 DEF IsTree, IsNode
    <3>2. u.node[m].slotkey = t.node[m].slotkey /\ u.node[m].level = t.node[m].level
      BY <2>2, <3>1 DEF Fields
    <3> QED  BY <3>2 DEF slotuse
  <2>3. Same(u, t, m) \/ (m = Last(done) /\ u.node[m] = [t.node[m] EXCEPT !.next_leaf = new])
    BY <1>1 DEF Makes
  <2> QED  BY <2>1, <2>2, <2>3
<1> QED  BY <1>1, <1>2 DEF Sized, SlotMin, SlotMax, IsLeaf

(* The new node: how many keys it has.                                     *)
KeysIn(level, num) == IF level = 0 THEN num ELSE num - 1

(* A node with its share of a level is within the bounds.                  *)
LEMMA NewSized ==
  ASSUME NEW level \in Nat, NEW num \in Nat, num <= MaxPart(level), num >= MinPart(level),
         NEW u, NEW new, u.node[new].level = level, slotuse(u.node[new]) = KeysIn(level, num)
  PROVE  Sized(u, new)
<1> DEFINE x == slotuse(u.node[new])
<1>1. CASE level = 0
  <2>1. SlotMax(u.node[new]) = LeafSlots /\ SlotMin(u.node[new]) = LeafSlots \div 2 /\ x = num
    BY <1>1 DEF SlotMin, SlotMax, IsLeaf, KeysIn
  <2> QED  BY <1>1, <2>1 DEF Sized, MinPart, MaxPart
<1>2. CASE level # 0
  <2>1. SlotMax(u.node[new]) = InnerSlots /\ SlotMin(u.node[new]) = InnerSlots \div 2 /\ x = num - 1
    BY <1>2 DEF SlotMin, SlotMax, IsLeaf, KeysIn
  <2>2. InnerSlots \in Nat /\ InnerSlots \div 2 \in Nat
    BY BTreeAssumption
  <2>3. num <= InnerSlots + 1 /\ num >= InnerSlots \div 2 + 1
    BY <1>2 DEF MinPart, MaxPart
  <2> HIDE DEF x
  <2>4. x <= InnerSlots /\ InnerSlots \div 2 <= x
    BY <2>1, <2>2, <2>3
  <2> QED  BY <2>1, <2>4 DEF Sized, x
<1> QED  BY <1>1, <1>2

(* A node that is the only one of its level makes a root.                  *)
LEMMA NewRoot ==
  ASSUME NEW level \in Nat, NEW num \in Nat, num <= MaxPart(level), num >= OnlyPart(level),
         NEW u, NEW new, u.node[new].level = level, slotuse(u.node[new]) = KeysIn(level, num)
  PROVE  slotuse(u.node[new]) >= 1 /\ slotuse(u.node[new]) <= SlotMax(u.node[new])
<1> DEFINE x == slotuse(u.node[new])
<1>1. CASE level = 0
  <2>1. SlotMax(u.node[new]) = LeafSlots /\ x = num
    BY <1>1 DEF SlotMax, IsLeaf, KeysIn
  <2> QED  BY <1>1, <2>1 DEF OnlyPart, MaxPart
<1>2. CASE level # 0
  <2>1. SlotMax(u.node[new]) = InnerSlots /\ x = num - 1 /\ InnerSlots \in Nat
    BY <1>2, BTreeAssumption DEF SlotMax, IsLeaf, KeysIn
  <2>2. num <= InnerSlots + 1 /\ num >= 2
    BY <1>2 DEF OnlyPart, MaxPart
  <2> QED  BY <2>1, <2>2
<1> QED  BY <1>1, <1>2

(* One node of a level is made out of the first `num` of what is left.     *)
LoadsOne(u, t, level, N, parts, below, done, num, mine, rest, new) ==
  /\ Loads(t, level, N, parts, below, done) /\ num = N \div parts
  /\ mine \in Seq(NodeId) /\ rest \in Seq(NodeId) /\ below = mine \o rest
  /\ level # 0 => Len(mine) = num
  /\ Makes(u, t, level, mine, done, new)
  /\ slotuse(u.node[new]) = KeysIn(level, num)
  /\ level = 0 => u.tail_leaf = new

LoadedTo(u, level, parts, done, rest, new) ==
  \E A, B, M, W, T : /\ Loading(u, B, M, W, T, level, rest, Append(done, new)) /\ B = A \cup {new}
                     /\ A \subseteq NodeId /\ \A m \in A : Sized(u, m)
                     /\ ~(done = <<>> /\ parts = 1) => Sized(u, new)

(* After a new node bulk_load() is still at that level.                    *)
LEMMA LoadedOne ==
  ASSUME NEW u, NEW t, NEW level, NEW N, NEW parts, NEW below, NEW done, NEW num, NEW mine,
         NEW rest, NEW new, LoadsOne(u, t, level, N, parts, below, done, num, mine, rest, new)
  PROVE  LoadedTo(u, level, parts, done, rest, new)
<1>1. PICK A, L, V, R : Loading(t, A, L, V, R, level, below, done) /\ \A m \in A : Sized(t, m)
  BY DEF LoadsOne, Loads
<1>2. level \in Nat /\ Remain(level, N, parts, done) /\ num = N \div parts
      /\ mine \in Seq(NodeId) /\ rest \in Seq(NodeId) /\ below = mine \o rest
      /\ Makes(u, t, level, mine, done, new) /\ slotuse(u.node[new]) = KeysIn(level, num)
      /\ (level # 0 => Len(mine) = num)
  BY <1>1 DEF LoadsOne, Loads, Loading
<1>3. /\ num \in Nat \ {0} /\ num <= MaxPart(level)
      /\ ~(done = <<>> /\ parts = 1) => num >= MinPart(level)
  BY <1>2, NextPart
<1>4. level # 0 => mine # <<>>
  BY <1>2, <1>3
<1>5. PICK B, M, W, T : Loading(u, B, M, W, T, level, rest, Append(done, new)) /\ B = A \cup {new}
  <2>1. Loading(t, A, L, V, R, level, below, done)
    BY <1>1
  <2>2. Parts(level, below, mine, rest) /\ Makes(u, t, level, mine, done, new)
    BY <1>2, <1>4 DEF Parts
  <2>3. MakesOne(u, A, level, rest, done, new)
    BY <2>1, <2>2, LoadFirst, LoadNext
  <2> QED  BY <2>3 DEF MakesOne
<1>6. IsTree(t) /\ A \subseteq NodeId /\ \A m \in A : t.node[m] # Free
  <2> DEFINE D == {NULL} \cup Open(level, done)
  <2>1. Stands(t, A, L, V, R, D)
    BY <1>1 DEF Loading
  <2> HIDE DEF D
  <2> QED  BY <2>1, StandsFacts
<1>7. t.node[new] = Free /\ u.node[new].level = level
  BY <1>2 DEF Makes
<1>8. \A m \in A : Sized(u, m)
  BY <1>1, <1>2, <1>6, <1>7, MakesSizes
<1>9. ~(done = <<>> /\ parts = 1) => Sized(u, new)
  BY <1>2, <1>3, <1>7, NewSized
<1> QED  BY <1>5, <1>6, <1>8, <1>9 DEF LoadedTo

(* And goes on with the next part, if there is one.                        *)
LEMMA LoadGoesOn ==
  ASSUME NEW u, NEW t, NEW level, NEW N, NEW parts, NEW below, NEW done, NEW num, NEW mine,
         NEW rest, NEW new, LoadsOne(u, t, level, N, parts, below, done, num, mine, rest, new),
         parts > 1, new \in NodeId, done \in Seq(NodeId)
  PROVE  Loads(u, level, N - num, parts - 1, rest, Append(done, new))
<1> DEFINE more == Append(done, new)
<1>1. PICK A, B, M, W, T : /\ Loading(u, B, M, W, T, level, rest, more) /\ B = A \cup {new}
                           /\ \A m \in A : Sized(u, m)
                           /\ ~(done = <<>> /\ parts = 1) => Sized(u, new)
  <2>1. LoadedTo(u, level, parts, done, rest, new)
    BY LoadedOne
  <2> QED  BY <2>1 DEF LoadedTo
<1>2. \A m \in B : Sized(u, m)
  BY <1>1
<1>3. more # <<>> /\ Last(more) = new
  BY AppendedIs
<1> HIDE DEF more
<1>4. /\ Remain(level, N, parts, done) /\ num = N \div parts /\ level \in Nat
      /\ below = mine \o rest /\ mine \in Seq(NodeId) /\ rest \in Seq(NodeId)
      /\ level # 0 => Len(mine) = num /\ N = Len(below)
      /\ level = 0 => u.tail_leaf = new
  BY <1>1 DEF LoadsOne, Loads, Loading
<1>5. parts # 1
  OBVIOUS
<1>6. Remain(level, N - num, parts - 1, more)
  BY <1>3, <1>4, <1>5, NextPart
<1>7. level # 0 => N - num = Len(rest)
  BY <1>4
<1>8. IF level = 0 THEN u.tail_leaf = IF more = <<>> THEN NULL ELSE Last(more)
      ELSE N - num = Len(rest)
  BY <1>3, <1>4, <1>7
<1>9. Loads(u, level, N - num, parts - 1, rest, more)
  BY <1>1, <1>2, <1>6, <1>8 DEF Loads
<1> QED  BY <1>9 DEF more

(* The last part takes all that is left.                                   *)
LEMMA NothingLeft ==
  ASSUME NEW u, NEW t, NEW level, NEW N, NEW parts, NEW below, NEW done, NEW num, NEW mine,
         NEW rest, NEW new, LoadsOne(u, t, level, N, parts, below, done, num, mine, rest, new),
         parts = 1
  PROVE  rest = <<>>
<1>1. PICK A, L, V, R : Loading(t, A, L, V, R, level, below, done)
  BY DEF LoadsOne, Loads
<1>2. /\ Remain(level, N, parts, done) /\ num = N \div parts /\ level \in Nat
      /\ below = mine \o rest /\ mine \in Seq(NodeId) /\ rest \in Seq(NodeId)
      /\ level # 0 => Len(mine) = num /\ N = Len(below)
      /\ level = 0 => below = <<>>
  BY <1>1 DEF LoadsOne, Loads, Loading
<1>3. num = N
  BY <1>2, NextPart
<1>4. CASE level = 0
  BY <1>2, <1>4, ConcatFirstLast
<1>5. CASE level # 0
  <2>1. Len(below) = Len(mine) + Len(rest) /\ Len(rest) \in Nat /\ Len(mine) \in Nat
    BY <1>2
  <2>2. Len(rest) = 0
    BY <1>2, <1>3, <1>5, <2>1
  <2> QED  BY <1>2, <2>2
<1> QED  BY <1>4, <1>5

(* The level is complete: its nodes want parents.                          *)
LEMMA LoadLevelDone ==
  ASSUME NEW u, NEW t, NEW level, NEW N, NEW parts, NEW below, NEW done, NEW num, NEW mine,
         NEW rest, NEW new, LoadsOne(u, t, level, N, parts, below, done, num, mine, rest, new),
         parts = 1, new \in NodeId, done \in Seq(NodeId), done # <<>>
  PROVE  Loads(u, level + 1, Len(done) + 1, SharedEvenly(Len(done) + 1, InnerSlots + 1),
               Append(done, new), <<>>)
<1> DEFINE more == Append(done, new)
           m    == Len(done) + 1
           up   == level + 1
<1>1. PICK A, B, M, W, T : /\ Loading(u, B, M, W, T, level, rest, more) /\ B = A \cup {new}
                           /\ \A x \in A : Sized(u, x)
                           /\ ~(done = <<>> /\ parts = 1) => Sized(u, new)
  <2>1. LoadedTo(u, level, parts, done, rest, new)
    BY LoadedOne
  <2> QED  BY <2>1 DEF LoadedTo
<1>2. \A x \in B : Sized(u, x)
  BY <1>1
<1>3. more # <<>> /\ Last(more) = new /\ Len(more) = m /\ more \in Seq(NodeId) /\ m \in Nat
  BY AppendedIs
<1>4. m >= 2
  <2>1. Len(done) \in Nat /\ Len(done) # 0
    OBVIOUS
  <2> QED  BY <2>1
<1>5. rest = <<>>
  BY NothingLeft
<1>6. <<>> \in Seq(NodeId)
  OBVIOUS
<1> HIDE DEF more, m
<1>7. /\ Stands(u, B, M, W, T, {NULL} \cup Open(level, more)) /\ level \in Nat
      /\ W[NULL] = more
      /\ \A n \in Open(level, more) : W[n] = u.node[n].childid \o rest
      /\ \A c \in ToSet(W[NULL]) : M[c] = level
      /\ u.root = NULL
  BY <1>1, <1>3 DEF Loading
<1>8. up \in Nat /\ up # 0 /\ up - 1 = level
  BY <1>7
<1> HIDE DEF up
<1>9. Stands(u, B, M, W, T, {NULL} \cup Open(up, <<>>))
  <2> DEFINE D == {NULL} \cup Open(level, more)
             E == {NULL} \cup Open(up, <<>>)
  <2>1. /\ IsTree(u) /\ Forest(B, M, W, T) /\ \A n \in B : Looks(u, n, M, T)
        /\ \A n \in NodeId \ (B \cup D) : u.node[n] = Free
        /\ \A n \in (B \cup {NULL}) \ D : W[n] = Kids(u, n)
    BY <1>7 DEF Stands
  <2>2. E = {NULL} /\ D \subseteq {NULL, new}
    BY <1>3 DEF Open
  <2>3. new \in B /\ NULL \notin NodeId /\ B \subseteq NodeId
    <3>1. Kin(B, M, Sets(W))
      BY <2>1 DEF Forest, Family
    <3> QED  BY <1>1, <3>1, NullApart DEF Kin
  <2>4. ASSUME new \in D PROVE W[new] = Kids(u, new)
    <3>1. new \in Open(level, more)
      BY <2>3, <2>4
    <3>2. W[new] = u.node[new].childid \o <<>>
      BY <1>5, <1>7, <3>1
    <3>3. u.node[new].childid \in Seq(NodeId)
      BY <2>1, <2>3 DEF IsTree, IsNode
    <3>4. u.node[new].childid \o <<>> = u.node[new].childid
      <4> DEFINE c == u.node[new].childid
      <4>1. c \in Seq(NodeId)
        BY <3>3
      <4> HIDE DEF c
      <4>2. c \o <<>> = c
        BY <4>1
      <4> QED  BY <4>2 DEF c
    <3>5. new # NULL
      BY <2>3
    <3> QED  BY <3>2, <3>4, <3>5 DEF Kids
  <2>5. ASSUME NEW n \in (B \cup {NULL}) \ E PROVE W[n] = Kids(u, n)
    <3>1. CASE n \in D
      <4>1. n = new
        BY <2>2, <2>5, <3>1
      <4> QED  BY <2>4, <3>1, <4>1
    <3>2. CASE n \notin D
      <4>1. n \in (B \cup {NULL}) \ D
        BY <2>5, <3>2
      <4> HIDE DEF D, E
      <4>2. \A x \in (B \cup {NULL}) \ D : W[x] = Kids(u, x)
        BY <2>1
      <4> QED  BY <4>1, <4>2
    <3> QED  BY <3>1, <3>2
  <2>6. \A n \in NodeId \ (B \cup E) : u.node[n] = Free
    BY <2>1, <2>2, <2>3
  <2> QED  BY <2>1, <2>5, <2>6 DEF Stands
<1>10. \A n \in Open(up, <<>>) : W[n] = u.node[n].childid \o more
  BY DEF Open
<1>11. Loading(u, B, M, W, T, up, more, <<>>)
  BY <1>3, <1>6, <1>7, <1>8, <1>9, <1>10 DEF Loading
<1>12. Remain(up, m, SharedEvenly(m, InnerSlots + 1), <<>>)
  <2>1. MaxPart(up) = InnerSlots + 1 /\ OnlyPart(up) = 2
    BY <1>8 DEF MaxPart, OnlyPart
  <2>2. m >= OnlyPart(up)
    BY <1>4, <2>1
  <2>3. Remain(up, m, SharedEvenly(m, MaxPart(up)), <<>>)
    BY <1>3, <1>8, <2>2, FirstPart
  <2> QED  BY <2>1, <2>3
<1>13. Loads(u, up, m, SharedEvenly(m, InnerSlots + 1), more, <<>>)
  BY <1>2, <1>3, <1>8, <1>11, <1>12 DEF Loads
<1> QED  BY <1>13 DEF up, m, more

(* A lone node is the root.                                                *)
Rooted(t, r) == [t EXCEPT !.root = r]

(* Handing the tree its root.                                              *)
LEMMA RootEffect ==
  ASSUME NEW t, IsTree(t), NEW r
  PROVE  /\ IsTree(Rooted(t, r)) /\ Rooted(t, r).root = r
         /\ \A id \in NodeId : Rooted(t, r).node[id] = t.node[id]
<1> DEFINE u == Rooted(t, r)
<1>1. /\ u.node = t.node /\ u.root = r
      /\ u = [f \in {"node", "root", "head_leaf", "tail_leaf", "size"} |-> u[f]]
  BY DEF IsTree, Rooted
<1> HIDE DEF u
<1>2. IsTree(u)
  BY <1>1 DEF IsTree
<1> QED  BY <1>1, <1>2 DEF u

(* The only node of a level becomes the root.                              *)
LEMMA LoadEnds ==
  ASSUME NEW u, NEW t, NEW level, NEW N, NEW parts, NEW below, NEW done, NEW num, NEW mine,
         NEW rest, NEW new, LoadsOne(u, t, level, N, parts, below, done, num, mine, rest, new),
         parts = 1, new \in NodeId, done = <<>>
  PROVE  Resting(Rooted(u, new))
<1> DEFINE more == Append(done, new)
           v    == Rooted(u, new)
<1>1. PICK A, B, M, W, T : /\ Loading(u, B, M, W, T, level, rest, more) /\ B = A \cup {new}
                           /\ \A x \in A : Sized(u, x)
  <2>1. LoadedTo(u, level, parts, done, rest, new)
    BY LoadedOne
  <2> QED  BY <2>1 DEF LoadedTo
<1>2. more = <<new>> /\ more # <<>> /\ Last(more) = new
  BY DEF Last
<1>3. rest = <<>>
  BY NothingLeft
<1> HIDE DEF more
<1>4. /\ Stands(u, B, M, W, T, {NULL} \cup Open(level, more)) /\ level \in Nat
      /\ W[NULL] = <<new>>
      /\ \A n \in Open(level, more) : W[n] = u.node[n].childid \o rest
  BY <1>1, <1>2 DEF Loading
<1> DEFINE D == {NULL} \cup Open(level, more)
<1>5. IsTree(u) /\ Forest(B, M, W, T) /\ (\A n \in B : Looks(u, n, M, T))
      /\ (\A n \in NodeId \ (B \cup D) : u.node[n] = Free)
      /\ (\A n \in (B \cup {NULL}) \ D : W[n] = Kids(u, n))
  BY <1>4 DEF Stands
<1>6. D \subseteq {NULL, new}
  BY <1>2 DEF Open
<1>7. new \in B /\ NULL \notin NodeId /\ B \subseteq NodeId
  <2>1. Kin(B, M, Sets(W))
    BY <1>5 DEF Forest, Family
  <2> QED  BY <1>1, <2>1, NullApart DEF Kin
<1>8. IsTree(v) /\ v.root = new /\ \A id \in NodeId : v.node[id] = u.node[id]
  BY <1>5, RootEffect
<1> HIDE DEF v, D
<1>9. W[new] = Kids(v, new)
  <2>1. Kids(v, new) = u.node[new].childid /\ Kids(u, new) = u.node[new].childid
    BY <1>7, <1>8 DEF Kids
  <2>2. CASE new \in D
    <3>1. new \in Open(level, more)
      BY <1>7, <2>2 DEF D
    <3>2. W[new] = u.node[new].childid \o <<>>
      BY <1>3, <1>4, <3>1
    <3> DEFINE c == u.node[new].childid
    <3>3. c \in Seq(NodeId)
      BY <1>5, <1>7 DEF IsTree, IsNode
    <3>4. W[new] = c \o <<>> /\ Kids(v, new) = c
      BY <2>1, <3>2
    <3> HIDE DEF c
    <3> QED  BY <3>3, <3>4
  <2>3. CASE new \notin D
    <3>1. new \in (B \cup {NULL}) \ D
      BY <1>7, <2>3
    <3> QED  BY <1>5, <2>1, <3>1
  <2> QED  BY <2>2, <2>3
<1>10. Stands(v, B, M, W, T, {})
  <2>1. \A n \in B : Looks(v, n, M, T)
    BY <1>5, <1>7, <1>8 DEF Looks
  <2>2. ASSUME NEW n \in (B \cup {NULL}) \ {} PROVE W[n] = Kids(v, n)
    <3>1. CASE n = NULL
      BY <1>4, <1>7, <1>8, <3>1 DEF Kids, Tops
    <3>2. CASE n = new
      BY <1>9, <3>2
    <3>3. CASE n # NULL /\ n # new
      <4>1. n \in (B \cup {NULL}) \ D /\ n \in NodeId
        BY <1>6, <1>7, <2>2, <3>3
      <4> QED  BY <1>5, <1>8, <3>3, <4>1 DEF Kids
    <3> QED  BY <3>1, <3>2, <3>3
  <2>3. \A n \in NodeId \ (B \cup {}) : v.node[n] = Free
    BY <1>5, <1>6, <1>7, <1>8
  <2> QED  BY <1>5, <1>8, <2>1, <2>2, <2>3 DEF Stands
<1>11. /\ Remain(level, N, parts, done) /\ num = N \div parts
       /\ Makes(u, t, level, mine, done, new) /\ slotuse(u.node[new]) = KeysIn(level, num)
  BY DEF LoadsOne, Loads
<1>12. num \in Nat /\ num <= MaxPart(level) /\ num >= OnlyPart(level)
  BY <1>4, <1>11, NextPart
<1>13. u.node[new].level = level
  BY <1>11 DEF Makes
<1>14. slotuse(u.node[new]) >= 1 /\ slotuse(u.node[new]) <= SlotMax(u.node[new])
  BY <1>4, <1>11, <1>12, <1>13, NewRoot
<1>15. Filled(v, B, NULL)
  <2> SUFFICES ASSUME NEW n \in B PROVE Fits(v, n, NULL)
    BY DEF Filled
  <2>0. n \in NodeId /\ v.node[n] = u.node[n] /\ slotuse(v.node[n]) \in Nat
    BY <1>7, <1>8, Sizes
  <2>1. CASE n = new
    <3>1. Low(v, n) = 1 /\ n # NULL
      BY <1>7, <1>8, <2>1 DEF Low
    <3> QED  BY <1>14, <2>0, <2>1, <3>1 DEF Fits
  <2>2. CASE n # new
    <3>1. Sized(u, n)
      BY <1>1, <2>2
    <3>2. Sized(v, n)
      BY <2>0, <3>1 DEF Sized
    <3> QED  BY <2>0, <3>2, SizedFits
  <2> QED  BY <2>1, <2>2
<1>16. v.root # NULL
  BY <1>7, <1>8
<1>17. Resting(v)
  BY <1>10, <1>15, <1>16 DEF Resting
<1> QED  BY <1>17 DEF v

(* The running bulk_load() call.                                           *)
LoadFields == {"op", "items", "level", "parts", "children", "parents"}
IsLoad(c) ==
  /\ c = [f \in LoadFields |-> c[f]] /\ c.op = "bulk_load"
  /\ c.items \in Seq(Int) /\ c.level \in Nat
  /\ c.children \in Seq(Made) /\ c.parents \in Seq(Made)
LeftOver(c) == IF c.level = 0 THEN Len(c.items) ELSE Len(c.children)
LoadCall(t, c) ==
  IsLoad(c) /\ Loads(t, c.level, LeftOver(c), c.parts, Names(c.children), Names(c.parents))

(* After a node: the call goes on at this level, or at the next.           *)
OnLevel(c, made) == [c EXCEPT !.parts = @ - 1, !.parents = Append(c.parents, made)]
UpLevel(c, made) ==
  [c EXCEPT !.level = @ + 1, !.children = Append(c.parents, made), !.parents = <<>>,
            !.parts = SharedEvenly(Len(Append(c.parents, made)), InnerSlots + 1)]

(* d is call c less the items or children that went into the new node.     *)
Took(u, t, c, d, made) ==
  /\ IsLoad(d) /\ d.level = c.level /\ d.parts = c.parts /\ d.parents = c.parents
  /\ made \in Made
  /\ \E num, mine :
       /\ LoadsOne(u, t, c.level, LeftOver(c), c.parts, Names(c.children), Names(c.parents),
                   num, mine, Names(d.children), made.n)
       /\ LeftOver(d) = LeftOver(c) - num

(* What is done with the node just made, in all three cases.               *)
LEMMA TookOne ==
  ASSUME NEW u, NEW t, NEW c, NEW d, NEW made, Took(u, t, c, d, made)
  PROVE  /\ d.parts > 1 => LoadCall(u, OnLevel(d, made))
         /\ ~(d.parts > 1) /\ d.parents = <<>> => Resting(Rooted(u, made.n))
         /\ ~(d.parts > 1) /\ d.parents # <<>> => LoadCall(u, UpLevel(d, made))
<1> DEFINE done == Names(c.parents)
           below == Names(c.children)
           rest == Names(d.children)
           N == LeftOver(c)
           new == made.n
<1>1. /\ IsLoad(d) /\ d.level = c.level /\ d.parts = c.parts /\ d.parents = c.parents
      /\ made \in Made /\ new \in NodeId
  BY DEF Took, Made
<1>2. PICK num, mine :
         /\ LoadsOne(u, t, c.level, N, c.parts, below, done, num, mine, rest, new)
         /\ LeftOver(d) = N - num
  BY DEF Took
<1>3. d.parents \in Seq(Made) /\ d.children \in Seq(Made) /\ d.level \in Nat
      /\ d = [f \in LoadFields |-> d[f]] /\ d.op = "bulk_load" /\ d.items \in Seq(Int)
  BY <1>1 DEF IsLoad
<1>4. /\ done \in Seq(NodeId) /\ Len(done) = Len(d.parents) /\ (done = <<>> <=> d.parents = <<>>)
  BY <1>1, <1>3, NamesAre
<1>5. c.parts \in Nat \ {0}
  BY <1>2 DEF LoadsOne, Loads, Remain
<1> DEFINE more == Append(d.parents, made)
<1>6. more \in Seq(Made) /\ Names(more) = Append(done, new) /\ Len(more) = Len(done) + 1
  BY <1>1, <1>3, <1>4, NamesMore
<1> HIDE DEF done, below, rest, N, new, more
<1>7. ASSUME d.parts > 1 PROVE LoadCall(u, OnLevel(d, made))
  <2> DEFINE e == OnLevel(d, made)
  <2>1. /\ e = [f \in LoadFields |-> e[f]] /\ e.op = "bulk_load" /\ e.items = d.items
        /\ e.level = d.level /\ e.children = d.children /\ e.parents = more
        /\ e.parts = d.parts - 1
    BY <1>3 DEF OnLevel, LoadFields, more
  <2> HIDE DEF e
  <2>2. IsLoad(e)
    BY <1>3, <1>6, <2>1 DEF IsLoad
  <2>3. LeftOver(e) = N - num
    BY <1>2, <2>1 DEF LeftOver
  <2>4. c.parts > 1
    BY <1>1, <1>7
  <2>5. Loads(u, c.level, N - num, c.parts - 1, rest, Append(done, new))
    BY <1>1, <1>2, <1>4, <2>4, LoadGoesOn
  <2>6. Loads(u, e.level, LeftOver(e), e.parts, Names(e.children), Names(e.parents))
    BY <1>1, <1>6, <2>1, <2>3, <2>5 DEF rest
  <2> QED  BY <2>2, <2>6 DEF LoadCall, e
<1>8. ASSUME ~(d.parts > 1) PROVE c.parts = 1
  BY <1>1, <1>5, <1>8
<1>9. ASSUME ~(d.parts > 1), d.parents = <<>> PROVE Resting(Rooted(u, made.n))
  <2>1. Resting(Rooted(u, new))
    BY <1>1, <1>2, <1>4, <1>8, <1>9, LoadEnds
  <2> QED  BY <2>1 DEF new
<1>10. ASSUME ~(d.parts > 1), d.parents # <<>> PROVE LoadCall(u, UpLevel(d, made))
  <2> DEFINE e == UpLevel(d, made)
             m == Len(done) + 1
  <2>1. /\ e = [f \in LoadFields |-> e[f]] /\ e.op = "bulk_load" /\ e.items = d.items
        /\ e.level = d.level + 1 /\ e.children = more /\ e.parents = <<>>
        /\ e.parts = SharedEvenly(Len(more), InnerSlots + 1)
    BY <1>3 DEF UpLevel, LoadFields, more
  <2> HIDE DEF e
  <2>2. d.level + 1 \in Nat /\ d.level + 1 # 0 /\ <<>> \in Seq(Made)
    BY <1>3
  <2>3. IsLoad(e)
    BY <1>3, <1>6, <2>1, <2>2 DEF IsLoad
  <2>4. LeftOver(e) = m
    BY <1>6, <2>1, <2>2 DEF LeftOver
  <2>5. Loads(u, c.level + 1, m, SharedEvenly(m, InnerSlots + 1), Append(done, new), <<>>)
    BY <1>1, <1>2, <1>4, <1>8, <1>10, LoadLevelDone
  <2>6. Names(e.parents) = <<>>
    BY <2>1, <2>2, NamesAre
  <2>7. Loads(u, e.level, LeftOver(e), e.parts, Names(e.children), Names(e.parents))
    BY <1>1, <1>6, <2>1, <2>4, <2>5, <2>6
  <2> QED  BY <2>3, <2>7 DEF LoadCall, e
<1> QED  BY <1>7, <1>9, <1>10

(* A leaf of the next items, an inner node of the next children.           *)
TakeItems(c, num) == [c EXCEPT !.items = From(@, num)]
TakeChildren(c, num) == [c EXCEPT !.children = From(@, num)]
MadeNow(t, maxkey) == [n |-> Fresh(t), maxkey |-> maxkey]

(* What a running bulk_load() knows.                                       *)
LEMMA LoadFacts ==
  ASSUME NEW t, NEW c, LoadCall(t, c)
  PROVE  /\ IsLoad(c) /\ IsTree(t) /\ t.root = NULL /\ c.parts \in Nat \ {0}
         /\ Loads(t, c.level, LeftOver(c), c.parts, Names(c.children), Names(c.parents))
         /\ LeftOver(c) \div c.parts \in 1..LeftOver(c)
         /\ c.parents # <<>> => /\ Last(Names(c.parents)) \in NodeId
                                /\ t.node[Last(Names(c.parents))] # Free
         /\ c.level = 0 => Names(c.children) = <<>>
<1>1. IsLoad(c) /\ Loads(t, c.level, LeftOver(c), c.parts, Names(c.children), Names(c.parents))
  BY DEF LoadCall
<1> DEFINE done == Names(c.parents)
           below == Names(c.children)
           N == LeftOver(c)
<1>2. c.parents \in Seq(Made) /\ c.level \in Nat
  BY <1>1 DEF IsLoad
<1>3. done \in Seq(NodeId) /\ (done = <<>> <=> c.parents = <<>>)
  BY <1>2, NamesAre
<1> HIDE DEF done, below, N
<1>4. PICK A, L, V, R : Loading(t, A, L, V, R, c.level, below, done)
  BY <1>1 DEF Loads, done, below
<1>5. /\ Stands(t, A, L, V, R, {NULL} \cup Open(c.level, done)) /\ t.root = NULL
      /\ c.level = 0 => below = <<>>
      /\ V[NULL] = IF done = <<>> THEN below ELSE done
  BY <1>4 DEF Loading
<1>6. IsTree(t) /\ A \subseteq NodeId /\ V \in [Parents -> Seq(A)]
      /\ \A m \in A : t.node[m] # Free
  <2> DEFINE D == {NULL} \cup Open(c.level, done)
  <2>1. Stands(t, A, L, V, R, D)
    BY <1>5
  <2> HIDE DEF D
  <2> QED  BY <2>1, StandsFacts
<1>7. done # <<>> => Last(done) \in A
  <2> SUFFICES ASSUME done # <<>> PROVE Last(done) \in A
    OBVIOUS
  <2>1. done \in Seq(A)
    BY <1>5, <1>6 DEF Parents
  <2>2. Len(done) \in 1..Len(done)
    BY <1>3
  <2> QED  BY <2>1, <2>2 DEF Last
<1>8. Remain(c.level, N, c.parts, done)
  BY <1>1 DEF Loads, done, N
<1>9. c.parts \in Nat \ {0} /\ N \in Nat
  BY <1>8 DEF Remain
<1> DEFINE num == N \div c.parts
<1>10. num \in Nat \ {0} /\ num <= N
  BY <1>2, <1>8, NextPart
<1> HIDE DEF num
<1>11. num \in 1..N
  BY <1>9, <1>10
<1> QED  BY <1>1, <1>3, <1>5, <1>6, <1>7, <1>9, <1>11 DEF num, N, done, below

(* A step on the lowest level.                                             *)
LEMMA LoadLeafStep ==
  ASSUME NEW t, NEW c, LoadCall(t, c), c.level = 0, FreeIds(t) # {},
         NEW num, num = Len(c.items) \div c.parts
  PROVE  LET leaf == LeafOf(t, c.items, num)
         IN  Took(WithLeaf(t, leaf), t, c, TakeItems(c, num), MadeNow(t, LastKey(leaf)))
<1> DEFINE leaf == LeafOf(t, c.items, num)
           u    == WithLeaf(t, leaf)
           d    == TakeItems(c, num)
           made == MadeNow(t, LastKey(leaf))
           done == Names(c.parents)
           below == Names(c.children)
           new  == Fresh(t)
<1>1. /\ IsLoad(c) /\ IsTree(t) /\ t.root = NULL
      /\ Loads(t, c.level, LeftOver(c), c.parts, below, done)
      /\ LeftOver(c) \div c.parts \in 1..LeftOver(c)
      /\ c.parents # <<>> => Last(done) \in NodeId /\ t.node[Last(done)] # Free
      /\ below = <<>>
  BY LoadFacts
<1>2. LeftOver(c) = Len(c.items) /\ num \in 1..Len(c.items)
  BY <1>1 DEF LeftOver
<1>3. /\ c = [f \in LoadFields |-> c[f]] /\ c.op = "bulk_load"
      /\ c.items \in Seq(Int) /\ c.children \in Seq(Made) /\ c.parents \in Seq(Made)
  BY <1>1 DEF IsLoad
<1>4. done \in Seq(NodeId) /\ (done = <<>> <=> c.parents = <<>>)
  BY <1>3, NamesAre
<1>5. t.tail_leaf = IF done = <<>> THEN NULL ELSE Last(done)
  BY <1>1 DEF Loads
<1>6. /\ d = [f \in LoadFields |-> d[f]] /\ d.op = "bulk_load" /\ d.items = From(c.items, num)
      /\ d.level = 0 /\ d.parts = c.parts /\ d.children = c.children /\ d.parents = c.parents
  BY <1>3 DEF TakeItems, LoadFields
<1> HIDE DEF d
<1>7. From(c.items, num) \in Seq(Int) /\ Len(From(c.items, num)) = Len(c.items) - num
  <2>1. num \in 0..Len(c.items)
    BY <1>2
  <2> QED  BY <1>3, <2>1, Halves
<1>8. IsLoad(d)
  BY <1>3, <1>6, <1>7 DEF IsLoad
<1>9. LeftOver(d) = LeftOver(c) - num
  BY <1>2, <1>6, <1>7 DEF LeftOver
<1> HIDE DEF done
<1>10. /\ Makes(u, t, 0, <<>>, done, new)
       /\ u.node[new].level = 0 /\ slotuse(u.node[new]) = num
       /\ u.tail_leaf = new /\ LastKey(leaf) \in Int
  BY <1>1, <1>2, <1>3, <1>4, <1>5, LeafMade
<1> HIDE DEF u, leaf, new, below
<1>11. new \in NodeId
  BY <1>10 DEF Makes
<1>12. made \in Made /\ made.n = new
  BY <1>10, <1>11 DEF Made, MadeNow, new
<1>13. <<>> \in Seq(NodeId) /\ <<>> \o <<>> = <<>>
  OBVIOUS
<1>14. Names(d.children) = <<>> /\ below = <<>>
  BY <1>1, <1>6 DEF below
<1>15. LoadsOne(u, t, c.level, LeftOver(c), c.parts, below, done, num, <<>>, <<>>, new)
  <2>1. slotuse(u.node[new]) = KeysIn(c.level, num)
    BY <1>10 DEF KeysIn
  <2>2. num = LeftOver(c) \div c.parts
    BY <1>2
  <2> QED  BY <1>1, <1>10, <1>13, <2>1, <2>2 DEF LoadsOne
<1>16. Took(u, t, c, d, made)
  <2>1. LoadsOne(u, t, c.level, LeftOver(c), c.parts, Names(c.children), Names(c.parents),
                 num, <<>>, Names(d.children), made.n)
    BY <1>12, <1>14, <1>15 DEF done, below
  <2>2. d.level = c.level
    BY <1>6
  <2> QED  BY <1>6, <1>8, <1>9, <1>12, <2>1, <2>2 DEF Took
<1> QED  BY <1>16 DEF u, leaf, d

(* A step on a level above.                                                *)
LEMMA LoadInnerStep ==
  ASSUME NEW t, NEW c, LoadCall(t, c), c.level > 0, FreeIds(t) # {},
         NEW num, num = Len(c.children) \div c.parts
  PROVE  LET mine == First(c.children, num)
         IN  Took(WithInner(t, InnerOf(t, c.level, mine, num)), t, c, TakeChildren(c, num),
                  MadeNow(t, Last(mine).maxkey))
<1> DEFINE mine == First(c.children, num)
           u    == WithInner(t, InnerOf(t, c.level, mine, num))
           d    == TakeChildren(c, num)
           made == MadeNow(t, Last(mine).maxkey)
           done == Names(c.parents)
           below == Names(c.children)
           rest == Names(d.children)
           new  == Fresh(t)
<1>1. /\ IsLoad(c) /\ IsTree(t) /\ t.root = NULL
      /\ Loads(t, c.level, LeftOver(c), c.parts, below, done)
      /\ LeftOver(c) \div c.parts \in 1..LeftOver(c)
  BY LoadFacts
<1>2. /\ c = [f \in LoadFields |-> c[f]] /\ c.op = "bulk_load" /\ c.level \in Nat /\ c.level # 0
      /\ c.items \in Seq(Int) /\ c.children \in Seq(Made) /\ c.parents \in Seq(Made)
  BY <1>1 DEF IsLoad
<1>3. LeftOver(c) = Len(c.children) /\ num \in 1..Len(c.children) /\ num = LeftOver(c) \div c.parts
  BY <1>1, <1>2 DEF LeftOver
<1>4. /\ d = [f \in LoadFields |-> d[f]] /\ d.op = "bulk_load" /\ d.items = c.items
      /\ d.level = c.level /\ d.parts = c.parts /\ d.children = From(c.children, num)
      /\ d.parents = c.parents
  BY <1>2 DEF TakeChildren, LoadFields
<1> HIDE DEF d
<1>5. num \in 0..Len(c.children) /\ num \in Nat \ {0}
  BY <1>3
<1>6. /\ From(c.children, num) \in Seq(Made)
      /\ Len(From(c.children, num)) = Len(c.children) - num
      /\ mine \in Seq(Made) /\ Len(mine) = num
  BY <1>2, <1>5, Halves
<1>7. IsLoad(d)
  BY <1>2, <1>4, <1>6 DEF IsLoad
<1>8. LeftOver(d) = LeftOver(c) - num
  BY <1>2, <1>3, <1>4, <1>6 DEF LeftOver
<1>9. below = Names(mine) \o rest
  BY <1>2, <1>4, <1>5, NamesCut
<1> HIDE DEF mine
<1>10. mine # <<>>
  BY <1>5, <1>6
<1>11. /\ Names(mine) \in Seq(NodeId) /\ Len(Names(mine)) = num /\ Last(mine) \in Made
       /\ rest \in Seq(NodeId)
  BY <1>4, <1>6, <1>10, NamesAre
<1>12. /\ Makes(u, t, c.level, Names(mine), done, new)
       /\ u.node[new].level = c.level /\ slotuse(u.node[new]) + 1 = num
  <2>1. IsTree(t) /\ t.root = NULL /\ c.level \in Nat /\ c.level # 0
        /\ mine \in Seq(Made) /\ num = Len(mine) /\ mine # <<>>
    BY <1>1, <1>2, <1>6, <1>10
  <2> HIDE DEF done, below, rest
  <2> DEFINE level == c.level
  <2>2. level \in Nat /\ level # 0
    BY <2>1
  <2>3. u = WithInner(t, InnerOf(t, level, mine, num)) /\ new = Fresh(t)
    OBVIOUS
  <2> HIDE DEF level, u, new
  <2>4. /\ Makes(u, t, level, Names(mine), done, new)
        /\ u.node[new].level = level /\ slotuse(u.node[new]) + 1 = num
    BY <2>1, <2>2, <2>3, InnerMade
  <2> QED  BY <2>4 DEF level
<1> HIDE DEF u, new, below, done, rest
<1>13. new \in NodeId /\ IsTree(u)
  BY <1>12 DEF Makes
<1>14. made \in Made /\ made.n = new
  <2>1. Last(mine).maxkey \in Int
    BY <1>11 DEF Made
  <2> QED  BY <1>13, <2>1 DEF Made, MadeNow, new
<1>15. LoadsOne(u, t, c.level, LeftOver(c), c.parts, below, done, num, Names(mine), rest, new)
  <2>1. slotuse(u.node[new]) \in Nat
    BY <1>13, Sizes
  <2>2. slotuse(u.node[new]) = KeysIn(c.level, num)
    BY <1>2, <1>5, <1>12, <2>1 DEF KeysIn
  <2> QED  BY <1>1, <1>2, <1>3, <1>9, <1>11, <1>12, <2>2 DEF LoadsOne
<1>16. Took(u, t, c, d, made)
  <2>1. LoadsOne(u, t, c.level, LeftOver(c), c.parts, Names(c.children), Names(c.parents),
                 num, Names(mine), Names(d.children), made.n)
    BY <1>14, <1>15 DEF done, below, rest
  <2> QED  BY <1>4, <1>7, <1>8, <1>14, <2>1 DEF Took
<1> QED  BY <1>16 DEF u, d, mine

(* What Below() computes level by level.                                   *)
Falls(t, n, g) ==
  g = [i \in Nat |-> IF i = 0 THEN {n}
                     ELSE LET above == g[i - 1]
                          IN  above \cup UNION {Children(t, m) : m \in above}]

(* Below is a descent level by level.                                      *)
LEMMA BelowFalls ==
  ASSUME NEW t, NEW n, n # NULL, NEW f, Falls(t, n, f)
  PROVE  \E g : Falls(t, n, g) /\ Below(t, n) = g[t.node[n].level]
<1> DEFINE down == CHOOSE g : Falls(t, n, g)
<1>1. Falls(t, n, down)
  OBVIOUS
<1>2. Below(t, n) = down[t.node[n].level]
  BY DEF Below, Falls
<1> QED  BY <1>1, <1>2

(* Which is determined by the tree.                                        *)
LEMMA FallsOnce ==
  ASSUME NEW t, NEW n, NEW f, NEW g, Falls(t, n, f), Falls(t, n, g)
  PROVE  \A i \in Nat : f[i] = g[i]
<1> DEFINE T == {i \in Nat : f[i] # g[i]}
<1>1. f[0] = {n} /\ g[0] = {n}
  BY DEF Falls
<1>2. ASSUME NEW i \in Nat, i # 0
      PROVE  /\ f[i] = f[i - 1] \cup UNION {Children(t, m) : m \in f[i - 1]}
             /\ g[i] = g[i - 1] \cup UNION {Children(t, m) : m \in g[i - 1]}
  BY <1>2 DEF Falls
<1>3. ASSUME T # {} PROVE FALSE
  <2>1. PICK i \in T : \A y \in T : i <= y
    BY <1>3, Least
  <2>2. i \in Nat /\ i # 0 /\ f[i] # g[i]
    BY <1>1
  <2>3. i - 1 \in Nat /\ i - 1 \notin T
    BY <2>1, <2>2
  <2>4. f[i - 1] = g[i - 1]
    BY <2>3
  <2> QED  BY <1>2, <2>2, <2>4
<1> QED  BY <1>3

(* Between calls every node there is is below the root.                    *)
LEMMA BelowRoot ==
  ASSUME NEW t, NEW A, NEW L, NEW V, NEW R, Stands(t, A, L, V, R, {}), t.root # NULL
  PROVE  Below(t, t.root) = A
<1> DEFINE r == t.root
           f == [i \in Nat |-> {m \in A : L[m] + i >= L[r]}]
<1>1. /\ IsTree(t) /\ Family(A, L, V) /\ A \subseteq NodeId /\ L \in [NodeId -> Int]
      /\ V \in [Parents -> Seq(A)]
      /\ \A m \in A : t.node[m].level = L[m] /\ L[m] >= 0
  BY StandsFacts
<1>2. V[NULL] = <<r>> /\ \A m \in A : V[m] = t.node[m].childid
  <2>1. \A m \in (A \cup {NULL}) \ {} : V[m] = Kids(t, m)
    BY DEF Stands
  <2>2. NULL \notin A
    BY <1>1, NullApart
  <2>3. V[NULL] = <<r>>
    BY <2>1 DEF Kids, Tops
  <2>4. ASSUME NEW m \in A PROVE V[m] = t.node[m].childid
    BY <2>1, <2>2 DEF Kids
  <2> QED  BY <2>3, <2>4
<1> DEFINE C == Sets(V)
<1>3. r \in A /\ C[NULL] = {r}
  <2>1. V[NULL] \in Seq(A)
    BY <1>1 DEF Parents
  <2>2. r \in A
    BY <1>2, <2>1
  <2>3. ToSet(<<r>>) = {r}
    BY <2>2, One
  <2> QED  BY <1>2, <2>2, <2>3 DEF Sets, Parents
<1>4. \A m \in A : C[m] = Children(t, m)
  BY <1>1, <1>2 DEF Sets, Parents, Children
<1>5. Kin(A, L, C)
  BY <1>1 DEF Family
<1> HIDE DEF C, r
<1>6. /\ \A c \in A : \E n \in Parents : c \in C[n]
      /\ \A n \in NodeId : \A c \in C[n] : n \in A /\ L[n] = L[c] + 1
      /\ \A n \in A : L[n] <= L[r]
      /\ \A n \in Parents : C[n] \subseteq A
  BY <1>3, <1>5 DEF Kin
<1>7. /\ \A c \in A : c = r \/ \E n \in A : c \in C[n] /\ L[n] = L[c] + 1
      /\ \A n \in A : \A c \in C[n] : c \in A /\ L[n] = L[c] + 1
  BY <1>1, <1>3, <1>6 DEF Parents
<1>8. \A m \in A : L[m] \in Int /\ L[r] \in Int
  BY <1>1, <1>3
<1>9. f[0] = {r}
  <2>1. f[0] = {m \in A : L[m] >= L[r]}
    BY <1>8
  <2>2. ASSUME NEW m \in A, m # r PROVE ~(L[m] >= L[r])
    <3>1. PICK n \in A : L[n] = L[m] + 1
      BY <1>7, <2>2
    <3>2. L[n] <= L[r]
      BY <1>6
    <3> QED  BY <1>8, <3>1, <3>2
  <2>3. L[r] >= L[r]
    BY <1>3, <1>8
  <2> QED  BY <1>3, <2>1, <2>2, <2>3
<1>10. ASSUME NEW i \in Nat, i # 0
       PROVE  f[i] = f[i - 1] \cup UNION {Children(t, m) : m \in f[i - 1]}
  <2>1. i - 1 \in Nat
    BY <1>10
  <2>2. f[i] = {m \in A : L[m] + i >= L[r]} /\ f[i - 1] = {m \in A : L[m] + (i - 1) >= L[r]}
    BY <2>1
  <2> DEFINE U == UNION {Children(t, m) : m \in f[i - 1]}
  <2>3. ASSUME NEW c \in f[i] PROVE c \in f[i - 1] \cup U
    <3>1. c \in A /\ L[c] + i >= L[r]
      BY <2>2, <2>3
    <3>2. CASE c = r
      <4>1. L[c] + (i - 1) >= L[r]
        BY <1>8, <2>1, <3>1, <3>2
      <4> QED  BY <2>2, <3>1, <4>1
    <3>3. CASE c # r
      <4>1. PICK n \in A : c \in C[n] /\ L[n] = L[c] + 1
        BY <1>7, <3>1, <3>3
      <4>2. L[n] + (i - 1) >= L[r]
        BY <1>8, <2>1, <3>1, <4>1
      <4>3. n \in f[i - 1]
        BY <2>2, <4>2
      <4> HIDE DEF f
      <4>4. c \in Children(t, n)
        BY <1>4, <4>1
      <4>5. c \in U
        BY <4>3, <4>4
      <4> QED  BY <4>5
    <3> QED  BY <3>2, <3>3
  <2>4. ASSUME NEW c \in f[i - 1] PROVE c \in f[i]
    <3>1. c \in A /\ L[c] + (i - 1) >= L[r]
      BY <2>2, <2>4
    <3>2. L[c] + i >= L[r]
      BY <1>8, <2>1, <3>1
    <3> QED  BY <2>2, <3>1, <3>2
  <2>5. ASSUME NEW n \in f[i - 1], NEW c \in Children(t, n) PROVE c \in f[i]
    <3>1. n \in A /\ L[n] + (i - 1) >= L[r]
      BY <2>2, <2>5
    <3>2. c \in A /\ L[n] = L[c] + 1
      BY <1>4, <1>7, <2>5, <3>1
    <3>3. L[c] + i >= L[r]
      BY <1>8, <2>1, <3>1, <3>2
    <3> QED  BY <2>2, <3>2, <3>3
  <2> HIDE DEF f
  <2> QED  BY <2>3, <2>4, <2>5
<1>11. Falls(t, r, f)
  <2> DEFINE g == [i \in Nat |-> IF i = 0 THEN {r}
                                 ELSE f[i - 1] \cup UNION {Children(t, m) : m \in f[i - 1]}]
  <2>1. \A i \in Nat : f[i] = g[i]
    <3> SUFFICES ASSUME NEW i \in Nat PROVE f[i] = g[i]
      OBVIOUS
    <3> HIDE DEF f
    <3>1. CASE i = 0
      BY <1>9, <3>1
    <3>2. CASE i # 0
      BY <1>10, <3>2
    <3> QED  BY <3>1, <3>2
  <2>2. f = [i \in Nat |-> f[i]]
    OBVIOUS
  <2>3. g = [i \in Nat |-> g[i]]
    OBVIOUS
  <2> HIDE DEF f, g
  <2>4. f = g
    BY <2>1, <2>2, <2>3
  <2> QED  BY <2>4 DEF Falls, g
<1>12. r # NULL
  BY DEF r
<1> HIDE DEF f
<1>13. PICK g : Falls(t, r, g) /\ Below(t, r) = g[t.node[r].level]
  BY <1>11, <1>12, BelowFalls
<1>14. t.node[r].level = L[r] /\ L[r] \in Nat
  BY <1>1, <1>3, <1>8
<1>15. g[L[r]] = f[L[r]]
  BY <1>11, <1>13, <1>14, FallsOnce
<1>16. f[L[r]] = A
  <2>1. f[L[r]] = {m \in A : L[m] + L[r] >= L[r]}
    BY <1>14 DEF f
  <2>2. \A m \in A : L[m] + L[r] >= L[r]
    BY <1>1, <1>8
  <2> QED  BY <2>1, <2>2
<1> QED  BY <1>13, <1>14, <1>15, <1>16 DEF r

(* A tree without nodes.                                                   *)
LEMMA EmptyRests ==
  ASSUME NEW t, IsTree(t), t.root = NULL, t.tail_leaf = NULL,
         \A id \in NodeId : t.node[id] = Free
  PROVE  Resting(t)
<1> DEFINE A == {}
           L == [n \in NodeId |-> 0]
           V == [n \in Parents |-> <<>>]
           R == [n \in NodeId |-> NULL]
           C == Sets(V)
<1>1. /\ \A n \in Parents : V[n] = <<>> /\ C[n] = {}
      /\ C = [n \in Parents |-> {}]
  BY EmptyApart DEF Sets
<1>2. V \in [Parents -> Seq(A)] /\ \A n \in Parents : IsInjective(V[n])
  BY EmptyApart
<1>3. L \in [NodeId -> Int] /\ R \in [NodeId -> Parents] /\ C \in [Parents -> SUBSET A]
  BY <1>1 DEF Parents
<1>4. NULL \in Parents /\ \A n \in NodeId : n \in Parents
  BY DEF Parents
<1> HIDE DEF C, L, V, R
<1>5. Kin(A, L, C)
  BY <1>1, <1>3, <1>4 DEF Kin
<1>6. Family(A, L, V)
  BY <1>2, <1>5 DEF Family, C
<1>7. \A n \in Parents : Linked(V[n], R)
  BY <1>1 DEF Linked
<1>8. Chain(A, L, V, R)
  BY <1>1, <1>3, <1>4, <1>7 DEF Chain
<1>9. V[NULL] = Kids(t, NULL)
  BY <1>1, <1>4 DEF Kids, Tops
<1>10. Stands(t, A, L, V, R, {})
  BY <1>6, <1>8, <1>9 DEF Stands, Forest
<1>11. Filled(t, A, NULL)
  BY DEF Filled
<1> QED  BY <1>10, <1>11 DEF Resting

(* The empty tree.                                                         *)
LEMMA EmptyTreeRests == Resting(EmptyTree)
<1> DEFINE t == EmptyTree
<1>1. /\ t.node = [id \in NodeId |-> Free] /\ t.root = NULL /\ t.tail_leaf = NULL
      /\ t = [f \in {"node", "root", "head_leaf", "tail_leaf", "size"} |-> t[f]]
  BY DEF EmptyTree
<1> HIDE DEF t
<1>2. \A id \in NodeId : t.node[id] = Free /\ IsNode(t.node[id])
  BY <1>1, FreeIsNode
<1>3. IsTree(t)
  BY <1>1, <1>2 DEF IsTree
<1>4. Resting(t)
  BY <1>1, <1>2, <1>3, EmptyRests
<1> QED  BY <1>4 DEF t

(* clear() leaves nothing behind.                                          *)
Cleared(t) ==
  [node |-> [id \in NodeId |-> IF id \in Below(t, t.root) THEN Free ELSE t.node[id]],
   root |-> NULL, head_leaf |-> NULL, tail_leaf |-> NULL, size |-> 0]

(* clear() frees every node there is.                                      *)
LEMMA ClearEmpties ==
  ASSUME NEW t, Resting(t), t.root # NULL
  PROVE  Resting(Cleared(t))
<1> DEFINE u == Cleared(t)
<1>1. PICK A, L, V, R : Stands(t, A, L, V, R, {})
  BY DEF Resting
<1>2. Below(t, t.root) = A
  BY <1>1, BelowRoot
<1>3. \A id \in NodeId : id \in A \/ t.node[id] = Free
  BY <1>1 DEF Stands
<1>4. /\ u.node = [id \in NodeId |-> IF id \in A THEN Free ELSE t.node[id]]
      /\ u.root = NULL /\ u.tail_leaf = NULL
      /\ u = [f \in {"node", "root", "head_leaf", "tail_leaf", "size"} |-> u[f]]
  BY <1>2 DEF Cleared
<1> HIDE DEF u
<1>5. \A id \in NodeId : u.node[id] = Free
  BY <1>3, <1>4
<1>6. \A id \in NodeId : IsNode(u.node[id])
  BY <1>5, FreeIsNode
<1>7. u.node = [id \in NodeId |-> u.node[id]]
  BY <1>4
<1>8. IsTree(u)
  BY <1>4, <1>6, <1>7 DEF IsTree
<1>9. Resting(u)
  BY <1>4, <1>5, <1>8, EmptyRests
<1> QED  BY <1>9 DEF u

(* bulk_load() begins with an empty tree.                                  *)
LoadOf(items) ==
  [op |-> "bulk_load", items |-> items, level |-> 0,
   parts |-> SharedEvenly(Len(items), LeafSlots), children |-> <<>>, parents |-> <<>>]

(* bulk_load() of a range that is not empty, into an empty tree.           *)
LEMMA LoadBegins ==
  ASSUME NEW t, Resting(t), t.root = NULL, NEW items \in Seq(Int), items # <<>>
  PROVE  LoadCall([t EXCEPT !.size = Len(items)], LoadOf(items))
<1> DEFINE u == [t EXCEPT !.size = Len(items)]
           c == LoadOf(items)
<1>1. PICK A, L, V, R : Stands(t, A, L, V, R, {}) /\ Filled(t, A, NULL)
  BY DEF Resting
<1>2. IsTree(t) /\ Family(A, L, V) /\ V \in [Parents -> Seq(A)] /\ A \subseteq NodeId
  BY <1>1, StandsFacts
<1>3. /\ IsTree(u) /\ u.root = NULL /\ u.tail_leaf = NULL
      /\ \A id \in NodeId : Same(u, t, id)
  BY <1>2, SizeEffect DEF Resting
<1>4. Stands(u, A, L, V, R, {})
  BY <1>1, <1>3, StandsSame
<1> HIDE DEF u
<1>5. V[NULL] = <<>>
  <2>1. NULL \in (A \cup {NULL}) \ {}
    OBVIOUS
  <2> QED  BY <1>1, <2>1 DEF Stands, Kids, Tops
<1>6. A = {}
  <2> DEFINE C == Sets(V)
  <2>1. C[NULL] = {}
    BY <1>5 DEF Sets, Parents, ToSet
  <2>2. Kin(A, L, C)
    BY <1>2 DEF Family
  <2> HIDE DEF C
  <2> QED  BY <2>1, <2>2 DEF Kin
<1>7. Stands(u, A, L, V, R, {NULL})
  BY <1>4 DEF Stands
<1>8. <<>> \in Seq(NodeId) /\ <<>> \in Seq(Made) /\ ToSet(<<>>) = {} /\ Len(<<>>) = 0
  BY EmptyApart
<1>9. Loading(u, A, L, V, R, 0, <<>>, <<>>)
  <2>1. {NULL} \cup Open(0, <<>>) = {NULL} /\ Open(0, <<>>) = {}
    BY DEF Open
  <2>2. \A m \in ToSet(V[NULL]) : FALSE
    BY <1>5, <1>8
  <2> QED  BY <1>3, <1>5, <1>7, <1>8, <2>1, <2>2 DEF Loading
<1>10. \A m \in A : Sized(u, m)
  BY <1>6
<1>11. /\ c = [f \in LoadFields |-> c[f]] /\ c.op = "bulk_load"
       /\ c.items = items /\ c.level = 0 /\ c.children = <<>> /\ c.parents = <<>>
       /\ c.parts = SharedEvenly(Len(items), LeafSlots)
  BY DEF LoadOf, LoadFields
<1>12. Names(c.children) = <<>> /\ Names(c.parents) = <<>>
  BY <1>8, <1>11, NamesAre
<1>13. Len(items) \in Nat /\ Len(items) >= 1
  OBVIOUS
<1> HIDE DEF c
<1>14. Remain(0, Len(items), c.parts, <<>>)
  <2>1. OnlyPart(0) = 1 /\ MaxPart(0) = LeafSlots
    BY DEF OnlyPart, MaxPart
  <2>2. 0 \in Nat /\ Len(items) >= OnlyPart(0)
    BY <1>13, <2>1
  <2>3. Remain(0, Len(items), SharedEvenly(Len(items), MaxPart(0)), <<>>)
    BY <1>13, <2>2, FirstPart
  <2> QED  BY <1>11, <2>1, <2>3
<1>15. Loads(u, 0, Len(items), c.parts, <<>>, <<>>)
  BY <1>3, <1>9, <1>10, <1>14 DEF Loads
<1>16. IsLoad(c) /\ LeftOver(c) = Len(items)
  <2>1. c = [f \in LoadFields |-> c[f]] /\ c.op = "bulk_load"
    BY <1>11
  <2>2. c.items \in Seq(Int) /\ c.level = 0 /\ c.children \in Seq(Made) /\ c.parents \in Seq(Made)
    BY <1>8, <1>11
  <2>3. LeftOver(c) = Len(items)
    BY <1>11 DEF LeftOver
  <2>4. c.level \in Nat
    BY <2>2
  <2> QED  BY <2>1, <2>2, <2>3, <2>4 DEF IsLoad
<1>17. LoadCall(u, c)
  BY <1>11, <1>12, <1>15, <1>16 DEF LoadCall
<1> QED  BY <1>17 DEF u, c

(* The node of the activation on top is in the tree.                       *)
LEMMA TopNode ==
  ASSUME NEW t, NEW st, InsertsDown(t, st) \/ ErasesDown(t, st), NEW n, n = Last(st).n
  PROVE  /\ IsTree(t) /\ n \in NodeId /\ t.node[n].slotkey \in Seq(Int)
         /\ slotuse(t.node[n]) \in Nat
<1>1. PICK A, L, V, R : Stands(t, A, L, V, R, {}) /\ Path(t, A, L, st) /\ st # <<>>
  <2>1. CASE InsertsDown(t, st)
    BY <2>1 DEF InsertsDown
  <2>2. CASE ErasesDown(t, st)
    BY <2>2 DEF ErasesDown
  <2> QED  BY <2>1, <2>2
<1>2. IsTree(t) /\ A \subseteq NodeId /\ L \in [NodeId -> Int]
  BY <1>1, StandsFacts
<1>3. n \in A
  BY <1>1, <1>2, TopMeets DEF Meets
<1>4. IsNode(t.node[n])
  BY <1>2, <1>3 DEF IsTree
<1> QED  BY <1>2, <1>3, <1>4 DEF IsNode, slotuse

(* insert() finds its key in the leaf, and refuses it.                     *)
LEMMA InsertRefused ==
  ASSUME NEW t, NEW st, InsertsDown(t, st), slotuse(t.node[Last(st).n]) # 0
  PROVE  InsertsUp(t, Front(st), NULL)
<1> DEFINE b == Front(st)
<1>1. PICK A, L, V, R : Stands(t, A, L, V, R, {}) /\ Path(t, A, L, st) /\ Filled(t, A, NULL)
  BY DEF InsertsDown, TopLeaf
<1>2. st # <<>> /\ IsTree(t) /\ A \subseteq NodeId /\ L \in [NodeId -> Int]
  BY <1>1, StandsFacts DEF InsertsDown
<1>3. Path(t, A, L, b) /\ Down(t, b, Len(b))
  BY <1>1, <1>2, TopMeets DEF Meets
<1>4. Grown(t, A, L, V, R, b, NULL)
  BY <1>1, <1>3 DEF Grown
<1> HIDE DEF b
<1>5. InsertsUp(t, b, NULL)
  BY <1>1, <1>3, <1>4 DEF InsertsUp
<1> QED  BY <1>5 DEF b

(* The inductive invariant: what is true of the tree, the stack and the    *)
(* result, for each thing the running call may do next.                    *)
IsResult(r) == /\ r = [f \in {"flags", "key", "child", "carry"} |-> r[f]]
               /\ r.key \in Int \/ r.child = NULL
Eraser(c) == /\ c.op \in {"erase_one", "erase_iter"} /\ c.key \in Int
             /\ c.op = "erase_iter" => c.slot \in Nat

Rests(t, p, c)          == p = "idle" /\ c.op = "none" /\ Resting(t)
InsertRuns(t, p, c, st) ==
  p = "descend" /\ c.op = "insert" /\ c.key \in Int /\ InsertsDown(t, st)
InsertBack(t, p, c, st, r) ==
  p = "return" /\ c.op = "insert" /\ IsResult(r) /\ InsertsUp(t, st, r.child)
EraseRuns(t, p, c, st)  == p = "descend" /\ Eraser(c) /\ ErasesDown(t, st)
EraseBack(t, p, c, st, r) ==
  p = "return" /\ Eraser(c) /\ IsResult(r) /\ r.key \in Int /\ ErasesUp(t, st, r.flags)
LoadRuns(t, p, c)       == p = "load" /\ LoadCall(t, c)

Phase(t, p, c, st, r) ==
  \/ Rests(t, p, c)
  \/ InsertRuns(t, p, c, st)
  \/ InsertBack(t, p, c, st, r)
  \/ EraseRuns(t, p, c, st)
  \/ EraseBack(t, p, c, st, r)
  \/ LoadRuns(t, p, c)

IInv == Phase(tree, pc, call, stack, result)

(* A bulk load is a call of its own kind.                                  *)
LEMMA LoadOp ==
  ASSUME NEW t, NEW c, LoadCall(t, c)
  PROVE  c.op = "bulk_load"
BY DEF LoadCall, IsLoad

(* Which phase it is.                                                      *)
LEMMA WhichPhase ==
  ASSUME NEW t, NEW p, NEW c, NEW st, NEW r, Phase(t, p, c, st, r)
  PROVE  /\ p = "idle" => Resting(t)
         /\ p = "descend" /\ c.op = "insert" => c.key \in Int /\ InsertsDown(t, st)
         /\ p = "return" /\ c.op = "insert" => IsResult(r) /\ InsertsUp(t, st, r.child)
         /\ p = "descend" /\ c.op \in {"erase_one", "erase_iter"} =>
              Eraser(c) /\ ErasesDown(t, st)
         /\ p = "return" /\ c.op \in {"erase_one", "erase_iter"} =>
              Eraser(c) /\ IsResult(r) /\ r.key \in Int /\ ErasesUp(t, st, r.flags)
         /\ p = "load" => LoadCall(t, c)
<1>1. CASE Rests(t, p, c)
  BY <1>1 DEF Rests
<1>2. CASE InsertRuns(t, p, c, st)
  BY <1>2 DEF InsertRuns
<1>3. CASE InsertBack(t, p, c, st, r)
  BY <1>3 DEF InsertBack
<1>4. CASE EraseRuns(t, p, c, st)
  BY <1>4 DEF EraseRuns, Eraser
<1>5. CASE EraseBack(t, p, c, st, r)
  BY <1>5 DEF EraseBack, Eraser
<1>6. CASE LoadRuns(t, p, c)
  BY <1>6 DEF LoadRuns
<1> QED  BY <1>1, <1>2, <1>3, <1>4, <1>5, <1>6 DEF Phase

(* How a call goes on: Return() and Finish().                              *)
LEMMA Finishes ==
  ASSUME NEW t, Finish(t), Resting(t)
  PROVE  IInv'
BY DEF Finish, NoCall, IInv, Phase, Rests

(* An inserting activation returns to the one below.                       *)
LEMMA InsertReturns ==
  ASSUME NEW t, NEW r, Return(t, r), call.op = "insert", IsResult(r),
         InsertsUp(t, Front(stack), r.child)
  PROVE  IInv'
BY DEF Return, IInv, Phase, InsertBack

(* An erasing activation returns to the one below.                         *)
LEMMA EraseReturns ==
  ASSUME NEW t, NEW r, Return(t, r), Eraser(call), IsResult(r), r.key \in Int,
         ErasesUp(t, Front(stack), r.flags)
  PROVE  IInv'
BY DEF Return, IInv, Phase, EraseBack

(* The invariant holds of a new tree; and each action keeps it:            *)
LEMMA InitHolds == Init => IInv
<1> SUFFICES ASSUME Init PROVE IInv
  OBVIOUS
<1>1. Resting(tree)
  BY EmptyTreeRests DEF Init
<1> QED  BY <1>1 DEF Init, NoCall, IInv, Phase, Rests

(* insert() starts.                                                        *)
LEMMA InsertStartKeeps ==
  ASSUME IInv, FreeIds(tree) # {}, NEW k \in Key, NEW w \in Weight, InsertStart(k, w)
  PROVE  IInv'
<1>1. Resting(tree)
  BY WhichPhase DEF IInv, InsertStart
<1>2. k \in Int
  BY BTreeAssumption
<1>3. pc' = "descend" /\ call'.op = "insert" /\ call'.key \in Int
  BY <1>2 DEF InsertStart
<1>4. InsertsDown(tree', stack')
  <2>1. CASE tree.root = NULL
    <3>1. tree' = FirstLeaf(tree) /\ stack' = <<[n |-> FirstLeaf(tree).root, slot |-> 0]>>
      BY <2>1 DEF InsertStart, FirstLeaf
    <3>2. InsertsDown(FirstLeaf(tree), <<[n |-> FirstLeaf(tree).root, slot |-> 0]>>)
      BY <1>1, <2>1, InsertBegins
    <3> QED  BY <3>1, <3>2
  <2>2. CASE tree.root # NULL
    <3>1. tree' = tree /\ stack' = <<[n |-> tree.root, slot |-> 0]>>
      BY <2>2 DEF InsertStart
    <3>2. InsertsDown(tree, <<[n |-> tree.root, slot |-> 0]>>)
      BY <1>1, <2>2, InsertGoesOn
    <3> QED  BY <3>1, <3>2
  <2> QED  BY <2>1, <2>2
<1> QED  BY <1>3, <1>4 DEF IInv, Phase, InsertRuns

(* insert_descend() calls itself for a child.                              *)
LEMMA InsertDescendKeeps ==
  ASSUME IInv, InsertDescend
  PROVE  IInv'
<1>1. call.key \in Int /\ InsertsDown(tree, stack)
  BY WhichPhase DEF IInv, InsertDescend
<1> DEFINE slot == FindLower(tree.node[Last(stack).n], call.key)
           to   == Into(stack, [Last(stack) EXCEPT !.slot = slot],
                        [n |-> At(tree.node[Last(stack).n].childid, slot), slot |-> 0])
<1>2. tree' = tree /\ pc' = "descend" /\ call' = call /\ call.op = "insert" /\ stack' = to
  BY DEF InsertDescend, Into, Top, Node
<1>3. InsertsDown(tree, to)
  BY <1>1, InsertDescends DEF InsertDescend, Top, Node
<1> QED  BY <1>1, <1>2, <1>3 DEF IInv, Phase, InsertRuns

(* insert_descend() has reached a leaf.                                    *)
LEMMA InsertLeafKeeps ==
  ASSUME IInv, FreeIds(tree) # {}, InsertLeaf
  PROVE  IInv'
<1> DEFINE n    == Last(stack).n
           into == InsertIntoLeaf(tree, n, call.key, call.weight)
           slot == FindLower(tree.node[n], call.key)
           done == [NoResult EXCEPT !.flags = {"inserted"}, !.key = into.newkey,
                                    !.child = into.newchild]
<1>1. call.key \in Int /\ InsertsDown(tree, stack) /\ call.op = "insert" /\ IsLeaf(tree.node[n])
  BY WhichPhase DEF IInv, InsertLeaf, Top, Node
<1>2. CASE Return(tree, NoResult) /\ slot < slotuse(tree.node[n])
  <2>1. slot \in Nat /\ slotuse(tree.node[n]) \in Nat
    <3>1. tree.node[n].slotkey \in Seq(Int) /\ slotuse(tree.node[n]) \in Nat
      BY <1>1, TopNode
    <3> HIDE DEF n
    <3>2. slot \in 0..slotuse(tree.node[n])
      BY <1>1, <3>1, FindLowerFound
    <3> HIDE DEF slot
    <3> QED  BY <3>1, <3>2
  <2>2. slotuse(tree.node[n]) # 0
    BY <1>2, <2>1
  <2>3. InsertsUp(tree, Front(stack), NULL)
    BY <1>1, <2>2, InsertRefused
  <2>4. IsResult(NoResult) /\ NoResult.child = NULL
    BY DEF IsResult, NoResult
  <2> QED  BY <1>1, <1>2, <2>3, <2>4, InsertReturns
<1>3. CASE Return(into.tree, done)
  <2>1. /\ InsertsUp(into.tree, Front(stack), into.newchild)
        /\ into.newchild # NULL => into.newkey \in Int
    BY <1>1, InsertLeafUp
  <2> HIDE DEF into
  <2>2. done.key = into.newkey /\ done.child = into.newchild
    BY DEF NoResult
  <2>3. done = [f \in {"flags", "key", "child", "carry"} |-> done[f]]
    BY DEF NoResult
  <2>4. IsResult(done) /\ done.child = into.newchild
    BY <2>1, <2>2, <2>3 DEF IsResult
  <2> HIDE DEF done
  <2> QED  BY <1>1, <1>3, <2>1, <2>4, InsertReturns
<1>4. QED
  BY <1>2, <1>3 DEF InsertLeaf, Top, Node

(* insert_descend() is returned to.                                        *)
LEMMA InsertReturnKeeps ==
  ASSUME IInv, FreeIds(tree) # {}, InsertReturn
  PROVE  IInv'
<1> DEFINE n   == Last(stack).n
           put == AddChild(tree, n, Last(stack).slot, result.key, result.child)
           r   == [result EXCEPT !.key = put.newkey, !.child = put.newchild]
           more == NewWeight(tree, n, Last(stack).slot + 1,
                             tree.node[n].weight[Last(stack).slot + 1] + call.weight)
<1>1. /\ IsResult(result) /\ InsertsUp(tree, stack, result.child) /\ call.op = "insert"
      /\ stack # <<>>
  BY WhichPhase DEF IInv, InsertReturn
<1>2. CASE result.child # NULL
  <2>1. result.key \in Int
    BY <1>1, <1>2 DEF IsResult
  <2>2. /\ InsertsUp(put.tree, Front(stack), put.newchild)
        /\ put.newchild # NULL => put.newkey \in Int
    BY <1>1, <1>2, <2>1, InsertReturnUp
  <2>3. Return(put.tree, r)
    BY <1>2 DEF InsertReturn, Top
  <2> HIDE DEF put
  <2>4. IsResult(r) /\ r.child = put.newchild
    BY <1>1, <2>2 DEF IsResult
  <2> HIDE DEF r
  <2> QED  BY <1>1, <2>2, <2>3, <2>4, InsertReturns
<1>3. CASE result.child = NULL
  <2>1. /\ n \in NodeId /\ IsTree(tree) /\ slotuse(tree.node[n]) >= 1
        /\ \A u : IsTree(u) /\ u.root = tree.root /\ (\A id \in NodeId : Same(u, tree, id))
                    => InsertsUp(u, Front(stack), NULL)
    BY <1>1, <1>3, UpSame
  <2>2. CASE Return(more, result)
    <3>1. IsTree(more) /\ more.root = tree.root /\ \A id \in NodeId : Same(more, tree, id)
      BY <2>1, NewWeightEffect
    <3> HIDE DEF more
    <3>2. InsertsUp(more, Front(stack), NULL)
      BY <2>1, <3>1
    <3> QED  BY <1>1, <1>3, <2>2, <3>2, InsertReturns
  <2>3. CASE Return(tree, result)
    <3>1. \A id \in NodeId : Same(tree, tree, id)
      BY DEF Same, Alike
    <3>2. InsertsUp(tree, Front(stack), NULL)
      BY <2>1, <3>1
    <3> QED  BY <1>1, <1>3, <2>3, <3>2, InsertReturns
  <2> QED  BY <1>3, <2>2, <2>3 DEF InsertReturn, Top, NewWeight
<1> QED  BY <1>2, <1>3

(* insert_start() ends.                                                    *)
LEMMA InsertFinishKeeps ==
  ASSUME IInv, FreeIds(tree) # {}, InsertFinish
  PROVE  IInv'
<1> DEFINE grown == IF result.child # NULL THEN GrowRoot(tree, result.key, result.child) ELSE tree
           size  == IF "inserted" \in result.flags THEN grown.size + 1 ELSE grown.size
<1>1. IsResult(result) /\ InsertsUp(tree, <<>>, result.child)
  BY WhichPhase DEF IInv, InsertFinish
<1>2. result.child # NULL => result.key \in Int /\ FreeIds(tree) # {}
  BY <1>1 DEF IsResult
<1>3. Resting(grown)
  BY <1>1, <1>2, InsertEnds
<1>4. Finish(Counted(grown, size))
  BY DEF InsertFinish, Counted
<1> HIDE DEF grown, size
<1>5. Resting(Counted(grown, size))
  BY <1>3, RestingSize
<1> QED  BY <1>4, <1>5, Finishes

(* Both erasing calls start alike.                                         *)
LEMMA EraseStartKeeps ==
  ASSUME IInv, NEW c, EraseStart(c), Eraser(c)
  PROVE  IInv'
<1>1. Resting(tree) /\ tree.root # NULL
  BY WhichPhase DEF IInv, EraseStart
<1>2. tree' = tree /\ pc' = "descend" /\ call' = c /\ stack' = <<RootArgs(tree)>>
  BY DEF EraseStart
<1>3. ErasesDown(tree, <<RootArgs(tree)>>)
  BY <1>1, EraseBegins
<1> QED  BY <1>2, <1>3 DEF IInv, Phase, EraseRuns

(* erase_one() starts.                                                     *)
LEMMA EraseOneStartKeeps ==
  ASSUME IInv, NEW k \in Key, EraseOneStart(k)
  PROVE  IInv'
<1> DEFINE c == [op |-> "erase_one", key |-> k]
<1>1. Eraser(c) /\ EraseStart(c)
  BY BTreeAssumption DEF EraseOneStart, Eraser
<1> QED  BY <1>1, EraseStartKeeps

(* erase(iterator) starts.                                                 *)
LEMMA EraseIterStartKeeps ==
  ASSUME IInv, NEW leaf \in NodeId, NEW slot \in 0..(LeafSlots - 1), EraseIterStart(leaf, slot)
  PROVE  IInv'
<1> DEFINE key == At(tree.node[leaf].slotkey, slot)
           c   == [op |-> "erase_iter", key |-> key, leaf |-> leaf, slot |-> slot]
<1>1. slot \in Nat /\ slot < slotuse(tree.node[leaf])
  BY BTreeAssumption DEF EraseIterStart, Node
<1>2. Resting(tree)
  BY WhichPhase DEF IInv, EraseIterStart, EraseStart
<1>3. tree.node[leaf].slotkey \in Seq(Int)
  BY <1>2, StandsFacts DEF Resting, IsTree, IsNode
<1>4. key \in Int
  <2>1. slot + 1 \in 1..Len(tree.node[leaf].slotkey)
    BY <1>1, <1>3 DEF slotuse
  <2> QED  BY <1>3, <2>1 DEF At
<1>5. EraseStart(c)
  BY DEF EraseIterStart, Node
<1> HIDE DEF key
<1>6. Eraser(c)
  BY <1>1, <1>4 DEF Eraser
<1> HIDE DEF c
<1> QED  BY <1>5, <1>6, EraseStartKeeps

(* An erasing activation calls itself for the child at a slot.             *)
LEMMA EraseIntoKeeps ==
  ASSUME Eraser(call), ErasesDown(tree, stack), ~IsLeaf(tree.node[Last(stack).n]),
         NEW slot \in 0..slotuse(tree.node[Last(stack).n]), EraseInto(slot)
  PROVE  IInv'
<1> DEFINE to == Into(stack, [Last(stack) EXCEPT !.slot = slot], ChildArgs(tree, Last(stack), slot))
<1>1. ErasesDown(tree, to)
  BY EraseDescends
<1>2. tree' = tree /\ pc' = "descend" /\ call' = call /\ stack' = to
  BY DEF EraseInto, Into, Top
<1> QED  BY <1>1, <1>2 DEF IInv, Phase, EraseRuns

(* On the way down it does so for the slot find_lower() gives.             *)
LEMMA EraseDescendKeeps ==
  ASSUME IInv, EraseDescend
  PROVE  IInv'
<1> DEFINE n    == Last(stack).n
           slot == FindLower(tree.node[n], call.key)
<1>1. Eraser(call) /\ ErasesDown(tree, stack) /\ ~IsLeaf(tree.node[n]) /\ EraseInto(slot)
  BY WhichPhase DEF IInv, EraseDescend, Erasing, Top, Node
<1>2. tree.node[n].slotkey \in Seq(Int) /\ call.key \in Int
  BY <1>1, TopNode DEF Eraser
<1>3. slot \in 0..slotuse(tree.node[n])
  <2> HIDE DEF n
  <2> QED  BY <1>2, FindLowerFound
<1> HIDE DEF slot
<1> QED  BY <1>1, <1>3, EraseIntoKeeps

(* A repair announces no new last key of its own, and a leaf that is empty *)
(* has none.                                                               *)
LEMMA RepairKinds ==
  ASSUME NEW t, NEW f
  PROVE  Repair(t, f) \in {"none", "drop_root", "merge_left", "merge_right", "shift_left",
                           "shift_right"}
BY DEF Repair

(* A repair asks for no key to be passed on unless the node did.           *)
LEMMA RepairedFlags ==
  ASSUME NEW t, NEW f, NEW flags, "update_lastkey" \notin flags
  PROVE  "update_lastkey" \notin Repaired(t, f, flags).flags
BY RepairKinds DEF Repaired

(* When a leaf asks for its greatest key to be passed on, it has one.      *)
LEMMA LastKeyTold ==
  ASSUME NEW t, IsTree(t), NEW f, f.n \in NodeId, NEW slot \in Nat,
         slot < slotuse(t.node[f.n]), "update_lastkey" \in EraseFromLeaf(t, f, slot).flags
  PROVE  LastKey(Without(t.node[f.n], slot)) \in Int
<1> DEFINE n    == f.n
           cut  == [t EXCEPT !.node[n] = Without(@, slot)]
           leaf == cut.node[n]
           last == slot = slotuse(leaf) /\ slotuse(leaf) >= 1
           told == IF last THEN TellParent(cut, f, LastKey(leaf))
                   ELSE [tree |-> cut, flags |-> {}]
<1>1. t.node[n].slotkey \in Seq(Int)
  BY DEF IsTree, IsNode
<1>2. slot \in 0..(slotuse(t.node[n]) - 1)
  BY <1>1 DEF slotuse
<1>3. IsTree(cut) /\ leaf = Without(t.node[n], slot)
  BY <1>2, WithoutEffect
<1>4. EraseFromLeaf(t, f, slot) = Repaired(told.tree, f, told.flags)
  BY DEF EraseFromLeaf
<1>5. "update_lastkey" \in told.flags
  <2> HIDE DEF told
  <2> QED  BY <1>4, RepairedFlags
<1>6. slotuse(leaf) >= 1
  BY <1>5
<1>7. leaf.slotkey \in Seq(Int)
  BY <1>3 DEF IsTree, IsNode
<1> HIDE DEF cut
<1>8. LastKey(leaf) \in Int
  BY <1>6, <1>7 DEF LastKey, At, slotuse
<1> QED  BY <1>3, <1>8

(* An erasing activation has reached a leaf.                               *)
LEMMA EraseLeafKeeps ==
  ASSUME IInv, EraseLeaf
  PROVE  IInv'
<1> DEFINE n    == Last(stack).n
           leaf == tree.node[n]
           slot == IF call.op = "erase_one" THEN FindLower(leaf, call.key) ELSE call.slot
           done == EraseFromLeaf(tree, Last(stack), slot)
           r    == [NoResult EXCEPT !.flags = done.flags,
                      !.key = IF "update_lastkey" \in done.flags
                              THEN LastKey(Without(leaf, slot)) ELSE 0,
                      !.carry = At(leaf.weight, slot)]
<1>1. Eraser(call) /\ ErasesDown(tree, stack) /\ IsLeaf(leaf)
  BY WhichPhase DEF IInv, EraseLeaf, Erasing, Top, Node
<1>2. /\ IsTree(tree) /\ n \in NodeId /\ leaf.slotkey \in Seq(Int) /\ slotuse(leaf) \in Nat
      /\ call.key \in Int
  BY <1>1, TopNode DEF Eraser
<1>3. CASE Return(tree, NotFound)
  <2>1. ErasesUp(tree, Front(stack), {"not_found"})
    BY <1>1, EraseMisses
  <2>2. NotFound.flags = {"not_found"} /\ NotFound.key \in Int /\ NotFound.child = NULL
    BY DEF NotFound, NoResult
  <2>3. NotFound = [f \in {"flags", "key", "child", "carry"} |-> NotFound[f]]
    BY DEF NotFound, NoResult
  <2>4. IsResult(NotFound)
    BY <2>2, <2>3 DEF IsResult
  <2> QED  BY <1>1, <1>3, <2>1, <2>2, <2>4, EraseReturns
<1>4. CASE Return(done.tree, r) /\ slot < slotuse(leaf)
  <2>1. slot \in Nat
    <3>1. CASE call.op = "erase_one"
      <4> HIDE DEF leaf
      <4>1. FindLower(leaf, call.key) \in 0..slotuse(leaf)
        BY <1>2, FindLowerFound
      <4> QED  BY <1>2, <3>1, <4>1
    <3>2. CASE call.op # "erase_one"
      BY <1>1, <3>2 DEF Eraser
    <3> QED  BY <3>1, <3>2
  <2> HIDE DEF slot
  <2>2. /\ ErasesUp(done.tree, Front(stack), done.flags)
        /\ "not_found" \notin done.flags
    BY <1>1, <1>4, <2>1, EraseHits
  <2>3. "update_lastkey" \in done.flags => LastKey(Without(leaf, slot)) \in Int
    BY <1>2, <1>4, <2>1, LastKeyTold
  <2> HIDE DEF done, leaf
  <2>4. r.flags = done.flags /\ r.key \in Int /\ r.child = NULL
    BY <2>3 DEF NoResult
  <2>5. r = [f \in {"flags", "key", "child", "carry"} |-> r[f]]
    BY DEF NoResult
  <2>6. IsResult(r)
    BY <2>4, <2>5 DEF IsResult
  <2> HIDE DEF r
  <2> QED  BY <1>1, <1>4, <2>2, <2>4, <2>6, EraseReturns
<1> QED  BY <1>3, <1>4 DEF EraseLeaf, Found, Top, Node

(* Nothing was found below, and there is nothing to search further right.  *)
LEMMA MissReturns ==
  ASSUME Eraser(call), IsResult(result), result.key \in Int, "not_found" \in result.flags,
         ErasesUp(tree, stack, result.flags), stack # <<>>, Return(tree, result)
  PROVE  IInv'
<1>1. ErasesDown(tree, stack)
  BY EraseMissed
<1>2. "fixmerge" \notin result.flags
  BY DEF ErasesUp
<1>3. ErasesUp(tree, Front(stack), result.flags)
  BY <1>1, <1>2, EraseMisses
<1> QED  BY <1>3, EraseReturns

(* erase_iter_descend() was told that the leaf is not below a child and    *)
(* tries the next.                                                         *)
LEMMA EraseRetryKeeps ==
  ASSUME IInv, EraseRetry
  PROVE  IInv'
<1> DEFINE n == Last(stack).n
<1>1. /\ Eraser(call) /\ IsResult(result) /\ result.key \in Int
      /\ ErasesUp(tree, stack, result.flags) /\ stack # <<>> /\ "not_found" \in result.flags
  BY WhichPhase DEF IInv, EraseRetry
<1>2. /\ ErasesDown(tree, stack) /\ ~IsLeaf(tree.node[n])
      /\ Last(stack).slot \in Nat /\ slotuse(tree.node[n]) \in Nat
  BY <1>1, EraseMissed
<1>3. CASE EraseInto(Last(stack).slot + 1) /\ Last(stack).slot < slotuse(tree.node[n])
  <2>1. Last(stack).slot + 1 \in 0..slotuse(tree.node[n])
    BY <1>2, <1>3
  <2> QED  BY <1>1, <1>2, <1>3, <2>1, EraseIntoKeeps
<1>4. CASE Return(tree, result)
  BY <1>1, <1>4, MissReturns
<1> QED  BY <1>3, <1>4 DEF EraseRetry, Top, Node

(* An erasing activation is returned to.                                   *)
LEMMA EraseReturnKeeps ==
  ASSUME IInv, EraseReturn
  PROVE  IInv'
<1> DEFINE done == EraseFromInner(tree, Last(stack), call.op, result)
           r    == [result EXCEPT !.flags = done.flags,
                      !.key = IF "update_lastkey" \in done.flags THEN @ ELSE 0]
<1>1. /\ Eraser(call) /\ IsResult(result) /\ result.key \in Int
      /\ ErasesUp(tree, stack, result.flags) /\ stack # <<>>
  BY WhichPhase DEF IInv, EraseReturn, Erasing
<1>2. CASE "not_found" \in result.flags
  BY <1>1, <1>2, MissReturns DEF EraseReturn
<1>3. CASE "not_found" \notin result.flags
  <2>1. ErasesUp(done.tree, Front(stack), done.flags)
    BY <1>1, <1>3, EraseClimbs
  <2>2. Return(done.tree, r)
    BY <1>3 DEF EraseReturn, Top
  <2> HIDE DEF done
  <2>3. result = [f \in {"flags", "key", "child", "carry"} |-> result[f]]
    BY <1>1 DEF IsResult
  <2>4. r.flags = done.flags /\ r.key \in Int
    BY <1>1, <2>3
  <2>5. r = [f \in {"flags", "key", "child", "carry"} |-> r[f]]
    BY <2>3
  <2>6. IsResult(r)
    BY <2>4, <2>5 DEF IsResult
  <2> HIDE DEF r
  <2> QED  BY <1>1, <2>1, <2>2, <2>4, <2>6, EraseReturns
<1> QED  BY <1>2, <1>3

(* erase_one() or erase(iterator) ends.                                    *)
LEMMA EraseFinishKeeps ==
  ASSUME IInv, EraseFinish
  PROVE  IInv'
<1> DEFINE size == IF "not_found" \in result.flags THEN tree.size ELSE tree.size - 1
<1>1. ErasesUp(tree, <<>>, result.flags)
  BY WhichPhase DEF IInv, EraseFinish, Erasing
<1>2. Resting(tree)
  BY <1>1, EraseEnds
<1>3. Finish(Counted(tree, size))
  BY DEF EraseFinish, Counted
<1> HIDE DEF size
<1>4. Resting(Counted(tree, size))
  BY <1>2, RestingSize
<1> QED  BY <1>3, <1>4, Finishes

(* bulk_load() starts.                                                     *)
LEMMA BulkLoadStartKeeps ==
  ASSUME IInv, NEW items \in Ranges, BulkLoadStart(items)
  PROVE  IInv'
<1>1. Resting(tree) /\ tree.root = NULL
  BY WhichPhase DEF IInv, BulkLoadStart
<1>2. items \in Seq(Int) /\ items # <<>>
  <2>1. items \in Seq(Key) /\ items # <<>> /\ Key \subseteq Int
    BY BTreeAssumption DEF IsSortedRange
  <2>2. ASSUME NEW i \in DOMAIN items PROVE items[i] \in Int
    <3>1. i \in 1..Len(items)
      BY <2>1
    <3>2. items[i] \in Key
      BY <2>1, <3>1, ElementOfSeq
    <3> QED  BY <2>1, <3>2
  <2>3. ToSet(items) \subseteq Int
    BY <2>2 DEF ToSet
  <2> QED  BY <2>1, <2>3, Within
<1>3. pc' = "load" /\ call' = LoadOf(items) /\ tree' = [tree EXCEPT !.size = Len(items)]
  BY DEF BulkLoadStart, LoadOf
<1>4. LoadCall([tree EXCEPT !.size = Len(items)], LoadOf(items))
  BY <1>1, <1>2, LoadBegins
<1> QED  BY <1>3, <1>4 DEF IInv, Phase, LoadRuns

(* A node made out of call d goes where LoadedNode() puts it.              *)
LEMMA LoadedNodeKeeps ==
  ASSUME NEW u, NEW t, NEW c, NEW d, NEW made, Took(u, t, c, d, made), pc = "load",
         LoadedNode(u, d, made)
  PROVE  IInv'
<1> DEFINE parents == Append(d.parents, made)
<1>1. /\ d.parts > 1 => LoadCall(u, OnLevel(d, made))
      /\ ~(d.parts > 1) /\ d.parents = <<>> => Resting(Rooted(u, made.n))
      /\ ~(d.parts > 1) /\ d.parents # <<>> => LoadCall(u, UpLevel(d, made))
  BY TookOne
<1>2. d.parents \in Seq(Made) /\ made \in Made
  BY DEF Took, IsLoad
<1>3. Len(parents) = 1 <=> d.parents = <<>>
  BY <1>2
<1>4. CASE d.parts > 1
  <2>1. tree' = u /\ call' = OnLevel(d, made) /\ pc' = "load"
    BY <1>4 DEF LoadedNode, OnLevel
  <2> QED  BY <1>1, <1>4, <2>1 DEF IInv, Phase, LoadRuns
<1>5. CASE ~(d.parts > 1) /\ d.parents = <<>>
  <2>1. Finish(Rooted(u, made.n))
    BY <1>3, <1>5 DEF LoadedNode, Rooted
  <2> QED  BY <1>1, <1>5, <2>1, Finishes
<1>6. CASE ~(d.parts > 1) /\ d.parents # <<>>
  <2>1. tree' = u /\ call' = UpLevel(d, made) /\ pc' = "load"
    BY <1>3, <1>6 DEF LoadedNode, UpLevel
  <2> QED  BY <1>1, <1>6, <2>1 DEF IInv, Phase, LoadRuns
<1> QED  BY <1>4, <1>5, <1>6

(* bulk_load() makes a leaf.                                               *)
LEMMA BulkLoadLeafKeeps ==
  ASSUME IInv, FreeIds(tree) # {}, BulkLoadLeaf
  PROVE  IInv'
<1> DEFINE num  == Len(call.items) \div call.parts
           leaf == LeafOf(tree, call.items, num)
           u    == WithLeaf(tree, leaf)
           d    == TakeItems(call, num)
           made == MadeNow(tree, LastKey(leaf))
<1>1. LoadCall(tree, call) /\ call.level = 0 /\ pc = "load"
  BY WhichPhase DEF IInv, BulkLoadLeaf
<1>2. Took(u, tree, call, d, made)
  BY <1>1, LoadLeafStep
<1>3. LoadedNode(u, d, made)
  BY DEF BulkLoadLeaf, LeafOf, WithLeaf, TakeItems, MadeNow, Node
<1> HIDE DEF u, d, made
<1> QED  BY <1>1, <1>2, <1>3, LoadedNodeKeeps

(* bulk_load() makes an inner node.                                        *)
LEMMA BulkLoadInnerKeeps ==
  ASSUME IInv, FreeIds(tree) # {}, BulkLoadInner
  PROVE  IInv'
<1> DEFINE num  == Len(call.children) \div call.parts
           mine == First(call.children, num)
           u    == WithInner(tree, InnerOf(tree, call.level, mine, num))
           d    == TakeChildren(call, num)
           made == MadeNow(tree, Last(mine).maxkey)
<1>1. LoadCall(tree, call) /\ call.level > 0 /\ pc = "load"
  BY WhichPhase DEF IInv, BulkLoadInner
<1>2. Took(u, tree, call, d, made)
  BY <1>1, LoadInnerStep
<1>3. LoadedNode(u, d, made)
  BY Zenon DEF BulkLoadInner, InnerOf, WithInner, TakeChildren, MadeNow, Node
<1> HIDE DEF u, d, made
<1> QED  BY <1>1, <1>2, <1>3, LoadedNodeKeeps

(* clear() is one step.                                                    *)
LEMMA ClearKeeps ==
  ASSUME IInv, Clear
  PROVE  IInv'
<1>1. Resting(tree) /\ tree.root # NULL /\ pc = "idle"
  BY WhichPhase DEF IInv, Clear
<1>2. tree' = Cleared(tree) /\ pc' = pc /\ call' = call
  BY DEF Clear, Cleared, Node
<1>3. Resting(Cleared(tree))
  BY <1>1, ClearEmpties
<1>4. call.op = "none"
  BY <1>1 DEF IInv, Phase, Rests, InsertRuns, InsertBack, EraseRuns, EraseBack, LoadRuns
<1> QED  BY <1>1, <1>2, <1>3, <1>4 DEF IInv, Phase, Rests

(* All actions together.                                                   *)
LEMMA NextKeeps ==
  ASSUME IInv, FreeIds(tree) # {}, [Next]_vars
  PROVE  IInv'
<1>1. CASE InsertNext
  BY <1>1, InsertStartKeeps, InsertDescendKeeps, InsertLeafKeeps, InsertReturnKeeps,
     InsertFinishKeeps DEF InsertNext
<1>2. CASE EraseNext
  BY <1>2, EraseDescendKeeps, EraseLeafKeeps, EraseReturnKeeps, EraseFinishKeeps DEF EraseNext
<1>3. CASE EraseOneNext
  BY <1>2, <1>3, EraseOneStartKeeps DEF EraseOneNext
<1>4. CASE EraseIterNext
  <2>1. ASSUME NEW leaf \in Allocated(tree), NEW slot \in 0..(LeafSlots - 1),
               EraseIterStart(leaf, slot)
        PROVE  IInv'
    BY <2>1, EraseIterStartKeeps DEF Allocated
  <2> QED  BY <1>2, <1>4, <2>1, EraseRetryKeeps DEF EraseIterNext
<1>5. CASE BulkLoadNext
  BY <1>5, BulkLoadStartKeeps, BulkLoadLeafKeeps, BulkLoadInnerKeeps DEF BulkLoadNext
<1>6. CASE Clear
  BY <1>6, ClearKeeps
<1>7. CASE UNCHANGED vars
  BY <1>7 DEF vars, IInv
<1> QED  BY <1>1, <1>3, <1>4, <1>5, <1>6, <1>7 DEF Next, KeyNext, IterNext

(* The premise of all that follows is MemoryLeft: the allocator has a node *)
(* to give when one is asked for.                                          *)
LEMMA InvariantHolds == Spec /\ []MemoryLeft => []IInv
<1>1. Init => IInv
  BY InitHolds
<1>2. IInv /\ MemoryLeft /\ [Next]_vars => IInv'
  BY NextKeeps DEF MemoryLeft
<1> QED  BY <1>1, <1>2, PTL DEF Spec

(* What the invariant says of every step: the allocated nodes are those of *)
(* the forest and, when it waits to be freed, an emptied one.              *)
LEMMA NodesFit ==
  ASSUME NEW t, NEW A, NEW L, NEW V, NEW R, NEW D, Stands(t, A, L, V, R, D),
         NEW few, Filled(t, A, few),
         \A m \in D : m \in NodeId => m \in A \/ slotuse(t.node[m]) = 0
  PROVE  \A n \in Allocated(t) : slotuse(t.node[n]) <= SlotMax(t.node[n])
<1> SUFFICES ASSUME NEW n \in Allocated(t)
             PROVE  slotuse(t.node[n]) <= SlotMax(t.node[n])
  OBVIOUS
<1>1. n \in A \/ (n \in D /\ n \in NodeId)
  BY DEF Stands, Allocated, FreeIds
<1>2. CASE n \in A
  BY <1>2 DEF Filled, Fits
<1>3. CASE slotuse(t.node[n]) = 0
  BY <1>3, MinMax
<1> QED  BY <1>1, <1>2, <1>3

(* No node has more keys than slots, whatever the call is at.              *)
LEMMA SlotsHeld ==
  ASSUME IInv
  PROVE  \A n \in Allocated(tree) : slotuse(tree.node[n]) <= SlotMax(tree.node[n])
<1>0. \A m \in {} : m \in NodeId => FALSE
  OBVIOUS
<1>1. CASE Rests(tree, pc, call)
  <2>1. PICK A, L, V, R : Stands(tree, A, L, V, R, {}) /\ Filled(tree, A, NULL)
    BY <1>1 DEF Rests, Resting
  <2> QED  BY <2>1, NodesFit
<1>2. CASE InsertRuns(tree, pc, call, stack)
  <2>1. PICK A, L, V, R : Stands(tree, A, L, V, R, {}) /\ Filled(tree, A, TopLeaf(tree, stack))
    BY <1>2 DEF InsertRuns, InsertsDown
  <2> QED  BY <2>1, NodesFit
<1>3. CASE InsertBack(tree, pc, call, stack, result)
  <2>1. PICK A, L, V, R : /\ Grown(tree, A, L, V, R, stack, result.child)
                          /\ Path(tree, A, L, stack) /\ Filled(tree, A, NULL)
    BY <1>3 DEF InsertBack, InsertsUp
  <2>2. CASE result.child = NULL
    <3>1. Stands(tree, A, L, V, R, {})
      BY <2>1, <2>2 DEF Grown
    <3> QED  BY <2>1, <3>1, NodesFit
  <2>3. CASE result.child # NULL
    <3> DEFINE par == Above(stack, Len(stack))
    <3>1. Stands(tree, A, L, V, R, {par})
      BY <2>1, <2>3 DEF Grown
    <3>2. par \in NodeId => par \in A
      <4>1. PICK S : stack \in Seq(S)
        BY <2>1 DEF Path
      <4>2. CASE Len(stack) = 0
        BY <4>2, NullApart DEF Above
      <4>3. CASE Len(stack) # 0
        <5>1. Len(stack) \in 1..Len(stack)
          BY <4>1, <4>3
        <5> QED  BY <2>1, <4>3, <5>1 DEF Above, Path
      <4> QED  BY <4>2, <4>3
    <3> HIDE DEF par
    <3> QED  BY <2>1, <3>1, <3>2, NodesFit
  <2> QED  BY <2>2, <2>3
<1>4. CASE EraseRuns(tree, pc, call, stack)
  <2>1. PICK A, L, V, R : Stands(tree, A, L, V, R, {}) /\ Filled(tree, A, NULL)
    BY <1>4 DEF EraseRuns, ErasesDown
  <2> QED  BY <2>1, NodesFit
<1>5. CASE EraseBack(tree, pc, call, stack, result)
  <2>1. PICK A, L, V, R : Climbs(tree, A, L, V, R, stack, result.flags)
    BY <1>5 DEF EraseBack, ErasesUp, Returned
  <2>2. Path(tree, A, L, stack) /\ Filled(tree, A, NULL)
    BY <2>1 DEF Climbs
  <2>3. CASE "fixmerge" \notin result.flags
    <3>1. Stands(tree, A, L, V, R, {})
      BY <2>1, <2>3 DEF Climbs, Shrunk
    <3> QED  BY <2>2, <3>1, NodesFit
  <2>4. CASE "fixmerge" \in result.flags
    <3> DEFINE n == Last(stack).n
    <3>1. PICK k \in Nat : /\ Gap(tree, A, V, stack, k)
                           /\ Stands(tree, A, L, V, R, {n, tree.node[n].childid[k]})
      BY <2>1, <2>4 DEF Climbs, Shrunk
    <3> DEFINE c == tree.node[n].childid[k]
    <3>2. stack # <<>> /\ slotuse(tree.node[c]) = 0
      BY <3>1 DEF Gap
    <3>3. n \in A
      <4>1. PICK S : stack \in Seq(S)
        BY <2>2 DEF Path
      <4>2. Len(stack) \in 1..Len(stack)
        BY <3>2, <4>1
      <4>3. Last(stack) = stack[Len(stack)]
        BY DEF Last
      <4> QED  BY <2>2, <4>2, <4>3 DEF Path
    <3>4. Stands(tree, A, L, V, R, {n, c})
      BY <3>1
    <3> HIDE DEF n, c
    <3> QED  BY <2>2, <3>2, <3>3, <3>4, NodesFit
  <2> QED  BY <2>3, <2>4
<1>6. CASE LoadRuns(tree, pc, call)
  <2>1. PICK level, below, done, N, parts : Loads(tree, level, N, parts, below, done)
    BY <1>6 DEF LoadRuns, LoadCall
  <2>2. PICK A, L, V, R : /\ Loading(tree, A, L, V, R, level, below, done)
                          /\ \A m \in A : Sized(tree, m)
    BY <2>1 DEF Loads
  <2> DEFINE D == {NULL} \cup Open(level, done)
  <2>3. Stands(tree, A, L, V, R, D) /\ (done # <<>> => V[NULL] = done)
    BY <2>2 DEF Loading
  <2>4. \A m \in D : m \in NodeId => m \in A
    <3>1. done # <<>> => Last(done) \in A
      <4>1. V[NULL] \in Seq(A)
        BY <2>3, StandsFacts DEF Parents
      <4> QED  BY <2>3, <4>1 DEF Last
    <3> QED  BY <3>1, NullApart DEF Open
  <2> HIDE DEF D
  <2>5. \A n \in Allocated(tree) : n \in A
    BY <2>3, <2>4 DEF Stands, Allocated, FreeIds
  <2> QED  BY <2>2, <2>5 DEF Sized
<1> QED  BY <1>1, <1>2, <1>3, <1>4, <1>5, <1>6 DEF IInv, Phase

(* What the invariant says between calls.                                  *)
LEMMA RestingBalanced ==
  ASSUME IInv
  PROVE  Balanced
<1>0. \A n \in Allocated(tree) : slotuse(tree.node[n]) <= SlotMax(tree.node[n])
  BY SlotsHeld
<1> SUFFICES ASSUME pc = "idle", NEW n \in Allocated(tree)
             PROVE  /\ slotuse(tree.node[n]) >= IF n = tree.root THEN 1 ELSE SlotMin(tree.node[n])
                    /\ ~IsLeaf(tree.node[n]) =>
                         Len(tree.node[n].childid) = slotuse(tree.node[n]) + 1
                    /\ \A c \in Children(tree, n) : tree.node[c].level = tree.node[n].level - 1
  BY <1>0 DEF Balanced, Idle, Node
<1>1. PICK A, L, V, R : Stands(tree, A, L, V, R, {}) /\ Filled(tree, A, NULL)
  BY WhichPhase DEF IInv, Resting
<1>2. /\ IsTree(tree) /\ A \subseteq NodeId /\ L \in [NodeId -> Int]
      /\ \A m \in A : tree.node[m].level = L[m]
  BY <1>1, StandsFacts
<1>3. n \in A /\ n \in NodeId /\ n # NULL
  BY <1>1, NullApart DEF Allocated, FreeIds, Stands
<1>4. slotuse(tree.node[n]) >= Low(tree, n)
  BY <1>1, <1>3 DEF Filled, Fits
<1>5. ASSUME NEW c \in Children(tree, n)
      PROVE  tree.node[c].level = tree.node[n].level - 1
  <2> DEFINE s == tree.node[n].childid
  <2>1. /\ s \in Seq(A)
        /\ \A i \in 1..Len(s) : s[i] \in A /\ L[n] = L[s[i]] + 1
    BY <1>1, <1>3, ChildrenFacts
  <2>2. PICK i \in 1..Len(s) : c = s[i]
    BY <1>5, <2>1 DEF Children, ToSet
  <2> HIDE DEF s
  <2>3. c \in A /\ L[n] = L[c] + 1 /\ L[c] \in Int
    BY <1>2, <2>1, <2>2
  <2> QED  BY <1>2, <1>3, <2>3
<1>6. ~IsLeaf(tree.node[n]) => Len(tree.node[n].childid) = slotuse(tree.node[n]) + 1
  BY <1>1, <1>3 DEF Stands, Looks, IsLeaf
<1> QED  BY <1>4, <1>5, <1>6 DEF Low

(* No node ever has more keys than slots, in the middle of a call either;  *)
(* between calls every node but the root is at least half full, and all    *)
(* leaves are equally deep, whatever insert(), erase_one(),                *)
(* erase(iterator), bulk_load() and clear() did (verify_node()).           *)
THEOREM BalancedAlways == Spec /\ []MemoryLeft => []Balanced
<1>1. IInv => Balanced
  BY RestingBalanced
<1> QED  BY <1>1, InvariantHolds, PTL

(* Activation i below the top, or the top one, with the one it came from.  *)
SideBySide(t, f) ==
  /\ f.left # NULL /\ f.left_parent = f.parent => Adjacent(t, WithLeft(f))
  /\ f.right # NULL /\ f.right_parent = f.parent => Adjacent(t, WithRight(f))

(* An activation's siblings, seen from the one it was called by.           *)
LEMMA StepSides ==
  ASSUME NEW t, NEW A, NEW L, NEW V, NEW R, NEW D, Stands(t, A, L, V, R, D),
         NEW f, NEW p, p.n \in A, p.n \notin D, p.slot \in Nat,
         NEW c, c = t.node[p.n].childid, p.slot + 1 \in 1..Len(c), c[p.slot + 1] = f.n,
         Sides(t, L, f, p)
  PROVE  SideBySide(t, f)
<1> DEFINE n == p.n
           k == p.slot
<1>1. /\ IsTree(t) /\ A \subseteq NodeId /\ L \in [NodeId -> Int]
      /\ \A m \in A : t.node[m].level = L[m] /\ L[m] >= 0 /\ t.node[m] # Free
  BY StandsFacts
<1>2. /\ n \in NodeId /\ n # NULL /\ Len(c) \in Nat
      /\ \A i \in 1..Len(c) : c[i] \in A /\ L[n] = L[c[i]] + 1
      /\ L[n] # 0 => Len(c) = slotuse(t.node[n]) + 1
      /\ slotuse(t.node[n]) \in Nat
  BY ChildrenFacts
<1>3. Len(c) = slotuse(t.node[n]) + 1 /\ L[n] \in Int
  <2>1. c[k + 1] \in A /\ L[n] = L[c[k + 1]] + 1
    BY <1>2
  <2>2. L[c[k + 1]] \in Int /\ L[c[k + 1]] >= 0
    BY <1>1, <2>1
  <2> HIDE DEF n, k
  <2>3. L[n] # 0 /\ L[n] \in Int
    BY <2>1, <2>2
  <2> QED  BY <1>2, <2>3
<1>4. ASSUME NEW q, q.parent = n, q.slot \in 0..(slotuse(t.node[n]) - 1),
             c[q.slot + 1] = q.left, c[q.slot + 1 + 1] = q.right
      PROVE  Adjacent(t, q)
  <2>1. q.slot + 1 \in 1..Len(c) /\ q.slot + 1 + 1 \in 1..Len(c)
    BY <1>2, <1>3, <1>4
  <2>2. /\ q.left \in A /\ L[n] = L[q.left] + 1
        /\ q.right \in A /\ L[n] = L[q.right] + 1
    BY <1>2, <1>4, <2>1
  <2>3. /\ L[q.left] \in Int /\ L[q.right] \in Int /\ L[q.left] = L[q.right]
        /\ t.node[q.left].level = L[q.left] /\ t.node[q.right].level = L[q.right]
        /\ t.node[n].level = L[n]
    BY <1>1, <2>2
  <2>4. {q.left, q.right, n} \subseteq Allocated(t)
    BY <1>1, <2>2 DEF Allocated, FreeIds
  <2> QED  BY <1>4, <2>2, <2>3, <2>4 DEF Adjacent, At
<1>5. /\ f.parent = n /\ f.parentslot = k
      /\ k # 0 => f.left = c[k - 1 + 1] /\ f.left_parent = n
      /\ k = 0 => Higher(L, f.left_parent, n)
      /\ k # slotuse(t.node[n]) => f.right = c[k + 1 + 1] /\ f.right_parent = n
      /\ k = slotuse(t.node[n]) => Higher(L, f.right_parent, n)
  BY DEF Sides, At
<1>6. ~Higher(L, n, n)
  <2> HIDE DEF n
  <2> QED  BY <1>2, <1>3 DEF Higher
<1> HIDE DEF n, k
<1>7. ASSUME f.left_parent = f.parent PROVE Adjacent(t, WithLeft(f))
  <2>1. k # 0
    BY <1>5, <1>6, <1>7
  <2>2. k - 1 \in 0..(slotuse(t.node[n]) - 1)
    BY <1>2, <1>3, <2>1 DEF k
  <2> DEFINE q == WithLeft(f)
  <2>3. q.parent = n /\ q.slot = k - 1 /\ q.left = f.left /\ q.right = f.n
    BY <1>5, <1>7 DEF WithLeft
  <2> HIDE DEF q
  <2>4. c[q.slot + 1] = q.left
    BY <1>5, <2>1, <2>3
  <2>5. c[q.slot + 1 + 1] = q.right
    <3>1. k - 1 + 1 + 1 = k + 1
      BY DEF k
    <3>2. c[k + 1] = f.n
      BY DEF k
    <3> QED  BY <2>3, <3>1, <3>2
  <2>6. Adjacent(t, q)
    BY <1>4, <2>2, <2>3, <2>4, <2>5
  <2> QED  BY <2>6 DEF q
<1>8. ASSUME f.right_parent = f.parent PROVE Adjacent(t, WithRight(f))
  <2>1. k # slotuse(t.node[n])
    BY <1>5, <1>6, <1>8
  <2>2. k \in 0..(slotuse(t.node[n]) - 1)
    BY <1>2, <1>3, <2>1 DEF k
  <2> DEFINE q == WithRight(f)
  <2>3. q.parent = n /\ q.slot = k /\ q.left = f.n /\ q.right = f.right
    BY <1>5, <1>8 DEF WithRight
  <2> HIDE DEF q
  <2>4. c[q.slot + 1] = q.left
    BY <2>3 DEF k
  <2>5. c[q.slot + 1 + 1] = q.right
    BY <1>5, <2>1, <2>3
  <2>6. Adjacent(t, q)
    BY <1>4, <2>2, <2>3, <2>4, <2>5
  <2> QED  BY <2>6 DEF q
<1> QED  BY <1>7, <1>8 DEF SideBySide

(* All activations on the stack, as far as the forest stands.              *)
LEMMA StackSides ==
  ASSUME NEW t, NEW A, NEW L, NEW V, NEW R, NEW D, Stands(t, A, L, V, R, D),
         NEW st, Path(t, A, L, st), Siblings(t, L, st),
         \A e \in D : e \notin A \/ (st # <<>> /\ e = Last(st).n)
  PROVE  \A i \in DOMAIN st : SideBySide(t, st[i])
<1>1. A \subseteq NodeId /\ L \in [NodeId -> Int]
  BY StandsFacts
<1>2. PICK S : st \in Seq(S)
  BY DEF Path
<1> SUFFICES ASSUME NEW i \in 1..Len(st) PROVE SideBySide(t, st[i])
  BY <1>2
<1>3. Len(st) \in Nat /\ st # <<>> /\ i \in Nat /\ i >= 1 /\ i <= Len(st)
  BY <1>2
<1>4. CASE i = 1
  <2>1. st[1].left = NULL /\ st[1].right = NULL
    BY <1>4 DEF Siblings, Alone
  <2> QED  BY <1>4, <2>1 DEF SideBySide
<1>5. CASE i # 1
  <2> DEFINE j == i - 1
             p == st[j]
             m == p.n
             c == t.node[m].childid
  <2>1. j \in 1..Len(st) /\ j # 0 /\ j # Len(st)
    BY <1>3, <1>5
  <2>2. /\ m \in A /\ p.slot \in Nat
        /\ L[m] + j = L[st[1].n] + 1
    BY <2>1 DEF Path
  <2>3. /\ Down(t, st, j) /\ Kids(t, Above(st, j))[Place(st, j)] = st[i].n
        /\ st[1].n \in A
    BY <1>3 DEF Path
  <2>4. /\ m # NULL /\ m \in NodeId
    BY <1>1, <2>2, NullApart
  <2>5. Kids(t, Above(st, j)) = c /\ Place(st, j) = p.slot + 1
    BY <2>1, <2>4 DEF Kids, Above, Place
  <2>6. p.slot + 1 \in 1..Len(c) /\ c[p.slot + 1] = st[i].n
    BY <2>3, <2>5 DEF Down
  <2>7. m \notin D
    <3>1. Last(st) = st[Len(st)]
      BY <1>2, <1>3, FrontIs
    <3>2. st[Len(st)].n \in A /\ L[st[Len(st)].n] + Len(st) = L[st[1].n] + 1
      BY <1>3 DEF Path
    <3>3. L[m] \in Int /\ L[st[1].n] \in Int /\ L[st[Len(st)].n] \in Int
      BY <1>1, <2>2, <2>3, <3>2
    <3> DEFINE x == st[Len(st)].n
    <3>4. L[m] + j = L[x] + Len(st)
      BY <2>2, <3>2
    <3> HIDE DEF x, m
    <3>5. L[m] # L[x]
      BY <1>3, <2>1, <3>3, <3>4 DEF x
    <3> QED  BY <2>2, <3>1, <3>5 DEF x
  <2>8. Sides(t, L, st[i], p)
    BY <1>5 DEF Siblings
  <2> HIDE DEF p
  <2>9. SideBySide(t, st[i])
    BY <2>2, <2>6, <2>7, <2>8, StepSides
  <2> QED  BY <2>9
<1> QED  BY <1>4, <1>5

(* Whatever an erasing call is at.                                         *)
LEMMA ErasersBeside ==
  ASSUME IInv
  PROVE  RepairsAdjacent
<1> SUFFICES ASSUME Erasing PROVE \A i \in DOMAIN stack : SideBySide(tree, stack[i])
  BY DEF RepairsAdjacent, SideBySide
<1>1. CASE EraseRuns(tree, pc, call, stack)
  <2>1. PICK A, L, V, R : /\ Stands(tree, A, L, V, R, {}) /\ Path(tree, A, L, stack)
                          /\ Siblings(tree, L, stack)
    BY <1>1 DEF EraseRuns, ErasesDown
  <2>2. \A e \in {} : e \notin A \/ (stack # <<>> /\ e = Last(stack).n)
    OBVIOUS
  <2> QED  BY <2>1, <2>2, StackSides
<1>2. CASE EraseBack(tree, pc, call, stack, result)
  <2>1. PICK A, L, V, R : Climbs(tree, A, L, V, R, stack, result.flags)
    BY <1>2 DEF EraseBack, ErasesUp, Returned
  <2>2. Path(tree, A, L, stack) /\ Siblings(tree, L, stack)
    BY <2>1 DEF Climbs
  <2>3. CASE "fixmerge" \notin result.flags
    <3>1. Stands(tree, A, L, V, R, {})
      BY <2>1, <2>3 DEF Climbs, Shrunk
    <3>2. \A e \in {} : e \notin A \/ (stack # <<>> /\ e = Last(stack).n)
      OBVIOUS
    <3> QED  BY <2>2, <3>1, <3>2, StackSides
  <2>4. CASE "fixmerge" \in result.flags
    <3> DEFINE n == Last(stack).n
    <3>1. PICK k \in Nat : /\ Gap(tree, A, V, stack, k)
                           /\ Stands(tree, A, L, V, R, {n, tree.node[n].childid[k]})
      BY <2>1, <2>4 DEF Climbs, Shrunk
    <3> DEFINE D == {n, tree.node[n].childid[k]}
    <3>2. stack # <<>> /\ tree.node[n].childid[k] \notin A
      BY <3>1 DEF Gap
    <3>3. \A e \in D : e \notin A \/ (stack # <<>> /\ e = Last(stack).n)
      BY <3>2
    <3>4. Stands(tree, A, L, V, R, D)
      BY <3>1
    <3> HIDE DEF D
    <3> QED  BY <2>2, <3>3, <3>4, StackSides
  <2> QED  BY <2>3, <2>4
<1>3. ~Rests(tree, pc, call) /\ ~InsertRuns(tree, pc, call, stack)
      /\ ~InsertBack(tree, pc, call, stack, result) /\ ~LoadRuns(tree, pc, call)
  BY LoadOp DEF Erasing, Rests, InsertRuns, InsertBack, LoadRuns
<1> QED  BY <1>1, <1>2, <1>3 DEF IInv, Phase

(* The siblings and parents an erasing activation was given on the way     *)
(* down are still next to each other, allocated and one level apart        *)
(* whenever it runs or is returned to: the merges and shifts made below it *)
(* moved and freed none of them (the assertions of merge_inner() and of    *)
(* the shifts).                                                            *)
THEOREM RepairsAdjacentAlways == Spec /\ []MemoryLeft => []RepairsAdjacent
<1>1. IInv => RepairsAdjacent
  BY ErasersBeside
<1> QED  BY <1>1, InvariantHolds, PTL

(* Between calls every node of the forest is below the root, and no other  *)
(* is allocated.                                                           *)
LEMMA RestingBelow ==
  ASSUME IInv
  PROVE  NothingLost
<1> SUFFICES ASSUME pc = "idle" PROVE Below(tree, tree.root) = Allocated(tree)
  BY DEF NothingLost, Idle
<1>1. PICK A, L, V, R : Stands(tree, A, L, V, R, {})
  BY WhichPhase DEF IInv, Resting
<1>2. A \subseteq NodeId /\ \A n \in A : tree.node[n] # Free
  BY <1>1, StandsFacts
<1>3. Allocated(tree) = A
  BY <1>1, <1>2 DEF Allocated, FreeIds, Stands
<1>4. CASE tree.root # NULL
  BY <1>1, <1>3, <1>4, BelowRoot
<1>5. CASE tree.root = NULL
  <2>1. V[NULL] = <<>>
    <3>1. NULL \in (A \cup {NULL}) \ {}
      OBVIOUS
    <3> QED  BY <1>1, <1>5, <3>1 DEF Stands, Kids, Tops
  <2> DEFINE C == Sets(V)
  <2>2. C[NULL] = {}
    BY <2>1 DEF Sets, Parents, ToSet
  <2>3. Kin(A, L, C)
    BY <1>1, StandsFacts DEF Family
  <2> HIDE DEF C
  <2>4. A = {}
    BY <2>2, <2>3 DEF Kin
  <2>5. Below(tree, tree.root) = {}
    BY <1>5 DEF Below
  <2> QED  BY <1>3, <2>4, <2>5
<1> QED  BY <1>4, <1>5

(* No call leaks a node, and none leaves a parent with a freed child:      *)
(* between calls the allocated nodes are those below the root.             *)
THEOREM NothingLostAlways == Spec /\ []MemoryLeft => []NothingLost
<1>1. IInv => NothingLost
  BY RestingBelow
<1> QED  BY <1>1, InvariantHolds, PTL
=============================================================================
