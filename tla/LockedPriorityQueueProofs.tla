--------------------- MODULE LockedPriorityQueueProofs ---------------------
(***************************************************************************)
(* The mutex keeps the two statements of pop() together, and a thread that *)
(* was told of an item finds one unless another thread has popped, for any *)
(* threads, consumers, items and priorities.                               *)
(***************************************************************************)
EXTENDS LockedPriorityQueue, TLAPS

Behind == {"in", "top", "out", "lost"}

(* The parts of the invariant.                                             *)
Exclusive == \A t \in Thread : at[t] \in Behind => m_mutex = t
Asked     == \A t \in Thread : at[t] \in {"lock", "in"} /\ call[t].op = "pop" => seen[t].some
Told      == \A t \in Thread : seen[t].some /\ ~seen[t].stale => Parent!Members # {}
TopStays  == \A t \in Thread : at[t] = "top" => Parent!IsTop(seen[t].item)

LockedInv == LockedTypeOK /\ Exclusive /\ Asked /\ Told /\ TopStays /\ PopsFindItem

Answered == [some : BOOLEAN, item : Item \cup {NoItem}, stale : BOOLEAN]

(* A step of t leaves the other threads alone while it does not touch the  *)
(* container.                                                              *)
LEMMA Outside ==
  ASSUME LockedInv, NEW t \in Thread, UNCHANGED items,
         NEW p \in Places, at' = [at EXCEPT ![t] = p],
         NEW s \in Answered, seen' = [seen EXCEPT ![t] = s],
         LockedTypeOK',
         \A u \in Thread \ {t} : at[u] \in Behind => m_mutex' = m_mutex,
         p \in Behind => m_mutex' = t,
         \A u \in Thread \ {t} : call'[u] = call[u],
         p \in {"lock", "in"} /\ call'[t].op = "pop" => s.some,
         s.some /\ ~s.stale => Parent!Members # {},
         p = "top" => Parent!IsTop(s.item),
         p = "lost" => s.stale
  PROVE  LockedInv'
<1>1. /\ at'[t] = p /\ seen'[t] = s
      /\ \A u \in Thread \ {t} : at'[u] = at[u] /\ seen'[u] = seen[u]
  BY DEF LockedInv, LockedTypeOK
<1>2. Exclusive'
  BY <1>1 DEF LockedInv, Exclusive
<1>3. Asked'
  BY <1>1 DEF LockedInv, Asked
<1>4. Told'
  BY <1>1 DEF LockedInv, Told, Parent!Members
<1>5. TopStays'
  BY <1>1 DEF LockedInv, TopStays, Parent!IsTop, Parent!Members
<1>6. PopsFindItem'
  BY <1>1 DEF LockedInv, PopsFindItem
<1> QED  BY <1>2, <1>3, <1>4, <1>5, <1>6 DEF LockedInv

LEMMA EnterKeeps ==
  ASSUME LockedInv, NEW t \in Thread, NEW c \in Calls \ {Nothing}, Enter(t, c)
  PROVE  LockedInv'
<1>1. seen[t] \in Answered /\ seen' = [seen EXCEPT ![t] = seen[t]]
  BY DEF LockedInv, LockedTypeOK, Answered, Enter
<1>2. LockedTypeOK'
  BY DEF LockedInv, LockedTypeOK, Enter, Places
<1>3. \A u \in Thread \ {t} : call'[u] = call[u]
  BY DEF LockedInv, LockedTypeOK, Enter
<1>4. call'[t].op = "pop" => seen[t].some
  BY DEF LockedInv, LockedTypeOK, Enter
<1>5. seen[t].some /\ ~seen[t].stale => Parent!Members # {}
  BY DEF LockedInv, Told
<1> QED  BY <1>1, <1>2, <1>3, <1>4, <1>5, Outside DEF Enter, Places, Behind

LEMMA LockKeeps ==
  ASSUME LockedInv, NEW t \in Thread, Lock(t)
  PROVE  LockedInv'
<1>1. seen[t] \in Answered /\ seen' = [seen EXCEPT ![t] = seen[t]]
  BY DEF LockedInv, LockedTypeOK, Answered, Lock
<1>2. LockedTypeOK'
  BY DEF LockedInv, LockedTypeOK, Lock, Places
<1>3. \A u \in Thread \ {t} : at[u] \notin Behind
  BY LockedAssumption DEF LockedInv, Exclusive, Lock, LockedAssumption
<1>4. call[t].op = "pop" => seen[t].some
  BY DEF LockedInv, Asked, Lock
<1>5. seen[t].some /\ ~seen[t].stale => Parent!Members # {}
  BY DEF LockedInv, Told
<1> QED  BY <1>1, <1>2, <1>3, <1>4, <1>5, Outside DEF Lock, Places

LEMMA AskKeeps ==
  ASSUME LockedInv, NEW t \in Thread, empty(t) \/ size(t)
  PROVE  LockedInv'
<1> DEFINE s == Answer(Parent!Members # {}, NoItem)
<1>1. /\ at[t] = "in" /\ at' = [at EXCEPT ![t] = "out"] /\ seen' = [seen EXCEPT ![t] = s]
      /\ UNCHANGED <<items, m_mutex, call>>
  BY DEF empty, size, Answers
<1>2. s \in Answered /\ (s.some <=> Parent!Members # {})
  BY DEF Answer, Answered
<1> HIDE DEF s
<1>3. LockedTypeOK'
  BY <1>1, <1>2 DEF LockedInv, LockedTypeOK, Places, Answered
<1>4. m_mutex = t
  BY <1>1 DEF LockedInv, Exclusive, Behind
<1> QED  BY <1>1, <1>2, <1>3, <1>4, Outside DEF Places

LEMMA TopKeeps ==
  ASSUME LockedInv, NEW t \in Thread, Top(t)
  PROVE  LockedInv'
<1>1. PICK i \in Item : Parent!IsTop(i) /\ seen' = [seen EXCEPT ![t] = Answer(FALSE, i)]
  BY DEF Top
<1> DEFINE s == Answer(FALSE, i)
<1>2. s \in Answered /\ ~s.some /\ s.item = i
  BY DEF Answer, Answered
<1> HIDE DEF s
<1>3. LockedTypeOK'
  BY <1>1, <1>2 DEF s, Top, LockedInv, LockedTypeOK, Places, Answered
<1>4. m_mutex = t
  BY DEF Top, LockedInv, Exclusive, Behind
<1>5. Parent!IsTop(s.item)
  BY <1>1, <1>2
<1>6. seen' = [seen EXCEPT ![t] = s]
  BY <1>1 DEF s
<1> QED  BY <1>2, <1>3, <1>4, <1>5, <1>6, Outside DEF Top, Places

LEMMA ReturnKeeps ==
  ASSUME LockedInv, NEW t \in Thread, Return(t)
  PROVE  LockedInv'
<1>1. seen[t] \in Answered /\ seen' = [seen EXCEPT ![t] = seen[t]]
  BY DEF LockedInv, LockedTypeOK, Answered, Return
<1>2. LockedTypeOK'
  BY DEF LockedInv, LockedTypeOK, Return, Places, Calls
<1>3. \A u \in Thread \ {t} : at[u] \notin Behind
  BY DEF LockedInv, Exclusive, Return, Behind
<1>4. \A u \in Thread \ {t} : call'[u] = call[u]
  BY DEF LockedInv, LockedTypeOK, Return
<1>5. seen[t].some /\ ~seen[t].stale => Parent!Members # {}
  BY DEF LockedInv, Told
<1> QED  BY <1>1, <1>2, <1>3, <1>4, <1>5, Outside DEF Return, Places, Behind

(* A thread that was told of an item and has not been overtaken finds one. *)
LEMMA PopEmptyKeeps ==
  ASSUME LockedInv, NEW t \in Thread, PopEmpty(t)
  PROVE  LockedInv'
<1>1. seen[t] \in Answered /\ seen' = [seen EXCEPT ![t] = seen[t]]
  BY DEF LockedInv, LockedTypeOK, Answered, PopEmpty
<1>2. LockedTypeOK'
  BY DEF LockedInv, LockedTypeOK, PopEmpty, Places
<1>3. at[t] # "top"
  BY DEF LockedInv, TopStays, PopEmpty, Parent!IsTop
<1>4. seen[t].stale
  BY <1>3 DEF LockedInv, Asked, Told, PopEmpty
<1>5. m_mutex = t
  BY <1>3 DEF LockedInv, Exclusive, PopEmpty, Behind
<1> QED  BY <1>1, <1>2, <1>4, <1>5, Outside DEF PopEmpty, Places

(* Nobody else is between top() and pop() while an item is added.          *)
LEMMA PushKeeps ==
  ASSUME LockedInv, NEW t \in Thread, Push(t)
  PROVE  LockedInv'
<1> DEFINE i == call[t].item
<1>1. /\ at[t] = "in" /\ at' = [at EXCEPT ![t] = "out"]
      /\ seen' = [seen EXCEPT ![t] = Answer(FALSE, NoItem)]
      /\ items' = [items EXCEPT ![i] = @ + 1]
      /\ call[t].op = "push" /\ UNCHANGED <<m_mutex, call>>
  BY DEF Push, Answers, Parent!Push
<1>2. i \in Item
  BY <1>1 DEF LockedInv, LockedTypeOK, Calls, Nothing
<1>3. LockedTypeOK'
  BY <1>1, <1>2 DEF LockedInv, LockedTypeOK, Answer, Places
<1>4. /\ at'[t] = "out" /\ ~seen'[t].some
      /\ \A u \in Thread \ {t} : at'[u] = at[u] /\ seen'[u] = seen[u] /\ at[u] \notin Behind
  BY <1>1 DEF LockedInv, LockedTypeOK, Exclusive, Behind, Answer
<1>5. m_mutex = t
  BY <1>1 DEF LockedInv, Exclusive, Behind
<1>6. Parent!Members \subseteq Parent!Members'
  BY <1>1, <1>2 DEF LockedInv, LockedTypeOK, Parent!Members
<1>7. Exclusive'
  BY <1>1, <1>4, <1>5 DEF Exclusive
<1>8. Asked'
  BY <1>1, <1>4 DEF LockedInv, Asked
<1>9. Told'
  BY <1>4, <1>6 DEF LockedInv, Told
<1>10. TopStays' /\ PopsFindItem'
  BY <1>4 DEF TopStays, PopsFindItem, Behind
<1> QED  BY <1>3, <1>7, <1>8, <1>9, <1>10 DEF LockedInv

(* What pop() removes is what top() returned.                              *)
LEMMA PopTakes ==
  ASSUME LockedInv, NEW t \in Thread, Pop(t)
  PROVE  /\ seen[t].item \in Item /\ items[seen[t].item] > 0
         /\ items' = [items EXCEPT ![seen[t].item] = @ - 1]
<1>1. at[t] = "top"
  BY DEF Pop
<1>2. Parent!IsTop(seen[t].item)
  BY <1>1 DEF LockedInv, TopStays
<1>3. PICK i \in Item : i = seen[t].item /\ Parent!Pop(i)
  BY <1>2 DEF Pop
<1> QED  BY <1>2, <1>3 DEF Parent!Pop, Parent!IsTop, Parent!Members

LEMMA PopKeeps ==
  ASSUME LockedInv, NEW t \in Thread, Pop(t)
  PROVE  LockedInv'
<1>1. /\ at[t] = "top" /\ at' = [at EXCEPT ![t] = "out"]
      /\ seen' = [u \in Thread |-> [seen[u] EXCEPT !.stale = @ \/ seen[u].some]]
      /\ UNCHANGED <<m_mutex, call>>
  BY DEF Pop
<1>2. \A u \in Thread : seen[u] \in Answered
  BY DEF LockedInv, LockedTypeOK, Answered
<1>3. \A u \in Thread : /\ seen'[u] \in Answered
                        /\ seen'[u].some = seen[u].some
                        /\ seen'[u].stale = (seen[u].stale \/ seen[u].some)
  BY <1>1, <1>2 DEF Answered
<1>4. items' \in [Item -> Nat]
  BY PopTakes DEF LockedInv, LockedTypeOK
<1>5. LockedTypeOK'
  <2>1. seen' \in [Thread -> Answered]
    BY <1>1, <1>3
  <2> QED  BY <1>1, <1>4, <2>1 DEF LockedInv, LockedTypeOK, Places, Answered
<1>6. /\ at'[t] = "out" /\ m_mutex = t
      /\ \A u \in Thread \ {t} : at'[u] = at[u] /\ at[u] \notin Behind
  BY <1>1 DEF LockedInv, LockedTypeOK, Exclusive, Behind
<1>7. Exclusive'
  BY <1>1, <1>6 DEF Exclusive
<1>8. Asked'
  BY <1>1, <1>3, <1>6 DEF LockedInv, Asked
<1>9. Told'
  BY <1>3 DEF Told
<1>10. TopStays' /\ PopsFindItem'
  BY <1>6 DEF TopStays, PopsFindItem, Behind
<1> QED  BY <1>5, <1>7, <1>8, <1>9, <1>10 DEF LockedInv

LEMMA InitHolds ==
  ASSUME LockedInit
  PROVE  LockedInv
<1>1. /\ \A t \in Thread : at[t] = "idle" /\ ~seen[t].some
      /\ LockedTypeOK
  BY DEF LockedInit, LockedTypeOK, Parent!Init, Answer, Places, Calls
<1> QED  BY <1>1 DEF LockedInv, Exclusive, Asked, Told, TopStays, PopsFindItem, Behind

LEMMA StepKeeps ==
  ASSUME LockedInv, [LockedNext]_locked
  PROVE  LockedInv'
<1>1. ASSUME NEW t \in Thread, NEW c \in Calls \ {Nothing}, Enter(t, c)  PROVE LockedInv'
  BY <1>1, EnterKeeps
<1>2. ASSUME NEW t \in Thread, Lock(t)  PROVE LockedInv'
  BY <1>2, LockKeeps
<1>3. ASSUME NEW t \in Thread, Inside(t)  PROVE LockedInv'
  BY <1>3, AskKeeps, PushKeeps, TopKeeps, PopKeeps, PopEmptyKeeps, ReturnKeeps DEF Inside
<1>4. CASE UNCHANGED locked
  BY <1>4 DEF locked, LockedInv, LockedTypeOK, Exclusive, Asked, Told, TopStays, PopsFindItem,
              Parent!Members, Parent!IsTop
<1> QED  BY <1>1, <1>2, <1>3, <1>4 DEF LockedNext

(* A pop() meets an empty container only after another thread has popped.  *)
THEOREM AlwaysFinds == LockedSpec => []PopsFindItem
<1>1. LockedInv => PopsFindItem
  BY DEF LockedInv
<1> QED  BY InitHolds, StepKeeps, <1>1, PTL DEF LockedSpec

(* The two statements of pop() read and remove the same item.              *)
THEOREM AlwaysTakes == LockedSpec => PopsTake
<1> DEFINE Takes == \A t \in Thread : at[t] = "top" /\ at'[t] # "top" =>
                      items' = [items EXCEPT ![seen[t].item] = @ - 1]
<1>1. ASSUME LockedInv, [LockedNext]_locked  PROVE [Takes]_locked
  <2> SUFFICES ASSUME LockedNext, NEW t \in Thread, at[t] = "top", at'[t] # "top"
               PROVE  items' = [items EXCEPT ![seen[t].item] = @ - 1]
    BY <1>1
  <2>1. PICK u \in Thread : (\E c \in Calls \ {Nothing} : Enter(u, c)) \/ Lock(u) \/ Inside(u)
    BY DEF LockedNext
  <2>2. u = t
    BY <1>1, <2>1 DEF LockedInv, LockedTypeOK, Enter, Lock, Inside, empty, size, Push, Top, Pop,
                      PopEmpty, Return, Answers
  <2>3. Pop(t) \/ PopEmpty(t)
    BY <2>1, <2>2 DEF Enter, Lock, Inside, empty, size, Push, Top, Return
  <2>4. ~PopEmpty(t)
    BY <1>1 DEF PopEmpty, LockedInv, TopStays, Parent!IsTop
  <2> QED  BY <1>1, <2>3, <2>4, PopTakes
<1> QED  BY InitHolds, StepKeeps, <1>1, PTL DEF LockedSpec, PopsTake
=============================================================================
