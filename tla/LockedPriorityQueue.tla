------------------------ MODULE LockedPriorityQueue ------------------------
(***************************************************************************)
(* psudb::LockedPriorityQueue (psu-ds/LockedPriorityQueue.h): a            *)
(* std::priority_queue, known here by what PriorityBag says of it, and a   *)
(* mutex that every call holds from its first statement to its return.     *)
(*                                                                         *)
(* The threads of Consumer ask empty() and call pop() when told that there *)
(* is something to pop; the other threads only add items and ask.  Nothing *)
(* locks the queue from the one call to the other.                         *)
(***************************************************************************)
EXTENDS Integers, FiniteSets

CONSTANTS Thread,      (* the threads                                      *)
          Consumer,    (* those that pop                                   *)
          Item,        (* what is queued                                   *)
          Priority,    (* its order under Compare; the greatest goes first *)
          MaxItems,    (* bound: how many of an item are queued at most    *)
          NoThread, NoItem

ASSUME LockedAssumption == /\ Consumer \subseteq Thread
                           /\ Priority \in [Item -> Int]
                           /\ NoThread \notin Thread
                           /\ MaxItems \in Nat

VARIABLES items,    (* the container                                       *)
          m_mutex,  (* the thread that holds the mutex                     *)
          at,       (* where a thread is in its call                       *)
          call,     (* the call it makes: [op, item]                       *)
          seen      (* what its last call returned: [some, item], and      *)
                    (* stale: another thread has popped since              *)

locked == <<items, m_mutex, at, call, seen>>

Parent == INSTANCE PriorityBag WITH Entry <- Item, bag <- items,
                                    Rank <- [i \in Item |-> -Priority[i]]

Nothing == [op |-> "none", item |-> NoItem]
Calls   == {Nothing} \cup [op : {"empty", "size", "pop"}, item : {NoItem}]
                     \cup [op : {"push"}, item : Item]

(* A thread is outside a call ("idle"), at the mutex ("lock"), behind it   *)
(* ("in"), between the two statements of pop() ("top"), at its return      *)
(* ("out"), or has called top() or pop() of an empty container ("lost"),   *)
(* of which nothing is known.                                              *)
Places == {"idle", "lock", "in", "top", "out", "lost"}
-----------------------------------------------------------------------------
Answer(some, i) == [some |-> some, item |-> i, stale |-> FALSE]

LockedInit ==
  /\ Parent!Init
  /\ m_mutex = NoThread
  /\ at = [t \in Thread |-> "idle"]
  /\ call = [t \in Thread |-> Nothing]
  /\ seen = [t \in Thread |-> Answer(FALSE, NoItem)]

(* A thread makes a call; a consumer pops only after empty() was false.    *)
Enter(t, c) ==
  /\ at[t] = "idle"
  /\ c.op = "push" => t \notin Consumer /\ items[c.item] < MaxItems
  /\ c.op = "pop" => t \in Consumer /\ seen[t].some
  /\ at' = [at EXCEPT ![t] = "lock"]
  /\ call' = [call EXCEPT ![t] = c]
  /\ UNCHANGED <<items, m_mutex, seen>>

(* The constructor of unique_lock; first without a mutex.                  *)
LockTogether(t) ==
  /\ at[t] = "lock"
  /\ m_mutex' = t
  /\ at' = [at EXCEPT ![t] = "in"]
  /\ UNCHANGED <<items, call, seen>>
Lock(t) ==
  /\ at[t] = "lock" /\ m_mutex = NoThread
  /\ m_mutex' = t
  /\ at' = [at EXCEPT ![t] = "in"]
  /\ UNCHANGED <<items, call, seen>>

Answers(t, some) ==
  /\ at' = [at EXCEPT ![t] = "out"]
  /\ seen' = [seen EXCEPT ![t] = Answer(some, NoItem)]

empty(t) ==
  /\ at[t] = "in" /\ call[t].op = "empty"
  /\ Answers(t, Parent!Members # {})
  /\ UNCHANGED <<items, m_mutex, call>>

(* What is known of the size is whether it is 0.                           *)
size(t) ==
  /\ at[t] = "in" /\ call[t].op = "size"
  /\ Answers(t, Parent!Members # {})
  /\ UNCHANGED <<items, m_mutex, call>>

(* Both push() and emplace().                                              *)
Push(t) ==
  /\ at[t] = "in" /\ call[t].op = "push"
  /\ Parent!Push(call[t].item)
  /\ Answers(t, FALSE)
  /\ UNCHANGED <<m_mutex, call>>

(* auto t = Parent::top(), first under a lock of its own.                  *)
TopUnlocks(t) ==
  /\ at[t] = "in" /\ call[t].op = "pop"
  /\ \E i \in Item : /\ Parent!IsTop(i)
                     /\ seen' = [seen EXCEPT ![t] = Answer(FALSE, i)]
  /\ at' = [at EXCEPT ![t] = "top"]
  /\ m_mutex' = NoThread
  /\ UNCHANGED <<items, call>>
Top(t) ==
  /\ at[t] = "in" /\ call[t].op = "pop"
  /\ \E i \in Item : /\ Parent!IsTop(i)
                     /\ seen' = [seen EXCEPT ![t] = Answer(FALSE, i)]
  /\ at' = [at EXCEPT ![t] = "top"]
  /\ UNCHANGED <<items, m_mutex, call>>

(* Parent::pop() takes the same item if that is still at the top.          *)
Pop(t) ==
  /\ at[t] = "top"
  /\ \E i \in Item : /\ Parent!IsTop(seen[t].item) => i = seen[t].item
                     /\ Parent!Pop(i)
  /\ at' = [at EXCEPT ![t] = "out"]
  /\ seen' = [u \in Thread |-> [seen[u] EXCEPT !.stale = @ \/ seen[u].some]]
  /\ UNCHANGED <<m_mutex, call>>

PopEmpty(t) ==
  /\ at[t] = "top" \/ (at[t] = "in" /\ call[t].op = "pop")
  /\ Parent!Members = {}
  /\ at' = [at EXCEPT ![t] = "lost"]
  /\ UNCHANGED <<items, m_mutex, call, seen>>

(* The destructor of unique_lock, first left out.                          *)
ReturnLocked(t) ==
  /\ at[t] = "out"
  /\ at' = [at EXCEPT ![t] = "idle"]
  /\ call' = [call EXCEPT ![t] = Nothing]
  /\ UNCHANGED <<items, m_mutex, seen>>
Return(t) ==
  /\ at[t] = "out"
  /\ m_mutex' = NoThread
  /\ at' = [at EXCEPT ![t] = "idle"]
  /\ call' = [call EXCEPT ![t] = Nothing]
  /\ UNCHANGED <<items, seen>>

(* The stretch of a call that has the mutex.                               *)
Inside(t) == empty(t) \/ size(t) \/ Push(t) \/ Top(t) \/ Pop(t) \/ PopEmpty(t) \/ Return(t)

LockedNext ==
  \E t \in Thread : \/ \E c \in Calls \ {Nothing} : Enter(t, c)
                    \/ Lock(t)
                    \/ Inside(t)

LockedSpec == LockedInit /\ [][LockedNext]_locked

(* A thread that has the mutex is scheduled; whether one that waits for it *)
(* is ever given it, std::mutex leaves open.                               *)
FairLocked == LockedSpec /\ \A t \in Thread : WF_locked(Inside(t))
-----------------------------------------------------------------------------
LockedTypeOK ==
  /\ items \in [Item -> Nat]
  /\ m_mutex \in Thread \cup {NoThread}
  /\ at \in [Thread -> Places]
  /\ call \in [Thread -> Calls]
  /\ seen \in [Thread -> [some : BOOLEAN, item : Item \cup {NoItem}, stale : BOOLEAN]]

(* A pop() meets an empty container only when another thread has popped    *)
(* since its caller was told that there is an item: a single consumer      *)
(* never does.                                                             *)
PopsFindItem == \A t \in Thread : at[t] = "lost" => seen[t].stale

(* The item a pop() returns is the one it removes, though it reads the one *)
(* and removes the other in two statements.                                *)
PopsTake ==
  [][\A t \in Thread : at[t] = "top" /\ at'[t] # "top" =>
       items' = [items EXCEPT ![seen[t].item] = @ - 1]]_locked

(* No call keeps the mutex, but for one that has met an empty container.   *)
MutexReleased ==
  \A t \in Thread : m_mutex = t ~> m_mutex # t \/ at[t] = "lost"
=============================================================================
