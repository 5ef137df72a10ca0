--------------------------- MODULE BitArrayProofs ---------------------------
(***************************************************************************)
(* Every block has one owner, for any objects, blocks and sizes, and the   *)
(* memory of an array has room for every one of its bits.                  *)
(***************************************************************************)
EXTENDS BitArray, TLAPS

ArrayInv == ArrayTypeOK /\ BlocksOwned

(* The block an object is to free.                                         *)
Held(o) == IF o \in Live THEN array[o].m_data ELSE NULL

LEMMA HeldTyped ==
  ASSUME ArrayInv, NEW o \in Live
  PROVE  /\ array[o] \in Object
         /\ array[o].m_data \in Block => memory[array[o].m_data] \in Allocated
<1>1. array[o] \in Object
  BY DEF ArrayInv, ArrayTypeOK, Live
<1>2. ASSUME array[o].m_data \in Block  PROVE memory[array[o].m_data] # Freed
  BY <1>2 DEF ArrayInv, BlocksOwned
<1> QED  BY <1>1, <1>2 DEF ArrayInv, ArrayTypeOK

LEMMA NewIsBlank ==
  ASSUME Blank # {}
  PROVE  NewBlock \in Block /\ memory[NewBlock] = Freed
BY DEF NewBlock, Blank

(* An object, new or not, takes a block nobody has and gives up its own.   *)
LEMMA TakeKeeps ==
  ASSUME ArrayInv, NEW o \in Obj, NEW b \in Block, memory[b] = Freed,
         NEW x \in Object, x.m_data = b, array' = [array EXCEPT ![o] = x],
         NEW y \in Allocated, memory' = Without([memory EXCEPT ![b] = y], Held(o))
  PROVE  ArrayInv'
<1>1. x # Dead /\ y # Freed /\ NULL \notin Block
  BY BitArrayAssumption DEF BitArrayAssumption
<1>2. Held(o) \in Block \cup {NULL} /\ Held(o) # b
  BY HeldTyped, <1>1 DEF Held, ArrayInv, BlocksOwned, Object
<1>3. /\ memory'[b] = y
      /\ \A c \in Block \ {b} : memory'[c] = IF c = Held(o) THEN Freed ELSE memory[c]
  BY <1>1, <1>2 DEF ArrayInv, ArrayTypeOK, Without
<1>4. /\ array'[o] = x
      /\ \A p \in Obj \ {o} : array'[p] = array[p]
      /\ Live' = Live \cup {o}
  BY <1>1 DEF ArrayInv, ArrayTypeOK, Live
<1>5. ArrayTypeOK'
  BY <1>2, <1>1 DEF ArrayInv, ArrayTypeOK, Without
<1>6. ASSUME NEW p \in Live' \ {o}
      PROVE  p \in Live /\ array'[p].m_data = array[p].m_data /\ array[p].m_data # b
  BY <1>4, <1>6 DEF ArrayInv, BlocksOwned
<1>7. ASSUME NEW c \in Block
      PROVE  memory'[c] # Freed <=> \E p \in Live' : array'[p].m_data = c
  <2>1. CASE c = b
    BY <1>1, <1>3, <1>4, <2>1
  <2>2. CASE c # b /\ c = Held(o)
    <3>1. memory'[c] = Freed
      BY <1>3, <2>2
    <3>2. o \in Live /\ array[o].m_data = c
      BY <1>1, <2>2 DEF Held
    <3>3. \A p \in Live \ {o} : array[p].m_data # c
      BY <1>1, <3>2 DEF ArrayInv, BlocksOwned
    <3> QED  BY <1>4, <1>6, <2>2, <3>1, <3>3
  <2>3. CASE c # b /\ c # Held(o)
    <3>1. memory'[c] = memory[c]
      BY <1>3, <2>3
    <3>2. o \in Live => array[o].m_data # c
      BY <2>3 DEF Held
    <3>3. memory[c] # Freed <=> \E p \in Live : array[p].m_data = c
      BY DEF ArrayInv, BlocksOwned
    <3>4. (\E p \in Live : array[p].m_data = c) <=> (\E p \in Live' : array'[p].m_data = c)
      BY <1>4, <1>6, <2>3, <3>2
    <3> QED  BY <3>1, <3>3, <3>4
  <2> QED  BY <2>1, <2>2, <2>3
<1>8. ASSUME NEW p \in Live', NEW q \in Live', array'[p].m_data = array'[q].m_data
      PROVE  p = q \/ array'[p].m_data = NULL
  BY <1>4, <1>6, <1>8 DEF ArrayInv, BlocksOwned
<1> QED  BY <1>5, <1>7, <1>8 DEF ArrayInv, BlocksOwned

(* Two objects exchange their blocks; the second may be new and have none. *)
LEMMA ExchangeKeeps ==
  ASSUME ArrayInv, NEW o \in Obj, NEW p \in Live, UNCHANGED memory,
         NEW x \in Object \cup {Dead}, o # p,
         o \in Live \/ (x \in Object /\ x.m_data = NULL),
         o \in Live => x = array[o],
         array' = [array EXCEPT ![o] = array[p], ![p] = x]
  PROVE  ArrayInv'
<1>1. array[p] \in Object /\ x \in Object /\ Dead \notin Object
  BY HeldTyped, BitArrayAssumption DEF BitArrayAssumption
<1>2. /\ array'[o] = array[p] /\ array'[p] = x
      /\ \A q \in Obj \ {o, p} : array'[q] = array[q]
      /\ Live' = Live \cup {o}
  BY <1>1 DEF ArrayInv, ArrayTypeOK, Live
<1>3. ArrayTypeOK'
  BY <1>1 DEF ArrayInv, ArrayTypeOK, Live
<1>4. x.m_data = Held(o)
  BY DEF Held
<1>5. \A c \in Block : (\E q \in Live : array[q].m_data = c)
                       <=> (\E q \in Live' : array'[q].m_data = c)
  <2> SUFFICES ASSUME NEW c \in Block
               PROVE  (\E q \in Live : array[q].m_data = c)
                      <=> (\E q \in Live' : array'[q].m_data = c)
    OBVIOUS
  <2>1. c # NULL
    BY BitArrayAssumption DEF BitArrayAssumption
  <2>2. ASSUME NEW q \in Live, array[q].m_data = c
        PROVE  \E r \in Live' : array'[r].m_data = c
    <3>1. CASE q = p
      BY <1>2, <2>2, <3>1
    <3>2. CASE q = o
      BY <1>2, <2>2, <3>2
    <3>3. CASE q # p /\ q # o
      BY <1>2, <2>2, <3>3 DEF Live
    <3> QED  BY <3>1, <3>2, <3>3
  <2>3. ASSUME NEW q \in Live', array'[q].m_data = c
        PROVE  \E r \in Live : array[r].m_data = c
    <3>1. CASE q = o
      BY <1>2, <2>3, <3>1
    <3>2. CASE q = p
      BY <1>2, <1>4, <2>1, <2>3, <3>2 DEF Held
    <3>3. CASE q # p /\ q # o
      BY <1>2, <2>3, <3>3 DEF Live
    <3> QED  BY <3>1, <3>2, <3>3
  <2> QED  BY <2>2, <2>3
<1>6. ASSUME NEW q \in Live', NEW r \in Live', array'[q].m_data = array'[r].m_data
      PROVE  q = r \/ array'[q].m_data = NULL
  <2> DEFINE Was(s) == IF s = o THEN p ELSE IF s = p THEN o ELSE s
  <2>1. \A s \in Live' : \/ array'[s].m_data = NULL
                         \/ Was(s) \in Live /\ array[Was(s)].m_data = array'[s].m_data
    BY <1>2, <1>4 DEF Held, Live
  <2> HIDE DEF Was
  <2>2. CASE array'[q].m_data # NULL
    <3>1. Was(q) \in Live /\ array[Was(q)].m_data = array'[q].m_data
      BY <2>1, <2>2
    <3>2. Was(r) \in Live /\ array[Was(r)].m_data = array'[q].m_data
      BY <1>6, <2>1, <2>2
    <3>3. Was(q) = Was(r)
      BY <2>2, <3>1, <3>2 DEF ArrayInv, BlocksOwned
    <3> QED  BY <3>3 DEF Was
  <2> QED  BY <2>2
<1> QED  BY <1>3, <1>5, <1>6 DEF ArrayInv, BlocksOwned

LEMMA DestroyKeeps ==
  ASSUME ArrayInv, NEW o \in Obj, Destroy(o)
  PROVE  ArrayInv'
<1>1. o \in Live /\ Dead \notin Object /\ Freed \notin Allocated /\ NULL \notin Block
  BY BitArrayAssumption DEF BitArrayAssumption, Destroy
<1>2. array[o] \in Object /\ array[o].m_data \in Block \cup {NULL}
  BY <1>1, HeldTyped DEF Object
<1>3. \A c \in Block : memory'[c] = IF c = array[o].m_data THEN Freed ELSE memory[c]
  BY <1>1, <1>2 DEF ArrayInv, ArrayTypeOK, Destroy, Without
<1>4. Live' = Live \ {o} /\ \A p \in Obj \ {o} : array'[p] = array[p]
  BY DEF ArrayInv, ArrayTypeOK, Live, Destroy
<1>5. ArrayTypeOK'
  BY <1>2 DEF ArrayInv, ArrayTypeOK, Destroy, Without
<1>6. ASSUME NEW c \in Block
      PROVE  memory'[c] # Freed <=> \E p \in Live' : array'[p].m_data = c
  <2>1. memory[c] # Freed <=> \E p \in Live : array[p].m_data = c
    BY DEF ArrayInv, BlocksOwned
  <2>2. CASE c = array[o].m_data
    <3>1. \A p \in Live \ {o} : array[p].m_data # c
      BY <1>1, <2>2 DEF ArrayInv, BlocksOwned
    <3> QED  BY <1>3, <1>4, <2>2, <3>1 DEF Live
  <2>3. CASE c # array[o].m_data
    BY <1>3, <1>4, <2>1, <2>3 DEF Live
  <2> QED  BY <2>2, <2>3
<1>7. ASSUME NEW p \in Live', NEW q \in Live', array'[p].m_data = array'[q].m_data
      PROVE  p = q \/ array'[p].m_data = NULL
  BY <1>4, <1>7 DEF ArrayInv, BlocksOwned, Live
<1> QED  BY <1>5, <1>6, <1>7 DEF ArrayInv, BlocksOwned

(* Writing bits moves no block.                                            *)
LEMMA StoreKeeps ==
  ASSUME ArrayInv, NEW o \in Obj, NEW ones \in SUBSET Bits, Store(o, ones)
  PROVE  ArrayInv'
<1> DEFINE b == array[o].m_data
<1>1. o \in Live /\ array' = array /\ Live' = Live
  BY DEF Store, Usable, Live
<1>2. CASE b = NULL
  BY <1>1, <1>2 DEF Store, ArrayInv, ArrayTypeOK, BlocksOwned
<1>3. CASE b # NULL
  <2>1. b \in Block /\ memory[b] \in Allocated
    BY <1>1, <1>3, HeldTyped DEF Object
  <2>2. memory' = [memory EXCEPT ![b].ones = ones]
    BY <1>3 DEF Store
  <2>3. memory'[b] \in Allocated /\ \A c \in Block \ {b} : memory'[c] = memory[c]
    BY <2>1, <2>2 DEF ArrayInv, ArrayTypeOK, Allocated
  <2>4. memory'[b] # Freed /\ memory[b] # Freed
    BY <2>1, <2>3, BitArrayAssumption DEF BitArrayAssumption
  <2>5. ArrayTypeOK'
    BY <1>1, <2>1, <2>2, <2>3 DEF ArrayInv, ArrayTypeOK
  <2>6. BlocksOwned'
    BY <1>1, <2>1, <2>3, <2>4 DEF ArrayInv, BlocksOwned
  <2> QED  BY <2>5, <2>6 DEF ArrayInv
<1> QED  BY <1>2, <1>3

LEMMA LineWhole ==
  ASSUME NEW n \in Nat
  PROVE  CACHELINEALIGN(n) \in Nat /\ n <= CACHELINEALIGN(n)
BY DEF CACHELINEALIGN, CACHELINE_SIZE

LEMMA BytesTyped ==
  ASSUME NEW n \in Nat
  PROVE  BytesFor(n) \in Nat
BY DEF BytesFor, CACHELINE_SIZE

LEMMA ConstructKeeps ==
  ASSUME ArrayInv, NEW o \in Obj, NEW bits \in Sizes, Construct(o, bits)
  PROVE  ArrayInv'
<1>1. bits \in Nat /\ o \notin Live /\ Blank # {} /\ {} \in SUBSET Bits
  BY BitArrayAssumption DEF BitArrayAssumption, Construct
<1>2. CASE bits > 0
  <2> DEFINE n == CACHELINEALIGN(BytesFor(bits))
             x == [m_bits |-> bits, m_data |-> NewBlock, m_memory_usage |-> n]
             y == sf_aligned_alloc(BytesFor(bits))
  <2>1. n \in Nat
    BY <1>1, LineWhole, BytesTyped
  <2>2. y \in Allocated
    BY <1>1, <2>1 DEF sf_aligned_alloc, Allocated
  <2>3. x \in Object /\ x.m_data = NewBlock
    BY <1>1, <2>1, NewIsBlank DEF Object
  <2>4. array' = [array EXCEPT ![o] = x] /\ memory' = [memory EXCEPT ![NewBlock] = y]
    BY <1>2 DEF Construct
  <2> HIDE DEF x, y
  <2>5. memory' = Without([memory EXCEPT ![NewBlock] = y], Held(o))
    BY <1>1, <2>4 DEF Held, Without
  <2> QED  BY <1>1, <2>2, <2>3, <2>4, <2>5, NewIsBlank, TakeKeeps
<1>3. CASE ~(bits > 0)
  <2> DEFINE x == [m_bits |-> 0, m_data |-> NULL, m_memory_usage |-> 0]
  <2>1. array' = [array EXCEPT ![o] = x] /\ memory' = memory
    BY <1>3 DEF Construct
  <2>2. x \in Object /\ x # Dead /\ x.m_data = NULL
    BY BitArrayAssumption DEF BitArrayAssumption, Object
  <2> HIDE DEF x
  <2>3. /\ array'[o] = x /\ Live' = Live \cup {o}
        /\ \A p \in Obj \ {o} : array'[p] = array[p]
    BY <2>1, <2>2 DEF ArrayInv, ArrayTypeOK, Live
  <2>4. ArrayTypeOK'
    BY <2>1, <2>2 DEF ArrayInv, ArrayTypeOK
  <2>5. \A c \in Block : c # NULL
    BY BitArrayAssumption DEF BitArrayAssumption
  <2>6. BlocksOwned'
    BY <1>1, <2>1, <2>2, <2>3, <2>5 DEF ArrayInv, BlocksOwned, Live
  <2> QED  BY <2>4, <2>6 DEF ArrayInv
<1> QED  BY <1>2, <1>3

(* Both kinds of copy.                                                     *)
LEMMA CopyKeeps ==
  ASSUME ArrayInv, NEW o \in Obj, NEW p \in Obj, CopyConstruct(o, p) \/ CopyAssign(o, p)
  PROVE  ArrayInv'
<1>1. p \in Live /\ Blank # {}
  BY DEF CopyConstruct, CopyAssign, Usable
<1>2. array[p] \in Object /\ array[p].m_memory_usage \in Nat /\ array[p].m_bits \in Nat
  BY <1>1, HeldTyped DEF Object
<1> DEFINE n == CACHELINEALIGN(array[p].m_memory_usage)
           y == [sf_aligned_alloc(array[p].m_memory_usage) EXCEPT !.ones = Ones(array[p].m_data)]
<1>3. n \in Nat
  BY <1>2, LineWhole
<1>4. Ones(array[p].m_data) \in SUBSET Bits
  BY <1>1, HeldTyped DEF Ones, Object, Allocated
<1>5. y \in Allocated
  BY <1>3, <1>4 DEF sf_aligned_alloc, Allocated
<1>6. CopyOf(p) \in Object /\ CopyOf(p).m_data = NewBlock
  BY <1>1, <1>2, <1>3, NewIsBlank DEF CopyOf, Object
<1>7. CopiedFrom(p) = [memory EXCEPT ![NewBlock] = y]
  BY DEF CopiedFrom
<1> HIDE DEF y
<1>8. array' = [array EXCEPT ![o] = CopyOf(p)]
  BY DEF CopyConstruct, CopyAssign
<1>9. memory' = Without([memory EXCEPT ![NewBlock] = y], Held(o))
  BY <1>7 DEF CopyConstruct, CopyAssign, Held, Without
<1> QED  BY <1>1, <1>5, <1>6, <1>8, <1>9, NewIsBlank, TakeKeeps

(* Moves and exchanges.                                                    *)
LEMMA MoveKeeps ==
  ASSUME ArrayInv, NEW o \in Obj, NEW p \in Obj, MoveConstruct(o, p) \/ MoveAssign(o, p)
  PROVE  ArrayInv'
<1>1. CASE MoveConstruct(o, p)
  <2> DEFINE x == [array[p] EXCEPT !.m_data = NULL]
  <2>1. o \notin Live /\ p \in Live /\ o # p /\ memory' = memory
    BY <1>1 DEF MoveConstruct
  <2>2. x \in Object /\ x.m_data = NULL
    BY <2>1, HeldTyped DEF Object
  <2>3. array' = [array EXCEPT ![o] = array[p], ![p] = x]
    BY <1>1, <2>1 DEF MoveConstruct, ArrayInv, ArrayTypeOK
  <2> HIDE DEF x
  <2> QED  BY <2>1, <2>2, <2>3, ExchangeKeeps
<1>2. CASE MoveAssign(o, p)
  <2>1. /\ o \in Live /\ p \in Live /\ memory' = memory
        /\ array' = [array EXCEPT ![o] = array[p], ![p] = array[o]]
    BY <1>2 DEF MoveAssign, swap
  <2>2. array[o] \in Object
    BY <2>1, HeldTyped
  <2>3. CASE o = p
    <3>1. array' = array
      BY <2>1, <2>3 DEF ArrayInv, ArrayTypeOK
    <3> QED  BY <2>1, <3>1 DEF ArrayInv, ArrayTypeOK, BlocksOwned, Live
  <2>4. CASE o # p
    BY <2>1, <2>2, <2>4, ExchangeKeeps
  <2> QED  BY <2>3, <2>4
<1> QED  BY <1>1, <1>2

(* Whatever copies, moves and exchanges a program makes, every block has   *)
(* one owner while it is allocated.                                        *)
THEOREM AlwaysOwned == ArraySpec => [](ArrayTypeOK /\ BlocksOwned)
<1>1. ArrayInit => ArrayInv
  BY DEF ArrayInit, ArrayInv, ArrayTypeOK, BlocksOwned, Live
<1>2. ASSUME ArrayInv, [ArrayNext]_arrays  PROVE ArrayInv'
  <2>1. ASSUME NEW o \in Obj, NEW bits \in Sizes, Construct(o, bits)  PROVE ArrayInv'
    BY <1>2, <2>1, ConstructKeeps
  <2>2. ASSUME NEW o \in Obj, NEW p \in Obj,
               CopyConstruct(o, p) \/ CopyAssign(o, p) \/ MoveConstruct(o, p) \/ MoveAssign(o, p)
        PROVE  ArrayInv'
    BY <1>2, <2>2, CopyKeeps, MoveKeeps
  <2>3. ASSUME NEW o \in Obj, NEW bit \in Bits, set(o, bit) \/ unset(o, bit)
        PROVE  ArrayInv'
    <3>1. o \in Live /\ Ones(array[o].m_data) \in SUBSET Bits
      BY <1>2, <2>3, HeldTyped DEF set, unset, Usable, Ones, Object, Allocated
    <3>2. \E ones \in SUBSET Bits : Store(o, ones)
      BY <2>3, <3>1 DEF set, unset
    <3> QED  BY <1>2, <3>2, StoreKeeps
  <2>4. ASSUME NEW o \in Obj, clear(o) \/ Destroy(o)  PROVE ArrayInv'
    BY <1>2, <2>4, StoreKeeps, DestroyKeeps DEF clear
  <2>5. CASE UNCHANGED arrays
    BY <1>2, <2>5 DEF arrays, ArrayInv, ArrayTypeOK, BlocksOwned, Live
  <2> QED  BY <1>2, <2>1, <2>2, <2>3, <2>4, <2>5 DEF ArrayNext
<1> QED  BY <1>1, <1>2, PTL DEF ArraySpec, ArrayInv

(* The bytes the constructor asks for, rounded up to whole lines, hold     *)
(* every bit, for any size: the byte of the last, incomplete group of 8 is *)
(* added only where rounding up would not add it.                          *)
THEOREM BitsHaveRoom ==
  ASSUME NEW bits \in Nat \ {0}, NEW bit \in 0..(bits - 1)
  PROVE  bit \div 8 < CACHELINEALIGN(BytesFor(bits))
<1> DEFINE n == bits \div 8
           byte == bit \div 8
<1>1. n \in Nat /\ byte \in Nat /\ byte <= n /\ (bits % 8 = 0 => byte < n)
  OBVIOUS
<1>2. CASE n % 64 = 0 /\ bits % 8 # 0
  <2>1. BytesFor(bits) = n + 1
    BY <1>2 DEF BytesFor, CACHELINE_SIZE
  <2>2. CACHELINEALIGN(n + 1) \in Nat /\ n + 1 <= CACHELINEALIGN(n + 1)
    BY <1>1, LineWhole
  <2> HIDE DEF n, byte
  <2>3. byte < CACHELINEALIGN(n + 1)
    BY <1>1, <2>2
  <2> QED  BY <2>1, <2>3 DEF byte
<1>3. CASE ~(n % 64 = 0 /\ bits % 8 # 0)
  <2>1. BytesFor(bits) = n
    BY <1>3 DEF BytesFor, CACHELINE_SIZE
  <2>2. CACHELINEALIGN(n) \in Nat /\ n <= CACHELINEALIGN(n)
    BY <1>1, LineWhole
  <2> HIDE DEF n, byte
  <2>3. n % 64 # 0 => n < CACHELINEALIGN(n)
    BY <1>1 DEF CACHELINEALIGN, CACHELINE_SIZE
  <2>4. byte < CACHELINEALIGN(n)
    BY <1>1, <1>3, <2>2, <2>3
  <2> QED  BY <2>1, <2>4 DEF byte
<1> QED  BY <1>2, <1>3
-----------------------------------------------------------------------------
(* An object x over the memory mem: its size fits the memory it counts,    *)
(* and that is the memory it has, unless it has been moved from.           *)
RoomIn(x, mem) ==
  /\ \A bit \in 0..(x.m_bits - 1) : bit \div 8 < x.m_memory_usage
  /\ x.m_data # NULL => mem[x.m_data].bytes = x.m_memory_usage

(* Whole and Values for one object.                                        *)
WholeIn(x, mem) ==
  \A bit \in Bits : bit < x.m_bits => x.m_data # NULL /\ bit \div 8 < mem[x.m_data].bytes
OnesIn(x, mem) ==
  {bit \in Bits : bit < x.m_bits /\ x.m_data # NULL /\ bit \in mem[x.m_data].ones}
ValueIn(x, mem) ==
  IF x = Dead THEN Dead
  ELSE IF ~WholeIn(x, mem) THEN Moved
  ELSE [size |-> x.m_bits, ones |-> OnesIn(x, mem)]

RoomInv == ArrayInv /\ \A o \in Live : RoomIn(array[o], memory)

(* The refinement mapping, object by object.                               *)
LEMMA ValuesAre == Values = [o \in Obj |-> ValueIn(array[o], memory)]
<1> SUFFICES ASSUME NEW o \in Obj
             PROVE  (IF o \notin Live THEN Dead
                     ELSE IF ~Whole(o) THEN Moved
                     ELSE [size |-> array[o].m_bits, ones |-> {bit \in Bits : is_set(o, bit)}])
                    = ValueIn(array[o], memory)
  BY DEF Values
<1>1. o \in Live <=> array[o] # Dead
  BY DEF Live
<1>2. Whole(o) <=> WholeIn(array[o], memory)
  BY DEF Whole, WholeIn, Within
<1>3. {bit \in Bits : is_set(o, bit)} = OnesIn(array[o], memory)
  BY DEF is_set, OnesIn, Ones
<1> QED  BY <1>1, <1>2, <1>3 DEF ValueIn

LEMMA ValuesAreNext == Values' = [o \in Obj |-> ValueIn(array'[o], memory')]
<1>1. (Values = [o \in Obj |-> ValueIn(array[o], memory)])'
  BY ValuesAre, PTL
<1> QED  BY <1>1

(* Two memories that agree on the block of an object give it one value.    *)
LEMMA SameValue ==
  ASSUME NEW x, NEW mem, NEW mem2, x = Dead \/ x.m_data = NULL \/ mem2[x.m_data] = mem[x.m_data]
  PROVE  /\ ValueIn(x, mem2) = ValueIn(x, mem)
         /\ x # Dead /\ RoomIn(x, mem) => RoomIn(x, mem2)
<1>1. CASE x = Dead
  BY <1>1 DEF ValueIn
<1>2. CASE x # Dead
  <2>1. OnesIn(x, mem2) = OnesIn(x, mem) /\ (WholeIn(x, mem2) <=> WholeIn(x, mem))
    BY <1>2 DEF OnesIn, WholeIn
  <2> QED  BY <1>2, <2>1 DEF ValueIn, RoomIn
<1> QED  BY <1>1, <1>2

(* An object with memory has it for all its bits; one that counts no       *)
(* memory has no bits.                                                     *)
LEMMA RoomIsWhole ==
  ASSUME NEW x \in Object, NEW mem, RoomIn(x, mem),
         x.m_data # NULL \/ x.m_memory_usage = 0
  PROVE  WholeIn(x, mem)
<1> SUFFICES ASSUME NEW bit \in Bits, bit < x.m_bits
             PROVE  x.m_data # NULL /\ bit \div 8 < mem[x.m_data].bytes
  BY DEF WholeIn
<1>1. bit \in Nat /\ x.m_bits \in Nat /\ x.m_memory_usage \in Nat
  BY BitArrayAssumption DEF Object
<1>2. bit \in 0..(x.m_bits - 1)
  BY <1>1
<1>3. bit \div 8 < x.m_memory_usage /\ bit \div 8 \in Nat
  BY <1>1, <1>2 DEF RoomIn
<1>4. x.m_memory_usage # 0
  BY <1>1, <1>3
<1> QED  BY <1>3, <1>4 DEF RoomIn

LEMMA ValueTyped ==
  ASSUME NEW x \in Object, NEW mem, WholeIn(x, mem)
  PROVE  /\ ValueIn(x, mem) = [size |-> x.m_bits, ones |-> OnesIn(x, mem)]
         /\ ValueIn(x, mem) # Dead /\ ValueIn(x, mem) # Moved
<1>1. x # Dead
  BY BitArrayAssumption
<1>2. [size |-> x.m_bits, ones |-> OnesIn(x, mem)] \in [size : Nat, ones : SUBSET Bits]
  BY DEF Object, OnesIn
<1> QED  BY <1>1, <1>2, BitArrayAssumption DEF ValueIn

LEMMA ValueLive ==
  ASSUME NEW x \in Object, NEW mem
  PROVE  ValueIn(x, mem) # Dead
<1>1. CASE WholeIn(x, mem)
  BY <1>1, ValueTyped
<1>2. CASE ~WholeIn(x, mem)
  BY <1>2, BitArrayAssumption DEF ValueIn
<1> QED  BY <1>1, <1>2

(* The objects a step leaves alone keep their values and their room.       *)
LEMMA OthersKeep ==
  ASSUME ArrayInv, NEW o \in Obj, NEW q \in Obj, q # o,
         \A b \in Block : memory[b] # Freed /\ b # Held(o) => memory'[b] = memory[b]
  PROVE  /\ ValueIn(array[q], memory') = ValueIn(array[q], memory)
         /\ q \in Live /\ RoomIn(array[q], memory) => RoomIn(array[q], memory')
<1>1. CASE q \notin Live
  BY <1>1 DEF ValueIn, Live
<1>2. CASE q \in Live
  <2> DEFINE b == array[q].m_data
  <2>1. b \in Block \cup {NULL} /\ array[q] # Dead
    BY <1>2, HeldTyped DEF Object, Live
  <2>2. CASE b = NULL
    BY <2>1, <2>2, SameValue
  <2>3. CASE b # NULL
    <3>1. b \in Block /\ memory[b] # Freed
      BY <1>2, <2>1, <2>3 DEF ArrayInv, BlocksOwned
    <3>2. b # Held(o)
      BY <1>2, <2>3 DEF Held, ArrayInv, BlocksOwned
    <3>3. memory'[b] = memory[b]
      BY <3>1, <3>2
    <3> QED  BY <2>1, <3>3, SameValue
  <2> QED  BY <2>2, <2>3
<1> QED  BY <1>1, <1>2

(* A step that gives one object a new content.                             *)
LEMMA OneChanges ==
  ASSUME RoomInv, ArrayInv', NEW o \in Obj, NEW x,
         array' = [array EXCEPT ![o] = x],
         x = Dead \/ RoomIn(x, memory'),
         \A b \in Block : memory[b] # Freed /\ b # Held(o) => memory'[b] = memory[b]
  PROVE  /\ Values' = [Values EXCEPT ![o] = ValueIn(x, memory')]
         /\ RoomInv'
<1>1. /\ array'[o] = x
      /\ \A q \in Obj : q # o => array'[q] = array[q]
  BY DEF RoomInv, ArrayInv, ArrayTypeOK
<1>2. \A q \in Obj : q # o => ValueIn(array'[q], memory') = ValueIn(array[q], memory)
  BY <1>1, OthersKeep DEF RoomInv
<1>3. Values' = [Values EXCEPT ![o] = ValueIn(x, memory')]
  BY <1>1, <1>2, ValuesAre, ValuesAreNext
<1>4. ASSUME NEW q \in Live'
      PROVE  RoomIn(array'[q], memory')
  <2>1. CASE q = o
    BY <1>1, <1>4, <2>1 DEF Live
  <2>2. CASE q # o
    <3>1. q \in Live /\ RoomIn(array[q], memory)
      BY <1>1, <1>4, <2>2 DEF Live, RoomInv
    <3> QED  BY <1>1, <2>2, <3>1, OthersKeep DEF RoomInv, Live
  <2> QED  BY <2>1, <2>2
<1> QED  BY <1>3, <1>4 DEF RoomInv

(* A new object with room for its bits and none of them set.               *)
LEMMA ConstructedValues ==
  ASSUME RoomInv, ArrayInv', NEW o \in Obj, o \notin Live, NEW x \in Object,
         array' = [array EXCEPT ![o] = x],
         RoomIn(x, memory'), OnesIn(x, memory') = {},
         x.m_data # NULL \/ x.m_memory_usage = 0,
         \A b \in Block : memory[b] # Freed => memory'[b] = memory[b]
  PROVE  RoomInv' /\ Independent!Construct(o, x.m_bits)
<1>1. \A b \in Block : memory[b] # Freed /\ b # Held(o) => memory'[b] = memory[b]
  OBVIOUS
<1>2. Values' = [Values EXCEPT ![o] = ValueIn(x, memory')] /\ RoomInv'
  BY <1>1, OneChanges
<1>3. WholeIn(x, memory')
  BY RoomIsWhole
<1>4. ValueIn(x, memory') = [size |-> x.m_bits, ones |-> {}]
  BY <1>3, ValueTyped
<1>5. Values[o] = Dead
  BY ValuesAre DEF ValueIn, Live
<1> QED  BY <1>2, <1>4, <1>5 DEF Independent!Construct, Independent!Live

LEMMA ConstructValues ==
  ASSUME RoomInv, NEW o \in Obj, NEW bits \in Sizes, Construct(o, bits)
  PROVE  RoomInv' /\ Independent!Construct(o, bits)
<1>1. ArrayInv' /\ bits \in Nat /\ o \notin Live /\ Blank # {}
  BY ConstructKeeps, BitArrayAssumption DEF RoomInv, Construct
<1>2. CASE bits > 0
  <2> DEFINE n == CACHELINEALIGN(BytesFor(bits))
             x == [m_bits |-> bits, m_data |-> NewBlock, m_memory_usage |-> n]
             y == sf_aligned_alloc(BytesFor(bits))
  <2>1. n \in Nat /\ NewBlock \in Block /\ memory[NewBlock] = Freed
    BY <1>1, LineWhole, BytesTyped, NewIsBlank
  <2>2. array' = [array EXCEPT ![o] = x] /\ memory' = [memory EXCEPT ![NewBlock] = y]
    BY <1>2 DEF Construct
  <2>3. memory'[NewBlock] = y /\ y.bytes = n /\ y.ones = {}
    BY <2>1, <2>2 DEF RoomInv, ArrayInv, ArrayTypeOK, sf_aligned_alloc
  <2>4. \A bit \in 0..(bits - 1) : bit \div 8 < n
    BY <1>1, <1>2, BitsHaveRoom
  <2>5. \A b \in Block : memory[b] # Freed => memory'[b] = memory[b]
    BY <2>1, <2>2 DEF RoomInv, ArrayInv, ArrayTypeOK
  <2>6. x \in Object /\ x.m_bits = bits
    BY <1>1, <2>1 DEF Object
  <2> HIDE DEF n, y
  <2>7. RoomIn(x, memory') /\ OnesIn(x, memory') = {}
    BY <2>3, <2>4 DEF RoomIn, OnesIn
  <2>8. x.m_data # NULL
    BY <2>1, BitArrayAssumption
  <2> HIDE DEF x
  <2>9. RoomInv' /\ Independent!Construct(o, x.m_bits)
    BY <1>1, <2>2, <2>5, <2>6, <2>7, <2>8, ConstructedValues
  <2> QED  BY <2>6, <2>9
<1>3. CASE ~(bits > 0)
  <2> DEFINE x == [m_bits |-> 0, m_data |-> NULL, m_memory_usage |-> 0]
  <2>1. array' = [array EXCEPT ![o] = x] /\ memory' = memory
    BY <1>3 DEF Construct
  <2>2. x \in Object /\ x.m_bits = bits /\ x.m_memory_usage = 0
    BY <1>1, <1>3 DEF Object
  <2>3. RoomIn(x, memory') /\ OnesIn(x, memory') = {}
    BY DEF RoomIn, OnesIn
  <2> HIDE DEF x
  <2>4. RoomInv' /\ Independent!Construct(o, x.m_bits)
    BY <1>1, <2>1, <2>2, <2>3, ConstructedValues
  <2> QED  BY <2>2, <2>4
<1> QED  BY <1>2, <1>3

(* What may be copied has its value.                                       *)
LEMMA UsableValid ==
  ASSUME RoomInv, NEW p \in Usable
  PROVE  /\ p \in Live /\ array[p] \in Object /\ WholeIn(array[p], memory)
         /\ Values[p] = [size |-> array[p].m_bits, ones |-> OnesIn(array[p], memory)]
         /\ p \in Independent!Valid
<1>1. /\ p \in Live /\ array[p] \in Object /\ RoomIn(array[p], memory)
      /\ array[p].m_data # NULL \/ array[p].m_memory_usage = 0
  BY HeldTyped DEF Usable, RoomInv
<1>2. WholeIn(array[p], memory)
  BY <1>1, RoomIsWhole
<1>3. /\ Values[p] = [size |-> array[p].m_bits, ones |-> OnesIn(array[p], memory)]
      /\ Values[p] # Dead /\ Values[p] # Moved
  BY <1>1, <1>2, ValueTyped, ValuesAre DEF Live
<1> QED  BY <1>1, <1>2, <1>3 DEF Independent!Valid, Independent!Live, Live

LEMMA CopyValues ==
  ASSUME RoomInv, NEW o \in Obj, NEW p \in Obj, CopyConstruct(o, p) \/ CopyAssign(o, p)
  PROVE  RoomInv' /\ Independent!Copy(o, p)
<1> DEFINE x == CopyOf(p)
           usage == array[p].m_memory_usage
           ones == Ones(array[p].m_data)
           y == [bytes |-> CACHELINEALIGN(usage), ones |-> ones]
<1>1. /\ ArrayInv' /\ p \in Usable /\ NewBlock \in Block /\ memory[NewBlock] = Freed
  BY CopyKeeps, NewIsBlank DEF RoomInv, CopyConstruct, CopyAssign
<1>2. /\ array[p] \in Object /\ RoomIn(array[p], memory) /\ usage \in Nat
      /\ array[p].m_bits \in Nat /\ array[p].m_data \in Block \cup {NULL}
  BY <1>1, UsableValid DEF RoomInv, Object
<1>3. CACHELINEALIGN(usage) \in Nat /\ usage <= CACHELINEALIGN(usage)
  BY <1>2, LineWhole
<1>4. x \in Object /\ x.m_data = NewBlock /\ x.m_bits = array[p].m_bits
      /\ x.m_memory_usage = CACHELINEALIGN(usage)
  BY <1>1, <1>2, <1>3 DEF CopyOf, Object
<1>5. /\ array' = [array EXCEPT ![o] = x]
      /\ memory' = Without(CopiedFrom(p), Held(o))
  BY DEF CopyConstruct, CopyAssign, Held, Without
<1>6. CopiedFrom(p) = [memory EXCEPT ![NewBlock] = y]
  <2>1. [sf_aligned_alloc(usage) EXCEPT !.ones = ones] = y
    BY DEF sf_aligned_alloc
  <2> QED  BY <2>1 DEF CopiedFrom
<1>7. Held(o) # NewBlock
  BY <1>1, HeldTyped, BitArrayAssumption DEF Held, RoomInv, ArrayInv, BlocksOwned
<1> HIDE DEF x, y, usage, ones
<1>8. /\ memory'[NewBlock] = y
      /\ \A b \in Block : memory[b] # Freed /\ b # Held(o) => memory'[b] = memory[b]
  BY <1>1, <1>5, <1>6, <1>7 DEF Without, RoomInv, ArrayInv, ArrayTypeOK
<1>9. y.bytes = CACHELINEALIGN(usage) /\ y.ones = ones
  BY DEF y
<1>10. RoomIn(x, memory')
  <2>1. ASSUME NEW bit \in 0..(x.m_bits - 1)
        PROVE  bit \div 8 < x.m_memory_usage
    <3>1. bit \div 8 < usage /\ bit \div 8 \in Int
      BY <1>2, <1>4, <2>1 DEF RoomIn, usage
    <3> QED  BY <1>2, <1>3, <1>4, <3>1
  <2> QED  BY <1>4, <1>8, <1>9, <2>1 DEF RoomIn
<1>11. Values' = [Values EXCEPT ![o] = ValueIn(x, memory')] /\ RoomInv'
  BY <1>1, <1>5, <1>8, <1>10, OneChanges
<1>12. x.m_data # NULL
  BY <1>1, <1>4, BitArrayAssumption
<1>13. OnesIn(x, memory') = OnesIn(array[p], memory)
  BY <1>4, <1>8, <1>9, <1>12 DEF OnesIn, Ones, ones
<1>14. ValueIn(x, memory') = Values[p]
  BY <1>1, <1>4, <1>10, <1>12, <1>13, RoomIsWhole, ValueTyped, UsableValid
<1> QED  BY <1>1, <1>11, <1>14, UsableValid DEF Independent!Copy

LEMMA DestroyValues ==
  ASSUME RoomInv, NEW o \in Obj, Destroy(o)
  PROVE  RoomInv' /\ Independent!Destroy(o)
<1>1. /\ ArrayInv' /\ o \in Live /\ array' = [array EXCEPT ![o] = Dead]
      /\ memory' = Without(memory, Held(o))
  BY DestroyKeeps DEF RoomInv, Destroy, Held
<1>2. \A b \in Block : memory[b] # Freed /\ b # Held(o) => memory'[b] = memory[b]
  BY <1>1 DEF Without, RoomInv, ArrayInv, ArrayTypeOK
<1>3. Values' = [Values EXCEPT ![o] = Dead] /\ RoomInv'
  BY <1>1, <1>2, OneChanges DEF ValueIn
<1>4. Values[o] # Dead
  BY <1>1, HeldTyped, ValueLive, ValuesAre DEF RoomInv
<1> QED  BY <1>3, <1>4 DEF Independent!Destroy, Independent!Live

(* A block's bits are those of one object.                                 *)
LEMMA StoreValues ==
  ASSUME RoomInv, NEW o \in Obj, NEW ones \in SUBSET Bits, Store(o, ones)
  PROVE  /\ RoomInv' /\ o \in Usable
         /\ array[o].m_data = NULL => Values' = Values
         /\ array[o].m_data # NULL =>
              Values' = [Values EXCEPT ![o].ones = {bit \in ones : bit < array[o].m_bits}]
<1> DEFINE b == array[o].m_data
<1>1. /\ ArrayInv' /\ o \in Usable /\ o \in Live /\ array[o] \in Object /\ array' = array
      /\ RoomIn(array[o], memory)
  BY StoreKeeps, HeldTyped DEF RoomInv, Store, Usable
<1>2. CASE b = NULL
  <2>1. memory' = memory
    BY <1>2 DEF Store
  <2> QED  BY <1>1, <1>2, <2>1, ValuesAre, ValuesAreNext DEF RoomInv, Live
<1>3. CASE b # NULL
  <2>1. b \in Block /\ memory[b] \in Allocated
    BY <1>1, <1>3, HeldTyped DEF Object, RoomInv
  <2>2. memory' = [memory EXCEPT ![b].ones = ones]
    BY <1>3 DEF Store
  <2>3. /\ memory'[b].ones = ones /\ memory'[b].bytes = memory[b].bytes
        /\ \A c \in Block : c # b => memory'[c] = memory[c]
    BY <2>1, <2>2 DEF RoomInv, ArrayInv, ArrayTypeOK, Allocated
  <2>4. Held(o) = b
    BY <1>1 DEF Held
  <2>5. RoomIn(array[o], memory')
    BY <1>1, <2>3 DEF RoomIn
  <2>6. array' = [array EXCEPT ![o] = array[o]]
    BY <1>1 DEF RoomInv, ArrayInv, ArrayTypeOK
  <2>7. Values' = [Values EXCEPT ![o] = ValueIn(array[o], memory')] /\ RoomInv'
    BY <1>1, <2>3, <2>4, <2>5, <2>6, OneChanges
  <2>8. ValueIn(array[o], memory') = [size |-> array[o].m_bits, ones |-> OnesIn(array[o], memory')]
    BY <1>1, <1>3, <2>5, RoomIsWhole, ValueTyped
  <2>9. OnesIn(array[o], memory') = {bit \in ones : bit < array[o].m_bits}
    BY <1>3, <2>3 DEF OnesIn
  <2>10. Values[o] = [size |-> array[o].m_bits, ones |-> OnesIn(array[o], memory)]
    BY <1>1, UsableValid
  <2>11. Values' = [Values EXCEPT ![o] = [size |-> array[o].m_bits,
                                          ones |-> {bit \in ones : bit < array[o].m_bits}]]
    BY <2>7, <2>8, <2>9
  <2> DEFINE left == {bit \in ones : bit < array[o].m_bits}
  <2>12. [Values[o] EXCEPT !.ones = left] = [size |-> array[o].m_bits, ones |-> left]
    BY <2>10
  <2> HIDE DEF left
  <2>13. Values' = [Values EXCEPT ![o].ones = left]
    BY <2>11, <2>12 DEF left
  <2> QED  BY <1>1, <1>3, <2>7, <2>13 DEF left
<1> QED  BY <1>2, <1>3

(* A step that hands an object over and leaves y in its place.             *)
LEMMA ExchangeValues ==
  ASSUME RoomInv, ArrayInv', memory' = memory,
         NEW o \in Obj, NEW p \in Obj, p \in Live, NEW y, RoomIn(y, memory),
         array'[o] = array[p], array'[p] = y,
         \A q \in Obj : q # o /\ q # p => array'[q] = array[q]
  PROVE  /\ RoomInv'
         /\ Values'[o] = Values[p] /\ Values'[p] = ValueIn(y, memory)
         /\ \A q \in Obj : q # o /\ q # p => Values'[q] = Values[q]
<1>1. /\ \A q \in Obj : Values[q] = ValueIn(array[q], memory)
      /\ \A q \in Obj : Values'[q] = ValueIn(array'[q], memory')
  BY ValuesAre, ValuesAreNext
<1>2. \A q \in Obj : Values'[q] = ValueIn(array'[q], memory)
  BY <1>1
<1>3. /\ Values'[o] = Values[p] /\ Values'[p] = ValueIn(y, memory)
      /\ \A q \in Obj : q # o /\ q # p => Values'[q] = Values[q]
  BY <1>1, <1>2
<1>4. ASSUME NEW q \in Live'
      PROVE  RoomIn(array'[q], memory')
  <2>1. q \in Obj /\ array'[q] # Dead
    BY DEF Live
  <2>2. CASE q = p
    BY <2>2
  <2>3. CASE q = o
    BY <2>3 DEF RoomInv
  <2>4. CASE q # o /\ q # p
    BY <2>1, <2>4 DEF RoomInv, Live
  <2> QED  BY <2>2, <2>3, <2>4
<1> QED  BY <1>3, <1>4 DEF RoomInv

LEMMA TwoChange ==
  ASSUME NEW o \in Obj, NEW p \in Obj, o # p, NEW u, NEW v,
         Values'[o] = u, Values'[p] = v,
         \A q \in Obj : q # o /\ q # p => Values'[q] = Values[q]
  PROVE  Values' = [Values EXCEPT ![o] = u, ![p] = v]
<1>1. Values = [q \in Obj |-> Values[q]] /\ Values' = [q \in Obj |-> Values'[q]]
  BY DEF Values
<1> QED  BY <1>1

LEMMA MoveValues ==
  ASSUME RoomInv, NEW o \in Obj, NEW p \in Obj, MoveConstruct(o, p)
  PROVE  RoomInv' /\ Independent!Move(o, p)
<1> DEFINE y == [array[p] EXCEPT !.m_data = NULL]
<1>1. /\ ArrayInv' /\ o \notin Live /\ p \in Live /\ o # p /\ memory' = memory
      /\ array[p] \in Object /\ RoomIn(array[p], memory)
  BY MoveKeeps, HeldTyped DEF RoomInv, MoveConstruct
<1>2. y \in Object /\ y.m_data = NULL /\ y.m_bits = array[p].m_bits
      /\ y.m_memory_usage = array[p].m_memory_usage
  BY <1>1 DEF Object
<1>3. array' = [array EXCEPT ![o] = array[p], ![p] = y]
  BY <1>1 DEF MoveConstruct, RoomInv, ArrayInv, ArrayTypeOK
<1> HIDE DEF y
<1>4. RoomIn(y, memory)
  BY <1>1, <1>2 DEF RoomIn
<1>5. /\ RoomInv'
      /\ Values' = [Values EXCEPT ![o] = Values[p], ![p] = ValueIn(y, memory)]
  <2>1. /\ array'[o] = array[p] /\ array'[p] = y
        /\ \A q \in Obj : q # o /\ q # p => array'[q] = array[q]
    BY <1>1, <1>3 DEF RoomInv, ArrayInv, ArrayTypeOK
  <2>2. /\ RoomInv' /\ Values'[o] = Values[p] /\ Values'[p] = ValueIn(y, memory)
        /\ \A q \in Obj : q # o /\ q # p => Values'[q] = Values[q]
    BY <1>1, <1>4, <2>1, ExchangeValues
  <2> QED  BY <1>1, <2>2, TwoChange
<1>6. Values[p] = ValueIn(array[p], memory) /\ Values[p] # Dead
  BY <1>1, ValuesAre, ValueLive
<1>7. ValueIn(y, memory) \in {Moved, Values[p]}
  <2>1. CASE array[p].m_data = NULL
    <3>1. OnesIn(y, memory) = OnesIn(array[p], memory) /\ (WholeIn(y, memory) <=> WholeIn(array[p], memory))
      BY <1>2, <2>1 DEF OnesIn, WholeIn
    <3>2. y # Dead /\ array[p] # Dead
      BY <1>1, <1>2, BitArrayAssumption
    <3> QED  BY <1>2, <1>6, <3>1, <3>2 DEF ValueIn
  <2>2. CASE array[p].m_data # NULL /\ WholeIn(y, memory)
    <3>1. Values[p] = [size |-> array[p].m_bits, ones |-> OnesIn(array[p], memory)]
      BY <1>1, <1>6, <2>2, RoomIsWhole, ValueTyped
    <3>2. \A bit \in Bits : ~(bit < array[p].m_bits)
      BY <1>2, <2>2 DEF WholeIn
    <3>3. OnesIn(array[p], memory) = {} /\ OnesIn(y, memory) = {}
      BY <1>2, <3>2 DEF OnesIn
    <3>4. ValueIn(y, memory) = [size |-> array[p].m_bits, ones |-> {}]
      BY <1>2, <2>2, <3>3, ValueTyped
    <3> QED  BY <3>1, <3>3, <3>4
  <2>3. CASE ~WholeIn(y, memory)
    BY <1>2, <2>3, BitArrayAssumption DEF ValueIn
  <2> QED  BY <2>1, <2>2, <2>3
<1>8. ValueIn(y, memory) \in {Moved, Values[o], Values[p]} \ {Dead}
  BY <1>2, <1>7, ValueLive
<1> QED  BY <1>1, <1>5, <1>6, <1>8 DEF Independent!Move, Independent!Live

LEMMA SwapValues ==
  ASSUME RoomInv, NEW o \in Obj, NEW p \in Obj, MoveAssign(o, p)
  PROVE  RoomInv' /\ Independent!Swap(o, p)
<1>1. /\ ArrayInv' /\ o \in Live /\ p \in Live /\ memory' = memory
      /\ array' = [array EXCEPT ![o] = array[p], ![p] = array[o]]
      /\ array[o] \in Object /\ array[p] \in Object /\ RoomIn(array[o], memory)
  BY MoveKeeps, HeldTyped DEF RoomInv, MoveAssign, swap
<1>2. Values[o] = ValueIn(array[o], memory) /\ Values[o] # Dead /\ Values[p] # Dead
  BY <1>1, ValuesAre, ValueLive
<1>3. CASE o = p
  <2>1. array' = array
    BY <1>1, <1>3 DEF RoomInv, ArrayInv, ArrayTypeOK
  <2>2. Values' = Values /\ RoomInv'
    BY <1>1, <2>1, ValuesAre, ValuesAreNext DEF RoomInv, Live
  <2>3. Values = [Values EXCEPT ![o] = Values[p], ![p] = Values[o]]
    BY <1>3, ValuesAre
  <2> QED  BY <1>2, <2>2, <2>3 DEF Independent!Swap, Independent!Live
<1>4. CASE o # p
  <2>1. /\ RoomInv'
        /\ Values' = [Values EXCEPT ![o] = Values[p], ![p] = Values[o]]
    <3> DEFINE y == array[o]
    <3>1. /\ RoomIn(y, memory) /\ array'[o] = array[p] /\ array'[p] = y
          /\ \A q \in Obj : q # o /\ q # p => array'[q] = array[q]
      BY <1>1, <1>4 DEF RoomInv, ArrayInv, ArrayTypeOK
    <3> HIDE DEF y
    <3>2. ArrayInv' /\ p \in Live /\ memory' = memory
      BY <1>1
    <3>3. /\ RoomInv' /\ Values'[o] = Values[p] /\ Values'[p] = ValueIn(y, memory)
          /\ \A q \in Obj : q # o /\ q # p => Values'[q] = Values[q]
      BY <3>1, <3>2, ExchangeValues
    <3>4. Values' = [Values EXCEPT ![o] = Values[p], ![p] = ValueIn(y, memory)]
      BY <1>4, <3>3, TwoChange
    <3> QED  BY <1>2, <3>3, <3>4 DEF y
  <2> QED  BY <1>2, <2>1 DEF Independent!Swap, Independent!Live
<1> QED  BY <1>3, <1>4

LEMMA BitValues ==
  ASSUME RoomInv, NEW o \in Obj, NEW bit \in Bits, set(o, bit) \/ unset(o, bit)
  PROVE  RoomInv' /\ (Independent!set(o, bit) \/ Independent!unset(o, bit))
<1> DEFINE x == array[o]
           old == memory[x.m_data].ones
           new == IF set(o, bit) THEN old \cup {bit} ELSE old \ {bit}
<1>1. o \in Usable /\ bit < x.m_bits
  BY DEF set, unset
<1>2. /\ o \in Live /\ x \in Object /\ WholeIn(x, memory)
      /\ Values[o] = [size |-> x.m_bits, ones |-> OnesIn(x, memory)]
      /\ o \in Independent!Valid
  BY <1>1, UsableValid
<1>3. x.m_data # NULL /\ bit \div 8 < memory[x.m_data].bytes
  BY <1>1, <1>2 DEF WholeIn
<1>4. Ones(x.m_data) = old /\ bit \in Within(x.m_data) /\ old \in SUBSET Bits
  BY <1>2, <1>3, HeldTyped DEF Ones, Within, RoomInv, Object, Allocated
<1>5. new \in SUBSET Bits /\ Store(o, new)
  BY <1>4 DEF set, unset
<1> HIDE DEF new
<1>6. /\ RoomInv'
      /\ Values' = [Values EXCEPT ![o].ones = {b \in new : b < x.m_bits}]
  BY <1>3, <1>5, StoreValues
<1> HIDE DEF x
<1>7. OnesIn(x, memory) = {b \in old : b < x.m_bits}
  BY <1>3, <1>4 DEF OnesIn
<1>8. CASE set(o, bit)
  <2>1. {b \in new : b < x.m_bits} = OnesIn(x, memory) \cup {bit}
    BY <1>1, <1>7, <1>8 DEF new
  <2>2. Values[o].ones = OnesIn(x, memory) /\ Values[o].size = x.m_bits
    BY <1>2
  <2> DEFINE left == {b \in new : b < x.m_bits}
  <2>3. left = Values[o].ones \cup {bit} /\ Values' = [Values EXCEPT ![o].ones = left]
    BY <1>6, <2>1, <2>2
  <2> HIDE DEF left
  <2>4. Independent!Put(o, Values[o].ones \cup {bit})
    BY <2>3 DEF Independent!Put
  <2> QED  BY <1>1, <1>2, <1>6, <2>2, <2>4 DEF Independent!set
<1>9. CASE ~set(o, bit)
  <2>1. {b \in new : b < x.m_bits} = OnesIn(x, memory) \ {bit}
    BY <1>7, <1>9 DEF new
  <2>2. Values[o].ones = OnesIn(x, memory)
    BY <1>2
  <2> DEFINE left == {b \in new : b < x.m_bits}
  <2>3. left = Values[o].ones \ {bit} /\ Values' = [Values EXCEPT ![o].ones = left]
    BY <1>6, <2>1, <2>2
  <2> HIDE DEF left
  <2>4. Independent!Put(o, Values[o].ones \ {bit})
    BY <2>3 DEF Independent!Put
  <2> QED  BY <1>2, <1>6, <2>4 DEF Independent!unset
<1> QED  BY <1>8, <1>9

LEMMA ClearValues ==
  ASSUME RoomInv, NEW o \in Obj, clear(o)
  PROVE  RoomInv' /\ Independent!clear(o)
<1>1. {} \in SUBSET Bits /\ Store(o, {})
  BY DEF clear
<1>2. /\ RoomInv' /\ o \in Usable
      /\ array[o].m_data = NULL => Values' = Values
      /\ array[o].m_data # NULL =>
           Values' = [Values EXCEPT ![o].ones = {bit \in {} : bit < array[o].m_bits}]
  BY <1>1, StoreValues
<1>3. /\ Values[o] = [size |-> array[o].m_bits, ones |-> OnesIn(array[o], memory)]
      /\ o \in Independent!Valid
  BY <1>2, UsableValid
<1>4. CASE array[o].m_data = NULL
  <2>1. OnesIn(array[o], memory) = {}
    BY <1>4 DEF OnesIn
  <2>2. [Values[o] EXCEPT !.ones = {}] = Values[o]
    BY <1>3, <2>1
  <2>3. [Values EXCEPT ![o].ones = {}] = Values
    BY <2>2, ValuesAre
  <2> QED  BY <1>2, <1>3, <1>4, <2>3 DEF Independent!clear, Independent!Put
<1>5. CASE array[o].m_data # NULL
  <2>1. {bit \in {} : bit < array[o].m_bits} = {}
    OBVIOUS
  <2> QED  BY <1>2, <1>3, <1>5, <2>1 DEF Independent!clear, Independent!Put
<1> QED  BY <1>4, <1>5

(* Copies, moves, exchanges and destruction, over blocks that are shared   *)
(* out and freed, come to the same as if every object were a value.        *)
THEOREM Implements == ArraySpec => ImplementsValues
<1>1. ArrayInit => RoomInv /\ Independent!Init
  <2> SUFFICES ASSUME ArrayInit PROVE RoomInv /\ Independent!Init
    OBVIOUS
  <2>1. ArrayInv /\ Live = {}
    BY DEF ArrayInit, ArrayInv, ArrayTypeOK, BlocksOwned, Live
  <2>2. Values = [o \in Obj |-> Dead]
    BY <2>1, ValuesAre DEF ValueIn, Live
  <2> QED  BY <2>1, <2>2 DEF RoomInv, Independent!Init
<1>2. RoomInv /\ [ArrayNext]_arrays => RoomInv' /\ [Independent!Next]_Values
  <2> SUFFICES ASSUME RoomInv, [ArrayNext]_arrays
               PROVE  RoomInv' /\ (Independent!Next \/ Values' = Values)
    OBVIOUS
  <2>1. CASE UNCHANGED arrays
    BY <2>1, ValuesAre, ValuesAreNext DEF arrays, RoomInv, ArrayInv, ArrayTypeOK, BlocksOwned, Live
  <2>2. CASE ArrayNext
    <3>1. ASSUME NEW o \in Obj, NEW bits \in Sizes, Construct(o, bits)
          PROVE  RoomInv' /\ Independent!Next
      BY <3>1, ConstructValues DEF Independent!Next
    <3>2. ASSUME NEW o \in Obj, NEW p \in Obj,
                 CopyConstruct(o, p) \/ CopyAssign(o, p) \/ MoveConstruct(o, p) \/ MoveAssign(o, p)
          PROVE  RoomInv' /\ Independent!Next
      BY <3>2, CopyValues, MoveValues, SwapValues DEF Independent!Next
    <3>3. ASSUME NEW o \in Obj, NEW bit \in Bits, set(o, bit) \/ unset(o, bit)
          PROVE  RoomInv' /\ Independent!Next
      BY <3>3, BitValues DEF Independent!Next
    <3>4. ASSUME NEW o \in Obj, clear(o) \/ Destroy(o)
          PROVE  RoomInv' /\ Independent!Next
      BY <3>4, ClearValues, DestroyValues DEF Independent!Next
    <3> QED  BY <2>2, <3>1, <3>2, <3>3, <3>4 DEF ArrayNext
  <2> QED  BY <2>1, <2>2
<1> QED  BY <1>1, <1>2, PTL DEF ArraySpec, ImplementsValues, Independent!Spec
=============================================================================
