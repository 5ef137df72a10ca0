------------------------------ MODULE BitArray ------------------------------
(***************************************************************************)
(* psudb::BitArray (psu-ds/BitArray.h) over the allocation of              *)
(* psu-util/alignment.h: objects that own a block of memory each, and the  *)
(* copies, moves and exchanges of them that a program may make.  Several   *)
(* objects share the heap; nothing but these members keeps their blocks    *)
(* apart, allocated once and freed once.                                   *)
(***************************************************************************)
EXTENDS Integers

CONSTANTS Obj,     (* the variables of the program                         *)
          Block,   (* bound: the blocks of the heap                        *)
          Sizes,   (* the sizes of the arrays it makes                     *)
          Bits,    (* the bits it asks for                                 *)
          NULL, Dead, Moved, Freed

Object    == [m_bits : Nat, m_memory_usage : Nat, m_data : Block \cup {NULL}]
Allocated == [bytes : Nat, ones : SUBSET Bits]

ASSUME BitArrayAssumption == /\ Sizes \subseteq Nat /\ Bits \subseteq Nat
                             /\ NULL \notin Block
                             /\ Dead \notin Object /\ Freed \notin Allocated
                             /\ Dead # Moved
                             /\ {Dead, Moved} \cap [size : Nat, ones : SUBSET Bits] = {}

VARIABLES array,   (* [m_bits, m_memory_usage, m_data], or Dead            *)
          memory   (* [bytes, ones] for a block that is allocated          *)

arrays == <<array, memory>>

CACHELINE_SIZE == 64

(* TYPEALIGN of a power of two, where the mask is a rounding up.           *)
CACHELINEALIGN(n) == ((n + CACHELINE_SIZE - 1) \div CACHELINE_SIZE) * CACHELINE_SIZE

Live     == {o \in Obj : array[o] # Dead}
Blank    == {b \in Block : memory[b] = Freed}

(* A moved-from object keeps its size and has no memory; but for being     *)
(* destroyed, assigned to or exchanged, no member may be called on it.     *)
Usable   == {o \in Live : array[o].m_data # NULL \/ array[o].m_memory_usage = 0}

(* sf_aligned_alloc() gives a block or ends the program; addresses are     *)
(* only compared.                                                          *)
NewBlock == CHOOSE b \in Blank : TRUE
sf_aligned_alloc(n) == [bytes |-> CACHELINEALIGN(n), ones |-> {}]

(* free() of a null pointer does nothing.                                  *)
Without(mem, b) == IF b = NULL THEN mem ELSE [mem EXCEPT ![b] = Freed]

(* What a bit of the array is in the block; what is outside of the block   *)
(* is nobody's.                                                            *)
Ones(b)  == IF b = NULL THEN {} ELSE memory[b].ones
Within(b) == {bit \in Bits : b # NULL /\ bit \div 8 < memory[b].bytes}
is_set(o, bit) == bit < array[o].m_bits /\ bit \in Ones(array[o].m_data)

(* Whole bytes, first these alone, and one more if that is a whole number  *)
(* of lines: anything else is rounded up by the allocation.                *)
BytesWhole(bits) == bits \div 8
BytesFor(bits) ==
  LET n == bits \div 8
  IN  IF n % CACHELINE_SIZE = 0 /\ bits % 8 # 0 THEN n + 1 ELSE n
-----------------------------------------------------------------------------
ArrayInit == array = [o \in Obj |-> Dead] /\ memory = [b \in Block |-> Freed]

Construct(o, bits) ==
  /\ o \notin Live /\ Blank # {}
  /\ IF bits > 0
     THEN /\ memory' = [memory EXCEPT ![NewBlock] = sf_aligned_alloc(BytesFor(bits))]
          /\ array' = [array EXCEPT ![o] = [m_bits |-> bits, m_data |-> NewBlock,
                                            m_memory_usage |-> CACHELINEALIGN(BytesFor(bits))]]
     ELSE /\ array' = [array EXCEPT ![o] = [m_bits |-> 0, m_data |-> NULL,
                                            m_memory_usage |-> 0]]
          /\ UNCHANGED memory

(* The copy of p and the memory with its block.                            *)
CopyOf(p) ==
  [m_bits |-> array[p].m_bits, m_data |-> NewBlock,
   m_memory_usage |-> CACHELINEALIGN(array[p].m_memory_usage)]
CopiedFrom(p) ==
  [memory EXCEPT ![NewBlock] =
     [sf_aligned_alloc(array[p].m_memory_usage) EXCEPT !.ones = Ones(array[p].m_data)]]

CopyConstruct(o, p) ==
  /\ o \notin Live /\ p \in Usable /\ Blank # {}
  /\ array' = [array EXCEPT ![o] = CopyOf(p)]
  /\ memory' = CopiedFrom(p)

(* A copy is exchanged with the target, and what that held goes with it.   *)
CopyAssign(o, p) ==
  /\ o \in Live /\ p \in Usable /\ Blank # {}
  /\ array' = [array EXCEPT ![o] = CopyOf(p)]
  /\ memory' = Without(CopiedFrom(p), array[o].m_data)

(* First without nulling the source.                                       *)
MoveConstructShared(o, p) ==
  /\ o \notin Live /\ p \in Live
  /\ array' = [array EXCEPT ![o] = array[p]]
  /\ UNCHANGED memory
MoveConstruct(o, p) ==
  /\ o \notin Live /\ p \in Live
  /\ array' = [array EXCEPT ![o] = array[p], ![p].m_data = NULL]
  /\ UNCHANGED memory

swap(o, p) ==
  /\ o \in Live /\ p \in Live
  /\ array' = [array EXCEPT ![o] = array[p], ![p] = array[o]]
  /\ UNCHANGED memory

MoveAssign(o, p) == swap(o, p)

Destroy(o) ==
  /\ o \in Live
  /\ array' = [array EXCEPT ![o] = Dead]
  /\ memory' = Without(memory, array[o].m_data)

Store(o, ones) ==
  /\ o \in Usable
  /\ memory' = IF array[o].m_data = NULL THEN memory
               ELSE [memory EXCEPT ![array[o].m_data].ones = ones]
  /\ UNCHANGED array

set(o, bit) ==
  /\ o \in Usable /\ bit < array[o].m_bits
  /\ Store(o, Ones(array[o].m_data) \cup ({bit} \cap Within(array[o].m_data)))

unset(o, bit) ==
  /\ o \in Usable /\ bit < array[o].m_bits
  /\ Store(o, Ones(array[o].m_data) \ {bit})

clear(o) == Store(o, {})

ArrayNext ==
  \E o \in Obj :
    \/ \E bits \in Sizes : Construct(o, bits)
    \/ \E p \in Obj : \/ CopyConstruct(o, p)
                      \/ CopyAssign(o, p)
                      \/ MoveConstruct(o, p)
                      \/ MoveAssign(o, p)
    \/ \E bit \in Bits : set(o, bit) \/ unset(o, bit)
    \/ clear(o)
    \/ Destroy(o)

ArraySpec == ArrayInit /\ [][ArrayNext]_arrays
-----------------------------------------------------------------------------
ArrayTypeOK ==
  /\ array \in [Obj -> Object \cup {Dead}]
  /\ memory \in [Block -> Allocated \cup {Freed}]

(* Every block is held by one object while it is allocated and by none     *)
(* after: none leaks, none is freed twice or used after it is freed.       *)
BlocksOwned ==
  /\ \A b \in Block : memory[b] # Freed <=> \E o \in Live : array[o].m_data = b
  /\ \A o, p \in Live : array[o].m_data = array[p].m_data => o = p \/ array[o].m_data = NULL

(* There is memory for every bit of the array.                             *)
Whole(o) == {bit \in Bits : bit < array[o].m_bits} \subseteq Within(array[o].m_data)

Values ==
  [o \in Obj |-> IF o \notin Live THEN Dead
                 ELSE IF ~Whole(o) THEN Moved
                 ELSE [size |-> array[o].m_bits, ones |-> {bit \in Bits : is_set(o, bit)}]]

Independent == INSTANCE BitArrayValues WITH value <- Values

(* Each object is a value of its own: it has memory for all its bits from  *)
(* its construction until it is moved from, whatever its size, and what is *)
(* done to a copy, or to an object that was moved, shows in no other.      *)
ImplementsValues == Independent!Spec
=============================================================================
