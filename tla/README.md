# psudb-common: a verification development

psudb-common is a header-only C++ library for database research: containers
(`psu-ds`), files of pages (`psu-io`), a distribution (`psu-dist`) and small
utilities (`psu-util`).  This directory models the parts that keep state and
are hard to get right, in TLA+; TLC checks the models on small instances, and
TLAPS proves theorems for every value of the constants.  Paths below are
relative to `src/cpp/include/`.

## The system's parts

| Component | State | Operations | What makes it correct | Here |
|---|---|---|---|---|
| `psu-ds/BTree.h` | a heap of leaves and inner nodes, `root_`, `head_leaf_`, `tail_leaf_`, a size; per child the sum of the weights below it | `insert`, `erase_one`, `erase(key)`, `erase(iterator)`, `bulk_load`, `clear`, searches, counts, iterators, `range_sample`, copy, `verify` | `verify()`: balance, exact separators and weights, linked leaves; every call has the effect a sorted multimap has | modelled but for `swap` and printing |
| `psu-io/PagedFile.h` | a descriptor, a cached size, a name, `m_file_open` | `create`, `allocate_pages`, reads and writes of one page, a range or a list, `remove_file`, `rename_file`, destructor | an object works only on its own file; new pages are nobody's; a page number that passes `check_pnum()` is in the file | modelled |
| `psu-io/PagedFileIterator.h` | current and last page, a buffer | `start_scan`, `next` | each page once, as it is in the file at that moment | modelled |
| `psu-ds/PriorityQueue.h` | an array heap of (record, version) | `push`, `pop`, `peek(depth)` | `pop` takes a least record; versions of a record come out in order | modelled |
| `psu-ds/LockedPriorityQueue.h` | `std::priority_queue` and a mutex | `push`, `emplace`, `pop`, `empty`, `size` | each call atomic, the mutex given back; what a thread was told by `empty()` | modelled |
| `psu-ds/StaticISAM.h` | a sorted vector and an array of inner nodes | `build`, `build_presorted`, `query`, `unbuild` | the allocation covers every node written; `lower_bound` finds the first record | modelled |
| `psu-util/bentley-saxe.h` | levels of static structures | `insert`, `query`, `record_count` | no record lost or doubled as levels are taken apart; levels of 2^i records | modelled |
| `psu-ds/BitArray.h` | a size and an owned block | construction, copies, moves, bits | one owner per block; memory for every bit; each object a value of its own | modelled |
| `psu-ds/Alias.h` | alias and cut-off tables | construction, `get` | each index keeps its probability | modelled, in whole numbers |
| `psu-util/alignment.h`, `zbuff.h` | none | rounding of sizes, allocation | a size is rounded up to a multiple | where others depend on it |
| `psu-ds/dynarray.h`, `psu-ds/BloomFilter.h` | an owned block, its size; salts | copies, moves, element access; `insert`, `lookup` | one owner per block; no false negative | not modelled, see below |
| `psu-util/hash.h`, `timer.h`, `progress.h`, `psu-dist/zipf.h`, `psu-io/IOCounter.h`, `script/eshuf` | little or none | bit mixing, clocks, output, floating point | | not modelled: nothing in them for a model checker |

How they interact: BTree calls nothing else of the library.  A
PagedFileIterator calls `read_page()` of the PagedFile that made it and is
used while that object is used by its owner.  Several PagedFile objects meet
in the operating system: in the directory, in the files, and in the process's
table of descriptor numbers, which are given out again.  BentleySaxe builds
and unbuilds structures of a user's class, ISAMTree in its tests; BloomFilter
stands on BitArray, and both ISAMTree and BitArray on the allocation of
`alignment.h`.  Threads meet only in a LockedPriorityQueue.

Nothing but LockedPriorityQueue takes a lock: callers keep the calls of one
object apart, so the difficulty is not threads but long sequences of calls,
state read before a recursive call and used after it, values cached from the
file system, and the boundaries of slots, pages and runs of equal keys.  The
"hazards" list of `PROJECT.json` names them at their lines.

## The modules

### SortedBag, SortedBagProofs: what BTree promises

A sequence of records `[key, weight]` in key order.  `Insert` puts a record in
front of those with an equal key (`insert_descend()` uses `find_lower()`),
`EraseOne` takes the first record with the key, `EraseAt` the record at a
position, `BulkLoad` fills the empty container from a sorted range with weight
1 each, and `Clear` empties it.

### BTree: the algorithms

The heap is the function `tree.node`; a freed address holds `Free`.  A node's
arrays are sequences as long as the part in use, so `slotuse` is a length.
Slots count from 0 as in the code.

`insert`, `erase_one` and `erase(iterator)` recurse in the code.  Here `stack`
has one element per activation of `insert_descend()` or `erase_*_descend()`,
with the arguments and locals it keeps across the recursive call: the slot,
the siblings and their parents, all read before the nodes below are split,
shifted, merged and freed.  One action is the stretch of an activation up to
its recursive call, or from that call's return to its own:

| Action | Code |
|---|---|
| `InsertStart`, `InsertFinish` | `insert`, `insert_start` with the growing of the root |
| `InsertDescend`, `InsertLeaf`, `InsertReturn` | `insert_descend`, the splits included |
| `EraseOneStart`, `EraseIterStart`, `EraseFinish` | `erase_one`, `erase(iterator)` |
| `EraseDescend`, `EraseLeaf`, `EraseReturn` | `erase_one_descend`, `erase_iter_descend` |
| `EraseRetry` | the loop of `erase_iter_descend` over children that may hold the key |
| `BulkLoadStart`, `BulkLoadLeaf`, `BulkLoadInner` | `bulk_load`, node by node |
| `Clear` | `clear`, `clear_recursive` |

`Repair` is the case analysis both erase functions share, and `MergeLeaves`,
`ShiftLeftInner` and their companions are the functions of the same names. The
two erase functions differ in how they treat a weight after a shift; that
difference is `LoseWeight` in `EraseFromInner`.  `erase(key)` is a sequence of
calls of `erase_one`, which the client of the model makes.

### BTreeForest, BTreeProofs

The tree as the proofs see it, a forest: `A` are the nodes in use, `L` their
levels, `V` the sequence of children of each, and `R` each node's right
neighbour on its level, under whatever parents the two are.  On the leaves `R` is
`next_leaf`; above them the code has no such pointer, and its functions keep
the order all the same.  The tops of the forest are the children of `NULL`: the
root, and for a moment a node split off from it or the level a bulk load has
finished.  `Stands` says that a tree is such a forest, but for the nodes whose
children are just being replaced.

BTreeForest has a lemma for each thing that happens to a forest (a node is
split, two neighbours are merged or shift children, a top is added or dropped),
then one for each function of the code (`MergeInner`, `ShiftRightLeaf`, ...),
and `Path` and `Siblings`: the activations on the stack go down through the
forest, each with the neighbours that `ChildArgs` looked up.  BTreeProofs puts
the steps of the calls together from these.

### BTreeBag: refinement

Adds the history variable `stored`, the records of the leaves along the chain,
and instantiates SortedBag with it.  `ImplementsBag` says that every call is
one step of the sorted bag, taken where the leaf changes.  SortedBag's
`EraseAt` admits any position; `ErasesReferred` fixes which one each erase
must take.

### BTreeQuery: the reading operations

Searches, `count`, `range_count`, iterators and `range_sample()` as operators
on a tree, one fold step per level, compared with the records in chain order.
A walk of `range_sample()` is modelled by the set of records it can end at.
`verify`, `verify_node` and `verify_leaflinks` are the assertions of the
functions of these names, and `Copied` is the tree the copy constructor and
the assignment build.  `CopyVerified` runs the code's own verification on the
tree and on the copy of it.

### PagedFile, PagedFileProofs

A file is a sequence of units, `PageUnits` to a page, so torn pages and files
that end within a page exist.  `dir`, `data` and `fds` are the operating
system's, as far as the class depends on it: names, files that live while a
name or a descriptor refers to them, descriptors handed out lowest first.
`obj` holds the members of the objects, and `file` remembers, for the
properties only, which file an object was created for.  A success and each
kind of failure of a call are actions of their own (`Create`, `CreateLeaks`,
`CreateFails`; `WritePages`, `WriteFails` with a part of the units written;
and so on).  A rename that fails ends the program, at an assertion the
build keeps, and has no action.  `RemoveFile` is one action with two outcomes,
`Unlinked` and `UnlinkFails`, because the descriptor is closed before either:
when `unlink()` fails the object still takes itself for open (see
"Divergences").

Two constants describe the surroundings.  `Exclusive` says that a client keeps
a file to one object at a time; `Avail` is that client.  `UnlinkMayFail` says
whether `unlink()` may fail on a name that is there (permissions, an error of
the file system).  On a name that is not there it always fails, so when two
objects share a file the second `remove_file()` of it fails whatever the
constants say.

### PagedFileIterator

`StartScan`, `NextPage`, `NextFails` and `NextEnds` interleaved with every
step of the file's owner (`FileStep`).  The owner does not destroy the object
under its iterator.  Its theorems are in PagedFileProofs, whose invariants they
use.

### StaticISAM, BentleySaxe, BentleySaxeISAM, BentleySaxeProofs

An ISAM tree is a sorted sequence and a function from slots to keys and
pointers: slot `i` of node `n` has the number `n * FANOUT + i`, so a node
written behind the allocation is a slot beyond `inode_cnt * FANOUT`.  `Link`
is one round of the loop that builds a level from the one below.  It is kept
as the code has it: the last node of a level is not linked, and a node left
partly filled is overwritten by the next level.  The geometric series of
`required_internal_node_cnt()`, computed there in double, is the whole number
`(leaves - 1) / (FANOUT - 1)` rounded up.

BentleySaxe has sets of records for levels, `{}` for the null pointer, so that
it can be proved about; BentleySaxeISAM derives the trees of the levels and
composes their queries.  `insert` is one action: nothing can happen between
the unbuilding and the building.

### PriorityBag, PriorityQueue, PriorityQueueProofs

PriorityBag is what a priority queue promises: a bag from which an entry of
least rank is taken.  PriorityQueue is the array heap, with an action for each
swap of `push()` and `pop()`.  Its comparison orders versions only among
entries of the same address and leaves equal values at different addresses
unordered, so it is no strict weak order, and after a `push()` past such a tie
an old version may stand below a newer one.  `tied` remembers that this may
have happened; `HeapOrdered` promises the order of versions only until then,
the order of values always.

### LockedPriorityQueue, LockedPriorityQueueProofs

Threads outside a call, at the mutex, behind it, between the two statements of
`pop()`, and at the return.  The container is known by PriorityBag alone.
Consumers ask `empty()` and call `pop()` when told that there is something;
`seen` keeps what each was told and whether another thread has popped since.
With one consumer the idiom is safe; with two, a `pop()` may meet an empty
container, and `PopsFindItem` says that it does so for no other reason.

### BitArrayValues, BitArray, BitArrayProofs

BitArrayValues gives each variable of the program a value: a size and the set
of bits that are 1.  BitArray gives it a size, a memory usage and a block of a
heap from which blocks are taken and to which they are returned.  A moved-from
array keeps its size and has no memory; it may be destroyed, assigned to and
exchanged, and the calls that would dereference its null pointer are excluded
(`Usable`), since no text permits them.

### Alias

The construction of the table, a pass of the second loop per action, with
weights as whole numbers in units of the average.  `get` is the probability
of an index over both draws.

## What the runs check

| Run | Question | Distinct states |
|---|---|---|
| `btree_bag` | Repeated keys, erased by key and by iterator in any order: is every call a step of the sorted bag (`ImplementsBag`), on the right record (`ErasesReferred`), with a true answer (`OutcomeTrue`)? | 424k |
| `btree_deep` | Trees of four levels, erased by key: all that `verify()` looks for, and at every step that no node is overfull (`Balanced`) and the siblings passed down are still neighbours (`RepairsAdjacent`) | 265k |
| `btree_unique` | Distinct keys: is the tree a map? | 9k |
| `btree_ends` | Does every call end, `erase(iterator)` in a run of equal keys included? | 11k |
| `btree_queries` | On every tree that `insert`, `erase_one`, `bulk_load` and `clear` can build, do the reading operations answer what the records say, and does `verify()` accept the tree and its copy (`CopyVerified`)? | 64k |
| `btree_iterweights` | Does the assertion on weights at the end of `verify_node()` hold under `erase(iterator)`? It does not. | violation |
| `pagedfile_exclusive` | Two objects with a file each at a time, files that end within a page and torn writes, no failing `unlink()`: descriptors, names and sizes | 58k |
| `pagedfile_removed` | Is an object closed after `remove_file()`, as its comment says? Not when `unlink()` fails. | violation |
| `pagedfile_scan` | Pages of two units: is what is read, written, allocated and scanned the page asked for, while the file is written, extended, renamed and removed under the scan, and `remove_file()` may fail? | 172k |
| `bentley_saxe` | Do levels carry like a binary counter (`AllOnce`, `LevelsCount`, `RecordsClimb`) and answer queries exactly? Do ISAM trees stay in their allocation (`InodesFit`) and find every key (`SearchExact`)? | 15k |
| `isam_records24` | Does the allocation also suffice for records whose size is not a power of two? It does not. | violation |
| `containers` | One container per behaviour: the heap (`HeapOrdered`, `ImplementsPriority`), the locked queue (`PopsFindItem`, `PopsTake`, `MutexReleased`), bit arrays (`BlocksOwned`, `ImplementsValues`), alias tables (`AliasExact`) | 56k |

### Bounds, and why they are enough

`LeafSlots = 4` and `InnerSlots = 2` are the smallest node sizes the
algorithms accept (an assumption of BTree gives the reason; the default traits
have 16 of each).  They have every case of the code: a full node splits in the
middle and at the place where the new child goes (the special case of
`insert_descend()`), a minimal node has one key, and merges and both shifts
occur in leaves and inner nodes. Cousins, siblings under different parents,
need three levels, from 9 records on; a repair that reaches across two inner
levels needs four, from 16 records on.  Hence 18 records in `btree_deep`, 9
and 10 where three levels suffice, and 7 distinct keys in `btree_unique`,
which arrive in every order and make two levels.  Two keys make runs of equal
keys over several leaves and subtrees, next to another key. `NodeId` is large
enough that the allocator never runs out, which `TypeOK` checks in
`btree_deep` (`MemoryLeft`).  With `Weight = {0}` every inserted
record has weight 0 and every bulk-loaded one weight 1: `range_sample()` has
both to deal with, and in `btree_bag` the weight tells records with the same
key apart.  The defect of `erase(iterator)` cannot make weights there grow
without bound, since only bulk-loaded records have a weight and a bulk load
needs an empty tree.  `btree_bag` loads ranges of five, two leaves; longer
ones are loaded in `btree_deep`.

In the PagedFile runs `PnumRange = 16` stands for 2^32 and no file reaches it,
while the page count of a file shorter than a page still wraps.  Two objects,
names, files and descriptors let each be taken over by the other object.  A
page has two units in both passing runs: a write may stop within a page, and
the file there is at first is empty or ends within its second page.
`MaxUnits = 6` gives a header page and two allocated ones; lists have up to
three pages, so repetitions and gaps occur.  `pagedfile_removed`, where
nothing depends on contents, has one unit to a page.

`btree_queries` runs `KeySpec`, without `erase(iterator)`, which would leave
the wrong weights of `btree_iterweights` in the tree.

With `FANOUT = 4` an ISAM tree gets a second level of nodes at 17 records, a
third at 129 and a fourth at 577; the sizes of `bentley_saxe` lie around these
and others where a node is added or left partly filled, with single records, runs of equal keys shorter than a leaf, and one run over the
whole tree.  33 insertions fill five levels of a BentleySaxe and carry into
the sixth.  The first two keys inserted are free and the rest follow one of
seven strides: the carries do not depend on keys, and the order within a level
is covered by the trees built by themselves.

The heap has five slots: after a `pop()` of the fifth entry the last one sinks
two levels, and both children occur.  There are two versions, and two records with equal values, one a tombstone.  Two
consumers are the least with which a `pop()` can meet an empty container, and
a third thread pushes.  Bit arrays of 0, 512 and 513 bits: none, just a line,
and the first bit of the next; a third block, beyond the two arrays', for the
copy an assignment makes.  Tables of up to five weights out of 0, 1, 2 and 5
have several underfull slots to each overfull one, and overfull slots that
become underfull.

The VIEWs leave out only what no later step or property reads: node addresses
between calls (replaced by positions), the content of files nobody can reach,
the last answer, and the contents of pages a scan has already handed out.  The
VIEW of `pagedfile_exclusive`, whose properties are about sizes, keeps of a file
its length alone: no guard reads a unit.  Symmetry is used in the three
PagedFile runs, which check no liveness. `btree_ends` uses neither.

### Fairness

`btree_ends` has weak fairness of `Next /\ pc # "idle"`.  Inside a call there
is one thread, which takes no lock and waits for nothing, so it continues as
long as it is scheduled.  Nothing obliges a client to make a call.

`containers` has weak fairness of `Inside(t)`, the stretch of a call in which
thread `t` holds the mutex, for the same reason: nothing in it waits.  There is
none for acquiring the mutex, since `std::mutex` promises no order among those
that wait; hence `MutexReleased` and not that every call ends.

## What is proved

`SortedBagProofs!AlwaysInOrder`: for all sets of integer keys and weights,
with and without duplicates, the sorted bag stays ordered (and distinct). The
inductive invariant is `TypeOK /\ InOrder`.  The argument is that
`LowerBound`, a CHOOSE, always finds a position (`LowerBoundFound`, from the
well-foundedness of the naturals), that everything before it is smaller and
everything after it is not, and that `Put` and `Cut` move records as expected
(`PutProperties`, `CutProperties`).  Together with `ImplementsBag` this is the
order of the tree's records.

`BTreeProofs!BalancedAlways`, `RepairsAdjacentAlways` and
`NothingLostAlways`: for all sizes of nodes, records, bulk loads and any number
of levels.  Their premise `[]MemoryLeft` is that the allocator always has a
node to give; the code ends the program when it has not.  A node that is filled
beyond its slots, a sibling taken for a neighbour that is none, or an emptied
node that is not freed shows itself, if at all, many calls later.

The invariant `IInv` has a phase for each place at which a call can be:
between calls (`Rests`), on the way down and up of an insertion (`InsertRuns`,
`InsertBack`) and of an erasure (`EraseRuns`, `EraseBack`), and in a bulk load
(`LoadRuns`).  Each says that there is a forest as which the tree stands, and
what is not yet true of it:

* On the way up an insertion may bring a node that is not yet in its parent
  (`Grown`); the split parent is full until then and the forest already has
  the child, so that the order of the level is never lost.
* On the way up an erasure may leave a node that was emptied into its neighbour
  and is still a child of its parent, though no longer in the forest (`Gap`).
  Which of the two children it is depends on the side of the merge.
* A bulk load has a node that children are still being added to (`Open`), and
  nodes below it without a parent.

Each part is needed for the others.  `RepairsAdjacent` speaks of arguments read
on the way down; it lasts because a repair below changes the children of no
node on the stack but the last (`Path`), and because the comparison with the
own parent tells siblings from cousins: the parent an activation gets with a
cousin is a node higher up than its own (`Sides`).  A sibling's node and a
cousin's are never mixed up since all children of a node are one level below it
(`Kin`).  Two nodes are merged only if both have few keys, hence fit into one,
and a repair always finds a neighbour under the same parent (`RepairChoice`),
so no underflow remains: that is `Balanced`, which needs the arguments to be
right.  Leaves are the reason for `R`: a split or a merge writes through
`next_leaf` into a leaf under another parent, out of reach of the arguments,
and that this leaf is in use, and none of those being merged, follows only from
the order of the whole level, kept on every level at once because a repair of
inner nodes moves whole runs of leaves.  `NothingLost` follows because every
node of the forest but its tops has a parent one level above, so that all are
below the root (`BelowRoot`), and those allocated are those of the forest.

`PagedFileProofs`: for any number of objects, names, files, descriptors and
units to a page.  `TypeCorrect` holds of every behaviour, whatever fails.  The
others depend on `remove_file()`: once one has failed, an object works through
a descriptor it has closed, so nothing can be said of descriptors any more.
`AlwaysOwned` and `WritesStayAlways` have that as a premise,
`RemovalsSucceed`, of the behaviour, and then hold also of objects that share a
file, as long as none of them removes a name another has removed or renamed.  `DescriptorsOwned` alone is not
inductive, for closing one object's descriptor could close another's, so
`DescriptorsApart` is part of the invariant `Owned`.  A write stays in the
pages named, in the file of its object, because the descriptor is that file's.

The remaining theorems are about a client that keeps a file to one object
(`Exclusive`), where `unlink()` of a name that is there does not fail
(`~UnlinkMayFail`).  They need no premise of the behaviour: that
`remove_file()` always finds its name is part of what is proved (`Removes`),
and hence `ExclusiveOwned`.  `AlwaysKept` is `[](NamesOwn /\ PagesBacked)`;
the invariant is `Owned /\ Kept`, and `Kept` adds to `NamesOwn` (`NamesStay`)
that the cached size is the size of the file, that open objects have different
names, and that no file has two names.  Each is needed: a page is backed
because the size is exact, the size stays exact because no other object has the
file, and no other object has it because their names differ and lead to
different files.  `Owned` needs `Kept` in turn, since a name that led nowhere
would make a removal fail.  `FreshPagesAlways` follows, since the pages added
lie behind the exact size and the write that adds them is the zeroes.

`PagedFileProofs!ScanCompleteAlways` and `ScanCurrentAlways`: a scan
shows every page of the file once, in order, as it is at that moment, however
the owner's operations fall between its steps.  The invariant adds to `Owned`
and `Kept` that an object which was created has a file until it is destroyed
(`Filed`), that every page the iterator has passed has been handed out, unless a
read failed (`ScanPlace`), and that it stops at the end page or at the last page
held when it started (`ScanStop`).  The last has one exception, a scan started
after the file was removed: it stops elsewhere, and its first read fails.

`BentleySaxeProofs!AlwaysOnce`, `AlwaysClimb` and `AlwaysCounted`: for any set
of records and number of insertions.  The invariant is `BSMTypeOK /\ AllOnce`;
all the levels before the target are in the set carried to it
(`CarriedLevels`), so each record moves to the target or stays, and never to an
earlier level.  That a full level `i` holds two to the power `i` records
(`LevelsCount`) needs an induction over the levels carried, which is made by a
least counterexample (`CollectedCount`): the levels before the target hold
`2^i - 1` records, one less than the target's.

`PriorityQueueProofs!AlwaysOrdered`: for any capacity, values, versions and
tombstones.  Between the swaps of a call the order is broken at one slot, and
the invariant `HeapInv` says where: during `push()` every entry but the moving
one stands below one that may precede it, during `pop()` every entry but the
children of the moving one; and in both the children of the moving entry stand
in order with its parent (`Around`).  That the comparison is no strict weak
order is dealt with by two facts: if it does not put one entry first, the
other may precede it (`Decides`), and that relation is transitive
(`Transitive`).  Both need that, as long as there was no tie, equal values
mean the same record (`Untied`), which is therefore part of the invariant.
`PeekOne` derives from it what `peek(1)` shows.

`PriorityQueueProofs!Implements`: the heap implements PriorityBag, each action
as one of the bag's steps or as none.  Swaps leave the bag alone because every
entry stands at as many slots as before (`Slotted` counts them); an entry is
added or taken at one slot; and the root is an entry of least rank
(`RootIsTop`), which is where the order of the heap comes in.

`LockedPriorityQueueProofs!AlwaysFinds` and `AlwaysTakes`: for any number of
threads and consumers.  The invariant `LockedInv` adds that a thread behind
the mutex is the one it names (`Exclusive`), that a consumer in `pop()` was
told of an item (`Asked`), that this is still true while no other thread has
popped (`Told`), and that the item read by `top()` stays the top one
(`TopStays`).  Each thread's step keeps `Told` of the others only because a
pop marks them stale.

`BitArrayProofs!AlwaysOwned`: for any number of arrays, blocks, sizes and
bits.  The invariant is `ArrayTypeOK /\ BlocksOwned`, which is inductive; each
member is an instance of three lemmas: a blank block is taken, two arrays
exchange what they hold, a block is returned.  `BitsHaveRoom`: for every size
the bytes the constructor asks for, rounded up to lines, hold every bit.
`BitArrayProofs!Implements`: what the variables show through their blocks are
the values of BitArrayValues, and every step on blocks is one step on values.
The invariant adds that an array's bits fit in the block it has (`RoomInv`);
that a copy does not share a block is what keeps the values of all the other
variables.

`AlwaysInOrder` states what it assumes of the constants, `BagAssumption`, as a
premise; the other theorems use the assumptions of their modules, which TLC
evaluates in its runs.

Only model-checked: of BTree its TypeOK, what its keys, weights and answers are
(`SeparatorsExact`, `WeightsExact`, `OutcomeTrue`, `ErasesReferred`, the
refinement `ImplementsBag`), the previous pointers and the size in
`LeavesLinked`, and all of BTreeQuery, whose operators are folds over levels
and over records; the ISAM trees, whose levels are recursive over the number of
leaves, with `QueryExact`, which reads them; the sums of `AliasExact`;
`ListDelivered`; and liveness (`CallsEnd`, `MutexReleased`), which is out of
the prover's reach.

## Divergences between the code and what it says

* `erase(iterator)` subtracts the weight of the erased record from a weight
  that a shift below has just recomputed (`btree_iterweights`).  `erase_one`
  asks for the shift first.  Samples drawn after that under-represent the
  leaf.
* `remove_file()` closes the descriptor and, when `unlink()` fails, goes on
  taking the file for open, although its comment says that the object is
  closed (`pagedfile_removed`).  Destroying it then closes a number that may
  belong to another object.  For two objects on one file this is no rare fault:
  the second `remove_file()` finds no name and always ends so.
* `TYPEALIGN` rounds up by masking, which needs a power of two, and
  `build_internal_levels()` passes it the size of a leaf, `sizeof(R) * FANOUT`,
  of which only the second factor is one (`isam_records24`).  With records of
  24 bytes and FANOUT 4, 17 records get an allocation of one node and two
  are written; with FANOUT 64 the same happens from 4097 records on.
* The tests disagree about the upper bound of a query.  `query()` leaves it out
  (StaticISAM.h:68), and `t_query_debug_1`, `t_query_debug_2`
  (static_isam_tests.cpp:103 and 128) and bentley_saxe_tests.cpp:79 count
  accordingly; `QueryExact` states that reading.  The oracle of `t_query`
  (static_isam_tests.cpp:278-280) is `std::upper_bound()` over the stored keys,
  which counts records whose key is the bound too.  It agrees with the code
  only as long as the random upper bound is no stored key; `QueryInclusive`,
  the mutant of `QueryExact`, is what it would require, and fails the property.
* Not runs, but visible in the model: `write_pages()` returns 1 rather than
  the number of pages its comment announces (`WritePages` answers 1), and on a
  file shorter than a page `allocate_pages()` succeeds with the value 0, which
  means failure (`AllocatedFrom` wraps).  `lower_bound()` of an ISAM tree does
  not descend to "the leaf node which will contain the lower bound"
  (StaticISAM.h:181-184) when that leaf is under a node that is not linked: its
  answer is exact (`SearchExact`), but its scan may run through many leaves.
  A FANOUT of 1 passes the class's static_assert and makes the node count a
  division by `log(1)`.

## What is not modelled, and why

* BTree: `swap`, constructors from unsorted ranges (repeated `insert`),
  `print`, `dump`.  Weights are integers, where the code has doubles: rounding
  is not represented.  `range_sample()`'s repetition until `k` samples are found
  is left out; on a range without weight it does not end, and no text promises
  that it would.  Copies have weight 0 everywhere (`CopyVerified` says so) and
  are modelled as a result, not as a second tree that is changed further.
* PagedFile: alignment of buffers and the flags of `open(2)`; page transfers
  always meet the sector size.  Offsets beyond 2^63.
* DynamicArray: its copies, moves and exchanges are those of BitArray line for
  line, and it adds element access without state.  Its own hazards, an `int`
  loop counter and elements that are never destroyed, are in the list.
* BloomFilter: that a lookup finds what was inserted follows from BitArray
  keeping the bits that are set, since both walk the same hash positions; its
  rate of false positives is statistical.
* Alias in double: a slot that rounding leaves just below 1 falls back to alias
  0, by an amount that whole numbers do not show.
* PriorityQueue: `peek(depth)` from depth 2 on follows lesser children and
  need not show the next entry; nothing says what it should show.
* Exceptions: of memory allocation, which end the program, and of the elements'
  own operations.
* The components in the last row of the table above.

## What is left

For BTree, that separators and weights are exact and that every call is a step
of the sorted bag (`SeparatorsExact`, `WeightsExact`, `ImplementsBag`).  The
forest of BTreeForest is the basis: the greatest key and the sum of weights
below a node would become two more functions on it, and the records the
concatenation of its leaves along `R`.  Both are defined by folds, about which
each proof has to bring its own induction.  Further, DynamicArray over the
lemmas of BitArrayProofs, and histories of copies of a BTree that are changed
further.
