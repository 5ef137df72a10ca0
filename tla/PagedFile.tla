----------------------------- MODULE PagedFile -----------------------------
(***************************************************************************)
(* psudb::PagedFile (psu-io/PagedFile.h): objects that read, write and     *)
(* append whole pages of a file through a descriptor of their own.  Page 0 *)
(* is never handed out (INVALID_PNUM).  An object keeps the size the file  *)
(* had when it last looked; name, file and descriptor belong to the        *)
(* operating system, which is modelled as far as the class depends on it:  *)
(* a directory, files that live while a name or a descriptor refers to     *)
(* them, and descriptors given out lowest first and given out again.       *)
(*                                                                         *)
(* A file is a sequence of units, PageUnits to a page, so that a torn page *)
(* and a file that ends within a page exist.                               *)
(***************************************************************************)
EXTENDS Integers, Sequences, FiniteSets, SequencesExt

CONSTANTS Handle,     (* the objects a client may hold at a time            *)
          Name,       (* file names                                         *)
          Inode,      (* bound: the files that can exist at a time          *)
          Fd,         (* bound: the descriptors of the process              *)
          Value,      (* what a client writes into a unit                   *)
          PageUnits,  (* PAGE_SIZE in units                                 *)
          PnumRange,  (* page numbers are taken modulo this (2^32)          *)
          MaxUnits,   (* bound: the size at which the disk is full          *)
          MaxCount,   (* bound: the most pages in one call                  *)
          Existing,   (* bound: the sizes of the file there is at first     *)
          Exclusive,  (* whether clients keep a file to one object at a time *)
          UnlinkMayFail  (* whether unlink(2) may fail on a name there is    *)

ASSUME PagedFileAssumption == /\ Inode \subseteq Nat \ {0}
                              /\ Fd \subseteq Nat
                              /\ PageUnits \in Nat \ {0}
                              /\ PnumRange \in Nat \ {0}
                              /\ MaxUnits \in Nat /\ MaxCount \in Nat
                              /\ PageUnits <= MaxUnits
                              /\ MaxUnits < PnumRange * PageUnits
                              /\ Existing \subseteq 0..MaxUnits
                              /\ Exclusive \in BOOLEAN
                              /\ UnlinkMayFail \in BOOLEAN

VARIABLES dir,    (* the file a name refers to                             *)
          data,   (* the units of a file                                   *)
          fds,    (* the file a descriptor is open on                      *)
          obj,    (* the members of the objects                            *)
          file,   (* history: the file an object was opened on             *)
          ret     (* the last call, its arguments and what it returned     *)

vars == <<dir, data, fds, obj, file, ret>>

None == 0       (* no file; a closed descriptor; INVALID_PNUM               *)
Zero == "zero"  (* what a unit that was never written reads as              *)

Dead == [live |-> FALSE, file_open |-> FALSE, fd |-> 0, size |-> 0, fname |-> None]
NoCall == [op |-> "none"]

Open(h) == obj[h].live /\ obj[h].file_open
-----------------------------------------------------------------------------
(* The operating system                                                    *)

FreeFd(fd) == /\ fd \in Fd /\ fds[fd] = None
              /\ \A other \in Fd : fds[other] = None => fd <= other

(* A file that neither a name nor a descriptor refers to.                  *)
Unused(i) == /\ \A n \in Name : dir[n] # i
             /\ \A fd \in Fd : fds[fd] # i
FreeInode(i) == /\ i \in Inode /\ Unused(i)
                /\ \A other \in Inode : Unused(other) => i <= other

AtLeast(s, n) == IF Len(s) < n THEN n ELSE Len(s)

(* fallocate() up to unit n: the file grows, or keeps its size.            *)
Fallocated(s, n) == [u \in 1..AtLeast(s, n) |-> IF u <= Len(s) THEN s[u] ELSE Zero]

(* pwrite() of n units at unit `at`.                                       *)
Written(s, at, n, v) ==
  [u \in 1..(IF n = 0 THEN Len(s) ELSE AtLeast(s, at + n)) |->
     IF u \in (at + 1)..(at + n) THEN v
     ELSE IF u <= Len(s) THEN s[u] ELSE Zero]

Closing(fd) == [fds EXCEPT ![fd] = None]
-----------------------------------------------------------------------------
(* What the class computes from its members                                *)

PageCount(o)  == (o.size \div PageUnits - 1) % PnumRange
CheckPnumLoose(o, pnum) == pnum # None /\ pnum <= o.size \div PageUnits
CheckPnum(o, pnum) == pnum # None /\ pnum < o.size \div PageUnits
Offset(pnum)  == pnum * PageUnits

(* verify_io_parms(); whole pages always keep to the sector size.          *)
VerifyIo(o, amount, offset) == o.file_open /\ amount + offset <= o.size

CheckRange(o, first, cnt) == /\ CheckPnum(o, first)
                             /\ CheckPnum(o, (first + cnt - 1) % PnumRange)

(* pread() delivers `amount` units at `offset`.                            *)
Delivers(o, amount, offset) ==
  /\ fds[o.fd] # None
  /\ offset + amount <= Len(data[fds[o.fd]])

Units(i, offset, amount) == SubSeq(data[i], offset + 1, offset + amount)
-----------------------------------------------------------------------------
(* Clients.  One that keeps files to itself opens, and renames to, no name *)
(* that one of its open objects has.                                       *)
Held(n)  == \E h \in Handle : Open(h) /\ obj[h].fname = n
Avail(n) == Exclusive => ~Held(n)

Init == /\ \E n \in Name, i \in Inode, size \in Existing, v \in Value :
             /\ dir = [m \in Name |-> IF m = n THEN i ELSE None]
             /\ data = [j \in Inode |-> IF j = i THEN [u \in 1..size |-> v] ELSE <<>>]
        /\ fds = [fd \in Fd |-> None]
        /\ obj = [h \in Handle |-> Dead]
        /\ file = [h \in Handle |-> None]
        /\ ret = NoCall

Answer(op, h, first, cnt, val) ==
  [op |-> op, h |-> h, first |-> first, cnt |-> cnt, val |-> val]
Transfer(op, h, first, cnt, val, buffer) ==
  [op |-> op, h |-> h, first |-> first, cnt |-> cnt, val |-> val, buffer |-> buffer]

(* create(): open(2), then fallocate() of the header page or fstat().      *)
OpenFile(h, n, new_file, i, fd) ==
  /\ ~obj[h].live /\ Avail(n)
  /\ FreeFd(fd)
  /\ IF dir[n] # None THEN i = dir[n] ELSE new_file /\ FreeInode(i)
  /\ dir' = [dir EXCEPT ![n] = i]
  /\ fds' = [fds EXCEPT ![fd] = i]

ObjectHeaderTwice(n, fd, size) ==
  [live |-> TRUE, file_open |-> TRUE, fd |-> fd, size |-> size + PageUnits, fname |-> n]
Object(n, fd, size) ==
  [live |-> TRUE, file_open |-> TRUE, fd |-> fd, size |-> size, fname |-> n]

Create(h, n, new_file) ==
  \E i \in Inode, fd \in Fd :
    /\ OpenFile(h, n, new_file, i, fd)
    /\ fd # 0
    /\ data' = IF new_file THEN [data EXCEPT ![i] = Fallocated(<<>>, PageUnits)] ELSE data
    /\ obj' = [obj EXCEPT ![h] = Object(n, fd, Len(data'[i]))]
    /\ file' = [file EXCEPT ![h] = i]
    /\ ret' = Answer("create", h, None, 0, 1)

(* The file could not be sized, or is open on descriptor 0: setup()        *)
(* returns no object, and keeps the descriptor.                            *)
CreateLeaks(h, n, new_file) ==
  \E i \in Inode, fd \in Fd :
    /\ OpenFile(h, n, new_file, i, fd)
    /\ data' \in IF ~new_file THEN {data}
                 ELSE {[data EXCEPT ![i] = <<>>]} \cup
                      (IF fd = 0 THEN {[data EXCEPT ![i] = Fallocated(<<>>, PageUnits)]}
                       ELSE {})
    /\ ret' = Answer("create", h, None, 0, 0)
    /\ UNCHANGED <<obj, file>>

CreateFails(h) ==
  /\ ~obj[h].live
  /\ ret' = Answer("create", h, None, 0, 0)
  /\ UNCHANGED <<dir, data, fds, obj, file>>

AllocatedAtLast(o) == PageCount(o)
AllocatedFrom(o) == (PageCount(o) + 1) % PnumRange

Allocate(h, cnt) ==
  LET o   == obj[h]
      end == o.size + cnt * PageUnits
  IN  /\ Open(h) /\ fds[o.fd] # None
      /\ cnt > 0 /\ end <= MaxUnits
      /\ data' = [data EXCEPT ![fds[o.fd]] = Fallocated(@, end)]
      /\ obj' = [obj EXCEPT ![h].size = end]
      /\ ret' = Answer("allocate", h, None, cnt, AllocatedFrom(o))
      /\ UNCHANGED <<dir, fds, file>>

AllocateFails(h, cnt) ==
  /\ obj[h].live
  /\ ret' = Answer("allocate", h, None, cnt, None)
  /\ UNCHANGED <<dir, data, fds, obj, file>>

(* read_page() is read_pages() of one page.                                *)
ReadPages(h, first, cnt) ==
  LET o == obj[h]
  IN  /\ o.live
      /\ CheckRange(o, first, cnt)
      /\ VerifyIo(o, cnt * PageUnits, Offset(first))
      /\ Delivers(o, cnt * PageUnits, Offset(first))
      /\ ret' = Transfer("read_pages", h, first, cnt, 1,
                         Units(fds[o.fd], Offset(first), cnt * PageUnits))
      /\ UNCHANGED <<dir, data, fds, obj, file>>

ReadFails(h) ==
  /\ obj[h].live
  /\ ret' = Answer("read_pages", h, None, 0, 0)
  /\ UNCHANGED <<dir, data, fds, obj, file>>

(* read_pages() of a list of pages: the sorted list is read in runs of     *)
(* adjacent pages, each with one preadv(); page numbers are not checked.   *)
RunsJoinRepeated(pages) ==
  FoldLeft(LAMBDA runs, p :
             IF runs # <<>> /\ p <= Last(runs).prev + 1
             THEN Append(Front(runs), [Last(runs) EXCEPT !.prev = p, !.cnt = @ + 1])
             ELSE Append(runs, [start |-> p, prev |-> p, cnt |-> 1]),
           <<>>, pages)
Runs(pages) ==
  FoldLeft(LAMBDA runs, p :
             IF runs # <<>> /\ p = Last(runs).prev + 1
             THEN Append(Front(runs), [Last(runs) EXCEPT !.prev = p, !.cnt = @ + 1])
             ELSE Append(runs, [start |-> p, prev |-> p, cnt |-> 1]),
           <<>>, pages)

Sorted(pages) == SortSeq(pages, <)

ReadList(h, pages) ==
  LET o      == obj[h]
      sorted == Sorted(pages)
      runs   == Runs(sorted)
  IN  /\ o.live /\ pages # <<>>
      /\ \A r \in ToSet(runs) : /\ VerifyIo(o, r.cnt * PageUnits, Offset(r.start))
                                /\ Delivers(o, r.cnt * PageUnits, Offset(r.start))
      /\ ret' = [op |-> "read_list", h |-> h, val |-> 1, pages |-> sorted,
                 buffer |-> FlattenSeq([j \in DOMAIN runs |->
                   Units(fds[o.fd], Offset(runs[j].start), runs[j].cnt * PageUnits)])]
      /\ UNCHANGED <<dir, data, fds, obj, file>>

(* write_page() is write_pages() of one page.                              *)
WriteOk(h, first, cnt) ==
  LET o == obj[h]
  IN  /\ o.live
      /\ CheckRange(o, first, cnt)
      /\ VerifyIo(o, cnt * PageUnits, Offset(first))
      /\ fds[o.fd] # None

WriteDataLonger(h, first, units, v) ==
  data' = [data EXCEPT ![fds[obj[h].fd]] = Written(@, Offset(first), units + 1, v)]
WriteData(h, first, units, v) ==
  data' = [data EXCEPT ![fds[obj[h].fd]] = Written(@, Offset(first), units, v)]

WritePages(h, first, cnt, v) ==
  /\ WriteOk(h, first, cnt)
  /\ WriteData(h, first, cnt * PageUnits, v)
  /\ ret' = Transfer("write_pages", h, first, cnt, 1, v)
  /\ UNCHANGED <<dir, fds, obj, file>>

(* pwrite() fails, or writes only the first of the units.                  *)
WriteFails(h, first, cnt, v) ==
  /\ obj[h].live
  /\ \/ data' = data
     \/ /\ WriteOk(h, first, cnt)
        /\ \E units \in 0..(cnt * PageUnits - 1) : WriteData(h, first, units, v)
  /\ ret' = Transfer("write_pages", h, first, cnt, 0, v)
  /\ UNCHANGED <<dir, fds, obj, file>>

(* remove_file() closes the descriptor before it knows whether unlink()    *)
(* succeeds.  When it does not, which is certain for a name that another   *)
(* object has removed or renamed, the object goes on taking itself for     *)
(* open.  It is not called on an object that knows its file removed, which *)
(* the comment on it leaves undefined.                                     *)
Unlinked(h) ==
  /\ dir[obj[h].fname] # None
  /\ dir' = [dir EXCEPT ![obj[h].fname] = None]
  /\ obj' = [obj EXCEPT ![h].file_open = FALSE]
  /\ ret' = Answer("remove", h, None, 0, 1)

UnlinkFails(h) ==
  /\ dir[obj[h].fname] # None => UnlinkMayFail
  /\ ret' = Answer("remove", h, None, 0, 0)
  /\ UNCHANGED <<dir, obj>>

RemoveFile(h) ==
  /\ Open(h)
  /\ fds' = Closing(obj[h].fd)
  /\ Unlinked(h) \/ UnlinkFails(h)
  /\ UNCHANGED <<data, file>>

(* rename_file(): a failed rename() ends the program.                      *)
NameKept(o, n) == o
Renamed(o, n) == [o EXCEPT !.fname = n]

RenameFile(h, n) ==
  LET old == obj[h].fname
  IN  /\ Open(h) /\ dir[old] # None
      /\ n # old /\ Avail(n)
      /\ dir' = [dir EXCEPT ![n] = dir[old], ![old] = None]
      /\ obj' = [obj EXCEPT ![h] = Renamed(@, n)]
      /\ ret' = Answer("rename", h, None, 0, 1)
      /\ UNCHANGED <<data, fds, file>>

(* The destructor closes the descriptor unless remove_file() has.          *)
ClosedAlways(o) == Closing(o.fd)
ClosedBy(o) == IF o.file_open THEN Closing(o.fd) ELSE fds

Destroy(h) ==
  /\ obj[h].live
  /\ fds' = ClosedBy(obj[h])
  /\ obj' = [obj EXCEPT ![h] = Dead]
  /\ file' = [file EXCEPT ![h] = None]
  /\ ret' = Answer("destroy", h, None, 0, 1)
  /\ UNCHANGED <<dir, data>>

Pnum == 0..(MaxUnits \div PageUnits)

Next ==
  \E h \in Handle :
    \/ \E n \in Name, new_file \in BOOLEAN : Create(h, n, new_file) \/ CreateLeaks(h, n, new_file)
    \/ CreateFails(h)
    \/ \E cnt \in 0..MaxCount : Allocate(h, cnt) \/ AllocateFails(h, cnt)
    \/ \E first \in Pnum, cnt \in 0..MaxCount : ReadPages(h, first, cnt)
    \/ ReadFails(h)
    \/ \E pages \in SeqOf(Pnum, MaxCount) : ReadList(h, pages)
    \/ \E first \in Pnum, cnt \in 0..MaxCount, v \in Value :
         WritePages(h, first, cnt, v) \/ WriteFails(h, first, cnt, v)
    \/ RemoveFile(h)
    \/ \E n \in Name : RenameFile(h, n)
    \/ Destroy(h)

Spec == Init /\ [][Next]_vars
-----------------------------------------------------------------------------
(* Every member has its type; no file grows beyond the disk.               *)
TypeOK ==
  /\ dir \in [Name -> Inode \cup {None}]
  /\ data \in [Inode -> Seq(Value \cup {Zero})]
  /\ fds \in [Fd -> Inode \cup {None}]
  /\ obj \in [Handle -> [live : BOOLEAN, file_open : BOOLEAN, fd : Fd \cup {0},
                         size : 0..MaxUnits, fname : Name \cup {None}]]
  /\ file \in [Handle -> Inode \cup {None}]
  /\ \A h \in Handle : Open(h) => obj[h].fd \in Fd /\ obj[h].fname \in Name
  /\ \A i \in Inode : Len(data[i]) <= MaxUnits

(* The descriptor an open object keeps is open, on the file the object was *)
(* created for: no other object's destructor or remove_file() has closed   *)
(* it, nor has its number been given to another file.  Once a remove_file() *)
(* has failed this does not hold (see DescriptorsApart).                   *)
DescriptorsOwned == \A h \in Handle : Open(h) => fds[obj[h].fd] = file[h] /\ file[h] # None

(* The name an open object keeps still leads to its file, so remove_file() *)
(* and rename_file() work on the file that read_page() reads.              *)
NamesOwn == \A h \in Handle : Open(h) => dir[obj[h].fname] = file[h]

(* Every page check_pnum() admits is in the file from end to end: no read  *)
(* of an allocated page comes short, however the file was renamed, replaced *)
(* or written by halves.                                                   *)
PagesBacked ==
  \A h \in Handle : Open(h) =>
    \A p \in Pnum : CheckPnum(obj[h], p) =>
      p # 0 /\ (p + 1) * PageUnits <= Len(data[file[h]])

(* The pages allocate_pages() returns were nobody's: they did not fit into *)
(* the file before and do afterwards, and what was in the file is left.    *)
FreshPages ==
  [][ret'.op = "allocate" /\ ret'.val # None =>
       LET before == data[file[ret'.h]]
           after  == data'[file[ret'.h]]
           last   == ret'.val + ret'.cnt - 1
       IN  /\ (ret'.val + 1) * PageUnits > Len(before)
           /\ (last + 1) * PageUnits <= Len(after)
           /\ \A p \in ret'.val..last : CheckPnum(obj'[ret'.h], p)
           /\ \A u \in DOMAIN before : after[u] = before[u]]_vars

(* write_page() and write_pages() touch no unit outside the pages named in *)
(* the file of their object, never page 0 and never another file; when     *)
(* they return 1 the pages are written to the end.                         *)
WritesStay ==
  [][ret'.op = "write_pages" =>
       LET mine == (ret'.first * PageUnits + 1)..((ret'.first + ret'.cnt) * PageUnits)
       IN  /\ \A i \in Inode : \A u \in DOMAIN data[i] :
                data'[i][u] # data[i][u] =>
                  i = file[ret'.h] /\ ret'.first > 0 /\ u \in mine
           /\ ret'.val = 1 => \A u \in mine : data'[file[ret'.h]][u] = ret'.buffer]_vars

(* A list of pages is read into the right buffers, whatever runs it falls  *)
(* into: each page once, repeated pages and gaps included.                 *)
ListDelivered ==
  [][ret'.op = "read_list" =>
       ret'.buffer = FlattenSeq([j \in DOMAIN ret'.pages |->
                       Units(file[ret'.h], ret'.pages[j] * PageUnits, PageUnits)])]_vars

(* Two objects never work through one descriptor: remove_file() promises   *)
(* that the object is closed, whether or not it succeeds.                  *)
DescriptorsApart ==
  \A g, h \in Handle : Open(g) /\ Open(h) /\ g # h => obj[g].fd # obj[h].fd
=============================================================================
