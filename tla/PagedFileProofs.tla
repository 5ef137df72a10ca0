-------------------------- MODULE PagedFileProofs --------------------------
(***************************************************************************)
(* PagedFile objects and their descriptors, for any number of objects,     *)
(* names, files and descriptors: as long as no remove_file() has failed,   *)
(* every open object keeps a descriptor of its own on its own file, and    *)
(* when a client keeps a file to one object at a time and unlink() does    *)
(* not fail, the name and the size the object remembers are the file's.    *)
(* Then, for such a client, the scans: whatever is done to the file        *)
(* through its object meanwhile, a scan whose reads all succeed hands out  *)
(* every page asked for, once and in order, each as it is in the file at   *)
(* that moment.                                                            *)
(***************************************************************************)
EXTENDS PagedFileIterator, SequenceTheorems, TLAPS

Unit == Value \cup {Zero}

LEMMA FallocatedProperties ==
  ASSUME NEW s \in Seq(Unit), NEW n \in Nat
  PROVE  /\ Fallocated(s, n) \in Seq(Unit)
         /\ Len(Fallocated(s, n)) = IF Len(s) < n THEN n ELSE Len(s)
<1>1. AtLeast(s, n) \in Nat
  BY DEF AtLeast
<1>2. \A u \in 1..AtLeast(s, n) : (IF u <= Len(s) THEN s[u] ELSE Zero) \in Unit
  BY <1>1 DEF Unit
<1>3. Fallocated(s, n) \in Seq(Unit) /\ Len(Fallocated(s, n)) = AtLeast(s, n)
  BY <1>1, <1>2 DEF Fallocated
<1> QED  BY <1>3 DEF AtLeast

LEMMA HeaderFile ==
  /\ Fallocated(<<>>, PageUnits) \in Seq(Unit)
  /\ Len(Fallocated(<<>>, PageUnits)) = PageUnits
<1>1. <<>> \in Seq(Unit) /\ Len(<<>>) = 0 /\ PageUnits \in Nat /\ 0 < PageUnits
  BY PagedFileAssumption
<1> QED  BY <1>1, FallocatedProperties

LEMMA WrittenProperties ==
  ASSUME NEW s \in Seq(Unit), NEW at \in Nat, NEW n \in Nat, NEW v \in Value
  PROVE  /\ Written(s, at, n, v) \in Seq(Unit)
         /\ Len(Written(s, at, n, v)) = IF n = 0 \/ at + n <= Len(s) THEN Len(s)
                                       ELSE at + n
<1> DEFINE m == IF n = 0 THEN Len(s) ELSE AtLeast(s, at + n)
<1>1. m \in Nat
  BY DEF AtLeast
<1>2. \A u \in 1..m : (IF u \in (at + 1)..(at + n) THEN v
                       ELSE IF u <= Len(s) THEN s[u] ELSE Zero) \in Unit
  BY <1>1 DEF Unit
<1> HIDE DEF m
<1>3. Written(s, at, n, v) =
        [u \in 1..m |-> IF u \in (at + 1)..(at + n) THEN v
                        ELSE IF u <= Len(s) THEN s[u] ELSE Zero]
  BY DEF Written, m
<1>4. Written(s, at, n, v) \in Seq(Unit) /\ Len(Written(s, at, n, v)) = m
  BY <1>1, <1>2, <1>3
<1> QED  BY <1>4 DEF m, AtLeast

(* Steps that leave the files and the objects alone.                       *)
Quiet == UNCHANGED <<dir, data, fds, obj, file>>

LEMMA QuietSteps ==
  ASSUME NEW h \in Handle
  PROVE  /\ CreateFails(h) => Quiet
         /\ \A cnt \in 0..MaxCount : AllocateFails(h, cnt) => Quiet
         /\ \A first \in Pnum, cnt \in 0..MaxCount : ReadPages(h, first, cnt) => Quiet
         /\ ReadFails(h) => Quiet
         /\ \A pages \in SeqOf(Pnum, MaxCount) : ReadList(h, pages) => Quiet
  BY DEF CreateFails, AllocateFails, ReadPages, ReadFails, ReadList, Quiet
(* Each call answers under its own name.                                    *)
LEMMA Answers ==
  ASSUME NEW h \in Handle
  PROVE  /\ \A n \in Name, new_file \in BOOLEAN :
              Create(h, n, new_file) \/ CreateLeaks(h, n, new_file) => ret'.op = "create"
         /\ CreateFails(h) => ret'.op = "create"
         /\ \A cnt \in 0..MaxCount : Allocate(h, cnt) \/ AllocateFails(h, cnt) => ret'.op = "allocate"
         /\ \A first \in Pnum, cnt \in 0..MaxCount : ReadPages(h, first, cnt) => ret'.op = "read_pages"
         /\ ReadFails(h) => ret'.op = "read_pages"
         /\ \A pages \in SeqOf(Pnum, MaxCount) : ReadList(h, pages) => ret'.op = "read_list"
         /\ \A first \in Pnum, cnt \in 0..MaxCount, v \in Value :
              WritePages(h, first, cnt, v) \/ WriteFails(h, first, cnt, v) => ret'.op = "write_pages"
         /\ RemoveFile(h) => ret'.op = "remove"
         /\ \A n \in Name : RenameFile(h, n) => ret'.op = "rename"
         /\ Destroy(h) => ret'.op = "destroy"
<1>1. /\ CreateFails(h) => ret'.op = "create"
      /\ \A n \in Name, new_file \in BOOLEAN :
           Create(h, n, new_file) \/ CreateLeaks(h, n, new_file) => ret'.op = "create"
  BY DEF Create, CreateLeaks, CreateFails, Answer
<1>2. \A cnt \in 0..MaxCount : Allocate(h, cnt) \/ AllocateFails(h, cnt) => ret'.op = "allocate"
  BY DEF Allocate, AllocateFails, Answer
<1>3. /\ ReadFails(h) => ret'.op = "read_pages"
      /\ \A first \in Pnum, cnt \in 0..MaxCount : ReadPages(h, first, cnt) => ret'.op = "read_pages"
  BY DEF ReadFails, ReadPages, Answer, Transfer
<1>4. \A pages \in SeqOf(Pnum, MaxCount) : ReadList(h, pages) => ret'.op = "read_list"
  BY DEF ReadList
<1>5. \A first \in Pnum, cnt \in 0..MaxCount, v \in Value :
        WritePages(h, first, cnt, v) \/ WriteFails(h, first, cnt, v) => ret'.op = "write_pages"
  BY DEF WritePages, WriteFails, Transfer
<1>6. /\ RemoveFile(h) => ret'.op = "remove"
      /\ \A n \in Name : RenameFile(h, n) => ret'.op = "rename"
      /\ Destroy(h) => ret'.op = "destroy"
  BY DEF RemoveFile, Unlinked, UnlinkFails, RenameFile, Destroy, Answer
<1> QED  BY <1>1, <1>2, <1>3, <1>4, <1>5, <1>6

-----------------------------------------------------------------------------
(* What holds of the descriptors as long as remove_file() succeeds.        *)
Private == DescriptorsOwned /\ DescriptorsApart
Owned == TypeOK /\ Private

(* The step is no failing remove_file().                                   *)
Succeeds == ret'.op = "remove" => ret'.val = 1

(* The behaviours in which no remove_file() fails, whatever else does.     *)
RemovalsSucceed == [][Succeeds]_vars

LEMMA InitOwned == Init => Owned
<1> SUFFICES ASSUME Init PROVE Owned
  OBVIOUS
<1>1. PICK n \in Name, i \in Inode, size \in Existing, v \in Value :
        /\ dir = [m \in Name |-> IF m = n THEN i ELSE None]
        /\ data = [j \in Inode |-> IF j = i THEN [u \in 1..size |-> v] ELSE <<>>]
  BY DEF Init
<1>2. size \in 0..MaxUnits
  BY PagedFileAssumption
<1>3. [u \in 1..size |-> v] \in Seq(Unit) /\ Len([u \in 1..size |-> v]) = size
  BY <1>2 DEF Unit
<1>4. data \in [Inode -> Seq(Unit)] /\ \A j \in Inode : Len(data[j]) <= MaxUnits
  BY <1>1, <1>2, <1>3, PagedFileAssumption
<1>5. dir \in [Name -> Inode \cup {None}]
  BY <1>1
<1>6. \A h \in Handle : obj[h] = Dead /\ ~Open(h)
  BY DEF Init, Open, Dead
<1>7. Dead \in [live : BOOLEAN, file_open : BOOLEAN, fd : Fd \cup {0},
                size : 0..MaxUnits, fname : Name \cup {None}]
  BY PagedFileAssumption DEF Dead
<1>8. TypeOK
  BY <1>4, <1>5, <1>6, <1>7 DEF Init, TypeOK, Unit
<1> QED  BY <1>6, <1>8 DEF Owned, Private, DescriptorsOwned, DescriptorsApart

LEMMA QuietOwned == Quiet => (TypeOK => TypeOK') /\ (Private => Private')
<1> SUFFICES ASSUME Quiet PROVE (TypeOK => TypeOK') /\ (Private => Private')
  OBVIOUS
<1>1. TypeOK => TypeOK'
  BY DEF Quiet, TypeOK, Open
<1>2. Private => Private'
  BY DEF Quiet, Private, DescriptorsOwned, DescriptorsApart, Open
<1> QED  BY <1>1, <1>2

(* open(2) takes a descriptor no open object has.                          *)
LEMMA OpenOwned ==
  ASSUME TypeOK, NEW h \in Handle, NEW n \in Name, NEW new_file \in BOOLEAN,
         NEW i \in Inode, NEW fd \in Fd, OpenFile(h, n, new_file, i, fd)
  PROVE  /\ ~Open(h)
         /\ Private => \A g \in Handle : Open(g) =>
                         obj[g].fd # fd /\ fds'[obj[g].fd] = fds[obj[g].fd]
         /\ fds' \in [Fd -> Inode \cup {None}] /\ fds'[fd] = i
         /\ dir' \in [Name -> Inode \cup {None}]
<1>1. fds[fd] = None /\ ~obj[h].live /\ fds' = [fds EXCEPT ![fd] = i] /\ dir' = [dir EXCEPT ![n] = i]
  BY DEF OpenFile, FreeFd
<1>2. Private => \A g \in Handle : Open(g) => obj[g].fd \in Fd /\ fds[obj[g].fd] # None
  BY DEF TypeOK, Private, DescriptorsOwned
<1> QED  BY <1>1, <1>2 DEF TypeOK, Open

LEMMA CreateOwned ==
  ASSUME TypeOK, NEW h \in Handle, NEW n \in Name, NEW new_file \in BOOLEAN,
         Create(h, n, new_file)
  PROVE  TypeOK' /\ (Private => Private')
<1>1. PICK i \in Inode, fd \in Fd :
        /\ OpenFile(h, n, new_file, i, fd)
        /\ fd # 0
        /\ data' = IF new_file THEN [data EXCEPT ![i] = Fallocated(<<>>, PageUnits)] ELSE data
        /\ obj' = [obj EXCEPT ![h] = Object(n, fd, Len(data'[i]))]
        /\ file' = [file EXCEPT ![h] = i]
  BY DEF Create
<1>2. /\ data' \in [Inode -> Seq(Unit)]
      /\ \A j \in Inode : Len(data'[j]) \in 0..MaxUnits
  <2>2. data \in [Inode -> Seq(Unit)] /\ \A j \in Inode : Len(data[j]) \in 0..MaxUnits
    BY DEF TypeOK, Unit
  <2> QED  BY <1>1, <2>2, HeaderFile, PagedFileAssumption
<1>3. /\ \A g \in Handle : g # h => obj'[g] = obj[g] /\ file'[g] = file[g]
      /\ obj'[h] = Object(n, fd, Len(data'[i])) /\ file'[h] = i
      /\ obj' \in [Handle -> [live : BOOLEAN, file_open : BOOLEAN, fd : Fd \cup {0},
                              size : 0..MaxUnits, fname : Name \cup {None}]]
      /\ file' \in [Handle -> Inode \cup {None}]
  BY <1>1, <1>2 DEF TypeOK, Object
<1>4. \A g \in Handle : g # h => (Open(g)' <=> Open(g))
  BY <1>3 DEF Open
<1>5. obj'[h].fd = fd /\ obj'[h].fname = n
  BY <1>3 DEF Object
<1>6. TypeOK'
  BY <1>1, <1>2, <1>3, <1>4, <1>5, OpenOwned DEF TypeOK, Unit
<1>7. Private => DescriptorsOwned'
  BY <1>1, <1>3, <1>4, <1>5, OpenOwned, PagedFileAssumption DEF Private, DescriptorsOwned, None
<1>8. Private => DescriptorsApart'
  BY <1>1, <1>3, <1>4, <1>5, OpenOwned DEF Private, DescriptorsApart
<1> QED  BY <1>6, <1>7, <1>8 DEF Private

LEMMA CreateLeaksOwned ==
  ASSUME TypeOK, NEW h \in Handle, NEW n \in Name, NEW new_file \in BOOLEAN,
         CreateLeaks(h, n, new_file)
  PROVE  TypeOK' /\ (Private => Private')
<1>1. PICK i \in Inode, fd \in Fd :
        /\ OpenFile(h, n, new_file, i, fd)
        /\ \/ data' = data
           \/ data' = [data EXCEPT ![i] = <<>>]
           \/ data' = [data EXCEPT ![i] = Fallocated(<<>>, PageUnits)]
  BY DEF CreateLeaks
<1>2. /\ data' \in [Inode -> Seq(Unit)]
      /\ \A j \in Inode : Len(data'[j]) <= MaxUnits
  <2>2. data \in [Inode -> Seq(Unit)] /\ \A j \in Inode : Len(data[j]) <= MaxUnits
    BY DEF TypeOK, Unit
  <2>3. <<>> \in Seq(Unit) /\ Len(<<>>) = 0 /\ PageUnits <= MaxUnits /\ 0 <= MaxUnits
    BY PagedFileAssumption
  <2> QED  BY <1>1, <2>2, <2>3, HeaderFile
<1>3. obj' = obj /\ file' = file /\ \A g \in Handle : Open(g)' <=> Open(g)
  BY DEF CreateLeaks, Open
<1>4. TypeOK'
  BY <1>1, <1>2, <1>3, OpenOwned DEF TypeOK, Unit
<1>5. Private => Private'
  BY <1>1, <1>3, OpenOwned DEF Private, DescriptorsOwned, DescriptorsApart
<1> QED  BY <1>4, <1>5

LEMMA AllocateOwned ==
  ASSUME TypeOK, NEW h \in Handle, NEW cnt \in 0..MaxCount, Allocate(h, cnt)
  PROVE  TypeOK' /\ (Private => Private')
<1> DEFINE end == obj[h].size + cnt * PageUnits
           i == fds[obj[h].fd]
<1>1. /\ Open(h) /\ end \in 0..MaxUnits /\ i \in Inode
      /\ data' = [data EXCEPT ![i] = Fallocated(@, end)]
      /\ obj' = [obj EXCEPT ![h].size = end]
      /\ UNCHANGED <<dir, fds, file>>
  BY PagedFileAssumption DEF Allocate, TypeOK
<1> HIDE DEF end, i
<1>2. data \in [Inode -> Seq(Unit)] /\ \A j \in Inode : Len(data[j]) <= MaxUnits
  BY DEF TypeOK, Unit
<1>3. data' \in [Inode -> Seq(Unit)] /\ \A j \in Inode : Len(data'[j]) <= MaxUnits
  <2>1. /\ Fallocated(data[i], end) \in Seq(Unit)
        /\ Len(Fallocated(data[i], end)) <= MaxUnits
    <3>1. data[i] \in Seq(Unit) /\ Len(data[i]) <= MaxUnits /\ end \in Nat /\ end <= MaxUnits
      BY <1>1, <1>2
    <3> QED  BY <3>1, FallocatedProperties
  <2> QED  BY <1>1, <1>2, <2>1
<1>4. /\ obj' \in [Handle -> [live : BOOLEAN, file_open : BOOLEAN, fd : Fd \cup {0},
                              size : 0..MaxUnits, fname : Name \cup {None}]]
      /\ \A g \in Handle : /\ obj'[g].live = obj[g].live /\ obj'[g].file_open = obj[g].file_open
                           /\ obj'[g].fd = obj[g].fd /\ obj'[g].fname = obj[g].fname
  BY <1>1 DEF TypeOK
<1>5. \A g \in Handle : Open(g)' <=> Open(g)
  BY <1>4 DEF Open
<1>6. TypeOK'
  BY <1>1, <1>3, <1>4, <1>5 DEF TypeOK, Unit
<1>7. Private => Private'
  BY <1>1, <1>4, <1>5 DEF Private, DescriptorsOwned, DescriptorsApart
<1> QED  BY <1>6, <1>7

(* Both outcomes of a write: some of the units named are written, or none. *)
LEMMA WriteEffect ==
  ASSUME TypeOK, NEW h \in Handle, NEW first \in Pnum, NEW cnt \in 0..MaxCount,
         NEW v \in Value, WritePages(h, first, cnt, v) \/ WriteFails(h, first, cnt, v)
  PROVE  /\ UNCHANGED <<dir, fds, obj, file>>
         /\ \/ data' = data
            \/ /\ Open(h) /\ fds[obj[h].fd] \in Inode
               /\ \E units \in Nat :
                    /\ Offset(first) \in Nat
                    /\ Offset(first) + units <= obj[h].size
                    /\ data' = [data EXCEPT ![fds[obj[h].fd]] =
                                  Written(@, Offset(first), units, v)]
<1>1. first \in Nat /\ cnt \in Nat /\ PageUnits \in Nat
  BY PagedFileAssumption DEF Pnum
<1>2. Offset(first) \in Nat /\ cnt * PageUnits \in Nat
  BY <1>1 DEF Offset
<1>3. ASSUME WriteOk(h, first, cnt)
      PROVE  /\ Open(h) /\ fds[obj[h].fd] \in Inode
             /\ cnt * PageUnits + Offset(first) <= obj[h].size
  BY <1>3 DEF WriteOk, VerifyIo, Open, TypeOK
<1>4. CASE WritePages(h, first, cnt, v)
  <2>1. obj[h].size \in Nat
    BY PagedFileAssumption DEF TypeOK
  <2>2. Offset(first) + cnt * PageUnits <= obj[h].size
    BY <1>2, <1>3, <1>4, <2>1 DEF WritePages
  <2>3. /\ UNCHANGED <<dir, fds, obj, file>>
        /\ data' = [data EXCEPT ![fds[obj[h].fd]] = Written(@, Offset(first), cnt * PageUnits, v)]
    BY <1>4 DEF WritePages, WriteData
  <2> QED  BY <1>2, <1>3, <1>4, <2>2, <2>3 DEF WritePages
<1>5. CASE WriteFails(h, first, cnt, v)
  <2>1. CASE data' = data
    BY <1>5, <2>1 DEF WriteFails
  <2>2. CASE data' # data
    <3>1. WriteOk(h, first, cnt)
      BY <1>5, <2>2 DEF WriteFails
    <3>2. PICK units \in 0..(cnt * PageUnits - 1) : WriteData(h, first, units, v)
      BY <1>5, <2>2 DEF WriteFails
    <3>3. units \in Nat /\ units <= cnt * PageUnits
      BY <1>2, <3>2
    <3>4. obj[h].size \in Nat
      BY PagedFileAssumption DEF TypeOK
    <3>5. Offset(first) + units <= obj[h].size
      BY <1>2, <1>3, <3>1, <3>3, <3>4
    <3> QED  BY <1>2, <1>3, <1>5, <3>1, <3>2, <3>3, <3>5 DEF WriteFails, WriteData
  <2> QED  BY <2>1, <2>2
<1> QED  BY <1>4, <1>5

LEMMA WriteOwned ==
  ASSUME TypeOK, NEW h \in Handle, NEW first \in Pnum, NEW cnt \in 0..MaxCount,
         NEW v \in Value, WritePages(h, first, cnt, v) \/ WriteFails(h, first, cnt, v)
  PROVE  TypeOK' /\ (Private => Private')
<1>1. UNCHANGED <<dir, fds, obj, file>> /\ \A g \in Handle : Open(g)' <=> Open(g)
  BY WriteEffect DEF Open
<1>2. data \in [Inode -> Seq(Unit)] /\ \A j \in Inode : Len(data[j]) <= MaxUnits
  BY DEF TypeOK, Unit
<1>3. data' \in [Inode -> Seq(Unit)] /\ \A j \in Inode : Len(data'[j]) <= MaxUnits
  <2>1. CASE data' = data
    BY <1>2, <2>1
  <2>2. CASE data' # data
    <3> DEFINE i == fds[obj[h].fd]
    <3>1. PICK units \in Nat :
            /\ Offset(first) \in Nat
            /\ Offset(first) + units <= obj[h].size
            /\ data' = [data EXCEPT ![i] = Written(@, Offset(first), units, v)]
      BY <2>2, WriteEffect
    <3>2. i \in Inode /\ obj[h].size \in 0..MaxUnits
      BY <2>2, WriteEffect DEF TypeOK
    <3> HIDE DEF i
    <3>3. /\ Written(data[i], Offset(first), units, v) \in Seq(Unit)
          /\ Len(Written(data[i], Offset(first), units, v)) <= MaxUnits
      <4>1. /\ data[i] \in Seq(Unit) /\ Len(data[i]) <= MaxUnits
            /\ Offset(first) \in Nat /\ units \in Nat
            /\ Offset(first) + units <= MaxUnits
        BY <1>2, <3>1, <3>2, PagedFileAssumption
      <4> QED  BY <4>1, WrittenProperties
    <3> QED  BY <1>2, <3>1, <3>2, <3>3
  <2> QED  BY <2>1, <2>2
<1>4. TypeOK'
  BY <1>1, <1>3 DEF TypeOK, Unit
<1>5. Private => Private'
  BY <1>1 DEF Private, DescriptorsOwned, DescriptorsApart
<1> QED  BY <1>4, <1>5

(* remove_file() and the destructor close the object's own descriptor, and *)
(* unless unlink() fails the object is no longer open; the others keep     *)
(* theirs.                                                                 *)
LEMMA CloseOwned ==
  ASSUME TypeOK, NEW h \in Handle, RemoveFile(h) \/ Destroy(h)
  PROVE  TypeOK' /\ (Private /\ Succeeds => Private')
<1>1. /\ data' = data
      /\ \A g \in Handle : g # h => obj'[g] = obj[g] /\ file'[g] = file[g]
      /\ \A g \in Handle : g # h => (Open(g)' <=> Open(g))
  BY DEF RemoveFile, Unlinked, UnlinkFails, Destroy, Open, Dead, TypeOK
<1>2. fds' = fds \/ (Open(h) /\ fds' = [fds EXCEPT ![obj[h].fd] = None])
  BY DEF RemoveFile, Destroy, ClosedBy, Closing, Open
<1>3. DescriptorsApart =>
        \A g \in Handle : g # h /\ Open(g) => fds'[obj[g].fd] = fds[obj[g].fd]
  BY <1>2 DEF TypeOK, DescriptorsApart
<1>4. fds' \in [Fd -> Inode \cup {None}] /\ dir' \in [Name -> Inode \cup {None}]
  BY <1>2 DEF TypeOK, RemoveFile, Unlinked, UnlinkFails, Destroy
<1>5. /\ obj' \in [Handle -> [live : BOOLEAN, file_open : BOOLEAN, fd : Fd \cup {0},
                              size : 0..MaxUnits, fname : Name \cup {None}]]
      /\ file' \in [Handle -> Inode \cup {None}]
      /\ obj'[h] = obj[h] \/ ~Open(h)'
  <2>1. CASE RemoveFile(h) /\ Unlinked(h)
    <3>1. obj' = [obj EXCEPT ![h].file_open = FALSE] /\ file' = file
      BY <2>1 DEF RemoveFile, Unlinked
    <3>2. obj'[h].file_open = FALSE
      BY <3>1 DEF TypeOK
    <3>3. /\ obj' \in [Handle -> [live : BOOLEAN, file_open : BOOLEAN, fd : Fd \cup {0},
                                  size : 0..MaxUnits, fname : Name \cup {None}]]
          /\ file' \in [Handle -> Inode \cup {None}]
      <4> DEFINE Member == [live : BOOLEAN, file_open : BOOLEAN, fd : Fd \cup {0},
                            size : 0..MaxUnits, fname : Name \cup {None}]
      <4>1. obj[h] \in Member
        BY DEF TypeOK
      <4>2. [obj[h] EXCEPT !.file_open = FALSE] \in Member
        BY <4>1
      <4>3. obj \in [Handle -> Member] /\ file \in [Handle -> Inode \cup {None}]
        BY DEF TypeOK
      <4> HIDE DEF Member
      <4>4. obj' \in [Handle -> Member]
        BY <3>1, <4>2, <4>3
      <4> QED  BY <3>1, <4>3, <4>4 DEF Member
    <3> QED  BY <3>2, <3>3 DEF Open
  <2>2. CASE RemoveFile(h) /\ UnlinkFails(h)
    <3>1. obj' = obj /\ file' = file
      BY <2>2 DEF RemoveFile, UnlinkFails
    <3> QED  BY <3>1 DEF TypeOK
  <2>3. CASE Destroy(h)
    BY <2>3, PagedFileAssumption DEF Destroy, Dead, TypeOK, Open
  <2> QED  BY <2>1, <2>2, <2>3 DEF RemoveFile
<1>6. TypeOK'
  BY <1>1, <1>4, <1>5 DEF TypeOK, Open
<1>7. Succeeds => ~Open(h)'
  BY DEF RemoveFile, Unlinked, UnlinkFails, Answer, Succeeds, Destroy, Open, Dead, TypeOK
<1>8. Private /\ Succeeds => Private'
  BY <1>1, <1>3, <1>7 DEF Private, DescriptorsOwned, DescriptorsApart
<1> QED  BY <1>6, <1>8

LEMMA RenameOwned ==
  ASSUME TypeOK, NEW h \in Handle, NEW n \in Name, RenameFile(h, n)
  PROVE  TypeOK' /\ (Private => Private')
<1>1. /\ dir' \in [Name -> Inode \cup {None}]
      /\ obj' = [obj EXCEPT ![h].fname = n] /\ UNCHANGED <<data, fds, file>>
  BY DEF RenameFile, Renamed, TypeOK
<1>2. /\ obj' \in [Handle -> [live : BOOLEAN, file_open : BOOLEAN, fd : Fd \cup {0},
                              size : 0..MaxUnits, fname : Name \cup {None}]]
      /\ \A g \in Handle : /\ obj'[g].live = obj[g].live /\ obj'[g].file_open = obj[g].file_open
                           /\ obj'[g].fd = obj[g].fd
                           /\ obj'[g].fname = IF g = h THEN n ELSE obj[g].fname
  BY <1>1 DEF TypeOK
<1>3. \A g \in Handle : Open(g)' <=> Open(g)
  BY <1>2 DEF Open
<1>4. TypeOK'
  BY <1>1, <1>2, <1>3 DEF TypeOK
<1>5. Private => Private'
  BY <1>1, <1>2, <1>3 DEF Private, DescriptorsOwned, DescriptorsApart
<1> QED  BY <1>4, <1>5

(* What a step may be, for the descriptors and the files.                  *)
LEMMA Steps ==
  ASSUME Next
  PROVE  \E h \in Handle :
           \/ \E n \in Name, new_file \in BOOLEAN :
                Create(h, n, new_file) \/ CreateLeaks(h, n, new_file)
           \/ Quiet
           \/ \E cnt \in 0..MaxCount : Allocate(h, cnt)
           \/ \E first \in Pnum, cnt \in 0..MaxCount, v \in Value :
                WritePages(h, first, cnt, v) \/ WriteFails(h, first, cnt, v)
           \/ RemoveFile(h) \/ Destroy(h)
           \/ \E n \in Name : RenameFile(h, n)
BY QuietSteps DEF Next

LEMMA OwnedStep ==
  ASSUME TypeOK, [Next]_vars
  PROVE  TypeOK' /\ (Private /\ [Succeeds]_vars => Private')
<1>1. CASE UNCHANGED vars
  BY <1>1, QuietOwned DEF vars, Quiet
<1>2. CASE Next /\ ~UNCHANGED vars
  <2>1. [Succeeds]_vars => Succeeds
    BY <1>2
  <2> QED  BY <1>2, <2>1, Steps, CreateOwned, CreateLeaksOwned, QuietOwned, AllocateOwned,
              WriteOwned, CloseOwned, RenameOwned
<1> QED  BY <1>1, <1>2

(* The members of every object, the descriptors and the files keep their   *)
(* types, and no file outgrows the disk, in any order of calls, whatever   *)
(* fails.                                                                  *)
THEOREM TypeCorrect == Spec => []TypeOK
<1>1. Init => TypeOK
  BY InitOwned DEF Owned
<1>2. TypeOK /\ [Next]_vars => TypeOK'
  BY OwnedStep
<1> QED  BY <1>1, <1>2, PTL DEF Spec

(* As long as no remove_file() has failed, every object that believes its  *)
(* file open has a descriptor that is open, on the file it was created     *)
(* for, and shared with no other object.  That includes objects that work  *)
(* on one file, unless one removes a name another has removed or renamed:  *)
(* then its remove_file() fails, and the premise with it.                  *)
THEOREM AlwaysOwned == Spec /\ RemovalsSucceed => [](DescriptorsOwned /\ DescriptorsApart)
<1>1. Owned /\ [Next]_vars /\ [Succeeds]_vars => Owned'
  BY OwnedStep DEF Owned
<1>2. Owned => DescriptorsOwned /\ DescriptorsApart
  BY DEF Owned, Private
<1> QED  BY InitOwned, <1>1, <1>2, PTL DEF Spec, RemovalsSucceed

-----------------------------------------------------------------------------
(* What holds when clients keep a file to one object at a time: the name   *)
(* and the size an open object remembers are the file's, no two open       *)
(* objects have one name, and no file has two names.                       *)
SizesExact == \A h \in Handle : Open(h) => Len(data[file[h]]) = obj[h].size
NamesApart == \A g, h \in Handle : Open(g) /\ Open(h) /\ g # h => obj[g].fname # obj[h].fname
OneName    == \A m, n \in Name : m # n /\ dir[m] # None => dir[m] # dir[n]

Kept == NamesOwn /\ SizesExact /\ NamesApart /\ OneName

LEMMA FilesApart ==
  ASSUME Owned, Kept
  PROVE  \A g, h \in Handle : Open(g) /\ Open(h) /\ g # h => file[g] # file[h]
BY DEF Owned, TypeOK, Private, DescriptorsOwned, Kept, NamesOwn, NamesApart, OneName

LEMMA InitKept == Init => Kept
<1>1. Init => \A h \in Handle : ~Open(h)
  BY DEF Init, Open, Dead
<1>2. Init => OneName
  BY DEF Init, OneName
<1> QED  BY <1>1, <1>2 DEF Kept, NamesOwn, SizesExact, NamesApart

(* The name of an open object leads to its file, so remove_file() finds it. *)
LEMMA Removes ==
  ASSUME ~UnlinkMayFail, Owned, Kept, NEW h \in Handle, RemoveFile(h)
  PROVE  Unlinked(h)
<1>1. Open(h) /\ (Unlinked(h) \/ UnlinkFails(h))
  BY DEF RemoveFile
<1>2. dir[obj[h].fname] # None
  BY <1>1 DEF Owned, Private, DescriptorsOwned, Kept, NamesOwn
<1> QED  BY <1>1, <1>2 DEF UnlinkFails

LEMMA QuietKept == Kept /\ Quiet => Kept'
  BY DEF Kept, Quiet, NamesOwn, SizesExact, NamesApart, OneName, Open

(* open(2) by a client that keeps files apart: the other open objects have *)
(* other names and other files.                                            *)
LEMMA OpenKept ==
  ASSUME Exclusive, Owned, Kept, NEW h \in Handle, NEW n \in Name, NEW new_file \in BOOLEAN,
         NEW i \in Inode, NEW fd \in Fd, OpenFile(h, n, new_file, i, fd)
  PROVE  /\ \A g \in Handle : Open(g) => /\ obj[g].fname # n /\ file[g] # i
                                         /\ dir'[obj[g].fname] = file[g]
         /\ dir'[n] = i
         /\ OneName'
<1>1. /\ \A g \in Handle : Open(g) => obj[g].fname # n
      /\ i = dir[n] \/ Unused(i)
      /\ dir' = [dir EXCEPT ![n] = i]
      /\ dir \in [Name -> Inode \cup {None}]
  BY DEF OpenFile, Avail, Held, FreeInode, Owned, TypeOK
<1>2. ASSUME NEW g \in Handle, Open(g) PROVE file[g] # i
  <2>1. dir[obj[g].fname] = file[g] /\ fds[obj[g].fd] = file[g] /\ file[g] # None
    BY <1>2 DEF Owned, Private, DescriptorsOwned, Kept, NamesOwn
  <2>2. obj[g].fname \in Name /\ obj[g].fd \in Fd /\ obj[g].fname # n
    BY <1>1, <1>2 DEF Owned, TypeOK
  <2>3. CASE i = dir[n]
    BY <2>1, <2>2, <2>3 DEF Kept, OneName
  <2>4. CASE Unused(i)
    BY <2>1, <2>2, <2>4 DEF Unused
  <2> QED  BY <1>1, <2>3, <2>4
<1>3. \A g \in Handle : Open(g) => dir'[obj[g].fname] = file[g]
  BY <1>1 DEF Owned, TypeOK, Kept, NamesOwn
<1>4. OneName'
  BY <1>1 DEF Kept, OneName, Unused
<1> QED  BY <1>1, <1>2, <1>3, <1>4

LEMMA CreateKept ==
  ASSUME Exclusive, Owned, Kept, NEW h \in Handle, NEW n \in Name, NEW new_file \in BOOLEAN,
         Create(h, n, new_file)
  PROVE  Kept'
<1>1. PICK i \in Inode, fd \in Fd :
        /\ OpenFile(h, n, new_file, i, fd)
        /\ data' = data \/ data' = [data EXCEPT ![i] = Fallocated(<<>>, PageUnits)]
        /\ obj' = [obj EXCEPT ![h] = Object(n, fd, Len(data'[i]))]
        /\ file' = [file EXCEPT ![h] = i]
  BY DEF Create
<1>2. /\ \A g \in Handle : g # h => obj'[g] = obj[g] /\ file'[g] = file[g]
      /\ obj'[h].fname = n /\ obj'[h].size = Len(data'[i]) /\ file'[h] = i
  BY <1>1 DEF Owned, TypeOK, Object
<1>3. \A g \in Handle : g # h => (Open(g)' <=> Open(g))
  BY <1>2 DEF Open
<1>4. \A g \in Handle : Open(g) => data'[file[g]] = data[file[g]]
  <2>1. \A g \in Handle : Open(g) => file[g] # i /\ file[g] \in Inode
    BY <1>1, OpenKept DEF Owned, TypeOK, Private, DescriptorsOwned
  <2>2. data \in [Inode -> Seq(Value \cup {Zero})]
    BY DEF Owned, TypeOK
  <2> QED  BY <1>1, <2>1, <2>2
<1>5. NamesOwn'
  BY <1>1, <1>2, <1>3, OpenKept DEF NamesOwn
<1>6. SizesExact'
  BY <1>2, <1>3, <1>4 DEF Kept, SizesExact
<1>7. NamesApart'
  BY <1>1, <1>2, <1>3, OpenKept DEF Kept, NamesApart
<1> QED  BY <1>1, <1>5, <1>6, <1>7, OpenKept DEF Kept

LEMMA CreateLeaksKept ==
  ASSUME Exclusive, Owned, Kept, NEW h \in Handle, NEW n \in Name, NEW new_file \in BOOLEAN,
         CreateLeaks(h, n, new_file)
  PROVE  Kept'
<1>1. PICK i \in Inode, fd \in Fd :
        /\ OpenFile(h, n, new_file, i, fd)
        /\ \/ data' = data
           \/ data' = [data EXCEPT ![i] = <<>>]
           \/ data' = [data EXCEPT ![i] = Fallocated(<<>>, PageUnits)]
  BY DEF CreateLeaks
<1>2. obj' = obj /\ file' = file /\ \A g \in Handle : Open(g)' <=> Open(g)
  BY DEF CreateLeaks, Open
<1>3. \A g \in Handle : Open(g) => data'[file[g]] = data[file[g]]
  <2>1. \A g \in Handle : Open(g) => file[g] # i /\ file[g] \in Inode
    BY <1>1, OpenKept DEF Owned, TypeOK, Private, DescriptorsOwned
  <2>2. data \in [Inode -> Seq(Value \cup {Zero})]
    BY DEF Owned, TypeOK
  <2> QED  BY <1>1, <2>1, <2>2
<1> QED  BY <1>1, <1>2, <1>3, OpenKept DEF Kept, NamesOwn, SizesExact, NamesApart

LEMMA AllocateKept ==
  ASSUME Owned, Kept, NEW h \in Handle, NEW cnt \in 0..MaxCount, Allocate(h, cnt)
  PROVE  Kept'
<1> DEFINE end == obj[h].size + cnt * PageUnits
           i == fds[obj[h].fd]
<1>1. /\ Open(h) /\ end \in Nat /\ end >= obj[h].size /\ i = file[h] /\ i \in Inode
      /\ data' = [data EXCEPT ![i] = Fallocated(@, end)]
      /\ obj' = [obj EXCEPT ![h].size = end]
      /\ UNCHANGED <<dir, fds, file>>
  <2>1. cnt * PageUnits \in Nat /\ obj[h].size \in Nat
    BY PagedFileAssumption DEF Owned, TypeOK
  <2> QED  BY <2>1 DEF Allocate, Owned, TypeOK, Private, DescriptorsOwned
<1> HIDE DEF end, i
<1>2. \A g \in Handle : /\ obj'[g].live = obj[g].live /\ obj'[g].file_open = obj[g].file_open
                        /\ obj'[g].fname = obj[g].fname
                        /\ obj'[g].size = IF g = h THEN end ELSE obj[g].size
  BY <1>1 DEF Owned, TypeOK
<1>3. \A g \in Handle : Open(g)' <=> Open(g)
  BY <1>2 DEF Open
<1>4. Len(data'[i]) = end
  <2>1. data[i] \in Seq(Unit) /\ Len(data[i]) = obj[h].size /\ data'[i] = Fallocated(data[i], end)
    BY <1>1 DEF Owned, TypeOK, Unit, Kept, SizesExact
  <2>2. Len(data'[i]) = IF Len(data[i]) < end THEN end ELSE Len(data[i])
    BY <1>1, <2>1, FallocatedProperties
  <2>3. obj[h].size \in Nat
    BY <2>1, LenProperties
  <2> QED  BY <1>1, <2>1, <2>2, <2>3
<1>5. \A g \in Handle : Open(g) /\ g # h => data'[file[g]] = data[file[g]]
  BY <1>1, FilesApart DEF Owned, TypeOK
<1>6. SizesExact'
  BY <1>1, <1>2, <1>3, <1>4, <1>5 DEF Kept, SizesExact
<1> QED  BY <1>1, <1>2, <1>3, <1>6 DEF Kept, NamesOwn, NamesApart, OneName

LEMMA WriteKept ==
  ASSUME Owned, Kept, NEW h \in Handle, NEW first \in Pnum, NEW cnt \in 0..MaxCount,
         NEW v \in Value, WritePages(h, first, cnt, v) \/ WriteFails(h, first, cnt, v)
  PROVE  Kept'
<1>1. UNCHANGED <<dir, fds, obj, file>> /\ \A g \in Handle : Open(g)' <=> Open(g)
  BY WriteEffect DEF Open, Owned
<1>2. \A g \in Handle : Open(g) => Len(data'[file[g]]) = Len(data[file[g]])
  <2>1. CASE data' = data
    BY <2>1
  <2>2. CASE data' # data
    <3> DEFINE i == fds[obj[h].fd]
    <3>1. PICK units \in Nat :
            /\ Offset(first) \in Nat
            /\ Offset(first) + units <= obj[h].size
            /\ data' = [data EXCEPT ![i] = Written(@, Offset(first), units, v)]
      BY <2>2, WriteEffect DEF Owned
    <3>2. i = file[h] /\ i \in Inode /\ Open(h)
      BY <2>2, WriteEffect DEF Owned, Private, DescriptorsOwned
    <3> HIDE DEF i
    <3>3. data[i] \in Seq(Unit) /\ Len(data[i]) = obj[h].size
      BY <3>2 DEF Owned, TypeOK, Unit, Kept, SizesExact
    <3>4. Len(Written(data[i], Offset(first), units, v)) = Len(data[i])
      BY <3>1, <3>3, WrittenProperties
    <3> QED  BY <3>1, <3>2, <3>4 DEF Owned, TypeOK
  <2> QED  BY <2>1, <2>2
<1> QED  BY <1>1, <1>2 DEF Kept, NamesOwn, SizesExact, NamesApart, OneName

LEMMA CloseKept ==
  ASSUME ~UnlinkMayFail, Owned, Kept, NEW h \in Handle, RemoveFile(h) \/ Destroy(h)
  PROVE  Kept'
<1> USE Removes
<1>1. /\ ~Open(h)' /\ data' = data
      /\ \A g \in Handle : g # h => obj'[g] = obj[g] /\ file'[g] = file[g]
      /\ \A g \in Handle : g # h => (Open(g)' <=> Open(g))
  BY DEF RemoveFile, Unlinked, Destroy, Open, Dead, Owned, TypeOK
<1>2. dir' = dir \/ (Open(h) /\ dir' = [dir EXCEPT ![obj[h].fname] = None])
  BY DEF RemoveFile, Unlinked, Destroy
<1>3. \A g \in Handle : g # h /\ Open(g) => dir'[obj[g].fname] = dir[obj[g].fname]
  BY <1>2 DEF Owned, TypeOK, Kept, NamesApart
<1>4. OneName'
  BY <1>2 DEF Owned, TypeOK, Kept, OneName
<1> QED  BY <1>1, <1>3, <1>4 DEF Kept, NamesOwn, SizesExact, NamesApart

LEMMA RenameKept ==
  ASSUME Exclusive, Owned, Kept, NEW h \in Handle, NEW n \in Name, RenameFile(h, n)
  PROVE  Kept'
<1> DEFINE old == obj[h].fname
<1>1. /\ Open(h) /\ n # old /\ old \in Name
      /\ \A g \in Handle : Open(g) => obj[g].fname # n
      /\ dir' = [dir EXCEPT ![n] = dir[old], ![old] = None]
      /\ obj' = [obj EXCEPT ![h].fname = n] /\ UNCHANGED <<data, fds, file>>
  BY DEF RenameFile, Renamed, Avail, Held, Owned, TypeOK
<1>2. \A g \in Handle : /\ obj'[g].live = obj[g].live /\ obj'[g].file_open = obj[g].file_open
                        /\ obj'[g].size = obj[g].size
                        /\ obj'[g].fname = IF g = h THEN n ELSE obj[g].fname
  BY <1>1 DEF Owned, TypeOK
<1>3. \A g \in Handle : Open(g)' <=> Open(g)
  BY <1>2 DEF Open
<1>4. dir'[n] = dir[old] /\ \A m \in Name : m # n /\ m # old => dir'[m] = dir[m]
  BY <1>1 DEF Owned, TypeOK
<1>5. NamesOwn'
  BY <1>1, <1>2, <1>3, <1>4 DEF Owned, TypeOK, Kept, NamesOwn, NamesApart
<1>6. NamesApart'
  BY <1>1, <1>2, <1>3 DEF Kept, NamesApart
<1>7. OneName'
  BY <1>1, <1>4 DEF Owned, TypeOK, Kept, OneName
<1>8. SizesExact'
  BY <1>1, <1>2, <1>3 DEF Kept, SizesExact
<1> QED  BY <1>5, <1>6, <1>7, <1>8 DEF Kept

(* The pages below a size divided by the page size end within the size.    *)
LEMMA WholePages ==
  ASSUME NEW size \in Nat, NEW p \in Nat, p < size \div PageUnits
  PROVE  (p + 1) * PageUnits <= size
<1> DEFINE q == size \div PageUnits
<1>1. PageUnits \in Nat /\ PageUnits > 0
  BY PagedFileAssumption
<1>2. q \in Nat /\ q * PageUnits <= size
  BY <1>1
<1> HIDE DEF q
<1>3. (p + 1) * PageUnits <= q * PageUnits
  <2>1. PICK d \in Nat : q = p + 1 + d
    <3>1. q - (p + 1) \in Nat /\ q = p + 1 + (q - (p + 1))
      BY <1>2 DEF q
    <3> QED  BY <3>1
  <2>2. q * PageUnits = (p + 1) * PageUnits + d * PageUnits /\ d * PageUnits \in Nat
    BY <1>1, <2>1
  <2> QED  BY <1>1, <2>2
<1>4. (p + 1) * PageUnits \in Int /\ q * PageUnits \in Int
  BY <1>1, <1>2
<1> QED  BY <1>2, <1>3, <1>4

LEMMA KeptBacked == Owned /\ Kept => PagesBacked
<1> SUFFICES ASSUME Owned, Kept, NEW h \in Handle, Open(h), NEW p \in Pnum, CheckPnum(obj[h], p)
             PROVE  p # 0 /\ (p + 1) * PageUnits <= Len(data[file[h]])
  BY DEF PagesBacked
<1>1. p \in Nat /\ p # 0 /\ p < obj[h].size \div PageUnits
  BY DEF CheckPnum, None, Pnum
<1>2. obj[h].size \in Nat /\ Len(data[file[h]]) = obj[h].size
  BY PagedFileAssumption DEF Owned, TypeOK, Kept, SizesExact
<1> QED  BY <1>1, <1>2, WholePages

LEMMA KeptStep ==
  ASSUME Exclusive, ~UnlinkMayFail, Owned, Kept, [Next]_vars
  PROVE  Owned' /\ Kept'
<1>1. CASE UNCHANGED vars
  BY <1>1, QuietOwned, QuietKept DEF vars, Quiet, Owned
<1>2. CASE Next
  <2>1. Kept'
    BY <1>2, Steps, CreateKept, CreateLeaksKept, QuietKept, AllocateKept,
       WriteKept, CloseKept, RenameKept
  <2>2. ret'.op = "remove" => ret'.val = 1
    <3> SUFFICES ASSUME ret'.op = "remove" PROVE ret'.val = 1
      OBVIOUS
    <3>1. PICK h \in Handle : RemoveFile(h)
      BY <1>2, Answers DEF Next
    <3> QED  BY <3>1, Removes DEF Unlinked, Answer
  <2> QED  BY <1>2, <2>1, <2>2, OwnedStep DEF Owned, Succeeds
<1> QED  BY <1>1, <1>2

LEMMA StaysKept == ASSUME Exclusive, ~UnlinkMayFail PROVE Spec => [](Owned /\ Kept)
<1>1. Owned /\ Kept /\ [Next]_vars => (Owned /\ Kept)'
  BY KeptStep
<1> QED  BY InitOwned, InitKept, <1>1, PTL DEF Spec

(* Clients that keep a file to one object at a time need no such premise:  *)
(* the name is there when remove_file() looks for it, and if unlink() of a *)
(* name there is never fails, the descriptors stay with their objects.     *)
THEOREM ExclusiveOwned ==
  ASSUME Exclusive, ~UnlinkMayFail
  PROVE  Spec => [](DescriptorsOwned /\ DescriptorsApart)
<1>1. Owned => DescriptorsOwned /\ DescriptorsApart
  BY DEF Owned, Private
<1> QED  BY StaysKept, <1>1, PTL

(* With one object per file at a time, and no unlink() that fails, the     *)
(* name of an open object leads to its own file, and all pages it hands    *)
(* out lie within the file.                                                *)
THEOREM AlwaysKept ==
  ASSUME Exclusive, ~UnlinkMayFail
  PROVE  Spec => [](NamesOwn /\ PagesBacked)
<1>1. Kept => NamesOwn
  BY DEF Kept
<1> QED  BY StaysKept, KeptBacked, <1>1, PTL

(* The half of it that is about names alone: get_fname() is the name that  *)
(* leads to the file the object reads and writes, through every rename.    *)
THEOREM NamesStay == ASSUME Exclusive, ~UnlinkMayFail PROVE Spec => []NamesOwn
BY AlwaysKept, PTL
-----------------------------------------------------------------------------
(* What a step may do to the files.                                        *)

(* What write_page() leaves in the file, whether or not it gets to the end. *)
LEMMA WritesPrefix ==
  ASSUME NEW h \in Handle, NEW first \in Pnum, NEW cnt \in 0..MaxCount,
         NEW v \in Value, WritePages(h, first, cnt, v) \/ WriteFails(h, first, cnt, v)
  PROVE  /\ ret' = Transfer("write_pages", h, first, cnt, ret'.val, v)
         /\ file' = file
         /\ \/ data' = data /\ ret'.val = 0
            \/ /\ WriteOk(h, first, cnt)
               /\ \E units \in 0..(cnt * PageUnits) :
                    /\ WriteData(h, first, units, v)
                    /\ ret'.val = 1 => units = cnt * PageUnits
<1>1. first \in Nat /\ cnt \in Nat /\ PageUnits \in Nat /\ cnt * PageUnits \in Nat
  BY PagedFileAssumption DEF Pnum
<1>2. CASE WritePages(h, first, cnt, v)
  <2>1. cnt * PageUnits \in 0..(cnt * PageUnits)
    BY <1>1
  <2> QED  BY <1>2, <2>1 DEF WritePages, Transfer
<1>3. CASE WriteFails(h, first, cnt, v)
  <2>1. ret'.val = 0 /\ ret' = Transfer("write_pages", h, first, cnt, ret'.val, v) /\ file' = file
    BY <1>3 DEF WriteFails, Transfer
  <2>2. ASSUME NEW units \in 0..(cnt * PageUnits - 1)
        PROVE  units \in 0..(cnt * PageUnits)
    BY <1>1
  <2> QED  BY <1>3, <2>1, <2>2 DEF WriteFails
<1> QED  BY <1>2, <1>3

LEMMA WritesStayStep ==
  ASSUME Owned, NEW h \in Handle, NEW first \in Pnum, NEW cnt \in 0..MaxCount,
         NEW v \in Value, WritePages(h, first, cnt, v) \/ WriteFails(h, first, cnt, v)
  PROVE  LET mine == (ret'.first * PageUnits + 1)..((ret'.first + ret'.cnt) * PageUnits)
         IN  /\ \A i \in Inode : \A u \in DOMAIN data[i] :
                  data'[i][u] # data[i][u] =>
                    i = file[ret'.h] /\ ret'.first > 0 /\ u \in mine
             /\ ret'.val = 1 => \A u \in mine : data'[file[ret'.h]][u] = ret'.buffer
<1> DEFINE mine == (first * PageUnits + 1)..((first + cnt) * PageUnits)
           i == file[h]
<1>1. ret'.h = h /\ ret'.first = first /\ ret'.cnt = cnt /\ ret'.buffer = v
  BY WritesPrefix DEF Transfer
<1>2. first \in Nat /\ cnt \in Nat /\ PageUnits \in Nat
  BY PagedFileAssumption DEF Pnum
<1>3. /\ first * PageUnits \in Nat /\ cnt * PageUnits \in Nat
      /\ (first + cnt) * PageUnits = first * PageUnits + cnt * PageUnits
  BY <1>2
<1>4. CASE data' = data /\ ret'.val = 0
  BY <1>4
<1>5. ASSUME WriteOk(h, first, cnt), NEW units \in 0..(cnt * PageUnits),
             WriteData(h, first, units, v), ret'.val = 1 => units = cnt * PageUnits
      PROVE  /\ \A j \in Inode : \A u \in DOMAIN data[j] :
                  data'[j][u] # data[j][u] => j = i /\ first > 0 /\ u \in mine
             /\ ret'.val = 1 => \A u \in mine : data'[i][u] = v
  <2>1. first > 0 /\ Open(h)
    BY <1>2, <1>5 DEF WriteOk, CheckRange, CheckPnum, None, VerifyIo, Open
  <2>2. fds[obj[h].fd] = i /\ i \in Inode
    BY <2>1 DEF Owned, TypeOK, Private, DescriptorsOwned
  <2> HIDE DEF i
  <2>3. data' = [data EXCEPT ![i] = Written(data[i], first * PageUnits, units, v)]
    BY <1>5, <2>2 DEF WriteData, Offset
  <2>4. data[i] \in Seq(Unit) /\ data \in [Inode -> Seq(Unit)]
    BY <2>2 DEF Owned, TypeOK, Unit
  <2>5. units \in Nat /\ units <= cnt * PageUnits
    BY <1>3, <1>5
  <2> DEFINE at == first * PageUnits
             all == cnt * PageUnits
             w == Written(data[i], at, units, v)
  <2>6. at \in Nat /\ all \in Nat /\ mine = (at + 1)..(at + all) /\ units <= all
    BY <1>3, <2>5
  <2> HIDE DEF at, all, mine
  <2>7. \A u \in DOMAIN data[i] : w[u] # data[i][u] => u \in mine
    BY <2>4, <2>5, <2>6 DEF Written, AtLeast
  <2>8. ASSUME units = all, NEW u \in mine PROVE w[u] = v
    BY <2>4, <2>5, <2>6, <2>8 DEF Written, AtLeast
  <2> HIDE DEF w
  <2>9. data'[i] = w /\ \A j \in Inode : j # i => data'[j] = data[j]
    BY <2>2, <2>3, <2>4 DEF w, at
  <2> QED  BY <1>5, <2>1, <2>7, <2>8, <2>9 DEF all
<1> HIDE DEF mine, i
<1>6. /\ \A j \in Inode : \A u \in DOMAIN data[j] :
             data'[j][u] # data[j][u] => j = i /\ first > 0 /\ u \in mine
      /\ ret'.val = 1 => \A u \in mine : data'[i][u] = v
  BY <1>4, <1>5, WritesPrefix
<1> QED  BY <1>1, <1>6 DEF mine, i

(* As long as no remove_file() has failed, a write changes no unit but     *)
(* those of the pages named, in no file but that of its object; also when  *)
(* several objects work on one file.                                       *)
THEOREM WritesStayAlways == Spec /\ RemovalsSucceed => WritesStay
<1> DEFINE A == ret'.op = "write_pages" =>
       LET mine == (ret'.first * PageUnits + 1)..((ret'.first + ret'.cnt) * PageUnits)
       IN  /\ \A i \in Inode : \A u \in DOMAIN data[i] :
                data'[i][u] # data[i][u] =>
                  i = file[ret'.h] /\ ret'.first > 0 /\ u \in mine
           /\ ret'.val = 1 => \A u \in mine : data'[file[ret'.h]][u] = ret'.buffer
<1>1. Owned /\ [Next]_vars => [A]_vars
  <2> SUFFICES ASSUME Owned, Next, ret'.op = "write_pages" PROVE A
    OBVIOUS
  <2>1. PICK h \in Handle :
          \E first \in Pnum, cnt \in 0..MaxCount, v \in Value :
            WritePages(h, first, cnt, v) \/ WriteFails(h, first, cnt, v)
    BY Answers DEF Next
  <2> QED  BY <2>1, WritesStayStep
<1>2. Owned /\ [Next]_vars /\ [Succeeds]_vars => Owned'
  BY OwnedStep DEF Owned
<1> QED  BY InitOwned, <1>1, <1>2, PTL DEF Spec, RemovalsSucceed, WritesStay

LEMMA Quotients ==
  ASSUME NEW n \in Nat \ {0}, NEW a \in Int, NEW b \in Int, a * n < (b + 1) * n
  PROVE  a <= b
<1> SUFFICES ASSUME a > b PROVE FALSE
  OBVIOUS
<1>1. PICK d \in Nat : a = b + 1 + d
  <2>1. a - (b + 1) \in Nat /\ a = b + 1 + (a - (b + 1))
    OBVIOUS
  <2> QED  BY <2>1
<1>2. a * n = (b + 1) * n + d * n /\ d * n \in Nat
  BY <1>1
<1>3. (b + 1) * n \in Int
  OBVIOUS
<1> QED  BY <1>2, <1>3

LEMMA QuotientBounds ==
  ASSUME NEW n \in Nat \ {0}, NEW a \in Nat
  PROVE  /\ a \div n \in Nat /\ (a \div n) * n <= a /\ a < (a \div n + 1) * n
OBVIOUS

LEMMA QuotientIs ==
  ASSUME NEW n \in Nat \ {0}, NEW a \in Nat, NEW q \in Nat, q * n <= a, a < (q + 1) * n
  PROVE  a \div n = q
<1> DEFINE r == a \div n
<1>1. r \in Nat /\ r * n <= a /\ a < (r + 1) * n
  BY QuotientBounds
<1> HIDE DEF r
<1>2. r * n \in Int /\ q * n \in Int /\ (r + 1) * n \in Int /\ (q + 1) * n \in Int
  BY <1>1
<1>3. r * n < (q + 1) * n /\ q * n < (r + 1) * n
  BY <1>1, <1>2
<1>4. r <= q /\ q <= r
  BY <1>1, <1>3, Quotients
<1> QED  BY <1>1, <1>4 DEF r

LEMMA Remainders ==
  ASSUME NEW n \in Nat \ {0}
  PROVE  /\ \A a \in 0..(n - 1) : a % n = a
         /\ (0 - 1) % n = n - 1
         /\ n % n = 0
OBVIOUS

(* Where the pages end that a file of a given size has room for.           *)
LEMMA PagesFit ==
  ASSUME NEW size \in 0..MaxUnits
  PROVE  LET q == size \div PageUnits
         IN  /\ q \in 0..(PnumRange - 1)
             /\ q * PageUnits <= size /\ size < (q + 1) * PageUnits
             /\ \A cnt \in Nat : (size + cnt * PageUnits) \div PageUnits = q + cnt
<1> DEFINE q == size \div PageUnits
<1>1. /\ PageUnits \in Nat \ {0} /\ PnumRange \in Nat \ {0} /\ size \in Nat
      /\ MaxUnits \in Nat /\ size <= MaxUnits /\ MaxUnits < PnumRange * PageUnits
  BY PagedFileAssumption
<1>2. q \in Nat /\ q * PageUnits <= size /\ size < (q + 1) * PageUnits
  BY <1>1, QuotientBounds
<1> HIDE DEF q
<1>3. q <= PnumRange - 1
  <2>1. q * PageUnits \in Int /\ PnumRange * PageUnits \in Int
    BY <1>1, <1>2
  <2>2. q * PageUnits < PnumRange * PageUnits
    BY <1>1, <1>2, <2>1
  <2>3. PnumRange - 1 \in Int /\ PnumRange - 1 + 1 = PnumRange
    BY <1>1
  <2> QED  BY <1>1, <1>2, <2>2, <2>3, Quotients
<1>4. ASSUME NEW cnt \in Nat
      PROVE  (size + cnt * PageUnits) \div PageUnits = q + cnt
  <2>1. /\ cnt * PageUnits \in Nat /\ q * PageUnits \in Nat /\ (q + 1) * PageUnits \in Nat
        /\ (q + cnt) * PageUnits = q * PageUnits + cnt * PageUnits
        /\ (q + cnt + 1) * PageUnits = (q + 1) * PageUnits + cnt * PageUnits
    BY <1>1, <1>2
  <2> DEFINE a == size + cnt * PageUnits
  <2>2. a \in Nat /\ (q + cnt) * PageUnits <= a /\ a < (q + cnt + 1) * PageUnits
    BY <1>1, <1>2, <2>1
  <2> HIDE DEF a
  <2>3. a \div PageUnits = q + cnt
    BY <1>1, <1>2, <2>2, QuotientIs
  <2> QED  BY <2>3 DEF a
<1>5. q \in 0..(PnumRange - 1)
  BY <1>1, <1>2, <1>3
<1> QED  BY <1>2, <1>4, <1>5 DEF q

LEMMA PageCountIs ==
  ASSUME NEW o, o.size \in 0..MaxUnits, o.size \div PageUnits # 0
  PROVE  PageCount(o) = o.size \div PageUnits - 1
<1> DEFINE q == o.size \div PageUnits
<1>1. q \in 0..(PnumRange - 1) /\ PnumRange \in Nat \ {0}
  BY PagesFit, PagedFileAssumption
<1> HIDE DEF q
<1>2. q # 0
  BY DEF q
<1>3. q - 1 \in 0..(PnumRange - 1)
  BY <1>1, <1>2
<1>4. (q - 1) % PnumRange = q - 1
  BY <1>1, <1>3, Remainders
<1> QED  BY <1>4 DEF PageCount, q

(* allocate_pages() returns the number of the first page that was not in   *)
(* the file; a file of less than a page makes that number INVALID_PNUM.    *)
LEMMA AllocatedIs ==
  ASSUME NEW o, o.size \in 0..MaxUnits
  PROVE  AllocatedFrom(o) = o.size \div PageUnits
<1> DEFINE q == o.size \div PageUnits
<1>1. q \in 0..(PnumRange - 1) /\ PnumRange \in Nat \ {0}
  BY PagesFit, PagedFileAssumption
<1> HIDE DEF q
<1>2. (((q - 1) % PnumRange) + 1) % PnumRange = q
  <2>1. CASE q = 0
    <3>1. (0 - 1) % PnumRange = PnumRange - 1 /\ PnumRange % PnumRange = 0
      BY <1>1, Remainders
    <3>2. (PnumRange - 1) + 1 = PnumRange
      BY <1>1
    <3> QED  BY <2>1, <3>1, <3>2
  <2>2. CASE q # 0
    <3>1. q - 1 \in 0..(PnumRange - 1) /\ (q - 1) + 1 = q
      BY <1>1, <2>2
    <3> QED  BY <1>1, <3>1, Remainders
  <2> QED  BY <2>1, <2>2
<1> QED  BY <1>2 DEF AllocatedFrom, PageCount, q

LEMMA FreshPagesStep ==
  ASSUME Owned, Kept, NEW h \in Handle, NEW cnt \in 0..MaxCount, Allocate(h, cnt), ret'.val # None
  PROVE  LET before == data[file[ret'.h]]
             after  == data'[file[ret'.h]]
             last   == ret'.val + ret'.cnt - 1
         IN  /\ (ret'.val + 1) * PageUnits > Len(before)
             /\ (last + 1) * PageUnits <= Len(after)
             /\ \A p \in ret'.val..last : CheckPnum(obj'[ret'.h], p)
             /\ \A u \in DOMAIN before : after[u] = before[u]
<1> DEFINE size == obj[h].size
           q == size \div PageUnits
           end == size + cnt * PageUnits
           i == file[h]
<1>1. /\ Open(h) /\ size \in 0..MaxUnits /\ i \in Inode /\ fds[obj[h].fd] = i
      /\ size \in Nat /\ Len(data[i]) = size /\ data[i] \in Seq(Unit)
  BY PagedFileAssumption DEF Allocate, Owned, TypeOK, Private, DescriptorsOwned, Kept, SizesExact, Unit
<1>2. ret'.h = h /\ ret'.cnt = cnt /\ ret'.val = q /\ cnt \in Nat /\ cnt > 0
  BY <1>1, AllocatedIs, PagedFileAssumption DEF Allocate, Answer
<1>3. /\ q \in Nat /\ q > 0 /\ q * PageUnits <= size /\ size < (q + 1) * PageUnits
      /\ end \div PageUnits = q + cnt
  <2>1. /\ q \in 0..(PnumRange - 1) /\ q * PageUnits <= size /\ size < (q + 1) * PageUnits
        /\ \A c \in Nat : (size + c * PageUnits) \div PageUnits = q + c
    BY <1>1, PagesFit
  <2>2. q # 0
    BY <1>2 DEF None
  <2>3. end \div PageUnits = q + cnt
    BY <1>2, <2>1
  <2> HIDE DEF q
  <2>4. q \in Nat /\ q > 0
    BY <2>1, <2>2, PagedFileAssumption
  <2> QED  BY <2>1, <2>3, <2>4
<1>4. /\ cnt * PageUnits \in Nat /\ q * PageUnits \in Nat /\ (q + 1) * PageUnits \in Nat
      /\ (q + cnt) * PageUnits = q * PageUnits + cnt * PageUnits
  BY <1>2, <1>3, PagedFileAssumption
<1>5. end \in Nat /\ end >= size /\ (q + cnt) * PageUnits <= end
  BY <1>1, <1>3, <1>4
<1>6. /\ data'[i] = Fallocated(data[i], end) /\ obj'[h].size = end
  BY <1>1 DEF Allocate, Owned, TypeOK
<1>7. Len(data'[i]) = end
  BY <1>1, <1>5, <1>6, FallocatedProperties
<1>8. \A u \in DOMAIN data[i] : data'[i][u] = data[i][u]
  BY <1>1, <1>5, <1>6 DEF Fallocated, AtLeast
<1>9. \A p \in q..(q + cnt - 1) : CheckPnum(obj'[h], p)
  BY <1>2, <1>3, <1>6 DEF CheckPnum, None
<1> HIDE DEF size, q, end, i
<1>10. q + cnt - 1 + 1 = q + cnt
  BY <1>2, <1>3
<1> QED  BY <1>1, <1>2, <1>3, <1>5, <1>7, <1>8, <1>9, <1>10 DEF i

(* The pages allocate_pages() returns were not in the file and are now,     *)
(* and what was in the file is left as it is.                              *)
THEOREM FreshPagesAlways == ASSUME Exclusive, ~UnlinkMayFail PROVE Spec => FreshPages
<1> DEFINE A == ret'.op = "allocate" /\ ret'.val # None =>
       LET before == data[file[ret'.h]]
           after  == data'[file[ret'.h]]
           last   == ret'.val + ret'.cnt - 1
       IN  /\ (ret'.val + 1) * PageUnits > Len(before)
           /\ (last + 1) * PageUnits <= Len(after)
           /\ \A p \in ret'.val..last : CheckPnum(obj'[ret'.h], p)
           /\ \A u \in DOMAIN before : after[u] = before[u]
<1>1. Owned /\ Kept /\ [Next]_vars => [A]_vars
  <2> SUFFICES ASSUME Owned, Kept, Next, ret'.op = "allocate", ret'.val # None PROVE A
    OBVIOUS
  <2>1. PICK h \in Handle : \E cnt \in 0..MaxCount : Allocate(h, cnt) \/ AllocateFails(h, cnt)
    BY Answers DEF Next
  <2>2. \A cnt \in 0..MaxCount : ~AllocateFails(h, cnt)
    BY DEF AllocateFails, Answer
  <2> QED  BY <2>1, <2>2, FreshPagesStep
<1> QED  BY <1>1, StaysKept, PTL DEF Spec, FreshPages

-----------------------------------------------------------------------------
(* A page a scan has handed out.                                           *)
Page == [pnum : Int, page : Seq(Unit)]

Scan == [state : {"running", "ended"}, h : Handle, start : Nat, end : Nat,
         held : Int, current_pnum : Int, stop_pnum : Nat,
         got : Seq(Page), failed : BOOLEAN]

ScanType ==
  scan # NoScan =>
    /\ scan \in Scan
    /\ Running => obj[scan.h].live

(* Where the iterator stands: each page it has passed has been handed out, *)
(* unless a read failed, and it goes no further than the stop.             *)
ScanPlace ==
  scan # NoScan =>
    /\ \A i \in DOMAIN scan.got : scan.got[i].pnum = scan.start + i - 1
    /\ Running => ~scan.failed
    /\ ~scan.failed => scan.current_pnum = scan.start + Len(scan.got) - 1
    /\ scan.start <= scan.current_pnum + 1
    /\ scan.current_pnum < scan.start \/ scan.current_pnum <= scan.stop_pnum
    /\ ~Running /\ ~scan.failed => scan.stop_pnum <= scan.current_pnum

(* What the stop has to do with the end page.  Started on an object whose  *)
(* file has been removed, a scan without end page fails at its first read. *)
Hopeless == /\ scan.start <= scan.stop_pnum
            /\ \/ scan.failed
               \/ Running /\ ~Open(scan.h) /\ scan.current_pnum < scan.start
ScanStop ==
  scan # NoScan =>
    /\ scan.end # None => scan.stop_pnum = scan.end
    /\ scan.end = None => scan.stop_pnum = scan.held \/ Hopeless

ScanInv == ScanType /\ ScanPlace /\ ScanStop

(* An object has a file from its creation until it is destroyed; one whose *)
(* file was removed is not opened again.                                   *)
Filed == \A h \in Handle : obj[h].live => file[h] \in Inode

LEMMA FileStays ==
  ASSUME Owned, Filed, [Next]_vars
  PROVE  /\ \A h \in Handle : obj[h].live /\ Open(h)' => Open(h)
         /\ Filed'
<1> SUFFICES ASSUME NEW h \in Handle
             PROVE  /\ obj[h].live /\ Open(h)' => Open(h)
                    /\ obj'[h].live => file'[h] \in Inode
  BY DEF Filed
<1>1. CASE UNCHANGED vars
  BY <1>1 DEF vars, Open, Filed
<1>2. CASE Next
  <2>1. PICK g \in Handle :
          \/ \E n \in Name, new_file \in BOOLEAN :
               Create(g, n, new_file) \/ CreateLeaks(g, n, new_file)
          \/ Quiet
          \/ \E cnt \in 0..MaxCount : Allocate(g, cnt)
          \/ \E first \in Pnum, cnt \in 0..MaxCount, v \in Value :
               WritePages(g, first, cnt, v) \/ WriteFails(g, first, cnt, v)
          \/ RemoveFile(g) \/ Destroy(g)
          \/ \E n \in Name : RenameFile(g, n)
    BY <1>2, Steps
  <2>2. ASSUME NEW n \in Name, NEW new_file \in BOOLEAN, Create(g, n, new_file)
        PROVE  IF h = g THEN ~obj[h].live /\ file'[h] \in Inode
               ELSE obj'[h] = obj[h] /\ file'[h] = file[h]
    BY <2>2 DEF Create, OpenFile, Owned, TypeOK
  <2>3. ASSUME NEW n \in Name, NEW new_file \in BOOLEAN, CreateLeaks(g, n, new_file)
        PROVE  obj'[h] = obj[h] /\ file' = file
    BY <2>3 DEF CreateLeaks
  <2>4. ASSUME NEW cnt \in 0..MaxCount, Allocate(g, cnt)
        PROVE  /\ obj'[h].file_open = obj[h].file_open
               /\ obj'[h].live = obj[h].live /\ file' = file
    BY <2>4 DEF Allocate, Owned, TypeOK
  <2>5. ASSUME NEW first \in Pnum, NEW cnt \in 0..MaxCount, NEW v \in Value,
               WritePages(g, first, cnt, v) \/ WriteFails(g, first, cnt, v)
        PROVE  obj'[h] = obj[h] /\ file' = file
    BY <2>5 DEF WritePages, WriteFails
  <2>6. ASSUME RemoveFile(g) \/ Destroy(g)
        PROVE  /\ obj'[h].file_open => obj[h].file_open
               /\ obj'[h].live => obj[h].live /\ file'[h] = file[h]
    <3>1. CASE RemoveFile(g)
      <4>1. obj' = obj \/ obj' = [obj EXCEPT ![g].file_open = FALSE]
        BY <3>1 DEF RemoveFile, Unlinked, UnlinkFails
      <4>2. file' = file
        BY <3>1 DEF RemoveFile
      <4> QED  BY <4>1, <4>2 DEF Owned, TypeOK
    <3>2. CASE Destroy(g)
      <4>1. obj'[h] = IF h = g THEN Dead ELSE obj[h]
        BY <3>2 DEF Destroy, Owned, TypeOK
      <4>2. h # g => file'[h] = file[h]
        BY <3>2 DEF Destroy, Owned, TypeOK
      <4> QED  BY <4>1, <4>2 DEF Dead
    <3> QED  BY <2>6, <3>1, <3>2
  <2>7. ASSUME NEW n \in Name, RenameFile(g, n)
        PROVE  /\ obj'[h].file_open = obj[h].file_open
               /\ obj'[h].live = obj[h].live /\ file' = file
    BY <2>7 DEF RenameFile, Renamed, Owned, TypeOK
  <2> QED  BY <2>1, <2>2, <2>3, <2>4, <2>5, <2>6, <2>7 DEF Open, Quiet, Filed
<1> QED  BY <1>1, <1>2

(* What a step of the scan does to the file is a step of the file.         *)
LEMMA ScanSteps ==
  ASSUME ScanNext
  PROVE  [Next]_vars \/ Quiet
<1>1. \A h \in Handle, start, end \in Pnum : StartScan(h, start, end) => UNCHANGED vars
  BY DEF StartScan
<1>2. NextPage \/ NextFails => Quiet
  BY DEF NextPage, NextFails, ReadPages, ReadFails, Quiet
<1>3. NextEnds \/ DropScan => UNCHANGED vars
  BY DEF NextEnds, DropScan
<1>4. FileStep => Next
  BY DEF FileStep
<1> QED  BY <1>1, <1>2, <1>3, <1>4 DEF ScanNext

LEMMA ScanKeeps ==
  ASSUME Exclusive, ~UnlinkMayFail, Owned, Kept, [ScanNext]_<<vars, scan>>
  PROVE  Owned' /\ Kept' /\ (Filed => Filed')
<1>1. [Next]_vars \/ Quiet
  BY ScanSteps DEF vars
<1>2. Quiet /\ Filed => Filed'
  BY DEF Quiet, Filed
<1> QED  BY <1>1, <1>2, QuietOwned, KeptStep, QuietKept, FileStays DEF Owned

(* The page that next() hands out is that of the file the object is for.   *)
LEMMA PageIs ==
  ASSUME Owned, NEW h \in Handle, NEW pnum \in Nat, ReadPages(h, pnum, 1)
  PROVE  /\ Open(h)
         /\ ret'.buffer = Units(file[h], pnum * PageUnits, PageUnits)
         /\ ret'.buffer \in Seq(Unit)
<1>1. /\ Open(h) /\ fds[obj[h].fd] = file[h] /\ file[h] \in Inode
      /\ data[file[h]] \in Seq(Unit)
  BY DEF ReadPages, VerifyIo, Open, Owned, TypeOK, Private, DescriptorsOwned, Unit
<1>2. PageUnits \in Nat \ {0} /\ 1 * PageUnits = PageUnits
  BY PagedFileAssumption
<1>3. /\ ret'.buffer = Units(file[h], pnum * PageUnits, PageUnits)
      /\ pnum * PageUnits + PageUnits <= Len(data[file[h]])
  BY <1>1, <1>2 DEF ReadPages, Delivers, Transfer, Offset
<1> DEFINE at == pnum * PageUnits
           s == data[file[h]]
<1>4. at \in Nat
  BY <1>2
<1> HIDE DEF at
<1>5. SubSeq(s, at + 1, at + PageUnits) \in Seq(Unit)
  <2>1. s \in Seq(Unit) /\ at + 1 \in 1..(Len(s) + 1) /\ at + PageUnits \in 0..Len(s)
    BY <1>1, <1>2, <1>3, <1>4 DEF at
  <2> HIDE DEF s
  <2>2. \A i \in (at + 1)..(at + PageUnits) : s[i] \in Unit
    BY <1>2, <1>4, <2>1
  <2> QED  BY <1>2, <1>4, <2>1, <2>2, SubSeqProperties
<1> QED  BY <1>1, <1>3, <1>5 DEF Units, at
LEMMA StartKeeps ==
  ASSUME Owned, Kept, Filed, NEW h \in Handle, NEW start \in Pnum, NEW end \in Pnum,
         StartScan(h, start, end)
  PROVE  ScanInv'
<1> DEFINE o == obj[h]
           stop == EndPage(o, end)
           held == Len(data[file[h]]) \div PageUnits - 1
<1>1. /\ o.live /\ CheckPnum(o, start) /\ CheckPnum(o, stop)
      /\ scan' = [state |-> "running", h |-> h, start |-> start, end |-> end,
                  held |-> held, current_pnum |-> start - 1, stop_pnum |-> stop,
                  got |-> <<>>, failed |-> FALSE]
      /\ obj' = obj
  BY DEF StartScan, vars
<1>2. start \in Nat /\ end \in Nat /\ o.size \in 0..MaxUnits /\ PageUnits \in Nat \ {0}
      /\ PnumRange \in Nat \ {0}
  BY PagedFileAssumption DEF Pnum, Owned, TypeOK
<1>3. end = None => stop = o.size \div PageUnits - 1 /\ start <= stop
  <2>1. start # 0 /\ start < o.size \div PageUnits /\ o.size \div PageUnits \in Int
    <3>1. o.size \div PageUnits \in Int
      BY <1>2, PagesFit
    <3>2. CheckPnum(o, start)
      BY <1>1
    <3> HIDE DEF o
    <3> QED  BY <3>1, <3>2 DEF CheckPnum, None
  <2>2. PageCount(o) = o.size \div PageUnits - 1
    BY <1>2, <2>1, PageCountIs
  <2> QED  BY <1>2, <2>1, <2>2 DEF EndPage
<1>4. stop \in Nat
  BY <1>2 DEF EndPage, PageCount
<1>5. Open(h) => held = o.size \div PageUnits - 1
  BY DEF Kept, SizesExact
<1>6. held \in Int
  <2>1. CASE Open(h)
    BY <1>2, <1>5, <2>1, PagesFit
  <2>2. CASE ~Open(h)
    <3> DEFINE n == Len(data[file[h]])
    <3>1. file[h] \in Inode
      BY <1>1 DEF Filed
    <3>2. n \in Nat
      BY <3>1 DEF Owned, TypeOK
    <3> HIDE DEF n
    <3>3. n \div PageUnits \in Int
      BY <1>2, <3>2, QuotientBounds
    <3> QED  BY <3>3 DEF n
  <2> QED  BY <2>1, <2>2
<1> HIDE DEF o, stop, held
<1>7. scan' # NoScan /\ Running'
  BY <1>1 DEF NoScan, Running
<1>8. ScanType'
  <2>1. <<>> \in Seq(Page)
    OBVIOUS
  <2>2. scan' \in Scan
    BY <1>1, <1>2, <1>4, <1>6, <2>1 DEF Scan
  <2> QED  BY <1>1, <2>2 DEF ScanType, o
<1>9. ScanPlace'
  BY <1>1, <1>2, <1>7 DEF ScanPlace
<1>10. ScanStop'
  <2>1. Open(h)' <=> Open(h)
    BY <1>1 DEF Open
  <2> QED  BY <1>1, <1>2, <1>3, <1>5, <1>7, <2>1 DEF ScanStop, Hopeless, EndPage, stop
<1> QED  BY <1>8, <1>9, <1>10 DEF ScanInv

LEMMA PageKeeps ==
  ASSUME Owned, ScanInv, NextPage
  PROVE  ScanInv'
<1> DEFINE pnum == scan.current_pnum + 1
           page == [pnum |-> pnum, page |-> ret'.buffer]
<1>1. /\ Running /\ BeforeStop /\ scan # NoScan /\ ReadPages(scan.h, pnum, 1)
      /\ scan' = [scan EXCEPT !.current_pnum = pnum, !.got = Append(@, page)]
      /\ obj' = obj
  BY DEF NextPage, ReadPages, Running, NoScan
<1>2. scan \in Scan
  BY <1>1 DEF ScanInv, ScanType
<1>3. pnum \in Nat
  BY <1>1, <1>2 DEF ScanInv, ScanPlace, Scan
<1>4. Open(scan.h) /\ page \in Page
  BY <1>1, <1>2, <1>3, PageIs DEF Page, Scan
<1> HIDE DEF page
<1>5. /\ Append(scan.got, page) \in Seq(Page)
      /\ Len(Append(scan.got, page)) = Len(scan.got) + 1
      /\ \A i \in 1..Len(scan.got) : Append(scan.got, page)[i] = scan.got[i]
      /\ Append(scan.got, page)[Len(scan.got) + 1] = page
  BY <1>2, <1>4 DEF Scan
<1> DEFINE got == Append(scan.got, page)
<1> HIDE DEF got
<1>6. /\ scan'.got = got /\ scan'.current_pnum = pnum /\ scan'.start = scan.start
      /\ scan'.stop_pnum = scan.stop_pnum /\ scan'.failed = scan.failed
      /\ scan'.end = scan.end /\ scan'.held = scan.held /\ scan'.h = scan.h
      /\ scan'.state = "running" /\ scan' # NoScan /\ Running'
  BY <1>1, <1>2 DEF Running, NoScan, Scan, got
<1>7. ScanType'
  <2>1. got \in Seq(Page) /\ pnum \in Int
    BY <1>3, <1>5 DEF got
  <2>2. scan' \in Scan
    BY <1>1, <1>2, <2>1 DEF Scan, got
  <2> QED  BY <1>1, <1>6, <2>2 DEF ScanInv, ScanType
<1>8. ScanPlace'
  <2>1. /\ scan.start \in Nat /\ scan.stop_pnum \in Nat /\ scan.current_pnum \in Int
        /\ Len(scan.got) \in Nat /\ DOMAIN scan.got = 1..Len(scan.got)
        /\ scan.current_pnum < scan.stop_pnum
    BY <1>1, <1>2 DEF Scan, BeforeStop
  <2>2. /\ Len(got) = Len(scan.got) + 1 /\ DOMAIN got = 1..(Len(scan.got) + 1)
        /\ \A i \in 1..Len(scan.got) : got[i] = scan.got[i]
        /\ got[Len(scan.got) + 1].pnum = pnum
    BY <1>5, <2>1 DEF got, page
  <2>3. /\ \A i \in 1..Len(scan.got) : scan.got[i].pnum = scan.start + i - 1
        /\ ~scan.failed /\ scan.current_pnum = scan.start + Len(scan.got) - 1
        /\ scan.start <= scan.current_pnum + 1
    BY <1>1, <2>1 DEF ScanInv, ScanPlace
  <2>4. ASSUME NEW i \in DOMAIN got
        PROVE  got[i].pnum = scan.start + i - 1
    <3>1. CASE i \in 1..Len(scan.got)
      BY <2>2, <2>3, <3>1
    <3>2. CASE i = Len(scan.got) + 1
      <4>1. pnum = scan.start + i - 1
        <5> DEFINE n == Len(scan.got)
        <5>1. scan.current_pnum = scan.start + n - 1 /\ i = n + 1
          BY <2>3, <3>2
        <5>2. n \in Nat /\ scan.start \in Nat
          BY <2>1
        <5> HIDE DEF n
        <5> QED  BY <5>1, <5>2
      <4> HIDE DEF pnum
      <4> QED  BY <2>2, <3>2, <4>1
    <3> QED  BY <2>1, <2>2, <3>1, <3>2
  <2> QED  BY <1>6, <2>1, <2>2, <2>3, <2>4 DEF ScanPlace
<1>9. ScanStop'
  BY <1>1, <1>4, <1>6 DEF ScanInv, ScanStop, Hopeless
<1> QED  BY <1>7, <1>8, <1>9 DEF ScanInv

LEMMA EndKeeps ==
  ASSUME ScanInv, NextFails \/ NextEnds
  PROVE  ScanInv'
<1>1. /\ Running /\ scan # NoScan /\ obj' = obj
      /\ \/ BeforeStop /\ scan' = [scan EXCEPT !.current_pnum = @ + 1, !.state = "ended", !.failed = TRUE]
         \/ ~BeforeStop /\ scan' = [scan EXCEPT !.state = "ended"]
  BY DEF NextFails, NextEnds, ReadFails, Running, NoScan, vars
<1>2. scan \in Scan
  BY <1>1 DEF ScanInv, ScanType
<1>3. /\ scan'.got = scan.got /\ scan'.start = scan.start /\ scan'.stop_pnum = scan.stop_pnum
      /\ scan'.end = scan.end /\ scan'.held = scan.held
      /\ scan'.state = "ended" /\ scan' # NoScan /\ ~Running'
      /\ \/ scan'.failed /\ scan.current_pnum < scan.stop_pnum
                         /\ scan'.current_pnum = scan.current_pnum + 1
         \/ scan'.failed = scan.failed /\ ~(scan.current_pnum < scan.stop_pnum)
                                       /\ scan'.current_pnum = scan.current_pnum
  BY <1>1, <1>2 DEF Running, NoScan, BeforeStop, Scan
<1>4. ScanType'
  <2>1. scan' = [scan EXCEPT !.state = "ended"] => scan' \in Scan
    BY <1>2 DEF Scan
  <2>2. scan' = [scan EXCEPT !.current_pnum = @ + 1, !.state = "ended", !.failed = TRUE]
          => scan' \in Scan
    <3>1. scan.current_pnum + 1 \in Int
      BY <1>2 DEF Scan
    <3> QED  BY <1>2, <3>1 DEF Scan
  <2> QED  BY <1>1, <1>3, <2>1, <2>2 DEF ScanType
<1>5. /\ scan.start \in Nat /\ scan.stop_pnum \in Nat /\ scan.current_pnum \in Int
  BY <1>2 DEF Scan
<1>6. ScanPlace'
  BY <1>1, <1>3, <1>5 DEF ScanInv, ScanPlace
<1>7. ScanStop'
  BY <1>1, <1>3, <1>5 DEF ScanInv, ScanStop, Hopeless
<1> QED  BY <1>4, <1>6, <1>7 DEF ScanInv

(* The file is used on: the scan stays where it is.                        *)
LEMMA FileKeeps ==
  ASSUME Owned, Filed, ScanInv, [Next]_vars, scan' = scan, \A h \in Handle : On(h) => obj'[h].live
  PROVE  ScanInv'
<1>1. ASSUME scan # NoScan, Running
      PROVE  scan.h \in Handle /\ obj'[scan.h].live /\ (Open(scan.h)' => Open(scan.h))
  <2>1. scan.h \in Handle /\ obj[scan.h].live
    BY <1>1 DEF ScanInv, ScanType, Scan
  <2>2. obj'[scan.h].live
    BY <1>1, <2>1 DEF On
  <2>3. \A h \in Handle : obj[h].live /\ Open(h)' => Open(h)
    BY FileStays
  <2> QED  BY <2>1, <2>2, <2>3 DEF Open
<1>2. ScanType' /\ ScanPlace'
  BY <1>1 DEF ScanInv, ScanType, ScanPlace, Running
<1>3. ScanStop'
  BY <1>1 DEF ScanInv, ScanStop, Hopeless, Running, Open
<1> QED  BY <1>2, <1>3 DEF ScanInv

ScanFile == Owned /\ Kept /\ Filed /\ ScanInv

LEMMA ScanStep ==
  ASSUME Exclusive, ~UnlinkMayFail
  PROVE  ScanFile /\ [ScanNext]_<<vars, scan>> => ScanFile'
<1> SUFFICES ASSUME Owned, Kept, Filed, ScanInv, [ScanNext]_<<vars, scan>>
             PROVE  Owned' /\ Kept' /\ Filed' /\ ScanInv'
  BY DEF ScanFile
<1>1. Owned' /\ Kept' /\ Filed'
  BY ScanKeeps
<1>2. ScanInv'
  <2>1. CASE UNCHANGED <<vars, scan>>
    <3>1. [Next]_vars /\ scan' = scan /\ obj' = obj
      BY <2>1 DEF vars
    <3>2. \A h \in Handle : On(h) => obj'[h].live
      BY <3>1 DEF On, ScanInv, ScanType, Scan, Running, NoScan
    <3> QED  BY <3>1, <3>2, FileKeeps
  <2>2. ASSUME NEW h \in Handle, NEW start \in Pnum, NEW end \in Pnum, StartScan(h, start, end)
        PROVE  ScanInv'
    BY <2>2, StartKeeps
  <2>3. CASE NextPage
    BY <2>3, PageKeeps
  <2>4. CASE NextFails \/ NextEnds
    BY <2>4, EndKeeps
  <2>5. CASE DropScan
    BY <2>5 DEF DropScan, ScanInv, ScanType, ScanPlace, ScanStop
  <2>6. CASE FileStep
    BY <2>6, FileKeeps DEF FileStep
  <2> QED  BY <2>1, <2>2, <2>3, <2>4, <2>5, <2>6 DEF ScanNext
<1> QED  BY <1>1, <1>2

LEMMA ScanInitially == ScanInit => ScanFile
<1>1. Init => Filed
  BY DEF Init, Dead, Filed
<1> QED  BY <1>1, InitOwned, InitKept DEF ScanInit, ScanFile, ScanInv, ScanType, ScanPlace, ScanStop

(* A scan that ends with no failed read has handed out every page from its *)
(* start to its stop, once and in order, and the stop is the end page or   *)
(* the last page the file had when the scan was started.                   *)
THEOREM ScanCompleteAlways ==
  ASSUME Exclusive, ~UnlinkMayFail
  PROVE  ScanSpec => []ScanComplete
<1>1. ScanFile => ScanComplete
  <2> SUFFICES ASSUME ScanInv, scan.state = "ended", ~scan.failed
               PROVE  LET last == IF scan.end = None THEN scan.held ELSE scan.end
                      IN  /\ \A i \in DOMAIN scan.got : scan.got[i].pnum = scan.start + i - 1
                          /\ Len(scan.got) = IF last < scan.start THEN 0 ELSE last - scan.start + 1
    BY DEF ScanFile, ScanComplete
  <2>1. scan # NoScan /\ ~Running
    BY DEF NoScan, Running
  <2>2. /\ scan.start \in Nat /\ scan.end \in Nat /\ scan.held \in Int /\ scan.stop_pnum \in Nat
        /\ scan.current_pnum \in Int /\ Len(scan.got) \in Nat
    BY <2>1 DEF ScanInv, ScanType, Scan
  <2> DEFINE last == IF scan.end = None THEN scan.held ELSE scan.end
  <2>3. scan.stop_pnum = last
    BY <2>1 DEF ScanInv, ScanStop, Hopeless
  <2>4. /\ \A i \in DOMAIN scan.got : scan.got[i].pnum = scan.start + i - 1
        /\ scan.current_pnum = scan.start + Len(scan.got) - 1
        /\ scan.current_pnum < scan.start \/ scan.current_pnum <= scan.stop_pnum
        /\ scan.stop_pnum <= scan.current_pnum
    BY <2>1 DEF ScanInv, ScanPlace
  <2> HIDE DEF last
  <2>5. Len(scan.got) = IF last < scan.start THEN 0 ELSE last - scan.start + 1
    BY <2>2, <2>3, <2>4
  <2> QED  BY <2>4, <2>5 DEF last
<1> QED  BY <1>1, ScanInitially, ScanStep, PTL DEF ScanSpec

(* A page is handed out as it is in the file at that moment, also when the *)
(* file is renamed, written and extended between two calls of next().      *)
THEOREM ScanCurrentAlways ==
  ASSUME Exclusive, ~UnlinkMayFail
  PROVE  ScanSpec => ScanCurrent
<1> DEFINE Fresh == scan # NoScan /\ scan' # NoScan /\ Len(scan'.got) > Len(scan.got) =>
                      Last(scan'.got).page =
                        Units(file[scan.h], Last(scan'.got).pnum * PageUnits, PageUnits)
<1>1. ScanFile /\ [ScanNext]_<<vars, scan>> => [Fresh]_<<vars, scan>>
  <2> SUFFICES ASSUME ScanFile, ScanNext, scan # NoScan, scan' # NoScan,
                      Len(scan'.got) > Len(scan.got)
               PROVE  Last(scan'.got).page =
                        Units(file[scan.h], Last(scan'.got).pnum * PageUnits, PageUnits)
    OBVIOUS
  <2>1. /\ Owned /\ ScanInv
        /\ scan \in Scan
    BY DEF ScanFile, ScanInv, ScanType
  <2>2. NextPage
    <3>1. NextFails => scan'.got = scan.got
      BY <2>1 DEF NextFails, Scan
    <3>2. NextEnds => scan'.got = scan.got
      BY <2>1 DEF NextEnds, Scan
    <3>3. Len(scan'.got) # Len(scan.got)
      BY <2>1 DEF Scan
    <3> QED  BY <3>1, <3>2, <3>3 DEF ScanNext, StartScan, DropScan, FileStep
  <2> DEFINE pnum == scan.current_pnum + 1
             page == [pnum |-> pnum, page |-> ret'.buffer]
  <2>3. /\ ReadPages(scan.h, pnum, 1) /\ scan'.got = Append(scan.got, page)
    BY <2>1, <2>2 DEF NextPage, Scan
  <2>4. pnum \in Nat
    BY <2>1 DEF Scan, ScanInv, ScanPlace
  <2>5. page \in Page /\ ret'.buffer = Units(file[scan.h], pnum * PageUnits, PageUnits)
    BY <2>1, <2>3, <2>4, PageIs DEF Page, Scan
  <2> HIDE DEF page
  <2>6. Last(scan'.got) = page
    BY <2>1, <2>3, <2>5 DEF Last, Scan
  <2> QED  BY <2>5, <2>6 DEF page
<1> QED  BY <1>1, ScanInitially, ScanStep, PTL DEF ScanSpec, ScanCurrent
=============================================================================
