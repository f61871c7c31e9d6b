--------------------------- MODULE T2fsTreeProofs ---------------------------
(***************************************************************************)
(* Proofs about T2fsTree, for disks, tables, sets of names and paths of    *)
(* any size.  The inductive invariant is IInv: the disk is in order        *)
(* (T2fsDiskProofs), the tables have their form, what they and the current *)
(* directory name exists, and a busy entry of _opened_file_ is the first   *)
(* one with its i-node.  One lemma per call shows that the call keeps it,  *)
(* and says what the call does to the tree; the theorems at the end follow *)
(* from these.                                                             *)
(*                                                                         *)
(* All of it is about careful programs, which do not give rmdir2 a         *)
(* directory in use: rmdir2 does not look (run t2fs_rmdir), and the        *)
(* invariant does not survive what it does then.                           *)
(***************************************************************************)
EXTENDS T2fsTreeMC, T2fsDiskProofs, SequenceTheorems

(***************************************************************************)
(* The table of open files.  open2 looks at the first entry that has the   *)
(* i-node, busy or left over from a file closed before; that this is       *)
(* enough rests on FirstEntry.                                             *)
(***************************************************************************)
Entry(h) == [busy |-> files[h].busy, inode |-> files[h].inode,
             parent |-> files[h].parent, name |-> files[h].name]

\* The form of the table.
Table ==
    /\ files = [h \in File |-> Entry(h)]
    /\ \A h \in File : files[h].name \in Name \cup {""}

FirstEntry ==
    \A h, k \in File : files[h].busy /\ files[k].inode = files[h].inode => h <= k

HandlesAllocated == \A h \in File : files[h].busy => files[h].inode \in disk.imap

-----------------------------------------------------------------------------
\* Entries of the table are told apart by their number.
LEMMA FilesAreNumbers == File \subseteq Nat
BY SizesAssumption DEF File

\* An entry is its four fields.
LEMMA Fields ==
    ASSUME NEW b, NEW i, NEW d, NEW n, NEW e,
           e = [busy |-> b, inode |-> i, parent |-> d, name |-> n]
    PROVE  /\ [busy |-> e.busy, inode |-> e.inode, parent |-> e.parent, name |-> e.name] = e
           /\ e.busy = b /\ e.name = n
OBVIOUS

\* The handle that open2 and create2 take is free, and those before it are not.
LEMMA EmptyHandle ==
    ASSUME empty_handles # {}
    PROVE  /\ get_empty_file_handle \in File /\ ~files[get_empty_file_handle].busy
           /\ \A k \in File : ~files[k].busy => get_empty_file_handle <= k
<1>1. empty_handles \subseteq Nat
  BY FilesAreNumbers DEF empty_handles
<1> QED BY <1>1, MinIsLeast DEF get_empty_file_handle, empty_handles

\* An i-node that open2 does not find open is in no busy entry at all.
LEMMA NotOpen ==
    ASSUME FirstEntry, NEW i, ~already_opened(i)
    PROVE  \A k \in File : files[k].busy => files[k].inode # i
<1> SUFFICES ASSUME NEW k \in File, files[k].busy, files[k].inode = i PROVE FALSE
  OBVIOUS
<1> DEFINE m == Min(handles_with(i))
<1>1. handles_with(i) \subseteq Nat /\ k \in handles_with(i)
  BY FilesAreNumbers DEF handles_with
<1>2. m \in handles_with(i) /\ m <= k
  BY <1>1, MinIsLeast
<1>3. m \in File /\ files[m].inode = i
  BY <1>2 DEF handles_with
<1>4. m = k
  <2>1. k <= m /\ m \in Nat /\ k \in Nat
    BY <1>3, FilesAreNumbers DEF FirstEntry
  <2> QED BY <1>2, <2>1
<1> QED BY <1>1, <1>4 DEF already_opened

\* An entry is written for an i-node that no busy entry has.
LEMMA Opened ==
    ASSUME Table, FirstEntry, empty_handles # {}, NEW i, NEW d, NEW n \in Name,
           \A k \in File : files[k].busy => files[k].inode # i,
           files' = opened(get_empty_file_handle, i, d, n)
    PROVE  Table' /\ FirstEntry'
<1> DEFINE h == get_empty_file_handle
<1>1. h \in File /\ ~files[h].busy /\ \A k \in File : ~files[k].busy => h <= k
  BY EmptyHandle
<1> HIDE DEF h
<1>2. files' = [files EXCEPT ![h] = [busy |-> TRUE, inode |-> i, parent |-> d, name |-> n]]
  BY DEF opened, h
<1>3. /\ files'[h] = [busy |-> TRUE, inode |-> i, parent |-> d, name |-> n]
      /\ \A k \in File \ {h} : files'[k] = files[k]
      /\ DOMAIN files' = File /\ files' = [k \in File |-> files'[k]]
  BY <1>1, <1>2 DEF Table
<1>4. Table'
  <2>1. \A k \in File : files[k] = Entry(k) /\ files[k].name \in Name \cup {""}
    BY DEF Table
  <2>2. ASSUME NEW k \in File
        PROVE  Entry(k)' = files'[k] /\ files'[k].name \in Name \cup {""}
    <3>1. CASE k = h
      <4>1. files'[k] = [busy |-> TRUE, inode |-> i, parent |-> d, name |-> n]
        BY <1>3, <3>1
      <4>2. Entry(k)' = files'[k]
        BY <4>1, Fields, Zenon DEF Entry
      <4>3. files'[k].name = n
        BY <4>1
      <4> QED BY <4>2, <4>3, Zenon
    <3>2. CASE k # h
      BY <1>3, <2>1, <3>2 DEF Entry
    <3> QED BY <3>1, <3>2
  <2>3. files' = [k \in File |-> Entry(k)']
    BY <1>3, <2>2
  <2> QED BY <2>2, <2>3 DEF Table
<1>5. ASSUME NEW g \in File, NEW k \in File, files'[g].busy, files'[k].inode = files'[g].inode
      PROVE  g <= k
  <2>1. g \in Nat /\ k \in Nat
    BY FilesAreNumbers
  <2>2. CASE g = h
    <3>1. k # h => ~files[k].busy
      BY <1>3, <1>5, <2>2
    <3> QED BY <1>1, <2>1, <2>2, <3>1
  <2>3. CASE g # h
    <3>1. files[g].busy /\ k # h
      BY <1>3, <1>5, <2>3
    <3> QED BY <1>3, <1>5, <2>3, <3>1 DEF FirstEntry
  <2> QED BY <2>2, <2>3
<1> QED BY <1>4, <1>5 DEF FirstEntry

\* An entry is marked free.
LEMMA Closed ==
    ASSUME Table, FirstEntry, NEW h \in File, files' = [files EXCEPT ![h].busy = FALSE]
    PROVE  Table' /\ FirstEntry'
<1>1. /\ files'[h] = [Entry(h) EXCEPT !.busy = FALSE]
      /\ \A k \in File \ {h} : files'[k] = files[k]
      /\ DOMAIN files' = File /\ files' = [k \in File |-> files'[k]]
  BY DEF Table
<1>2. /\ files'[h] = [busy |-> FALSE, inode |-> files[h].inode,
                      parent |-> files[h].parent, name |-> files[h].name]
  BY <1>1 DEF Entry
<1>3. Table'
  <2>1. \A k \in File : files'[k].name = files[k].name
    BY <1>1, <1>2
  <2>2. \A k \in File \ {h} : files'[k] = [busy |-> files'[k].busy, inode |-> files'[k].inode,
                                         parent |-> files'[k].parent, name |-> files'[k].name]
    <3> SUFFICES ASSUME NEW k \in File \ {h}
                 PROVE  files'[k] = [busy |-> files'[k].busy, inode |-> files'[k].inode,
                                     parent |-> files'[k].parent, name |-> files'[k].name]
      OBVIOUS
    <3>1. files[k] = Entry(k)
      BY DEF Table
    <3> QED BY <1>1, <3>1 DEF Entry
  <2>3. files'[h] = [busy |-> files'[h].busy, inode |-> files'[h].inode,
                     parent |-> files'[h].parent, name |-> files'[h].name]
    BY <1>2
  <2>4. files' = [k \in File |-> [busy |-> files'[k].busy, inode |-> files'[k].inode,
                                  parent |-> files'[k].parent, name |-> files'[k].name]]
    <3>1. \A k \in File : files'[k] = [busy |-> files'[k].busy, inode |-> files'[k].inode,
                                       parent |-> files'[k].parent, name |-> files'[k].name]
      BY <2>2, <2>3
    <3> QED BY <1>1, <3>1
  <2> QED BY <2>1, <2>4 DEF Table, Entry
<1>4. \A k \in File : files'[k].inode = files[k].inode /\ (files'[k].busy => files[k].busy)
  BY <1>1, <1>2
<1> QED BY <1>3, <1>4 DEF FirstEntry

-----------------------------------------------------------------------------
\* A program starts with a table without open files.
LEMMA NoFiles ==
    ASSUME files = no_files
    PROVE  Table /\ FirstEntry
BY DEF no_files, Table, Entry, FirstEntry

\* The first program does, too.
LEMMA TableInit == Init => Table /\ FirstEntry
BY NoFiles DEF Init

\* No call leaves an entry with the i-node before the busy one.
LEMMA TableStep == Table /\ FirstEntry /\ HandlesAllocated /\ [Next]_vars => Table' /\ FirstEntry'
<1> SUFFICES ASSUME Table, FirstEntry, HandlesAllocated, [Next]_vars PROVE Table' /\ FirstEntry'
  OBVIOUS
<1>1. ASSUME UNCHANGED files PROVE Table' /\ FirstEntry'
  BY <1>1 DEF Table, Entry, FirstEntry
<1>2. ASSUME NEW d, NEW n \in Name, create2(d, n) PROVE Table' /\ FirstEntry'
  <2> DEFINE i == alloc_inode(disk)
  <2>1. i \notin disk.imap
    <3>1. Inode \ disk.imap \subseteq Nat /\ Inode \ disk.imap # {}
      BY <1>2, SizesAssumption DEF create2, Room, Inode
    <3> QED BY <3>1, MinIsLeast DEF alloc_inode
  <2>2. \A k \in File : files[k].busy => files[k].inode # i
    BY <2>1 DEF HandlesAllocated
  <2>3. empty_handles # {} /\ files' = opened(get_empty_file_handle, i, d, n)
    BY <1>2 DEF create2
  <2> QED BY <2>2, <2>3, Opened
<1>3. ASSUME NEW d, NEW n \in Name, open2(d, n) PROVE Table' /\ FirstEntry'
  <2> DEFINE i == record_at(disk, d, find_record(disk, d, n)).inode
  <2>1. ~already_opened(i) /\ empty_handles # {} /\ files' = opened(get_empty_file_handle, i, d, n)
    BY <1>3 DEF open2
  <2> QED BY <2>1, NotOpen, Opened
<1>4. ASSUME NEW h \in File, close2(h) PROVE Table' /\ FirstEntry'
  BY <1>4, Closed DEF close2
<1>5. ASSUME NEW d, NEW n \in Name, delete2(d, n) PROVE Table' /\ FirstEntry'
  <2> DEFINE open(i) == {h \in handles_with(i) : files[h].busy}
  <2>1. PICK i : files' = close_deleted(i)
    BY <1>5 DEF delete2
  <2>2. CASE open(i) = {}
    BY <1>1, <2>1, <2>2 DEF close_deleted
  <2>3. CASE open(i) # {}
    <3>1. open(i) \subseteq Nat /\ open(i) \subseteq File
      BY FilesAreNumbers DEF handles_with
    <3>2. Min(open(i)) \in File
      BY <2>3, <3>1, MinIsLeast
    <3> QED BY <2>1, <2>3, <3>2, Closed DEF close_deleted
  <2> QED BY <2>2, <2>3
<1>6. ASSUME restart PROVE Table' /\ FirstEntry'
  BY <1>6 DEF restart, no_files, Table, Entry, FirstEntry
<1> QED
  BY <1>1, <1>2, <1>3, <1>4, <1>5, <1>6
     DEF Next, vars, opendir2, mkdir2, rmdir2, chdir2, readdir2, closedir2

\* What a busy entry names is allocated.
LEMMA NamedAllocated == Table /\ HandleNamesFile /\ TreeShape => HandlesAllocated
<1> SUFFICES ASSUME Table, HandleNamesFile, TreeShape, NEW h \in File, files[h].busy
             PROVE  files[h].inode \in disk.imap
  BY DEF HandlesAllocated
<1> DEFINE d == files[h].parent
           named_entries == UNION {{<<c, p>> : p \in Entries(c)} : c \in Directories}
<1>1. PICK p \in named(disk, d, files[h].name) :
          d \in Directories /\ record_at(disk, d, p).inode = files[h].inode
  BY DEF HandleNamesFile
<1>2. p \in Entries(d)
  <2>1. record_at(disk, d, p).name = files[h].name /\ record_at(disk, d, p).type # "invalid"
        /\ p \in positions(disk, d)
    BY <1>1 DEF named
  <2>2. files[h].name \notin {".", ".."}
    BY NameAssumption DEF Table
  <2> QED BY <2>1, <2>2 DEF Entries, Filled
<1>3. <<d, p>> \in named_entries
  BY <1>1, <1>2
<1>4. disk.imap = {root} \cup {record_at(disk, e[1], e[2]).inode : e \in named_entries}
  BY DEF TreeShape
<1>5. record_at(disk, <<d, p>>[1], <<d, p>>[2]).inode = files[h].inode
  BY <1>1
<1> HIDE DEF named_entries
<1> QED BY <1>3, <1>4, <1>5

\* As long as the directories hold what the handles name and the bitmap what
\* the directories name, no file is open twice: open2 need not look past the
\* first entry with the i-node, and delete2 closes the only open one.
LEMMA OpenOnce == Spec /\ []HandleNamesFile /\ []TreeShape => []OneHandlePerFile
<1>1. FirstEntry => OneHandlePerFile
  <2> SUFFICES ASSUME FirstEntry, NEW h \in File, NEW k \in File, files[h].busy, files[k].busy,
                      files[h].inode = files[k].inode
               PROVE  h = k
    BY DEF OneHandlePerFile
  <2>1. h <= k /\ k <= h /\ h \in Nat /\ k \in Nat
    BY FilesAreNumbers DEF FirstEntry
  <2> QED BY <2>1
<1> QED BY <1>1, TableInit, TableStep, NamedAllocated, PTL DEF Spec

-----------------------------------------------------------------------------
(***************************************************************************)
(* What a disk in order says.                                              *)
(***************************************************************************)
\* find_dir_inode finds every directory; the records in use are the first
\* ones, "." and ".." and the entries.
LEMMA DirectoryRead ==
    ASSUME InOrder(disk), NEW d \in Directories
    PROVE  /\ d \in DirNodes(disk)
           /\ Filled(d) = 0 .. dsize(disk, d) - 1 /\ Entries(d) = slots(disk, d)
           /\ inode_size(disk, d) = dsize(disk, d)
<1>1. disk \in Disk /\ TreeForm(disk) /\ root \in DirNodes(disk)
  BY DEF InOrder, TreeForm
<1>2. d \in DirNodes(disk)
  BY <1>1, Reach DEF Directories
<1>3. /\ Listing(disk, d) /\ DotDot(disk, d) /\ d \in Inode
      /\ dsize(disk, d) \in Nat /\ dsize(disk, d) >= 2
      /\ \A p \in slots(disk, d) : record_at(disk, d, p).name \in Name
  BY <1>1, <1>2, InTree
<1>4. inode_size(disk, d) = dsize(disk, d)
  BY <1>1, <1>3, FindsDot
<1>5. Filled(d) = 0 .. dsize(disk, d) - 1
  <2>1. 0 .. dsize(disk, d) - 1 \subseteq positions(disk, d) /\ positions(disk, d) \subseteq Nat
    BY <1>1, <1>3, Records, DiskFields
  <2> QED BY <1>3, <2>1 DEF Listing, Filled
<1>6. Entries(d) = slots(disk, d)
  <2>1. \A p \in 0 .. dsize(disk, d) - 1 : p = 0 \/ p = 1 \/ p \in slots(disk, d)
    BY <1>3 DEF slots
  <2>2. slots(disk, d) \subseteq 0 .. dsize(disk, d) - 1 /\ 0 \notin slots(disk, d) /\ 1 \notin slots(disk, d)
    BY <1>3 DEF slots
  <2>3. record_at(disk, d, 0).name = "." /\ record_at(disk, d, 1).name = ".."
    BY <1>3 DEF Listing, DotDot
  <2>4. \A p \in slots(disk, d) : record_at(disk, d, p).name \notin {".", ".."}
    BY <1>3, NameAssumption
  <2> QED BY <1>5, <2>1, <2>2, <2>3, <2>4 DEF Entries
<1> QED BY <1>2, <1>4, <1>5, <1>6

\* find_dir_inode finds every directory.
LEMMA DirectoriesAreNodes ==
    ASSUME InOrder(disk)
    PROVE  Directories = DirNodes(disk)
BY Reach DEF InOrder, TreeForm, Directories

\* A disk in order has well-formed directories.
LEMMA InOrderDirWellFormed == InOrder(disk) => DirWellFormed
<1> SUFFICES ASSUME InOrder(disk), NEW d \in Directories
             PROVE  LET dot == record_at(disk, d, 0)
                        dotdot == record_at(disk, d, 1)
                    IN  /\ Filled(d) = 0 .. inode_size(disk, d) - 1
                        /\ dot.name = "." /\ dot.inode = d /\ dot.blocks = Len(disk.ptr[d])
                        /\ dotdot.name = ".."
                        /\ d # root => \E p \in Entries(dotdot.inode) :
                                           record_at(disk, dotdot.inode, p).inode = d
  BY DEF DirWellFormed
<1>1. d \in DirNodes(disk) /\ Filled(d) = 0 .. inode_size(disk, d) - 1
  BY DirectoryRead
<1>2. disk \in Disk /\ TreeForm(disk) /\ Listing(disk, d) /\ DotDot(disk, d)
  BY <1>1, InTree DEF InOrder
<1>3. ASSUME d # root
      PROVE  \E p \in Entries(parent_of(disk, d)) : record_at(disk, parent_of(disk, d), p).inode = d
  <2>1. /\ parent_of(disk, d) \in DirNodes(disk)
        /\ \E p \in slots(disk, parent_of(disk, d)) :
              record_at(disk, parent_of(disk, d), p).inode = d
    BY <1>1, <1>2, <1>3, ParentHasEntry
  <2>2. parent_of(disk, d) \in Directories
    BY <2>1, DirectoriesAreNodes
  <2>3. Entries(parent_of(disk, d)) = slots(disk, parent_of(disk, d))
    BY <2>2, DirectoryRead
  <2> QED BY <2>1, <2>3
<1> QED BY <1>1, <1>2, <1>3 DEF Listing, DotDot, parent_of

\* The names in a directory of a disk in order differ.
LEMMA InOrderUniqueNames == InOrder(disk) => UniqueNames
<1> SUFFICES ASSUME InOrder(disk), NEW d \in Directories, NEW p \in Filled(d), NEW q \in Filled(d),
                    record_at(disk, d, p).name = record_at(disk, d, q).name
             PROVE  p = q
  BY DEF UniqueNames
<1>1. d \in DirNodes(disk) /\ p \in 0 .. dsize(disk, d) - 1 /\ q \in 0 .. dsize(disk, d) - 1
  BY DirectoryRead
<1>2. Listing(disk, d)
  BY <1>1, InTree DEF InOrder
<1> QED BY <1>1, <1>2 DEF Listing

\* On a disk in order the i-nodes allocated are those that are named.
LEMMA InOrderTreeShape == InOrder(disk) => TreeShape
<1> SUFFICES ASSUME InOrder(disk) PROVE TreeShape
  OBVIOUS
<1> PICK N : N = UNION {{<<d, p>> : p \in Entries(d)} : d \in Directories}
  OBVIOUS
<1> DEFINE inode(e) == record_at(disk, e[1], e[2]).inode
<1>1. \A e \in N : \E d \in DirNodes(disk) : \E p \in slots(disk, d) : e = <<d, p>>
  BY DirectoryRead
<1>2. \A d \in DirNodes(disk) : \A p \in slots(disk, d) : <<d, p>> \in N
  BY DirectoryRead, DirectoriesAreNodes
<1>3. disk \in Disk /\ TreeForm(disk)
  BY DEF InOrder
<1>4. ASSUME NEW e \in N, NEW f \in N
      PROVE  /\ inode(e) # root /\ inode(e) \in disk.imap
             /\ inode(e) = inode(f) => e = f
  <2>1. PICK d \in DirNodes(disk) : \E p \in slots(disk, d) : e = <<d, p>>
    BY <1>1
  <2>2. PICK p \in slots(disk, d) : e = <<d, p>>
    BY <2>1
  <2>3. PICK k \in DirNodes(disk) : \E q \in slots(disk, k) : f = <<k, q>>
    BY <1>1
  <2>4. PICK q \in slots(disk, k) : f = <<k, q>>
    BY <2>3
  <2>5. inode(e) = record_at(disk, d, p).inode /\ inode(f) = record_at(disk, k, q).inode
    BY <2>2, <2>4
  <2>6. record_at(disk, d, p).inode \in disk.imap \ {root}
    BY <1>3, InTree
  <2>7. record_at(disk, d, p).inode = record_at(disk, k, q).inode => d = k /\ p = q
    BY <1>3 DEF TreeForm
  <2> QED BY <2>2, <2>4, <2>5, <2>6, <2>7
<1>5. ASSUME NEW j \in disk.imap \ {root}
      PROVE  \E e \in N : inode(e) = j
  <2>1. PICK d \in DirNodes(disk) : \E p \in slots(disk, d) : record_at(disk, d, p).inode = j
    BY <1>3 DEF TreeForm
  <2>2. PICK p \in slots(disk, d) : record_at(disk, d, p).inode = j
    BY <2>1
  <2>3. <<d, p>> \in N /\ inode(<<d, p>>) = j
    BY <1>2, <2>2
  <2> QED BY <2>3
<1>6. root \in disk.imap
  BY <1>3 DEF TreeForm, DirNodes
<1> HIDE DEF inode
<1>7. disk.imap = {root} \cup {inode(e) : e \in N}
  BY <1>4, <1>5, <1>6
<1> USE DEF inode
<1> QED BY <1>4, <1>7 DEF TreeShape

\* An i-node has as many blocks as pointers, and the indirect one.
LEMMA BlocksCounted ==
    ASSUME NEW D \in Disk, NEW I \in SUBSET Inode, BlockForm(D, I), NEW i \in I
    PROVE  Cardinality(blocks_of(D, i)) =
               Len(D.ptr[i]) + (IF Len(D.ptr[i]) > DIRECT THEN 1 ELSE 0)
<1> PICK s : s = D.ptr[i]
  OBVIOUS
<1> PICK n \in Nat : n = Len(s)
  BY DiskFields
<1> PICK X : X = {s[k] : k \in 1 .. n}
  OBVIOUS
<1>1. s \in [1 .. n -> X] /\ DOMAIN s = 1 .. n
  <2>1. s \in Seq(Block)
    BY DiskFields
  <2> QED BY <2>1
<1>2. \A a, b \in 1 .. n : s[a] = s[b] => a = b
  BY <1>1 DEF BlockForm
<1>3. IsFiniteSet(X) /\ Cardinality(X) = n
  <2>1. s \in Surjection(1 .. n, X)
    <3>1. \A x \in X : \E k \in 1 .. n : s[k] = x
      OBVIOUS
    <3> QED BY <1>1, <3>1, Zenon DEF Surjection
  <2>2. s \in Injection(1 .. n, X)
    <3>1. IsInjective(s)
      BY <1>1, <1>2, Zenon DEF IsInjective
    <3> QED BY <1>1, <3>1 DEF Injection
  <2>3. IsFiniteSet(1 .. n) /\ Cardinality(1 .. n) = n
    <3>1. \A a, b \in Int : IsFiniteSet(a .. b)
                           /\ Cardinality(a .. b) = IF a > b THEN 0 ELSE b - a + 1
      BY FS_Interval
    <3>2. 1 \in Int /\ n \in Int
      OBVIOUS
    <3>3. IsFiniteSet(1 .. n) /\ Cardinality(1 .. n) = IF 1 > n THEN 0 ELSE n - 1 + 1
      BY <3>1, <3>2, Zenon
    <3>4. (IF 1 > n THEN 0 ELSE n - 1 + 1) = n
      OBVIOUS
    <3> QED BY <3>3, <3>4, Zenon
  <2> QED BY <2>1, <2>2, <2>3, FS_Surjection
<1>4. blocks_of(D, i) = X \cup ({D.idx[i]} \ {NULL_BLOCK})
  BY <1>1, Zenon DEF blocks_of
<1>5. (D.idx[i] # NULL_BLOCK <=> n > DIRECT) /\ n = Len(D.ptr[i])
  BY DEF BlockForm
<1>6. CASE n > DIRECT
  <2>1. D.idx[i] \notin X
    BY <1>1 DEF BlockForm
  <2>2. blocks_of(D, i) = X \cup {D.idx[i]}
    <3>1. D.idx[i] # NULL_BLOCK
      BY <1>5, <1>6
    <3>2. {D.idx[i]} \ {NULL_BLOCK} = {D.idx[i]}
      BY <3>1
    <3> QED BY <1>4, <3>2, Zenon
  <2>3. Cardinality(X \cup {D.idx[i]}) = n + 1
    <3> PICK x : x = D.idx[i]
      OBVIOUS
    <3>1. Cardinality(X \cup {x}) = IF x \in X THEN Cardinality(X) ELSE Cardinality(X) + 1
      BY <1>3, FS_AddElement
    <3> QED BY <1>3, <2>1, <3>1
  <2>4. Cardinality(blocks_of(D, i)) = n + 1
    BY <2>2, <2>3, Zenon
  <2> QED BY <1>5, <1>6, <2>4
<1>7. CASE ~ (n > DIRECT)
  <2>1. blocks_of(D, i) = X
    <3>1. D.idx[i] = NULL_BLOCK
      BY <1>5, <1>7
    <3>2. X \cup ({D.idx[i]} \ {NULL_BLOCK}) = X
      BY <3>1
    <3> QED BY <1>4, <3>2, Zenon
  <2>2. Cardinality(blocks_of(D, i)) = n
    BY <1>3, <2>1, Zenon
  <2>3. n + 0 = n
    OBVIOUS
  <2> QED BY <1>5, <1>7, <2>2, <2>3
<1> QED BY <1>6, <1>7

\* On a disk in order every block in use belongs to one i-node, once.
LEMMA InOrderBlocksOwnedOnce == InOrder(disk) => BlocksOwnedOnce
<1> SUFFICES ASSUME InOrder(disk) PROVE BlocksOwnedOnce
  OBVIOUS
<1>1. disk \in Disk /\ BlockForm(disk, disk.imap) /\ disk.imap \in SUBSET Inode
  BY DiskFields DEF InOrder
<1>2. disk.bmap = UNION {blocks_of(disk, i) : i \in disk.imap}
  BY <1>1 DEF BlockForm
<1>3. \A i, j \in disk.imap : i # j => blocks_of(disk, i) \cap blocks_of(disk, j) = {}
  BY <1>1, Disjoint
<1>4. \A i \in disk.imap :
         Cardinality(blocks_of(disk, i)) =
             Len(disk.ptr[i]) + (IF Len(disk.ptr[i]) > DIRECT THEN 1 ELSE 0)
  BY <1>1, BlocksCounted
<1> QED BY <1>2, <1>3, <1>4 DEF BlocksOwnedOnce

\* A directory has a third record when it has an entry.
LEMMA EmptyDir ==
    ASSUME NEW D, InOrder(D), NEW d \in DirNodes(D)
    PROVE  /\ dir_is_empty(D, d) = {record_at(D, d, 2).type = "invalid"}
           /\ record_at(D, d, 2).type = "invalid" <=> dsize(D, d) = 2
           /\ dsize(D, d) = 2 <=> slots(D, d) = {}
<1>1. /\ D \in Disk /\ D.ptr[d] # <<>> /\ Listing(D, d) /\ d \in Inode
      /\ dsize(D, d) \in Nat /\ dsize(D, d) >= 2
  BY InTree DEF InOrder
<1>2. dir_is_empty(D, d) = {record_at(D, d, 2).type = "invalid"}
  BY <1>1 DEF dir_is_empty
<1>3. 2 \in positions(D, d)
  <2>1. D.ptr[d] \in Seq(Block)
    BY <1>1, DiskFields
  <2>2. Len(D.ptr[d]) \in Nat /\ Len(D.ptr[d]) > 0
    BY <1>1, <2>1
  <2> PICK m : m = Len(D.ptr[d]) * RPB
    OBVIOUS
  <2>3. m \in Nat /\ m >= RPB
    BY <2>2, OneBlockMore, Zenon
  <2>4. positions(D, d) = 0 .. m - 1
    BY DEF positions
  <2> QED BY <2>3, <2>4, Sizes
<1>4. record_at(D, d, 2).type # "invalid" <=> 2 < dsize(D, d)
  <2>1. \A p \in positions(D, d) : record_at(D, d, p).type # "invalid" <=> p < dsize(D, d)
    BY <1>1 DEF Listing
  <2>2. \A p : p \in positions(D, d) =>
                  (record_at(D, d, p).type # "invalid" <=> p < dsize(D, d))
    BY <2>1
  <2> QED BY <1>3, <2>2, Zenon
<1>5. dsize(D, d) = 2 <=> slots(D, d) = {}
  <2>1. CASE dsize(D, d) = 2
    <3>1. slots(D, d) = {}
      BY <2>1 DEF slots
    <3> QED BY <2>1, <3>1
  <2>2. CASE dsize(D, d) # 2
    <3>1. 2 \in slots(D, d)
      BY <1>1, <2>2 DEF slots
    <3> QED BY <2>2, <3>1
  <2> QED BY <2>1, <2>2
<1> QED BY <1>1, <1>2, <1>4, <1>5

\* On a disk in order the third record tells whether a directory is empty.
LEMMA InOrderEmptyCheckSound == InOrder(disk) => EmptyCheckSound
<1> SUFFICES ASSUME InOrder(disk), NEW d \in Directories
             PROVE  dir_is_empty(disk, d) = {Entries(d) = {}}
  BY DEF EmptyCheckSound
<1>1. d \in DirNodes(disk) /\ Entries(d) = slots(disk, d)
  BY DirectoryRead
<1>2. /\ dir_is_empty(disk, d) = {record_at(disk, d, 2).type = "invalid"}
      /\ record_at(disk, d, 2).type = "invalid" <=> Entries(d) = {}
  BY <1>1, EmptyDir
<1>3. (record_at(disk, d, 2).type = "invalid") = (Entries(d) = {})
  BY <1>2, Zenon
<1> QED BY <1>2, <1>3, Zenon

-----------------------------------------------------------------------------
(***************************************************************************)
(* The inductive invariant.                                                *)
(***************************************************************************)
Handle == [busy : BOOLEAN, inode : Inode, parent : Inode, name : Name \cup {""}]

DirHandle == [busy : BOOLEAN, inode : Inode, entry : Nat]

Tables ==
    /\ files \in [File -> Handle] /\ dirs \in [Dir -> DirHandle]
    /\ cwd_string \in Seq(Name \cup {""})

\* The entry that a handle was opened by is still there.
EntryHeld(D, h) ==
    /\ h.parent \in DirNodes(D)
    /\ \E p \in slots(D, h.parent) :
          /\ record_at(D, h.parent, p).name = h.name
          /\ record_at(D, h.parent, p).inode = h.inode
          /\ record_at(D, h.parent, p).type = "file"

\* What the tables and the current directory name exists.
Held ==
    /\ cwd \in DirNodes(disk)
    /\ \A h \in Dir : dirs[h].busy => dirs[h].inode \in DirNodes(disk)
    /\ \A h \in File : files[h].busy => EntryHeld(disk, files[h])

IInv == InOrder(disk) /\ Tables /\ Held /\ FirstEntry

\* The invariant gives the types.
LEMMA IInvTypeOK == IInv => TypeOK
<1> SUFFICES ASSUME IInv PROVE TypeOK
  OBVIOUS
<1>1. disk \in Disk /\ cwd \in DirNodes(disk)
  BY DEF IInv, InOrder, Held
<1>2. cwd \in Inode
  BY <1>1, DiskFields DEF DirNodes
<1> QED BY <1>1, <1>2 DEF IInv, Tables, TypeOK, Handle, DirHandle

\* The invariant gives the record that an open file was opened by.
LEMMA IInvHandleNamesFile == IInv => HandleNamesFile
<1> SUFFICES ASSUME IInv, NEW h \in File, files[h].busy
             PROVE  \E p \in named(disk, files[h].parent, files[h].name) :
                       /\ files[h].parent \in Directories
                       /\ record_at(disk, files[h].parent, p).inode = files[h].inode
                       /\ record_at(disk, files[h].parent, p).type = "file"
  BY DEF HandleNamesFile
<1> PICK d : d = files[h].parent
  OBVIOUS
<1>1. d \in DirNodes(disk) /\ InOrder(disk)
  BY DEF IInv, Held, EntryHeld
<1>2. PICK p \in slots(disk, d) :
          /\ record_at(disk, d, p).name = files[h].name
          /\ record_at(disk, d, p).inode = files[h].inode
          /\ record_at(disk, d, p).type = "file"
  BY DEF IInv, Held, EntryHeld
<1>3. d \in Directories /\ p \in positions(disk, d)
  BY <1>1, DirectoriesAreNodes, InTree DEF InOrder
<1>4. p \in named(disk, d, files[h].name)
  BY <1>2, <1>3 DEF named
<1> QED BY <1>2, <1>3, <1>4

-----------------------------------------------------------------------------
(***************************************************************************)
(* The formatted disk is in order.                                         *)
(***************************************************************************)
\* Record r holds just these fields.
Holds(r, t, n, i, b, k) ==
    /\ r \in Record /\ r.type = t /\ r.name = n /\ r.inode = i /\ r.bytes = b /\ r.blocks = k

\* A record is made of its fields.
LEMMA RecordOf ==
    ASSUME NEW T, NEW N, NEW I, NEW B, NEW t \in T, NEW n \in N, NEW i \in I,
           NEW b \in B, NEW k \in B
    PROVE  [type |-> t, name |-> n, inode |-> i, bytes |-> b, blocks |-> k]
               \in [type : T, name : N, inode : I, bytes : B, blocks : B]
OBVIOUS

\* What a record with its counts set holds.
LEMMA CountedRecord ==
    ASSUME NEW t, t \in {"invalid", "file", "dir"}, NEW n, n \in Name \cup {"", ".", ".."},
           NEW i, i \in Inode, NEW b, b \in Nat, NEW k, k \in Nat
    PROVE  Holds([record(t, n, i) EXCEPT !.bytes = b, !.blocks = k], t, n, i, b, k)
<1>0. PICK a : a = record(t, n, i)
  OBVIOUS
<1>1. Fresh(a, t, n, i)
  BY <1>0, Made
<1>7. PICK r : r = [a EXCEPT !.bytes = b, !.blocks = k]
  OBVIOUS
<1>2. a \in Record
  BY <1>1 DEF Fresh
<1>3. r = [type |-> a.type, name |-> a.name, inode |-> a.inode, bytes |-> b, blocks |-> k]
  BY <1>2, <1>7, NewCounts
<1>4. r = [type |-> t, name |-> n, inode |-> i, bytes |-> b, blocks |-> k]
  BY <1>1, <1>3 DEF Fresh
<1>5. r.type = t /\ r.name = n /\ r.inode = i /\ r.bytes = b /\ r.blocks = k
  BY <1>4
<1>6. r \in Record
  BY <1>4, RecordOf, Zenon DEF Record
<1> QED BY <1>0, <1>5, <1>6, <1>7 DEF Holds

\* The records that the root is formatted with.
LEMMA FormattedRecords ==
    /\ formatted_root \in [0 .. RPB - 1 -> Record]
    /\ Holds(formatted_root[0], "dir", ".", root, RPB, 1)
    /\ Holds(formatted_root[1], "dir", "..", root, RPB, 1)
    /\ \A k \in 2 .. RPB - 1 : formatted_root[k] = record_init
<1> PICK dot : dot = [record("dir", ".", root) EXCEPT !.bytes = RPB, !.blocks = 1]
  OBVIOUS
<1> PICK dotdot : dotdot = [record("dir", "..", root) EXCEPT !.bytes = RPB, !.blocks = 1]
  OBVIOUS
<1>1. /\ Holds(dot, "dir", ".", root, RPB, 1)
      /\ Holds(dotdot, "dir", "..", root, RPB, 1)
  <2>1. root \in Inode /\ RPB \in Nat /\ 1 \in Nat
    BY Sizes
  <2> QED BY <2>1, CountedRecord, Zenon
<1>2. dot \in Record /\ dotdot \in Record /\ record_init \in Record
  BY <1>1, InitRecord DEF Holds
<1>3. formatted_root[0] = dot
  BY Sizes DEF formatted_root
<1>6. formatted_root[1] = dotdot
  BY Sizes DEF formatted_root
<1>7. \A k \in 2 .. RPB - 1 : formatted_root[k] = record_init
  BY Sizes DEF formatted_root
<1>4. /\ formatted_root[0] = dot /\ formatted_root[1] = dotdot
      /\ \A k \in 2 .. RPB - 1 : formatted_root[k] = record_init
  BY <1>3, <1>6, <1>7
<1>5. formatted_root \in [0 .. RPB - 1 -> Record]
  <2>1. \A k \in 0 .. RPB - 1 : k = 0 \/ k = 1 \/ k \in 2 .. RPB - 1
    BY Sizes
  <2>2. \A k \in 0 .. RPB - 1 : formatted_root[k] \in Record
    BY <1>2, <1>4, <2>1
  <2>3. formatted_root = [k \in 0 .. RPB - 1 |-> formatted_root[k]]
    <3> DEFINE e(k) == CASE k = 0 -> [record("dir", ".", root) EXCEPT !.bytes = RPB, !.blocks = 1]
                         [] k = 1 -> [record("dir", "..", root) EXCEPT !.bytes = RPB, !.blocks = 1]
                         [] OTHER -> record_init
    <3>1. formatted_root = [k \in 0 .. RPB - 1 |-> e(k)]
      BY DEF formatted_root
    <3> HIDE DEF e
    <3> QED BY <3>1
  <2> QED BY <2>2, <2>3
<1> QED BY <1>1, <1>4, <1>5

\* The formatted disk is in order and its only directory, the root, is empty.
LEMMA FormattedInOrder ==
    Init => InOrder(disk) /\ DirNodes(disk) = {root} /\ slots(disk, root) = {}
<1> SUFFICES ASSUME Init
             PROVE  InOrder(disk) /\ DirNodes(disk) = {root} /\ slots(disk, root) = {}
  OBVIOUS
<1> PICK D : D = disk
  OBVIOUS
<1>1. /\ D.imap = {root} /\ D.bmap = {0}
      /\ D.ptr = [i \in Inode |-> IF i = root THEN <<0>> ELSE <<>>]
      /\ D.idx = [i \in Inode |-> NULL_BLOCK]
      /\ D.rec = [b \in Block |-> IF b = 0 THEN formatted_root
                                  ELSE [k \in 0 .. RPB - 1 |-> record_init]]
      /\ D = [imap |-> D.imap, bmap |-> D.bmap, ptr |-> D.ptr, idx |-> D.idx, rec |-> D.rec]
  BY DEF Init
<1>2. 0 \in Block /\ root \in Inode /\ root = 0 /\ NULL_BLOCK # 0
  BY Sizes DEF Block, root, NULL_BLOCK
<1>3. /\ D.ptr[root] = <<0>> /\ Len(D.ptr[root]) = 1 /\ DOMAIN D.ptr[root] = {1}
      /\ D.ptr[root][1] = 0 /\ D.idx[root] = NULL_BLOCK /\ D.rec[0] = formatted_root
  BY <1>1, <1>2
<1>4. D \in Disk
  <2>1. D.imap \in SUBSET Inode /\ D.bmap \in SUBSET Block
    BY <1>1, <1>2
  <2>2. D.ptr \in [Inode -> Seq(Block)]
    BY <1>1, <1>2
  <2>3. D.idx \in [Inode -> Block \cup {NULL_BLOCK}]
    BY <1>1
  <2>4. D.rec \in [Block -> [0 .. RPB - 1 -> Record]]
    BY <1>1, FormattedRecords, InitRecord
  <2> QED BY <1>1, <2>1, <2>2, <2>3, <2>4 DEF Disk
<1>5. BlockForm(D, {root})
  <2>1. blocks_of(D, root) = {0}
    <3>1. {D.ptr[root][k] : k \in DOMAIN D.ptr[root]} = {0}
      BY <1>3
    <3>2. {D.idx[root]} \ {NULL_BLOCK} = {}
      BY <1>3
    <3> QED BY <3>1, <3>2 DEF blocks_of
  <2>2. D.bmap = UNION {blocks_of(D, i) : i \in {root}}
    BY <1>1, <2>1
  <2>3. ~ (1 > DIRECT)
    BY Sizes
  <2>4. D.idx[root] # NULL_BLOCK <=> Len(D.ptr[root]) > DIRECT
    BY <1>3, <2>3
  <2>5. \A a \in DOMAIN D.ptr[root] : a = 1 /\ D.idx[root] # D.ptr[root][a]
    BY <1>2, <1>3
  <2>6. \A i, j \in {root} : \A a \in DOMAIN D.ptr[i], b \in DOMAIN D.ptr[j] :
            D.ptr[i][a] = D.ptr[j][b] => i = j /\ a = b
    BY <2>5
  <2>7. \A i, j \in {root} : \A b \in DOMAIN D.ptr[j] : D.idx[i] # D.ptr[j][b]
    BY <2>5
  <2> QED BY <2>2, <2>4, <2>6, <2>7 DEF BlockForm
\* The root directory: "." counts the records of a whole block.
<1>6. \A p \in 0 .. RPB - 1 : record_at(D, root, p) = formatted_root[p]
  <2> SUFFICES ASSUME NEW p \in 0 .. RPB - 1
               PROVE  record_at(D, root, p) = formatted_root[p]
    OBVIOUS
  <2>1. p \div RPB = 0 /\ p % RPB = p
    BY Sizes
  <2>2. record_block(D, root, p) = 0
    BY <1>3, <2>1 DEF record_block
  <2> QED BY <1>3, <2>1, <2>2 DEF record_at
<1>7. /\ record_at(D, root, 0).type = "dir" /\ record_at(D, root, 0).name = "."
      /\ record_at(D, root, 0).inode = root
      /\ record_at(D, root, 0).bytes = RPB /\ record_at(D, root, 0).blocks = 1
      /\ record_at(D, root, 1).type = "dir" /\ record_at(D, root, 1).name = ".."
      /\ record_at(D, root, 1).inode = root
      /\ \A p \in 2 .. RPB - 1 : record_at(D, root, p) = record_init
  BY <1>6, FormattedRecords, Sizes DEF Holds
<1>8. dsize(D, root) = 2 /\ parent_of(D, root) = root /\ slots(D, root) = {}
  <2>1. dsize(D, root) = 2
    BY <1>7, Sizes DEF dsize
  <2> QED BY <1>7, <2>1 DEF parent_of, slots
<1>9. positions(D, root) = 0 .. RPB - 1 /\ Len(D.ptr[root]) * RPB = RPB
  BY <1>3, Sizes DEF positions
<1>10. Listing(D, root)
  <2>1. \A p \in positions(D, root) : record_at(D, root, p).type # "invalid" <=> p < 2
    <3> SUFFICES ASSUME NEW p \in 0 .. RPB - 1
                 PROVE  record_at(D, root, p).type # "invalid" <=> p < 2
      BY <1>9
    <3>1. p = 0 \/ p = 1 \/ p \in 2 .. RPB - 1
      OBVIOUS
    <3> QED BY <1>7, <3>1, InitRecord
  <2>2. \A p, q \in 0 .. 2 - 1 : record_at(D, root, p).name = record_at(D, root, q).name => p = q
    <3>1. \A p \in 0 .. 2 - 1 : p = 0 \/ p = 1
      OBVIOUS
    <3> QED BY <1>7, <3>1
  <2>3. 2 \in 1 .. RPB
    BY Sizes
  <2> QED BY <1>3, <1>7, <1>8, <1>9, <2>1, <2>2, <2>3 DEF Listing
<1>11. DirNodes(D) = {root}
  BY <1>1, <1>3 DEF DirNodes
<1>12. TreeForm(D)
  <2>1. DotDot(D, root)
    BY <1>7, <1>8, <1>11 DEF DotDot
  <2> QED BY <1>1, <1>8, <1>10, <1>11, <2>1 DEF TreeForm
<1> QED BY <1>1, <1>4, <1>5, <1>8, <1>11, <1>12 DEF InOrder

\* A program starts without open files and directories, in the root.
LEMMA Started ==
    ASSUME InOrder(disk), files = no_files, dirs = no_dirs, cwd = root, cwd_string = <<>>
    PROVE  IInv
<1>1. Tables
  <2>1. no_files \in [File -> Handle] /\ no_dirs \in [Dir -> DirHandle]
    <3> PICK r, z, n, f : r = root /\ z = 0 /\ n = "" /\ f = FALSE
      OBVIOUS
    <3>1. r \in Inode /\ z \in Nat /\ n \in Name \cup {""} /\ f \in BOOLEAN
      BY Sizes
    <3>2. [busy |-> f, inode |-> r, parent |-> r, name |-> n] \in Handle
      BY <3>1, Zenon DEF Handle
    <3>3. [busy |-> f, inode |-> r, entry |-> z] \in DirHandle
      BY <3>1, Zenon DEF DirHandle
    <3> QED BY <3>2, <3>3, Zenon DEF no_files, no_dirs
  <2> QED BY <2>1 DEF Tables
<1>2. Held
  BY DEF Held, no_files, no_dirs, InOrder, TreeForm
<1> QED BY <1>1, <1>2, NoFiles DEF IInv

\* The invariant holds of the first program on the formatted disk.
LEMMA IInvInit == Init => IInv
<1> SUFFICES ASSUME Init PROVE IInv
  OBVIOUS
<1>1. files = no_files /\ dirs = no_dirs /\ cwd = root /\ cwd_string = <<>>
  BY DEF Init
<1> QED BY <1>1, FormattedInOrder, Started

-----------------------------------------------------------------------------
(***************************************************************************)
(* The path given to chdir2.                                               *)
(***************************************************************************)
\* What one component makes of the i-node and of the string.
walked(w, part) ==
    LET c == subdir(disk, w.inode, part)
    IN  IF w.inode = NO_DIR THEN w
        ELSE IF c = NO_DIR THEN [w EXCEPT !.inode = NO_DIR]
        ELSE [inode |-> c, string |-> cd_string(w.string, part)]

\* What every component keeps, the loop of chdir2 keeps.
LEMMA Walk ==
    ASSUME NEW i, NEW s, NEW parts, Len(parts) \in Nat, NEW V,
           [inode |-> i, string |-> s] \in V,
           \A k \in 1 .. Len(parts) : \A w \in V : walked(w, parts[k]) \in V
    PROVE  chdir2_walk(i, s, parts) \in V
<1> PICK n \in Nat : n = Len(parts)
  OBVIOUS
<1> PICK w0 \in V : w0 = [inode |-> i, string |-> s]
  OBVIOUS
<1> DEFINE step(k, w) == walked(w, parts[k])
<1>1. \A k \in 1 .. n : \A w \in V : step(k, w) \in V
  OBVIOUS
<1> PICK g : g = [k \in 1 .. n |-> [w \in V |-> step(k, w)]]
  OBVIOUS
<1>2. g \in [1 .. n -> [V -> V]] /\ \A k \in 1 .. n : \A w \in V : g[k][w] = step(k, w)
  <2> HIDE DEF step
  <2> QED BY <1>1
<1>3. PICK f : Iterates(f, n, V, w0, g)
  BY <1>2, Iterate
<1>4. f \in [0 .. n -> V] /\ f[0] = w0 /\ \A k \in 1 .. n : f[k] = step(k, f[k - 1])
  <2>1. f \in [0 .. n -> V] /\ f[0] = w0 /\ \A k \in 1 .. n : f[k] = g[k][f[k - 1]]
    BY <1>3 DEF Iterates
  <2> HIDE DEF step
  <2>2. ASSUME NEW k \in 1 .. n PROVE f[k] = step(k, f[k - 1])
    <3>1. f[k - 1] \in V
      BY <2>1
    <3> QED BY <1>2, <2>1, <3>1
  <2> QED BY <2>1, <2>2
<1> DEFINE F(h) == [k \in 0 .. Len(parts) |->
                       IF k = 0 THEN [inode |-> i, string |-> s]
                       ELSE LET w == h[k - 1]
                                c == subdir(disk, w.inode, parts[k])
                            IN  IF w.inode = NO_DIR THEN w
                                ELSE IF c = NO_DIR THEN [w EXCEPT !.inode = NO_DIR]
                                ELSE [inode |-> c, string |-> cd_string(w.string, parts[k])]]
           W == CHOOSE h : h = F(h)
<1>5. \A h : F(h) = [k \in 0 .. n |-> IF k = 0 THEN w0 ELSE step(k, h[k - 1])]
  BY Zenon DEF walked
<1>6. f = F(f)
  <2> HIDE DEF step, F
  <2>1. f = [k \in 0 .. n |-> IF k = 0 THEN w0 ELSE step(k, f[k - 1])]
    BY <1>4
  <2> QED BY <1>5, <2>1, Zenon
<1>7. W = F(W)
  BY <1>6, Zenon
<1>8. chdir2_walk(i, s, parts) = W[n]
  BY Zenon DEF chdir2_walk
<1> PICK U : U = W
  OBVIOUS
<1> HIDE DEF step, F, W
<1>9. U = [k \in 0 .. n |-> IF k = 0 THEN w0 ELSE step(k, U[k - 1])]
  BY <1>5, <1>7, Zenon
<1> PICK S : S = {k \in 0 .. n : U[k] \in V}
  OBVIOUS
<1>10. 0 \in S
  BY <1>9
<1>11. \A k \in 1 .. n : k - 1 \in S => k \in S
  <2> SUFFICES ASSUME NEW k \in 1 .. n, k - 1 \in S
               PROVE  k \in S
    OBVIOUS
  <2>1. U[k - 1] \in V /\ k \in 0 .. n
    OBVIOUS
  <2>2. U[k] = step(k, U[k - 1])
    BY <1>9
  <2>3. U[k] \in V
    BY <1>1, <2>1, <2>2
  <2> QED BY <2>1, <2>3
<1>12. \A k \in 0 .. n : k \in S
  BY <1>10, <1>11, OneByOne
<1>13. U[n] \in V
  BY <1>12
<1> QED BY <1>8, <1>13, Zenon

-----------------------------------------------------------------------------
(***************************************************************************)
(* The tables and what they name, when a call changes them or the disk.    *)
(***************************************************************************)
\* The table of open files has the form that FirstEntry's proof needs.
LEMMA TablesTable == Tables => Table
<1> SUFFICES ASSUME Tables PROVE Table
  OBVIOUS
<1>1. files \in [File -> Handle]
  BY DEF Tables
<1>2. \A h \in File : files[h] = Entry(h) /\ files[h].name \in Name \cup {""}
  BY <1>1 DEF Handle, Entry
<1> QED BY <1>1, <1>2 DEF Table

\* The invariant gives what TableStep needs of the disk.
LEMMA FirstEntryKept == IInv /\ [Next]_vars => FirstEntry'
<1>1. IInv => Table /\ FirstEntry
  BY TablesTable DEF IInv
<1>2. IInv => HandlesAllocated
  BY <1>1, IInvHandleNamesFile, InOrderTreeShape, NamedAllocated DEF IInv
<1> QED BY <1>1, <1>2, TableStep

\* An entry of the table in use after an entry was opened is the new one or
\* one that was in use.
LEMMA OpenedTyped ==
    ASSUME Tables, empty_handles # {}, NEW i \in Inode, NEW d \in Inode, NEW n \in Name,
           files' = opened(get_empty_file_handle, i, d, n)
    PROVE  /\ files' \in [File -> Handle]
           /\ \A k \in File : files'[k].busy =>
                 \/ files[k].busy /\ files'[k] = files[k]
                 \/ files'[k].inode = i /\ files'[k].parent = d /\ files'[k].name = n
<1> PICK h : h = get_empty_file_handle
  OBVIOUS
<1> PICK b : b = TRUE
  OBVIOUS
<1>1. h \in File
  BY EmptyHandle
<1>0. PICK e : e = [busy |-> b, inode |-> i, parent |-> d, name |-> n]
  OBVIOUS
<1>2. e \in Handle /\ e.inode = i /\ e.parent = d /\ e.name = n
  <2>1. b \in BOOLEAN /\ n \in Name \cup {""}
    OBVIOUS
  <2>2. e \in Handle
    BY <1>0, <2>1, Zenon DEF Handle
  <2> QED BY <1>0, <2>2
<1>3. files' = [files EXCEPT ![h] = e]
  BY <1>0, Zenon DEF opened
<1>4. files \in [File -> Handle]
  BY DEF Tables
<1> QED BY <1>1, <1>2, <1>3, <1>4

\* An entry of the table in use after one was closed was in use before.
LEMMA ClosedTyped ==
    ASSUME Tables, NEW h \in File, files' = [files EXCEPT ![h].busy = FALSE]
    PROVE  /\ files' \in [File -> Handle]
           /\ \A k \in File : files'[k].busy => files[k].busy /\ files'[k] = files[k] /\ k # h
<1>1. files \in [File -> Handle]
  BY DEF Tables
<1>2. PICK e : e = [files[h] EXCEPT !.busy = FALSE]
  OBVIOUS
<1>3. e \in Handle /\ ~ e.busy
  BY <1>1, <1>2 DEF Handle
<1>4. files' = [files EXCEPT ![h] = e]
  BY <1>2, Zenon
<1> QED BY <1>1, <1>3, <1>4

\* After delete2 has looked through the table, no entry in use has its i-node.
LEMMA DeletedClosed ==
    ASSUME Tables, FirstEntry, NEW f, files' = close_deleted(f)
    PROVE  /\ files' \in [File -> Handle]
           /\ \A k \in File : files'[k].busy =>
                 files[k].busy /\ files'[k] = files[k] /\ files[k].inode # f
<1> PICK O : O = {h \in handles_with(f) : files[h].busy}
  OBVIOUS
<1>1. \A h \in File : files[h].busy /\ files[h].inode = f <=> h \in O
  BY DEF handles_with
<1>2. O \subseteq File /\ O \subseteq Nat
  BY FilesAreNumbers DEF handles_with
<1>3. CASE O = {}
  <2>1. files' = files
    BY <1>3, Zenon DEF close_deleted
  <2> QED BY <1>1, <1>3, <2>1 DEF Tables
<1>4. CASE O # {}
  <2> PICK m : m = Min(O)
    OBVIOUS
  <2>1. m \in O
    BY <1>2, <1>4, MinIsLeast
  <2>2. files' = [files EXCEPT ![m].busy = FALSE]
    BY <1>4, Zenon DEF close_deleted
  <2>3. /\ files' \in [File -> Handle]
        /\ \A k \in File : files'[k].busy => files[k].busy /\ files'[k] = files[k] /\ k # m
    BY <1>2, <2>1, <2>2, ClosedTyped
  <2>4. \A k \in O : k = m
    <3> SUFFICES ASSUME NEW k \in O PROVE k = m
      OBVIOUS
    <3>1. /\ k \in File /\ files[k].busy /\ files[k].inode = f
          /\ m \in File /\ files[m].busy /\ files[m].inode = f
      BY <1>1, <1>2, <2>1
    <3>2. k <= m /\ m <= k
      BY <3>1 DEF FirstEntry
    <3> QED BY <1>2, <2>1, <3>2
  <2> QED BY <1>1, <2>3, <2>4
<1> QED BY <1>3, <1>4

-----------------------------------------------------------------------------
\* A name that find_record finds is an entry's.
LEMMA NameFound ==
    ASSUME NEW D, InOrder(D), NEW d \in DirNodes(D), NEW n \in Name,
           NEW pos, pos = find_record(D, d, n), pos # -1
    PROVE  /\ pos \in slots(D, d) /\ record_at(D, d, pos).name = n
           /\ record_at(D, d, pos).type \in {"file", "dir"}
           /\ record_at(D, d, pos).inode \in Inode
<1>1. /\ D \in Disk /\ TreeForm(D) /\ Listing(D, d) /\ DotDot(D, d)
      /\ dsize(D, d) \in Nat /\ dsize(D, d) >= 2 /\ d \in Inode
      /\ slots(D, d) \subseteq positions(D, d)
      /\ \A p \in slots(D, d) : record_at(D, d, p) \in Record
  BY InTree DEF InOrder
<1>2. Found(D, d, n)
  BY <1>1, Finds
<1>3. pos \in 0 .. dsize(D, d) - 1 /\ record_at(D, d, pos).name = n
  BY <1>1, <1>2 DEF Found
<1>4. n # "." /\ n # ".."
  BY NameAssumption
<1>5. pos # 0 /\ pos # 1
  BY <1>1, <1>3, <1>4 DEF Listing, DotDot
<1>6. pos \in slots(D, d)
  BY <1>1, <1>3, <1>5 DEF slots
<1>7. record_at(D, d, pos).type # "invalid" /\ pos \in positions(D, d)
  BY <1>1, <1>3, <1>6 DEF Listing
<1> QED BY <1>1, <1>3, <1>6, <1>7 DEF Record

\* An entry outlives the others that come and go.
LEMMA GrownHeld ==
    ASSUME NEW D, NEW E, NEW d, NEW r, TreeGrown(D, E, d, r), NEW h, EntryHeld(D, h)
    PROVE  EntryHeld(E, h)
<1> PICK i : i = h.parent
  OBVIOUS
<1>1. i \in DirNodes(D)
  BY DEF EntryHeld
<1>2. PICK p \in slots(D, i) : /\ record_at(D, i, p).name = h.name
                               /\ record_at(D, i, p).inode = h.inode
                               /\ record_at(D, i, p).type = "file"
  BY DEF EntryHeld
<1>3. i \in DirNodes(E) /\ p \in slots(E, i) /\ record_at(E, i, p) = record_at(D, i, p)
  BY <1>1, <1>2 DEF TreeGrown
<1> QED BY <1>2, <1>3 DEF EntryHeld

\* An entry other than the removed one is still there.
LEMMA ShrunkHeld ==
    ASSUME NEW D, NEW E, NEW d, NEW pos, NEW f, TreeShrunk(D, E, d, pos, f),
           f = record_at(D, d, pos).inode, f \in DirNodes(D) => slots(D, f) = {},
           NEW h, EntryHeld(D, h), h.inode # f
    PROVE  EntryHeld(E, h)
<1> PICK i : i = h.parent
  OBVIOUS
<1>1. i \in DirNodes(D)
  BY DEF EntryHeld
<1>2. PICK p \in slots(D, i) : /\ record_at(D, i, p).name = h.name
                               /\ record_at(D, i, p).inode = h.inode
                               /\ record_at(D, i, p).type = "file"
  BY DEF EntryHeld
<1>3. i \in DirNodes(E)
  BY <1>1, <1>2 DEF TreeShrunk
<1>4. ~ (i = d /\ p = pos)
  BY <1>2
<1>5. PICK q \in slots(E, i) : record_at(E, i, q) = record_at(D, i, p)
  BY <1>2, <1>3, <1>4 DEF TreeShrunk
<1> QED BY <1>2, <1>3, <1>5 DEF EntryHeld

\* What was held is still held when the tree has got an entry.
LEMMA HeldGrown ==
    ASSUME Held, NEW d, NEW r, TreeGrown(disk, disk', d, r), UNCHANGED <<dirs, cwd>>,
           \A k \in File : files'[k].busy =>
              (files[k].busy /\ files'[k] = files[k]) \/ EntryHeld(disk', files'[k])
    PROVE  Held'
<1>1. cwd' \in DirNodes(disk')
  BY DEF Held, TreeGrown
<1>2. \A h \in Dir : dirs'[h].busy => dirs'[h].inode \in DirNodes(disk')
  BY DEF Held, TreeGrown
<1>3. \A h \in File : files'[h].busy => EntryHeld(disk', files'[h])
  <2> SUFFICES ASSUME NEW h \in File, files'[h].busy PROVE EntryHeld(disk', files'[h])
    OBVIOUS
  <2>1. CASE files[h].busy /\ files'[h] = files[h]
    <3>1. EntryHeld(disk, files'[h])
      BY <2>1 DEF Held
    <3> QED BY <3>1, GrownHeld
  <2>2. CASE EntryHeld(disk', files'[h])
    BY <2>2
  <2> QED BY <2>1, <2>2
<1> QED BY <1>1, <1>2, <1>3 DEF Held

\* What was held is still held when the tree has lost another entry.
LEMMA HeldShrunk ==
    ASSUME Held, NEW d, NEW pos, NEW f, TreeShrunk(disk, disk', d, pos, f),
           f = record_at(disk, d, pos).inode, f \in DirNodes(disk) => slots(disk, f) = {},
           UNCHANGED <<dirs, cwd>>, cwd # f,
           \A h \in Dir : dirs[h].busy => dirs[h].inode # f,
           \A k \in File : files'[k].busy =>
              files[k].busy /\ files'[k] = files[k] /\ files[k].inode # f
    PROVE  Held'
<1>1. cwd' \in DirNodes(disk')
  BY DEF Held, TreeShrunk
<1>2. \A h \in Dir : dirs'[h].busy => dirs'[h].inode \in DirNodes(disk')
  BY DEF Held, TreeShrunk
<1>3. \A h \in File : files'[h].busy => EntryHeld(disk', files'[h])
  <2> SUFFICES ASSUME NEW h \in File, files'[h].busy PROVE EntryHeld(disk', files'[h])
    OBVIOUS
  <2>1. EntryHeld(disk, files'[h]) /\ files'[h].inode # f
    BY DEF Held
  <2> QED BY <2>1, ShrunkHeld
<1> QED BY <1>1, <1>2, <1>3 DEF Held

-----------------------------------------------------------------------------
(***************************************************************************)
(* Every call keeps the disk in order and what the tables name.            *)
(***************************************************************************)
Kept == InOrder(disk) /\ Tables /\ Held

\* The directories that a path leads to are the directories there are.
LEMMA PathsAreNodes ==
    ASSUME Kept
    PROVE  Paths = DirNodes(disk)
BY Reach DEF Kept, InOrder, TreeForm, Held, Paths

\* The bound on allocating calls is the room that the disk lemmas ask for.
LEMMA RoomHasFree ==
    ASSUME NEW d, NEW k, Room(d, k)
    PROVE  Inode \ disk.imap # {} /\ HasFree(disk, append_needs(disk, d) + k)
BY DEF Room, HasFree, free_blocks

\* create2: a new file, which is open.
LEMMA create2Keeps ==
    ASSUME Kept, NEW d \in DirNodes(disk), NEW n \in Name, create2(d, n)
    PROVE  Kept' /\ \E r : /\ r.name = n /\ r.type = "file" /\ r.inode \in Inode
                           /\ files' = opened(get_empty_file_handle, r.inode, d, n)
                           /\ TreeGrown(disk, disk', d, r)
<1> PICK c : c = alloc_inode(disk)
  OBVIOUS
<1>0. PICK r : r = record("file", n, c)
  OBVIOUS
<1>1. /\ InOrder(disk) /\ Tables /\ Held /\ d \in Inode
      /\ find_record(disk, d, n) = -1 /\ empty_handles # {}
      /\ UNCHANGED <<dirs, cwd, cwd_string>>
      /\ files' = opened(get_empty_file_handle, c, d, n)
      /\ disk' = inode_init(append_record([disk EXCEPT !.imap = @ \cup {c}], d,
                                          record("file", n, c)), c)
  BY DiskFields DEF create2, Kept, InOrder, DirNodes
<1>2. Inode \ disk.imap # {} /\ HasFree(disk, append_needs(disk, d))
  <2>1. Room(d, 0)
    BY DEF create2
  <2>2. Cardinality(Block \ disk.bmap) >= append_needs(disk, d) + 0
    BY <2>1 DEF Room
  <2>3. append_needs(disk, d) \in {0, 1, 2}
    BY DEF append_needs
  <2> QED BY <2>1, <2>2, <2>3 DEF Room, HasFree, free_blocks
<1>3. InOrder(disk') /\ TreeGrown(disk, disk', d, r) /\ c \in Inode
  BY <1>0, <1>1, <1>2, FileCreated
<1>4. Fresh(r, "file", n, c)
  BY <1>0, <1>3, MadeRecords
<1>5. /\ files' \in [File -> Handle]
      /\ \A k \in File : files'[k].busy =>
            \/ files[k].busy /\ files'[k] = files[k]
            \/ files'[k].inode = c /\ files'[k].parent = d /\ files'[k].name = n
  BY <1>1, <1>3, OpenedTyped
<1>6. \A k \in File : files'[k].inode = c /\ files'[k].parent = d /\ files'[k].name = n
                         => EntryHeld(disk', files'[k])
  <2>1. /\ d \in DirNodes(disk') /\ dsize(disk, d) \in slots(disk', d)
        /\ record_at(disk', d, dsize(disk, d)) = r
    BY <1>3 DEF TreeGrown
  <2>2. r.name = n /\ r.inode = c /\ r.type = "file"
    BY <1>4 DEF Fresh
  <2> QED BY <2>1, <2>2 DEF EntryHeld
<1>7. Held'
  <2>1. \A k \in File : files'[k].busy =>
              (files[k].busy /\ files'[k] = files[k]) \/ EntryHeld(disk', files'[k])
    BY <1>5, <1>6
  <2> QED BY <1>1, <1>3, <2>1, HeldGrown
<1>8. Tables'
  BY <1>1, <1>5 DEF Tables
<1>9. InOrder(disk)'
  BY <1>3
<1>10. r.name = n /\ r.type = "file" /\ r.inode = c
  BY <1>4 DEF Fresh
<1>11. r.inode \in Inode /\ files' = opened(get_empty_file_handle, r.inode, d, n)
  BY <1>1, <1>3, <1>10
<1> QED BY <1>3, <1>7, <1>8, <1>9, <1>10, <1>11 DEF Kept

\* mkdir2: a new directory.
LEMMA mkdir2Keeps ==
    ASSUME Kept, NEW d \in DirNodes(disk), NEW n \in Name, mkdir2(d, n)
    PROVE  Kept' /\ \E r : /\ r.name = n /\ r.type = "dir" /\ r.inode \in Inode
                           /\ TreeGrown(disk, disk', d, r)
<1> PICK c : c = alloc_inode(disk)
  OBVIOUS
<1>0. PICK r : r = record("dir", n, c)
  OBVIOUS
<1>1. /\ InOrder(disk) /\ Tables /\ Held
      /\ find_record(disk, d, n) = -1
      /\ UNCHANGED <<files, dirs, cwd, cwd_string>>
      /\ disk' = create_dir(disk, d, n)
  BY DEF mkdir2, Kept
<1>2. Inode \ disk.imap # {} /\ HasFree(disk, append_needs(disk, d) + 1)
  BY RoomHasFree DEF mkdir2
<1>3. InOrder(disk') /\ TreeGrown(disk, disk', d, r) /\ c \in Inode
  BY <1>0, <1>1, <1>2, DirCreated
<1>4. r.name = n /\ r.type = "dir" /\ r.inode \in Inode
  BY <1>0, <1>3, MadeRecords DEF Fresh
<1>5. Held'
  <2>1. \A k \in File : files'[k].busy =>
              (files[k].busy /\ files'[k] = files[k]) \/ EntryHeld(disk', files'[k])
    BY <1>1
  <2> QED BY <1>1, <1>3, <2>1, HeldGrown
<1>6. Tables'
  BY <1>1 DEF Tables
<1>7. InOrder(disk)'
  BY <1>3
<1> QED BY <1>3, <1>4, <1>5, <1>6, <1>7 DEF Kept

\* A file is no directory, and delete2 closes it.
LEMMA delete2Keeps ==
    ASSUME Kept, FirstEntry, NEW d \in DirNodes(disk), NEW n \in Name, delete2(d, n)
    PROVE  Kept' /\ \E pos \in slots(disk, d) :
                       /\ record_at(disk, d, pos).name = n
                       /\ record_at(disk, d, pos).type = "file"
                       /\ TreeShrunk(disk, disk', d, pos, record_at(disk, d, pos).inode)
<1> PICK pos : pos = find_record(disk, d, n)
  OBVIOUS
<1> PICK f : f = record_at(disk, d, pos).inode
  OBVIOUS
<1>1. /\ InOrder(disk) /\ Tables /\ Held /\ pos # -1
      /\ UNCHANGED <<dirs, cwd, cwd_string>>
      /\ record_at(disk, d, pos).type = "file"
      /\ files' = close_deleted(f)
      /\ disk' = remove_record(deep_free_inode(disk, f), d, pos)
  BY DEF delete2, Kept
<1>2. pos \in slots(disk, d) /\ record_at(disk, d, pos).name = n
  BY <1>1, NameFound
<1>3. f \notin DirNodes(disk)
  BY <1>1, <1>2, InTree DEF InOrder
<1>4. InOrder(disk') /\ TreeShrunk(disk, disk', d, pos, f)
  <2>1. f \in DirNodes(disk) => dsize(disk, f) = 2
    BY <1>3
  <2> QED BY <1>1, <1>2, <2>1, EntryDeleted
<1>5. /\ files' \in [File -> Handle]
      /\ \A k \in File : files'[k].busy =>
            files[k].busy /\ files'[k] = files[k] /\ files[k].inode # f
  BY <1>1, DeletedClosed
<1>6. Held'
  <2>1. cwd # f /\ \A h \in Dir : dirs[h].busy => dirs[h].inode # f
    BY <1>1, <1>3 DEF Held
  <2> QED BY <1>1, <1>3, <1>4, <1>5, <2>1, HeldShrunk
<1>7. Tables'
  BY <1>1, <1>5 DEF Tables
<1>8. InOrder(disk)'
  BY <1>4
<1> QED BY <1>1, <1>2, <1>4, <1>6, <1>7, <1>8 DEF Kept

\* What rmdir2 does when its name is that of a directory in order: the
\* directory has no entries.
LEMMA rmdir2Removes ==
    ASSUME NEW D, InOrder(D), NEW d \in DirNodes(D), NEW n \in Name,
           find_record(D, d, n) # -1, record_at(D, d, find_record(D, d, n)).type = "dir",
           NEW E, E \in remove_dir(D, d, n)
    PROVE  \E pos \in slots(D, d) :
              /\ pos = find_record(D, d, n) /\ record_at(D, d, pos).name = n
              /\ record_at(D, d, pos).inode \in DirNodes(D)
              /\ slots(D, record_at(D, d, pos).inode) = {}
              /\ InOrder(E)
              /\ TreeShrunk(D, E, d, pos, record_at(D, d, pos).inode)
<1> PICK pos : pos = find_record(D, d, n)
  OBVIOUS
<1> PICK f : f = record_at(D, d, pos).inode
  OBVIOUS
<1>1. pos \in slots(D, d) /\ record_at(D, d, pos).name = n
  BY NameFound
<1>2. f \in DirNodes(D)
  BY <1>1, InTree DEF InOrder
<1>3. TRUE \in dir_is_empty(D, f) /\ E = remove_record(deep_free_inode(D, f), d, pos)
  BY DEF remove_dir
<1>4. dsize(D, f) = 2 /\ slots(D, f) = {}
  <2>1. /\ dir_is_empty(D, f) = {record_at(D, f, 2).type = "invalid"}
        /\ record_at(D, f, 2).type = "invalid" <=> dsize(D, f) = 2
        /\ dsize(D, f) = 2 <=> slots(D, f) = {}
    BY <1>2, EmptyDir
  <2>2. record_at(D, f, 2).type = "invalid"
    <3>1. \A b \in BOOLEAN : TRUE \in {b} => b
      BY Zenon
    <3>2. TRUE \in {record_at(D, f, 2).type = "invalid"}
      BY <1>3, <2>1, Zenon
    <3> QED BY <3>2, Zenon
  <2> QED BY <2>1, <2>2
<1>5. InOrder(E) /\ TreeShrunk(D, E, d, pos, f)
  <2>1. f \in DirNodes(D) => dsize(D, f) = 2
    BY <1>4
  <2> QED BY <1>1, <1>3, <2>1, EntryDeleted
<1> QED BY <1>1, <1>2, <1>4, <1>5

\* rmdir2, called carefully: the directory it removes is empty and not in use.
LEMMA rmdir2Keeps ==
    ASSUME CarefulRmdir, Kept, NEW d \in DirNodes(disk), NEW n \in Name, rmdir2(d, n)
    PROVE  Kept' /\ \E pos \in slots(disk, d) :
                       /\ record_at(disk, d, pos).name = n
                       /\ record_at(disk, d, pos).type = "dir"
                       /\ slots(disk, record_at(disk, d, pos).inode) = {}
                       /\ record_at(disk, d, pos).inode # cwd
                       /\ \A h \in Dir : dirs[h].busy => dirs[h].inode # record_at(disk, d, pos).inode
                       /\ TreeShrunk(disk, disk', d, pos, record_at(disk, d, pos).inode)
<1>1. /\ InOrder(disk) /\ Tables /\ Held /\ find_record(disk, d, n) # -1
      /\ UNCHANGED <<files, dirs, cwd, cwd_string>>
      /\ record_at(disk, d, find_record(disk, d, n)).type = "dir"
      /\ record_at(disk, d, find_record(disk, d, n)).inode # cwd
      /\ \A h \in Dir : dirs[h].busy =>
            dirs[h].inode # record_at(disk, d, find_record(disk, d, n)).inode
      /\ disk' \in remove_dir(disk, d, n)
  BY DEF rmdir2, Careful, Kept
<1>2. PICK pos \in slots(disk, d) :
              /\ pos = find_record(disk, d, n) /\ record_at(disk, d, pos).name = n
              /\ record_at(disk, d, pos).inode \in DirNodes(disk)
              /\ slots(disk, record_at(disk, d, pos).inode) = {}
              /\ InOrder(disk')
              /\ TreeShrunk(disk, disk', d, pos, record_at(disk, d, pos).inode)
  BY <1>1, rmdir2Removes
<1> PICK f : f = record_at(disk, d, pos).inode
  OBVIOUS
<1>3. Held'
  <2>1. \A h \in File : files[h].busy => files[h].inode # f
    <3> SUFFICES ASSUME NEW h \in File, files[h].busy, files[h].inode = f PROVE FALSE
      OBVIOUS
    <3> PICK i : i = files[h].parent
      OBVIOUS
    <3>1. i \in DirNodes(disk) /\ disk \in Disk /\ TreeForm(disk)
      BY <1>1 DEF Held, EntryHeld, InOrder
    <3>2. PICK p \in slots(disk, i) : /\ record_at(disk, i, p).inode = f
                                      /\ record_at(disk, i, p).type = "file"
      BY <1>1 DEF Held, EntryHeld
    <3>3. record_at(disk, i, p).type = "dir"
      BY <1>2, <3>1, <3>2, InTree
    <3> QED BY <3>2, <3>3
  <2>2. cwd # f /\ \A h \in Dir : dirs[h].busy => dirs[h].inode # f
    BY <1>1, <1>2
  <2>3. \A k \in File : files'[k].busy =>
              files[k].busy /\ files'[k] = files[k] /\ files[k].inode # f
    BY <1>1, <2>1
  <2> QED BY <1>1, <1>2, <2>2, <2>3, HeldShrunk
<1>4. Tables'
  BY <1>1 DEF Tables
<1>5. InOrder(disk)'
  BY <1>2
<1> QED BY <1>1, <1>2, <1>3, <1>4, <1>5 DEF Kept

\* A call that leaves the disk alone keeps it in order and what it holds.
LEMMA InMemory ==
    ASSUME Kept, UNCHANGED disk, Tables', cwd' \in DirNodes(disk),
           \A h \in Dir : dirs'[h].busy => dirs'[h].inode \in DirNodes(disk),
           \A h \in File : files'[h].busy => EntryHeld(disk, files'[h])
    PROVE  Kept'
<1>1. Held'
  BY DEF Held
<1>2. InOrder(disk)'
  BY DEF Kept
<1> QED BY <1>1, <1>2 DEF Kept

\* open2: the entry it opens is that of a file.
LEMMA open2Keeps ==
    ASSUME Kept, NEW d \in DirNodes(disk), NEW n \in Name, open2(d, n)
    PROVE  Kept'
<1> PICK pos : pos = find_record(disk, d, n)
  OBVIOUS
<1> PICK f : f = record_at(disk, d, pos).inode
  OBVIOUS
<1>1. /\ InOrder(disk) /\ Tables /\ Held /\ pos # -1 /\ d \in Inode
      /\ UNCHANGED <<disk, dirs, cwd, cwd_string>>
      /\ record_at(disk, d, pos).type # "dir" /\ empty_handles # {}
      /\ files' = opened(get_empty_file_handle, f, d, n)
  BY DiskFields DEF open2, Kept, InOrder, DirNodes
<1>2. /\ pos \in slots(disk, d) /\ record_at(disk, d, pos).name = n
      /\ record_at(disk, d, pos).type = "file" /\ f \in Inode
  BY <1>1, NameFound
<1>3. /\ files' \in [File -> Handle]
      /\ \A k \in File : files'[k].busy =>
            \/ files[k].busy /\ files'[k] = files[k]
            \/ files'[k].inode = f /\ files'[k].parent = d /\ files'[k].name = n
  BY <1>1, <1>2, OpenedTyped
<1>4. ASSUME NEW k \in File, files'[k].busy PROVE EntryHeld(disk, files'[k])
  <2>1. CASE files[k].busy /\ files'[k] = files[k]
    BY <1>1, <2>1 DEF Held
  <2>2. CASE files'[k].inode = f /\ files'[k].parent = d /\ files'[k].name = n
    BY <1>2, <2>2 DEF EntryHeld
  <2> QED BY <1>3, <1>4, <2>1, <2>2
<1>5. Tables'
  BY <1>1, <1>3 DEF Tables
<1>6. /\ cwd' \in DirNodes(disk)
      /\ \A h \in Dir : dirs'[h].busy => dirs'[h].inode \in DirNodes(disk)
  BY <1>1 DEF Held
<1> QED BY <1>1, <1>4, <1>5, <1>6, InMemory

\* close2: one entry of the table less.
LEMMA close2Keeps ==
    ASSUME Kept, NEW h \in File, close2(h)
    PROVE  Kept'
<1>1. /\ Tables /\ Held /\ UNCHANGED <<disk, dirs, cwd, cwd_string>>
      /\ files' = [files EXCEPT ![h].busy = FALSE]
  BY DEF close2, Kept
<1>2. /\ files' \in [File -> Handle]
      /\ \A k \in File : files'[k].busy => files[k].busy /\ files'[k] = files[k] /\ k # h
  BY <1>1, ClosedTyped
<1>3. Tables'
  BY <1>1, <1>2 DEF Tables
<1>4. /\ cwd' \in DirNodes(disk)
      /\ \A k \in Dir : dirs'[k].busy => dirs'[k].inode \in DirNodes(disk)
      /\ \A k \in File : files'[k].busy => EntryHeld(disk, files'[k])
  BY <1>1, <1>2 DEF Held
<1> QED BY <1>1, <1>3, <1>4, InMemory

\* The three calls on open directories keep the others, and a directory that
\* stays open stays at its entry or goes to the next.
DirsMoved(h, S) ==
    /\ dirs' \in [Dir -> DirHandle]
    /\ \A k \in Dir \ {h} : dirs'[k] = dirs[k]
    /\ dirs'[h].busy => dirs'[h].inode \in S

\* opendir2 takes a free entry.
LEMMA opendir2Moves ==
    ASSUME Tables, NEW d \in Inode, opendir2(d)
    PROVE  \E h \in Dir : ~ dirs[h].busy /\ DirsMoved(h, {d})
<1> PICK h : h = Min(free_dir_entries)
  OBVIOUS
<1>1. h \in Dir /\ ~ dirs[h].busy
  <2>1. free_dir_entries \subseteq Nat /\ free_dir_entries # {}
    BY SizesAssumption DEF opendir2, free_dir_entries, Dir
  <2>2. h \in free_dir_entries
    BY <2>1, MinIsLeast
  <2> QED BY <2>2 DEF free_dir_entries
<1> PICK b : b = TRUE
  OBVIOUS
<1> PICK z : z = 0
  OBVIOUS
<1>0. PICK e : e = [busy |-> b, inode |-> d, entry |-> z]
  OBVIOUS
<1>2. e \in DirHandle /\ e.inode = d
  <2>1. b \in BOOLEAN /\ z \in Nat
    OBVIOUS
  <2>2. e \in DirHandle
    BY <1>0, <2>1, Zenon DEF DirHandle
  <2> QED BY <1>0, <2>2
<1>3. dirs' = [dirs EXCEPT ![h] = e]
  BY <1>0, Zenon DEF opendir2
<1>4. dirs \in [Dir -> DirHandle]
  BY DEF Tables
<1>5. /\ dirs' \in [Dir -> DirHandle]
      /\ \A k \in Dir \ {h} : dirs'[k] = dirs[k]
      /\ dirs'[h] = e
  BY <1>1, <1>2, <1>3, <1>4
<1> QED BY <1>1, <1>2, <1>5 DEF DirsMoved

\* readdir2 goes on by one entry.
LEMMA readdir2Moves ==
    ASSUME Tables, NEW h \in Dir, readdir2(h)
    PROVE  DirsMoved(h, {dirs[h].inode}) /\ dirs[h].entry \in Nat /\ dirs'[h].entry = dirs[h].entry + 1
<1>1. dirs \in [Dir -> DirHandle]
  BY DEF Tables
<1>2. dirs[h].busy \in BOOLEAN /\ dirs[h].inode \in Inode /\ dirs[h].entry \in Nat /\ dirs[h] \in DirHandle
  BY <1>1 DEF DirHandle
<1>0. PICK e : e = [dirs[h] EXCEPT !.entry = @ + 1]
  OBVIOUS
<1>3. e \in DirHandle /\ e.inode = dirs[h].inode /\ e.entry = dirs[h].entry + 1
  BY <1>0, <1>2 DEF DirHandle
<1>4. dirs' = [dirs EXCEPT ![h] = e]
  BY <1>0, Zenon DEF readdir2
<1>5. /\ dirs' \in [Dir -> DirHandle]
      /\ \A k \in Dir \ {h} : dirs'[k] = dirs[k]
      /\ dirs'[h] = e
  BY <1>1, <1>3, <1>4
<1> QED BY <1>2, <1>3, <1>5 DEF DirsMoved

\* closedir2 frees its entry.
LEMMA closedir2Moves ==
    ASSUME Tables, NEW h \in Dir, closedir2(h)
    PROVE  DirsMoved(h, {}) /\ ~ dirs'[h].busy
<1>1. dirs \in [Dir -> DirHandle]
  BY DEF Tables
<1>2. PICK e : e = [dirs[h] EXCEPT !.busy = FALSE]
  OBVIOUS
<1>3. e \in DirHandle /\ ~ e.busy
  BY <1>1, <1>2 DEF DirHandle
<1>4. dirs' = [dirs EXCEPT ![h] = e]
  BY <1>2, Zenon DEF closedir2
<1>5. /\ dirs' \in [Dir -> DirHandle]
      /\ \A k \in Dir \ {h} : dirs'[k] = dirs[k]
      /\ dirs'[h] = e
  BY <1>1, <1>3, <1>4
<1> QED BY <1>3, <1>5 DEF DirsMoved

\* An entry for a directory that exists may be taken.
LEMMA DirsMovedKeep ==
    ASSUME Kept, UNCHANGED <<disk, files, cwd, cwd_string>>,
           NEW h \in Dir, NEW S, S \subseteq DirNodes(disk), DirsMoved(h, S)
    PROVE  Kept'
<1>1. Tables'
  BY DEF Kept, Tables, DirsMoved
<1>2. \A k \in Dir : dirs'[k].busy => dirs'[k].inode \in DirNodes(disk)
  BY DEF Kept, Held, DirsMoved
<1>3. /\ cwd' \in DirNodes(disk)
      /\ \A k \in File : files'[k].busy => EntryHeld(disk, files'[k])
  BY DEF Kept, Held
<1> QED BY <1>1, <1>2, <1>3, InMemory

\* opendir2, readdir2 and closedir2.
LEMMA DirectoryCallsKeep ==
    ASSUME Kept,
           \/ \E d \in DirNodes(disk) : opendir2(d)
           \/ \E h \in Dir : readdir2(h) \/ closedir2(h)
    PROVE  Kept'
<1>1. Tables /\ Held /\ DirNodes(disk) \subseteq Inode
  BY DiskFields DEF Kept, InOrder, DirNodes
<1>2. ASSUME NEW d \in DirNodes(disk), opendir2(d) PROVE Kept'
  <2>1. PICK h \in Dir : DirsMoved(h, {d})
    BY <1>1, <1>2, opendir2Moves
  <2>2. {d} \subseteq DirNodes(disk) /\ UNCHANGED <<disk, files, cwd, cwd_string>>
    BY <1>2 DEF opendir2
  <2> QED BY <2>1, <2>2, DirsMovedKeep
<1>3. ASSUME NEW h \in Dir, readdir2(h) PROVE Kept'
  <2>1. {dirs[h].inode} \subseteq DirNodes(disk) /\ UNCHANGED <<disk, files, cwd, cwd_string>>
    BY <1>1, <1>3 DEF readdir2, Held
  <2> QED BY <1>1, <1>3, <2>1, readdir2Moves, DirsMovedKeep
<1>4. ASSUME NEW h \in Dir, closedir2(h) PROVE Kept'
  <2>1. {} \subseteq DirNodes(disk) /\ UNCHANGED <<disk, files, cwd, cwd_string>>
    BY <1>4 DEF closedir2
  <2> QED BY <1>1, <1>4, <2>1, closedir2Moves, DirsMovedKeep
<1> QED BY <1>2, <1>3, <1>4

\* The next program starts on a disk that is in order.
LEMMA restartKeeps ==
    ASSUME Kept, restart
    PROVE  Kept'
<1>1. UNCHANGED disk /\ InOrder(disk) /\ root \in DirNodes(disk)
  BY DEF restart, Kept, InOrder, TreeForm
<1>2. files' = no_files /\ dirs' = no_dirs /\ cwd' = root /\ cwd_string' = <<>>
  BY DEF restart
<1>3. InOrder(disk)'
  BY <1>1
<1>4. (InOrder(disk) /\ files = no_files /\ dirs = no_dirs /\ cwd = root /\ cwd_string = <<>> => IInv)'
  BY Started, PTL
<1>5. IInv'
  BY <1>2, <1>3, <1>4
<1> QED BY <1>5 DEF IInv, Kept

-----------------------------------------------------------------------------
\* The components of a path given to chdir2.
Parts(s, N) == /\ Len(s) \in Nat
               /\ \A k \in 1 .. Len(s) : s[k] \in N

\* What the components of a path may be.
LEMMA PathParts ==
    ASSUME NEW p \in Pathname
    PROVE  /\ Parts(p.parts, Name \cup {".", "..", ""})
           /\ PlainPaths => ~ p.absolute /\ Parts(p.parts, Name \cup {".", ".."})
<1>7. PICK N : N = Name \cup {".", ".."}
  OBVIOUS
<1>8. PICK plain : plain = UNION {[1 .. n -> N] : n \in 1 .. MaxPath}
  OBVIOUS
<1>9. PICK slashed : slashed = {Append(q, "") : q \in plain} \cup {<<"">>}
  OBVIOUS
<1>1. Pathname = IF PlainPaths THEN [absolute : {FALSE}, parts : plain]
                 ELSE [absolute : BOOLEAN, parts : plain \cup slashed]
  BY <1>7, <1>8, <1>9, ZenonT(60) DEF Pathname
<1>0. MaxPath \in Nat
  BY PathAssumption, Zenon
<1>2. ASSUME NEW s \in plain PROVE s \in Seq(N) /\ Parts(s, N)
  <2>1. PICK n \in 1 .. MaxPath : s \in [1 .. n -> N]
    BY <1>8
  <2>2. n \in Nat
    BY <1>0
  <2>3. s \in Seq(N)
    BY <2>1, <2>2, SeqDef
  <2>4. Len(s) = n
    BY <2>1, <2>2, <2>3
  <2> QED BY <2>1, <2>2, <2>3, <2>4 DEF Parts
<1>10. PICK e : e = ""
  OBVIOUS
<1> PICK M : M = N \cup {e}
  OBVIOUS
<1>6. slashed = {Append(q, e) : q \in plain} \cup {<<e>>}
  BY <1>9, <1>10, Zenon
<1>3. ASSUME NEW s \in slashed PROVE Parts(s, M)
  <2>1. CASE s = <<e>>
    BY <2>1 DEF Parts
  <2>2. ASSUME NEW q \in plain, s = Append(q, e) PROVE Parts(s, M)
    <3>0. q \in Seq(N)
      BY <1>2
    <3>1. q \in Seq(M) /\ e \in M
      BY <3>0, SeqMonotonic
    <3>2. s \in Seq(M)
      BY <2>2, <3>1
    <3> QED BY <3>2 DEF Parts
  <2> QED BY <1>6, <2>1, <2>2
<1>4. CASE PlainPaths
  <2>1. p.absolute = FALSE /\ p.parts \in plain
    BY <1>1, <1>4
  <2>2. Parts(p.parts, N)
    BY <1>2, <2>1
  <2>3. Parts(p.parts, Name \cup {".", ".."})
    BY <1>7, <2>2
  <2> QED BY <2>1, <2>3 DEF Parts
<1>5. CASE ~ PlainPaths
  <2>1. p.parts \in plain \cup slashed
    BY <1>1, <1>5
  <2>2. Parts(p.parts, N) \/ Parts(p.parts, M)
    BY <1>2, <1>3, <2>1
  <2>3. N \subseteq Name \cup {".", "..", ""} /\ M \subseteq Name \cup {".", "..", ""}
    BY <1>7, <1>10
  <2> QED BY <1>5, <2>2, <2>3 DEF Parts
<1> QED BY <1>4, <1>5

\* The string stays a sequence of names.
LEMMA CdString ==
    ASSUME NEW N, NEW s \in Seq(N), NEW part, part \in N \cup {".", ".."}
    PROVE  cd_string(s, part) \in Seq(N)
<1>1. CASE part = ".."
  <2>1. cd_string(s, part) = IF s = <<>> THEN s ELSE SubSeq(s, 1, Len(s) - 1)
    BY <1>1, Zenon DEF cd_string
  <2>2. s # <<>> => SubSeq(s, 1, Len(s) - 1) \in Seq(N)
    OBVIOUS
  <2> QED BY <2>1, <2>2
<1>2. CASE part # ".." /\ (part = "." \/ (part = "" /\ s = <<>>))
  <2>1. cd_string(s, part) = s
    BY <1>2 DEF cd_string
  <2> QED BY <2>1
<1>3. CASE part \in N /\ part # ".." /\ ~ (part = "." \/ (part = "" /\ s = <<>>))
  <2>1. cd_string(s, part) = Append(s, part)
    BY <1>3 DEF cd_string
  <2>2. part \in N
    BY <1>3
  <2> QED BY <2>1, <2>2, AppendProperties
<1> QED BY <1>1, <1>2, <1>3

\* A pair of an i-node and a string.
LEMMA WalkedPair ==
    ASSUME NEW I, NEW S, NEW i, i \in I, NEW s, s \in S
    PROVE  [inode |-> i, string |-> s] \in [inode : I, string : S]
OBVIOUS

\* chdir2 ends in a directory.
LEMMA chdir2Keeps ==
    ASSUME Kept, NEW p \in Pathname, chdir2(p)
    PROVE  Kept'
<1> PICK N : N = Name \cup {""}
  OBVIOUS
<1> PICK I : I = DirNodes(disk) \cup {NO_DIR}
  OBVIOUS
<1> PICK V : V = [inode : I, string : Seq(N)]
  OBVIOUS
<1> PICK start : start = IF p.absolute THEN root ELSE cwd
  OBVIOUS
<1> PICK W : W = chdir2_walk(start, cwd_string, p.parts)
  OBVIOUS
<1>1. /\ disk \in Disk /\ TreeForm(disk) /\ root \in DirNodes(disk) /\ cwd \in DirNodes(disk)
      /\ Tables /\ Held /\ cwd_string \in Seq(N)
  BY DEF Kept, InOrder, TreeForm, Held, Tables
<1>2. /\ UNCHANGED <<disk, files, dirs>>
      /\ W.inode # NO_DIR /\ cwd' = W.inode /\ cwd_string' = W.string
  BY Zenon DEF chdir2
<1>3. [inode |-> start, string |-> cwd_string] \in V
  <2>1. start \in I
    BY <1>1
  <2> QED BY <1>1, <2>1, Zenon
<1>4. Parts(p.parts, Name \cup {".", "..", ""})
  BY PathParts
<1>5. ASSUME NEW k \in 1 .. Len(p.parts), NEW w, w \in V
      PROVE  walked(w, p.parts[k]) \in V
  <2> PICK part : part = p.parts[k]
    OBVIOUS
  <2> PICK c : c = subdir(disk, w.inode, part)
    OBVIOUS
  <2>1. part \in N \cup {".", ".."}
    BY <1>4 DEF Parts
  <2>2. w.inode \in I /\ w.string \in Seq(N)
    BY <1>5
  <2>3. w = [inode |-> w.inode, string |-> w.string]
    BY <1>5
  <2>4. CASE w.inode = NO_DIR
    <3>1. walked(w, part) = w
      BY <2>4, Zenon DEF walked
    <3> QED BY <1>5, <3>1
  <2>5. CASE w.inode # NO_DIR /\ c = NO_DIR
    <3>1. walked(w, part) = [w EXCEPT !.inode = NO_DIR]
      BY <2>5, Zenon DEF walked
    <3>2. NO_DIR \in I
      OBVIOUS
    <3> QED BY <1>5, <3>1, <3>2
  <2>6. CASE w.inode # NO_DIR /\ c # NO_DIR
    <3>1. walked(w, part) = [inode |-> c, string |-> cd_string(w.string, part)]
      BY <2>6, Zenon DEF walked
    <3>2. w.inode \in DirNodes(disk)
      BY <2>2, <2>6
    <3>3. c \in I
      BY <1>1, <3>2, Subdir
    <3>4. cd_string(w.string, part) \in Seq(N)
      BY <2>1, <2>2, CdString
    <3>5. [inode |-> c, string |-> cd_string(w.string, part)] \in V
      BY <3>3, <3>4, WalkedPair
    <3> QED BY <3>1, <3>5, Zenon
  <2> QED BY <2>4, <2>5, <2>6
<1>6. W \in V
  <2>1. Len(p.parts) \in Nat
    BY <1>4 DEF Parts
  <2>2. \A k \in 1 .. Len(p.parts) : \A w \in V : walked(w, p.parts[k]) \in V
    BY <1>5
  <2> QED BY <1>3, <2>1, <2>2, Walk
<1>7. W.inode \in I /\ W.string \in Seq(N)
  BY <1>6
<1>8. cwd' \in DirNodes(disk) /\ cwd_string' \in Seq(N)
  BY <1>2, <1>7
<1>9. Tables'
  BY <1>1, <1>2, <1>8 DEF Tables
<1>10. /\ \A h \in Dir : dirs'[h].busy => dirs'[h].inode \in DirNodes(disk)
       /\ \A h \in File : files'[h].busy => EntryHeld(disk, files'[h])
  BY <1>1, <1>2 DEF Held
<1> QED BY <1>2, <1>8, <1>9, <1>10, InMemory

-----------------------------------------------------------------------------
\* Every call, made as careful programs make it, keeps the invariant.
LEMMA IInvStep ==
    ASSUME CarefulRmdir
    PROVE  IInv /\ [Next]_vars => IInv'
<1> SUFFICES ASSUME IInv, [Next]_vars PROVE IInv'
  OBVIOUS
<1>1. Kept /\ FirstEntry /\ Paths = DirNodes(disk)
  BY PathsAreNodes DEF IInv, Kept
<1>2. FirstEntry'
  BY FirstEntryKept
<1>3. Kept'
  <2>1. ASSUME NEW d \in DirNodes(disk), NEW n \in Name, create2(d, n) PROVE Kept'
    BY <1>1, <2>1, create2Keeps
  <2>2. ASSUME NEW d \in DirNodes(disk), NEW n \in Name, delete2(d, n) PROVE Kept'
    BY <1>1, <2>2, delete2Keeps
  <2>3. ASSUME NEW d \in DirNodes(disk), NEW n \in Name, open2(d, n) PROVE Kept'
    BY <1>1, <2>3, open2Keeps
  <2>4. ASSUME NEW d \in DirNodes(disk), NEW n \in Name, mkdir2(d, n) PROVE Kept'
    BY <1>1, <2>4, mkdir2Keeps
  <2>5. ASSUME NEW d \in DirNodes(disk), NEW n \in Name, rmdir2(d, n) PROVE Kept'
    BY <1>1, <2>5, rmdir2Keeps
  <2>6. ASSUME NEW p \in Pathname, chdir2(p) PROVE Kept'
    BY <1>1, <2>6, chdir2Keeps
  <2>7. ASSUME NEW h \in File, close2(h) PROVE Kept'
    BY <1>1, <2>7, close2Keeps
  <2>8. ASSUME \/ \E d \in DirNodes(disk) : opendir2(d)
               \/ \E h \in Dir : readdir2(h) \/ closedir2(h)
        PROVE  Kept'
    BY <1>1, <2>8, DirectoryCallsKeep
  <2>9. ASSUME restart PROVE Kept'
    BY <1>1, <2>9, restartKeeps
  <2>10. ASSUME UNCHANGED vars PROVE Kept'
    <3>1. UNCHANGED <<disk, files, dirs, cwd, cwd_string>>
      BY <2>10 DEF vars
    <3>2. InOrder(disk)' /\ Tables' /\ Held'
      BY <1>1, <3>1 DEF Kept, Tables, Held
    <3> QED BY <3>2 DEF Kept
  <2> QED BY <1>1, <2>1, <2>2, <2>3, <2>4, <2>5, <2>6, <2>7, <2>8, <2>9, <2>10 DEF Next
<1> QED BY <1>2, <1>3 DEF IInv, Kept

\* The invariant holds in every state that careful programs reach.
LEMMA Invariant == ASSUME CarefulRmdir PROVE Spec => []IInv
BY IInvInit, IInvStep, PTL DEF Spec

-----------------------------------------------------------------------------
(***************************************************************************)
(* The string of the current directory.                                    *)
(***************************************************************************)
\* f lists the directories that the names in s lead through.
Trail(D, s, f) ==
    /\ f \in [0 .. Len(s) -> DirNodes(D)] /\ f[0] = root
    /\ \A k \in 1 .. Len(s) : subdir(D, f[k - 1], s[k]) = f[k]

Led(D, s, i) == \E f : Trail(D, s, f) /\ f[Len(s)] = i

CwdLed == cwd_string \in Seq(Name) /\ Led(disk, cwd_string, cwd)

\* A name that leads somewhere is an entry's, and ".." leads back.
LEMMA Child ==
    ASSUME NEW D, InOrder(D), NEW i \in DirNodes(D), NEW n \in Name,
           NEW c, c = subdir(D, i, n), c # NO_DIR
    PROVE  /\ \E p \in slots(D, i) : /\ record_at(D, i, p).type = "dir"
                                     /\ record_at(D, i, p).name = n
                                     /\ record_at(D, i, p).inode = c
           /\ c \in DirNodes(D) /\ parent_of(D, c) = i
<1> PICK p : p = find_record(D, i, n)
  OBVIOUS
<1>1. n # ""
  BY NameAssumption
<1>2. p # -1 /\ record_at(D, i, p).type = "dir" /\ record_at(D, i, p).inode = c
  BY <1>1 DEF subdir
<1>3. p \in slots(D, i) /\ record_at(D, i, p).name = n
  BY <1>2, NameFound
<1>4. c \in DirNodes(D) /\ parent_of(D, c) = i
  BY <1>2, <1>3, InTree DEF InOrder
<1> QED BY <1>2, <1>3, <1>4

\* No name at all leads to the root.
LEMMA LedRoot ==
    ASSUME NEW D, InOrder(D)
    PROVE  Led(D, <<>>, root)
<1>1. root \in DirNodes(D)
  BY DEF InOrder, TreeForm
<1> PICK f : f = [k \in 0 .. 0 |-> root]
  OBVIOUS
<1>2. f \in [0 .. 0 -> DirNodes(D)] /\ f[0] = root
  BY <1>1
<1> QED BY <1>2 DEF Led, Trail

\* One name more leads to the directory of that name.
LEMMA LedDown ==
    ASSUME NEW D, InOrder(D), NEW s \in Seq(Name), NEW i, Led(D, s, i), NEW n \in Name,
           NEW c, c = subdir(D, i, n), c # NO_DIR
    PROVE  Led(D, Append(s, n), c)
<1> PICK f : Trail(D, s, f) /\ f[Len(s)] = i
  BY DEF Led
<1> PICK m \in Nat : m = Len(s)
  OBVIOUS
<1>1. /\ f \in [0 .. m -> DirNodes(D)] /\ f[0] = root /\ f[m] = i
      /\ \A k \in 1 .. m : subdir(D, f[k - 1], s[k]) = f[k]
  BY DEF Trail
<1>2. c \in DirNodes(D)
  BY <1>1, Child
<1> PICK t : t = Append(s, n)
  OBVIOUS
<1>3. Len(t) = m + 1 /\ t[m + 1] = n /\ \A k \in 1 .. m : t[k] = s[k]
  OBVIOUS
<1>g. PICK g : g = [k \in 0 .. m + 1 |-> IF k = m + 1 THEN c ELSE f[k]]
  OBVIOUS
<1>4. g[m + 1] = c /\ \A k \in 0 .. m : g[k] = f[k]
  BY <1>g
<1>5. g \in [0 .. m + 1 -> DirNodes(D)]
  <2>1. \A k \in 0 .. m + 1 : k \in 0 .. m \/ k = m + 1
    OBVIOUS
  <2> QED BY <1>1, <1>2, <1>4, <1>g, <2>1
<1>6. ASSUME NEW k \in 1 .. m + 1 PROVE subdir(D, g[k - 1], t[k]) = g[k]
  <2>1. CASE k = m + 1
    <3>1. k - 1 = m /\ m \in 0 .. m
      BY <2>1
    <3>2. g[k - 1] = i /\ t[k] = n /\ g[k] = c
      BY <1>1, <1>3, <1>4, <2>1, <3>1
    <3> QED BY <3>2
  <2>2. CASE k \in 1 .. m
    <3>1. k - 1 \in 0 .. m /\ k \in 0 .. m
      BY <2>2
    <3>2. g[k - 1] = f[k - 1] /\ t[k] = s[k] /\ g[k] = f[k]
      BY <1>3, <1>4, <2>2, <3>1
    <3> QED BY <1>1, <2>2, <3>2
  <2> QED BY <2>1, <2>2
<1>7. g[0] = root
  BY <1>1, <1>4
<1>8. Trail(D, t, g) /\ g[Len(t)] = c
  BY <1>3, <1>4, <1>5, <1>6, <1>7 DEF Trail
<1> QED BY <1>8 DEF Led

\* One name less leads to the directory that '..' names.
LEMMA LedUp ==
    ASSUME NEW D, InOrder(D), NEW s \in Seq(Name), NEW i, Led(D, s, i)
    PROVE  Led(D, IF s = <<>> THEN s ELSE SubSeq(s, 1, Len(s) - 1), subdir(D, i, ".."))
<1> PICK f : Trail(D, s, f) /\ f[Len(s)] = i
  BY DEF Led
<1> PICK m \in Nat : m = Len(s)
  OBVIOUS
<1>1. /\ f \in [0 .. m -> DirNodes(D)] /\ f[0] = root /\ f[m] = i
      /\ \A k \in 1 .. m : subdir(D, f[k - 1], s[k]) = f[k]
  BY DEF Trail
<1>2. D \in Disk /\ TreeForm(D) /\ parent_of(D, root) = root /\ i \in DirNodes(D)
  BY <1>1 DEF InOrder, TreeForm
<1>3. subdir(D, i, "..") = parent_of(D, i)
  BY <1>2, Subdir
<1>4. CASE s = <<>>
  <2>1. i = root
    BY <1>1, <1>4
  <2> QED BY <1>2, <1>3, <1>4, <2>1
<1>5. CASE s # <<>>
  <2> PICK t : t = SubSeq(s, 1, m - 1)
    OBVIOUS
  <2>1. m >= 1
    BY <1>5
  <2>2. Len(t) = m - 1 /\ \A k \in 1 .. m - 1 : t[k] = s[k]
    BY <2>1
  <2> PICK g : g = [k \in 0 .. m - 1 |-> f[k]]
    OBVIOUS
  <2>3. \A k \in 0 .. m - 1 : g[k] = f[k] /\ k \in 0 .. m
    OBVIOUS
  <2>4. g \in [0 .. m - 1 -> DirNodes(D)] /\ g[0] = root /\ g[m - 1] = f[m - 1]
    BY <1>1, <2>1, <2>3
  <2>5. ASSUME NEW k \in 1 .. m - 1 PROVE subdir(D, g[k - 1], t[k]) = g[k]
    <3>1. k \in 1 .. m /\ k - 1 \in 0 .. m - 1 /\ k \in 0 .. m - 1
      OBVIOUS
    <3> QED BY <1>1, <2>2, <2>3, <3>1
  <2>6. Trail(D, t, g) /\ g[Len(t)] = f[m - 1]
    BY <2>2, <2>4, <2>5 DEF Trail
  <2>7. parent_of(D, i) = f[m - 1]
    <3>1. m \in 1 .. m /\ m - 1 \in 0 .. m /\ s[m] \in Name
      BY <2>1
    <3>2. f[m - 1] \in DirNodes(D) /\ i = subdir(D, f[m - 1], s[m])
      BY <1>1, <3>1
    <3>3. i # NO_DIR
      BY <1>2, DiskFields, Sizes DEF DirNodes, NO_DIR, Inode
    <3> QED BY <3>1, <3>2, <3>3, Child
  <2>8. Led(D, t, f[m - 1])
    BY <2>6 DEF Led
  <2> QED BY <1>3, <1>5, <2>7, <2>8
<1> QED BY <1>4, <1>5

\* "." leads nowhere else.
LEMMA LedDot ==
    ASSUME NEW D, InOrder(D), NEW i \in DirNodes(D)
    PROVE  subdir(D, i, ".") = i
<1>1. D \in Disk /\ Listing(D, i) /\ i \in Inode
  BY InTree DEF InOrder
<1>2. find_record(D, i, ".") = 0
  BY <1>1, FindsDot
<1>3. record_at(D, i, 0).type = "dir" /\ record_at(D, i, 0).inode = i
  BY <1>1 DEF Listing
<1> QED BY <1>2, <1>3 DEF subdir

\* The string still leads to the current directory when the tree has got or
\* lost an entry.
LEMMA LedKept ==
    ASSUME NEW D, NEW E, InOrder(D), InOrder(E), NEW s \in Seq(Name), NEW f, Trail(D, s, f),
           \A k \in 0 .. Len(s) : f[k] \in DirNodes(E),
           \A k \in 1 .. Len(s) : \A p \in slots(D, f[k - 1]) :
              record_at(D, f[k - 1], p).inode = f[k] =>
                 \E q \in slots(E, f[k - 1]) : record_at(E, f[k - 1], q) = record_at(D, f[k - 1], p)
    PROVE  Led(E, s, f[Len(s)])
<1> PICK m \in Nat : m = Len(s)
  OBVIOUS
<1>1. /\ f \in [0 .. m -> DirNodes(D)] /\ f[0] = root
      /\ \A k \in 1 .. m : subdir(D, f[k - 1], s[k]) = f[k]
  BY DEF Trail
<1>2. f \in [0 .. m -> DirNodes(E)]
  BY <1>1
<1>3. ASSUME NEW k \in 1 .. m PROVE subdir(E, f[k - 1], s[k]) = f[k]
  <2> PICK i : i = f[k - 1]
    OBVIOUS
  <2> PICK c : c = f[k]
    OBVIOUS
  <2>1. k - 1 \in 0 .. m /\ k \in 0 .. m /\ s[k] \in Name
    OBVIOUS
  <2>2. i \in DirNodes(D) /\ i \in DirNodes(E) /\ c \in DirNodes(D) /\ c = subdir(D, i, s[k])
    BY <1>1, <1>2, <2>1
  <2>3. c # NO_DIR
    BY <2>2, DiskFields, Sizes DEF InOrder, DirNodes, NO_DIR, Inode
  <2>4. PICK p \in slots(D, i) : /\ record_at(D, i, p).type = "dir"
                                 /\ record_at(D, i, p).name = s[k]
                                 /\ record_at(D, i, p).inode = c
    BY <2>1, <2>2, <2>3, Child
  <2>5. PICK q \in slots(E, i) : record_at(E, i, q) = record_at(D, i, p)
    BY <2>4
  <2>6. subdir(E, i, s[k]) = record_at(E, i, q).inode
    BY <2>2, <2>4, <2>5, Subdir DEF InOrder
  <2> QED BY <2>4, <2>5, <2>6
<1>4. Trail(E, s, f)
  BY <1>1, <1>2, <1>3 DEF Trail
<1> QED BY <1>4 DEF Led

\* A new entry leaves the names that lead to a directory.
LEMMA LedGrown ==
    ASSUME NEW D, NEW E, InOrder(D), InOrder(E), NEW d, NEW r, TreeGrown(D, E, d, r),
           NEW s \in Seq(Name), NEW i, Led(D, s, i)
    PROVE  Led(E, s, i)
<1> PICK f : Trail(D, s, f) /\ f[Len(s)] = i
  BY DEF Led
<1>1. \A k \in 0 .. Len(s) : f[k] \in DirNodes(D) /\ f[k] \in DirNodes(E)
  BY DEF Trail, TreeGrown
<1>2. ASSUME NEW k \in 1 .. Len(s), NEW p \in slots(D, f[k - 1])
      PROVE  \E q \in slots(E, f[k - 1]) : record_at(E, f[k - 1], q) = record_at(D, f[k - 1], p)
  <2>1. k - 1 \in 0 .. Len(s)
    OBVIOUS
  <2> QED BY <1>1, <2>1 DEF TreeGrown
<1> QED BY <1>1, <1>2, LedKept

\* The removed directory had no entries, so the string does not pass through
\* it; and it is not the current one.
LEMMA LedShrunk ==
    ASSUME NEW D, NEW E, InOrder(D), InOrder(E), NEW d, NEW pos, NEW x,
           TreeShrunk(D, E, d, pos, x), x = record_at(D, d, pos).inode,
           x \in DirNodes(D) => slots(D, x) = {},
           NEW s \in Seq(Name), NEW i, Led(D, s, i), i # x
    PROVE  Led(E, s, i)
<1> PICK f : Trail(D, s, f) /\ f[Len(s)] = i
  BY DEF Led
<1> PICK m \in Nat : m = Len(s)
  OBVIOUS
<1>1. /\ \A k \in 0 .. m : f[k] \in DirNodes(D)
      /\ \A k \in 1 .. m : subdir(D, f[k - 1], s[k]) = f[k]
  BY DEF Trail
<1>2. ASSUME NEW k \in 0 .. m PROVE f[k] # x
  <2>1. CASE k = m
    BY <2>1
  <2>2. CASE k # m
    <3>1. k + 1 \in 1 .. m /\ k + 1 \in 0 .. m /\ (k + 1) - 1 = k /\ s[k + 1] \in Name
      BY <2>2
    <3> PICK c : c = f[k + 1]
      OBVIOUS
    <3>2. c \in DirNodes(D) /\ c = subdir(D, f[k], s[k + 1])
      BY <1>1, <3>1
    <3>3. c # NO_DIR
      BY <3>2, DiskFields, Sizes DEF InOrder, DirNodes, NO_DIR, Inode
    <3>4. \E p \in slots(D, f[k]) : record_at(D, f[k], p).inode = c
      BY <1>1, <3>1, <3>2, <3>3, Child
    <3> QED BY <1>1, <3>4
  <2> QED BY <2>1, <2>2
<1>3. \A k \in 0 .. m : f[k] \in DirNodes(E)
  BY <1>1, <1>2 DEF TreeShrunk
<1>4. ASSUME NEW k \in 1 .. m, NEW p \in slots(D, f[k - 1]), record_at(D, f[k - 1], p).inode = f[k]
      PROVE  \E q \in slots(E, f[k - 1]) : record_at(E, f[k - 1], q) = record_at(D, f[k - 1], p)
  <2>1. k - 1 \in 0 .. m /\ k \in 0 .. m
    OBVIOUS
  <2>2. ~ (f[k - 1] = d /\ p = pos)
    BY <1>2, <1>4, <2>1
  <2> QED BY <1>3, <2>1, <2>2 DEF TreeShrunk
<1> QED BY <1>3, <1>4, LedKept

\* What the string leads to, one name at a time.
LEMMA CwdRead == IInv /\ CwdLed => CwdNamesCurrent
<1> SUFFICES ASSUME IInv, CwdLed PROVE CwdNamesCurrent
  OBVIOUS
<1>1. cwd_string \in Seq(Name) /\ Led(disk, cwd_string, cwd) /\ DirNodes(disk) \subseteq Inode
  BY DiskFields DEF CwdLed, IInv, InOrder, DirNodes
<1> PICK f : Trail(disk, cwd_string, f) /\ f[Len(cwd_string)] = cwd
  BY <1>1 DEF Led
<1> PICK n \in Nat : n = Len(cwd_string)
  BY <1>1
<1>2. /\ f \in [0 .. n -> DirNodes(disk)] /\ f[0] = root /\ f[n] = cwd
      /\ \A k \in 1 .. n : subdir(disk, f[k - 1], cwd_string[k]) = f[k]
  BY DEF Trail
<1>3. \A k \in 0 .. n : f[k] # NO_DIR
  BY <1>1, <1>2, Sizes DEF NO_DIR
<1> DEFINE step(k, i) == IF i = NO_DIR THEN NO_DIR ELSE subdir(disk, i, cwd_string[k])
           F(h) == [k \in 0 .. Len(cwd_string) |->
                       IF k = 0 THEN root
                       ELSE IF h[k - 1] = NO_DIR THEN NO_DIR
                       ELSE subdir(disk, h[k - 1], cwd_string[k])]
           W == CHOOSE h : h = F(h)
<1>4. \A h : F(h) = [k \in 0 .. n |-> IF k = 0 THEN root ELSE step(k, h[k - 1])]
  BY Zenon
<1>5. \A k \in 1 .. n : step(k, f[k - 1]) = f[k]
  <2> SUFFICES ASSUME NEW k \in 1 .. n PROVE step(k, f[k - 1]) = f[k]
    OBVIOUS
  <2>1. k - 1 \in 0 .. n
    OBVIOUS
  <2>2. f[k - 1] # NO_DIR
    BY <1>3, <2>1
  <2> QED BY <1>2, <2>2
<1>6. CwdNamesCurrent <=> W[n] = cwd
  BY Zenon DEF CwdNamesCurrent
<1> HIDE DEF step, F
<1>7. f = F(f)
  <2>1. f = [k \in 0 .. n |-> f[k]]
    BY <1>2
  <2>2. \A k \in 0 .. n : f[k] = IF k = 0 THEN root ELSE step(k, f[k - 1])
    <3> SUFFICES ASSUME NEW k \in 0 .. n
                 PROVE  f[k] = IF k = 0 THEN root ELSE step(k, f[k - 1])
      OBVIOUS
    <3>1. k # 0 => k \in 1 .. n
      OBVIOUS
    <3> QED BY <1>2, <1>5, <3>1
  <2> QED BY <1>4, <2>1, <2>2
<1>8. W = F(W)
  BY <1>7, Zenon
<1> PICK U : U = W
  OBVIOUS
<1> HIDE DEF W
<1>9. U = [k \in 0 .. n |-> IF k = 0 THEN root ELSE step(k, U[k - 1])]
  BY <1>4, <1>8, Zenon
<1> PICK S : S = {k \in 0 .. n : U[k] = f[k]}
  OBVIOUS
<1>10. 0 \in S
  BY <1>2, <1>9
<1>11. \A k \in 1 .. n : k - 1 \in S => k \in S
  <2> SUFFICES ASSUME NEW k \in 1 .. n, k - 1 \in S
               PROVE  k \in S
    OBVIOUS
  <2>1. U[k - 1] = f[k - 1] /\ k \in 0 .. n
    OBVIOUS
  <2>2. U[k] = step(k, U[k - 1])
    BY <1>9
  <2> QED BY <1>5, <2>1, <2>2
<1>12. \A k \in 0 .. n : k \in S
  BY <1>10, <1>11, OneByOne
<1>13. U[n] = f[n]
  BY <1>12
<1> QED BY <1>2, <1>6, <1>13

\* A relative path moves the string and the i-node together.
LEMMA chdir2Led ==
    ASSUME PlainPaths, Kept, CwdLed, NEW p \in Pathname, chdir2(p)
    PROVE  CwdLed'
<1> PICK I : I = DirNodes(disk) \cup {NO_DIR}
  OBVIOUS
<1> PICK P : P = [inode : I, string : Seq(Name)]
  OBVIOUS
<1> PICK V : V = {w \in P : w.inode = NO_DIR \/ Led(disk, w.string, w.inode)}
  OBVIOUS
<1> PICK W : W = chdir2_walk(cwd, cwd_string, p.parts)
  OBVIOUS
<1>1. /\ InOrder(disk) /\ disk \in Disk /\ TreeForm(disk) /\ cwd \in DirNodes(disk)
      /\ cwd_string \in Seq(Name) /\ Led(disk, cwd_string, cwd)
  BY DEF Kept, InOrder, Held, CwdLed
<1>2. ~ p.absolute /\ Parts(p.parts, Name \cup {".", ".."})
  BY PathParts
<1>3. /\ UNCHANGED disk
      /\ W.inode # NO_DIR /\ cwd' = W.inode /\ cwd_string' = W.string
  BY <1>2, Zenon DEF chdir2
<1>4. ASSUME NEW i, i \in I, NEW s, s \in Seq(Name), i = NO_DIR \/ Led(disk, s, i)
      PROVE  [inode |-> i, string |-> s] \in V
  <2>1. [inode |-> i, string |-> s] \in P
    BY <1>4, WalkedPair
  <2>2. [inode |-> i, string |-> s].inode = i /\ [inode |-> i, string |-> s].string = s
    OBVIOUS
  <2> QED BY <1>4, <2>1, <2>2
<1>5. [inode |-> cwd, string |-> cwd_string] \in V
  BY <1>1, <1>4
<1>6. ASSUME NEW k \in 1 .. Len(p.parts), NEW w, w \in V
      PROVE  walked(w, p.parts[k]) \in V
  <2> PICK part : part = p.parts[k]
    OBVIOUS
  <2> PICK c : c = subdir(disk, w.inode, part)
    OBVIOUS
  <2> PICK s : s = w.string
    OBVIOUS
  <2> PICK i : i = w.inode
    OBVIOUS
  <2>1. part \in Name \cup {".", ".."}
    BY <1>2 DEF Parts
  <2>2. i \in I /\ s \in Seq(Name) /\ (i = NO_DIR \/ Led(disk, s, i))
        /\ w = [inode |-> i, string |-> s]
    BY <1>6
  <2>3. CASE i = NO_DIR
    <3>1. walked(w, part) = w
      BY <2>3, Zenon DEF walked
    <3> QED BY <1>6, <3>1
  <2>4. CASE i # NO_DIR /\ c = NO_DIR
    <3>1. walked(w, part) = [w EXCEPT !.inode = NO_DIR]
      BY <2>4, Zenon DEF walked
    <3>2. NO_DIR \in I
      OBVIOUS
    <3>3. walked(w, part) = [inode |-> NO_DIR, string |-> s]
      BY <2>2, <3>1
    <3> QED BY <1>4, <2>2, <3>2, <3>3
  <2>5. CASE i # NO_DIR /\ c # NO_DIR
    <3>1. walked(w, part) = [inode |-> c, string |-> cd_string(s, part)]
      BY <2>5, Zenon DEF walked
    <3>2. i \in DirNodes(disk) /\ Led(disk, s, i)
      BY <2>2, <2>5
    <3>3. c \in I
      BY <1>1, <3>2, Subdir
    <3>4. cd_string(s, part) \in Seq(Name)
      BY <2>1, <2>2, CdString
    <3>5. Led(disk, cd_string(s, part), c)
      <4>1. CASE part = ".."
        <5>1. cd_string(s, part) = IF s = <<>> THEN s ELSE SubSeq(s, 1, Len(s) - 1)
          BY <4>1, Zenon DEF cd_string
        <5>2. Led(disk, IF s = <<>> THEN s ELSE SubSeq(s, 1, Len(s) - 1), subdir(disk, i, ".."))
          BY <1>1, <2>2, <3>2, LedUp
        <5> QED BY <4>1, <5>1, <5>2, Zenon
      <4>2. CASE part = "."
        <5>1. cd_string(s, part) = s
          BY <4>2 DEF cd_string
        <5>2. c = i
          BY <1>1, <3>2, <4>2, LedDot
        <5> QED BY <3>2, <5>1, <5>2
      <4>3. CASE part \in Name
        <5>1. part # ".." /\ part # "." /\ part # ""
          BY <4>3, NameAssumption
        <5>2. cd_string(s, part) = Append(s, part)
          BY <5>1, Zenon DEF cd_string
        <5>3. Led(disk, Append(s, part), c)
          BY <1>1, <2>2, <2>5, <3>2, <4>3, LedDown
        <5> QED BY <5>2, <5>3
      <4> QED BY <2>1, <4>1, <4>2, <4>3
    <3>6. [inode |-> c, string |-> cd_string(s, part)] \in V
      BY <1>4, <3>3, <3>4, <3>5
    <3> QED BY <3>1, <3>6, Zenon
  <2> QED BY <2>3, <2>4, <2>5
<1>7. W \in V
  <2>1. Len(p.parts) \in Nat
    BY <1>2 DEF Parts
  <2>2. \A k \in 1 .. Len(p.parts) : \A w \in V : walked(w, p.parts[k]) \in V
    BY <1>6
  <2> QED BY <1>5, <2>1, <2>2, Walk
<1>8. W.string \in Seq(Name) /\ Led(disk, W.string, W.inode)
  BY <1>3, <1>7
<1> QED BY <1>3, <1>8 DEF CwdLed

\* The string starts empty, in the root.
LEMMA CwdLedInit == Init => CwdLed
<1> SUFFICES ASSUME Init PROVE CwdLed
  OBVIOUS
<1>1. InOrder(disk) /\ cwd = root /\ cwd_string = <<>>
  BY FormattedInOrder DEF Init
<1>2. Led(disk, <<>>, root)
  BY <1>1, LedRoot
<1> QED BY <1>1, <1>2 DEF CwdLed

\* Every call keeps the string leading to the current directory.
LEMMA CwdLedStep ==
    ASSUME CarefulRmdir, PlainPaths
    PROVE  IInv /\ CwdLed /\ [Next]_vars => CwdLed'
<1> SUFFICES ASSUME IInv, CwdLed, [Next]_vars PROVE CwdLed'
  OBVIOUS
<1>1. /\ Kept /\ FirstEntry /\ Paths = DirNodes(disk)
      /\ InOrder(disk) /\ cwd \in DirNodes(disk)
      /\ cwd_string \in Seq(Name) /\ Led(disk, cwd_string, cwd)
  BY PathsAreNodes DEF IInv, Kept, Held, CwdLed
<1>2. InOrder(disk')
  <2>1. IInv'
    BY IInvStep
  <2> QED BY <2>1 DEF IInv
<1>3. ASSUME UNCHANGED <<cwd, cwd_string>>, NEW d, NEW r, TreeGrown(disk, disk', d, r)
      PROVE  CwdLed'
  <2>1. Led(disk', cwd_string, cwd)
    BY <1>1, <1>2, <1>3, LedGrown
  <2> QED BY <1>1, <1>3, <2>1 DEF CwdLed
<1>4. ASSUME UNCHANGED <<cwd, cwd_string>>, NEW d, NEW pos, NEW x,
             x = record_at(disk, d, pos).inode, TreeShrunk(disk, disk', d, pos, x),
             x \in DirNodes(disk) => slots(disk, x) = {}, cwd # x
      PROVE  CwdLed'
  <2>1. Led(disk', cwd_string, cwd)
    BY <1>1, <1>2, <1>4, LedShrunk
  <2> QED BY <1>1, <1>4, <2>1 DEF CwdLed
<1>5. ASSUME NEW d \in DirNodes(disk), NEW n \in Name, create2(d, n) \/ mkdir2(d, n) PROVE CwdLed'
  <2>1. \E r : TreeGrown(disk, disk', d, r)
    BY <1>1, <1>5, create2Keeps, mkdir2Keeps
  <2>2. UNCHANGED <<cwd, cwd_string>>
    BY <1>5 DEF create2, mkdir2
  <2> QED BY <1>3, <2>1, <2>2
<1>6. ASSUME NEW d \in DirNodes(disk), NEW n \in Name, delete2(d, n) PROVE CwdLed'
  <2>1. PICK pos \in slots(disk, d) :
              /\ record_at(disk, d, pos).type = "file"
              /\ TreeShrunk(disk, disk', d, pos, record_at(disk, d, pos).inode)
    BY <1>1, <1>6, delete2Keeps
  <2>2. record_at(disk, d, pos).inode \notin DirNodes(disk)
    BY <1>1, <2>1, InTree DEF InOrder
  <2>3. UNCHANGED <<cwd, cwd_string>>
    BY <1>6 DEF delete2
  <2> QED BY <1>1, <1>4, <2>1, <2>2, <2>3
<1>7. ASSUME NEW d \in DirNodes(disk), NEW n \in Name, rmdir2(d, n) PROVE CwdLed'
  <2>1. PICK pos \in slots(disk, d) :
              /\ slots(disk, record_at(disk, d, pos).inode) = {}
              /\ record_at(disk, d, pos).inode # cwd
              /\ TreeShrunk(disk, disk', d, pos, record_at(disk, d, pos).inode)
    BY <1>1, <1>7, rmdir2Keeps
  <2>2. UNCHANGED <<cwd, cwd_string>>
    BY <1>7 DEF rmdir2
  <2> QED BY <1>4, <2>1, <2>2
<1>8. ASSUME NEW p \in Pathname, chdir2(p) PROVE CwdLed'
  BY <1>1, <1>8, chdir2Led
<1>9. ASSUME UNCHANGED <<disk, cwd, cwd_string>> PROVE CwdLed'
  BY <1>1, <1>9 DEF CwdLed
<1>10. ASSUME restart PROVE CwdLed'
  <2>1. UNCHANGED disk /\ cwd' = root /\ cwd_string' = <<>>
    BY <1>10 DEF restart
  <2>2. Led(disk, <<>>, root)
    BY <1>1, LedRoot
  <2> QED BY <2>1, <2>2 DEF CwdLed
<1> QED
  BY <1>1, <1>5, <1>6, <1>7, <1>8, <1>9, <1>10
     DEF Next, vars, open2, close2, opendir2, readdir2, closedir2

-----------------------------------------------------------------------------
(***************************************************************************)
(* What a step may never do.                                               *)
(***************************************************************************)
\* rmdir2 has looked at the only record that could be an entry.
LEMMA RmdirChecked == ASSUME CarefulRmdir
                      PROVE  IInv => \A d \in Paths, n \in Name :
                                        ~ NamesEmptyDir(d, n) => ~ rmdir2(d, n)
<1> SUFFICES ASSUME IInv, NEW d \in Paths, NEW n \in Name, rmdir2(d, n)
             PROVE  NamesEmptyDir(d, n)
  OBVIOUS
<1>1. Kept /\ InOrder(disk) /\ d \in DirNodes(disk) /\ disk \in Disk /\ TreeForm(disk)
  BY PathsAreNodes DEF IInv, Kept, InOrder
<1>2. PICK pos \in slots(disk, d) :
              /\ record_at(disk, d, pos).name = n
              /\ record_at(disk, d, pos).type = "dir"
              /\ slots(disk, record_at(disk, d, pos).inode) = {}
  BY <1>1, rmdir2Keeps
<1>3. pos \in named(disk, d, n)
  BY <1>1, <1>2, InTree DEF named
<1>4. Entries(record_at(disk, d, pos).inode) = {}
  <2>1. record_at(disk, d, pos).inode \in Directories
    BY <1>1, <1>2, InTree, DirectoriesAreNodes
  <2> QED BY <1>1, <1>2, <2>1, DirectoryRead
<1> QED BY <1>2, <1>3, <1>4 DEF NamesEmptyDir

\* The entries of E that have the name and the i-node of an entry p of D are
\* at p or before.
NoLater(D, E) ==
    \A i \in DirNodes(D) \cap DirNodes(E) : \A p \in slots(D, i) : \A q \in slots(E, i) :
        record_at(E, i, q).inode = record_at(D, i, p).inode => q <= p

\* Two positions do not have the same i-node.
LEMMA NoLaterSame ==
    ASSUME NEW D, InOrder(D)
    PROVE  NoLater(D, D)
<1> SUFFICES ASSUME NEW i \in DirNodes(D), NEW p \in slots(D, i), NEW q \in slots(D, i),
                    record_at(D, i, q).inode = record_at(D, i, p).inode
             PROVE  q <= p
  BY DEF NoLater
<1>1. p = q
  BY DEF InOrder, TreeForm
<1> QED BY <1>1 DEF slots

\* The new entry has an i-node that no entry had.
LEMMA NoLaterGrown ==
    ASSUME NEW D, InOrder(D), NEW E, NEW d, NEW r, TreeGrown(D, E, d, r)
    PROVE  NoLater(D, E)
<1> SUFFICES ASSUME NEW i \in DirNodes(D), NEW p \in slots(D, i), NEW q \in slots(E, i),
                    i \in DirNodes(E), record_at(E, i, q).inode = record_at(D, i, p).inode
             PROVE  q <= p
  BY DEF NoLater
<1>1. CASE q \in slots(D, i)
  <2>1. record_at(E, i, q) = record_at(D, i, q)
    BY <1>1 DEF TreeGrown
  <2>2. p = q
    BY <1>1, <2>1 DEF InOrder, TreeForm
  <2> QED BY <2>2 DEF slots
<1>2. CASE i = d /\ q = dsize(D, d)
  <2>1. record_at(E, i, q) = r /\ r.inode \notin D.imap
    BY <1>2 DEF TreeGrown
  <2>2. record_at(D, i, p).inode \in D.imap
    BY InTree DEF InOrder
  <2> QED BY <2>1, <2>2
<1> QED BY <1>1, <1>2 DEF TreeGrown

\* The entry that fills the hole comes from a higher position.
LEMMA NoLaterShrunk ==
    ASSUME NEW D, InOrder(D), NEW E, NEW d, NEW pos, NEW f, TreeShrunk(D, E, d, pos, f)
    PROVE  NoLater(D, E)
<1> SUFFICES ASSUME NEW i \in DirNodes(D), NEW p \in slots(D, i), NEW q \in slots(E, i),
                    i \in DirNodes(E), record_at(E, i, q).inode = record_at(D, i, p).inode
             PROVE  q <= p
  BY DEF NoLater
<1>1. PICK o \in slots(D, i) : q <= o /\ record_at(E, i, q) = record_at(D, i, o)
  BY DEF TreeShrunk
<1>2. p = o
  BY <1>1 DEF InOrder, TreeForm
<1> QED BY <1>1, <1>2

\* Whatever the call does, no entry moves to a higher position.
LEMMA NothingLater ==
    ASSUME CarefulRmdir
    PROVE  IInv /\ [Next]_vars => NoLater(disk, disk')
<1> SUFFICES ASSUME IInv, [Next]_vars PROVE NoLater(disk, disk')
  OBVIOUS
<1>1. Kept /\ FirstEntry /\ Paths = DirNodes(disk) /\ InOrder(disk)
  BY PathsAreNodes DEF IInv, Kept
<1>2. ASSUME NEW d \in DirNodes(disk), NEW n \in Name, create2(d, n) \/ mkdir2(d, n)
      PROVE  NoLater(disk, disk')
  <2>1. \E r : TreeGrown(disk, disk', d, r)
    BY <1>1, <1>2, create2Keeps, mkdir2Keeps
  <2> QED BY <1>1, <2>1, NoLaterGrown
<1>3. ASSUME NEW d \in DirNodes(disk), NEW n \in Name, delete2(d, n) \/ rmdir2(d, n)
      PROVE  NoLater(disk, disk')
  <2>1. \E pos, f : TreeShrunk(disk, disk', d, pos, f)
    BY <1>1, <1>3, delete2Keeps, rmdir2Keeps
  <2> QED BY <1>1, <2>1, NoLaterShrunk
<1>4. ASSUME UNCHANGED disk
      PROVE  NoLater(disk, disk')
  <2>1. NoLater(disk, disk)
    BY <1>1, NoLaterSame
  <2> QED BY <1>4, <2>1
<1> QED
  BY <1>1, <1>2, <1>3, <1>4
     DEF Next, vars, open2, chdir2, close2, opendir2, readdir2, closedir2, restart

\* A directory that stays open stays the same one and its entry does not go
\* back.
LEMMA StaysOpen ==
    IInv /\ [Next]_vars =>
        \A h \in Dir : dirs[h].busy /\ dirs'[h].busy =>
            /\ dirs'[h].inode = dirs[h].inode
            /\ dirs[h].entry \in Nat /\ dirs'[h].entry \in Nat /\ dirs[h].entry <= dirs'[h].entry
<1> SUFFICES ASSUME IInv, [Next]_vars, NEW h \in Dir, dirs[h].busy, dirs'[h].busy
             PROVE  /\ dirs'[h].inode = dirs[h].inode
                    /\ dirs[h].entry \in Nat /\ dirs'[h].entry \in Nat
                    /\ dirs[h].entry <= dirs'[h].entry
  OBVIOUS
<1>1. Tables /\ DirNodes(disk) \subseteq Inode /\ Paths = DirNodes(disk)
  BY PathsAreNodes, DiskFields DEF IInv, Kept, InOrder, DirNodes
<1>2. dirs[h].entry \in Nat
  BY <1>1 DEF Tables, DirHandle
<1>3. ASSUME dirs'[h] = dirs[h]
      PROVE  /\ dirs'[h].inode = dirs[h].inode
             /\ dirs'[h].entry \in Nat /\ dirs[h].entry <= dirs'[h].entry
  BY <1>2, <1>3
<1>4. ASSUME NEW d \in DirNodes(disk), opendir2(d) PROVE dirs'[h] = dirs[h]
  <2>1. PICK k \in Dir : ~ dirs[k].busy /\ DirsMoved(k, {d})
    BY <1>1, <1>4, opendir2Moves
  <2> QED BY <2>1 DEF DirsMoved
<1>5. ASSUME NEW k \in Dir, readdir2(k)
      PROVE  /\ dirs'[h].inode = dirs[h].inode
             /\ dirs'[h].entry \in Nat /\ dirs[h].entry <= dirs'[h].entry
  <2>1. DirsMoved(k, {dirs[k].inode}) /\ dirs[k].entry \in Nat /\ dirs'[k].entry = dirs[k].entry + 1
    BY <1>1, <1>5, readdir2Moves
  <2>2. CASE h = k
    <3>1. dirs'[h].inode = dirs[h].inode
      BY <2>1, <2>2 DEF DirsMoved
    <3> QED BY <2>1, <2>2, <3>1
  <2>3. CASE h # k
    <3>1. dirs'[h] = dirs[h]
      BY <2>1, <2>3 DEF DirsMoved
    <3> QED BY <1>3, <3>1
  <2> QED BY <2>2, <2>3
<1>6. ASSUME NEW k \in Dir, closedir2(k) PROVE dirs'[h] = dirs[h]
  <2>1. DirsMoved(k, {}) /\ ~ dirs'[k].busy
    BY <1>1, <1>6, closedir2Moves
  <2> QED BY <2>1 DEF DirsMoved
<1>7. ASSUME restart PROVE FALSE
  BY <1>7 DEF restart, no_dirs
<1>8. ASSUME UNCHANGED dirs PROVE dirs'[h] = dirs[h]
  BY <1>8
<1> QED
  BY <1>1, <1>2, <1>3, <1>4, <1>5, <1>6, <1>7, <1>8
     DEF Next, vars, create2, delete2, open2, mkdir2, rmdir2, chdir2, close2

\* So readdir2 does not come to an entry that it has passed.
LEMMA ReaddirStep ==
    ASSUME CarefulRmdir
    PROVE  IInv /\ [Next]_vars =>
             \A h \in Dir : dirs[h].busy /\ dirs'[h].busy =>
                \A p \in {e \in Entries(dirs[h].inode) : e < dirs[h].entry} :
                    LET was == record_at(disk, dirs[h].inode, p)
                    IN  \A q \in named(disk', dirs'[h].inode, was.name) :
                            record_at(disk', dirs'[h].inode, q).inode = was.inode
                                => q < dirs'[h].entry
<1> SUFFICES ASSUME IInv, [Next]_vars, NEW h \in Dir, dirs[h].busy, dirs'[h].busy,
                    NEW p \in Entries(dirs[h].inode), p < dirs[h].entry,
                    NEW q \in named(disk', dirs'[h].inode, record_at(disk, dirs[h].inode, p).name),
                    record_at(disk', dirs'[h].inode, q).inode
                        = record_at(disk, dirs[h].inode, p).inode
             PROVE  q < dirs'[h].entry
  BY Zenon
<1> PICK i : i = dirs[h].inode
  OBVIOUS
<1>1. /\ dirs'[h].inode = i /\ dirs[h].entry \in Nat /\ dirs'[h].entry \in Nat
      /\ dirs[h].entry <= dirs'[h].entry
  BY StaysOpen
<1>2. IInv'
  BY IInvStep
<1>3. /\ InOrder(disk) /\ InOrder(disk') /\ i \in DirNodes(disk) /\ i \in DirNodes(disk')
  BY <1>1, <1>2 DEF IInv, Held
<1>4. p \in slots(disk, i) /\ record_at(disk, i, p).name \in Name
  <2>1. i \in Directories
    BY <1>3, DirectoriesAreNodes
  <2>2. p \in slots(disk, i)
    BY <1>3, <2>1, DirectoryRead
  <2> QED BY <1>3, <2>2, InTree DEF InOrder
<1> PICK E : E = disk'
  OBVIOUS
<1>5. q \in slots(E, i)
  <2> PICK n \in Name : n = record_at(disk, i, p).name
    BY <1>4
  <2>1. q \in named(E, i, n)
    BY <1>1
  <2>2. /\ q \in positions(E, i) /\ record_at(E, i, q).type # "invalid"
        /\ record_at(E, i, q).name = n
    BY <2>1 DEF named
  <2>3. /\ Listing(E, i) /\ DotDot(E, i) /\ dsize(E, i) \in Nat /\ dsize(E, i) >= 2
        /\ i \in Inode /\ E \in Disk
    BY <1>3, InTree DEF InOrder
  <2>4. q < dsize(E, i) /\ q \in Nat
    <3>1. positions(E, i) \subseteq Nat
      BY <2>3, Records, DiskFields
    <3> QED BY <2>2, <2>3, <3>1 DEF Listing
  <2>5. q # 0 /\ q # 1
    <3>1. n # "." /\ n # ".."
      BY NameAssumption
    <3> QED BY <2>2, <2>3, <3>1 DEF Listing, DotDot
  <2> QED BY <2>3, <2>4, <2>5 DEF slots
<1>6. q <= p
  <2>1. NoLater(disk, E)
    BY NothingLater
  <2> QED BY <1>1, <1>3, <1>4, <1>5, <2>1 DEF NoLater
<1>7. p \in Int /\ q \in Int
  BY <1>4, <1>5 DEF slots
<1> QED BY <1>1, <1>6, <1>7

-----------------------------------------------------------------------------
(***************************************************************************)
(* The theorems.  CarefulRmdir says that programs call rmdir2 on a         *)
(* directory that exists and is neither current nor open.                  *)
(***************************************************************************)
\* The disk and the tables keep their form.
THEOREM TypeCorrect == ASSUME CarefulRmdir PROVE Spec => []TypeOK
BY Invariant, IInvTypeOK, PTL

\* In every directory the records in use are the first ones, as many as "."
\* counts: what append_record, remove_record and dir_is_empty rely on.
THEOREM WellFormed == ASSUME CarefulRmdir PROVE Spec => []DirWellFormed
<1>1. IInv => DirWellFormed
  BY InOrderDirWellFormed DEF IInv
<1> QED BY <1>1, Invariant, PTL

\* find_record never has two records to choose from.
THEOREM NamesDiffer == ASSUME CarefulRmdir PROVE Spec => []UniqueNames
<1>1. IInv => UniqueNames
  BY InOrderUniqueNames DEF IInv
<1> QED BY <1>1, Invariant, PTL

\* create2, mkdir2, delete2 and rmdir2 keep the i-node bitmap equal to what
\* the directories name, each i-node once.
THEOREM NothingLeaks == ASSUME CarefulRmdir PROVE Spec => []TreeShape
<1>1. IInv => TreeShape
  BY InOrderTreeShape DEF IInv
<1> QED BY <1>1, Invariant, PTL

\* They keep the block bitmap equal to the blocks in use, and no block is
\* used twice.
THEOREM BlocksOwned == ASSUME CarefulRmdir PROVE Spec => []BlocksOwnedOnce
<1>1. IInv => BlocksOwnedOnce
  BY InOrderBlocksOwnedOnce DEF IInv
<1> QED BY <1>1, Invariant, PTL

\* An open file's record is where write2 will look for it.
THEOREM HandlesNameFiles == ASSUME CarefulRmdir PROVE Spec => []HandleNamesFile
BY Invariant, IInvHandleNamesFile, PTL

\* open2 need not look past the first entry with the i-node, and delete2
\* closes the only open one.
THEOREM OneHandle == ASSUME CarefulRmdir PROVE Spec => []OneHandlePerFile
<1>1. IInv => HandleNamesFile /\ TreeShape
  BY IInvHandleNamesFile, InOrderTreeShape DEF IInv
<1> QED BY <1>1, Invariant, OpenOnce, PTL

\* dir_is_empty looks at one record, and that is enough.
THEOREM EmptyCheckEnough == ASSUME CarefulRmdir PROVE Spec => []EmptyCheckSound
<1>1. IInv => EmptyCheckSound
  BY InOrderEmptyCheckSound DEF IInv
<1> QED BY <1>1, Invariant, PTL

\* With relative paths only, what getcwd2 returns is the current directory.
THEOREM CwdNamed == ASSUME CarefulRmdir, PlainPaths PROVE Spec => []CwdNamesCurrent
<1>1. Spec => [](IInv /\ CwdLed)
  BY IInvInit, IInvStep, CwdLedInit, CwdLedStep, PTL DEF Spec
<1> QED BY <1>1, CwdRead, PTL

\* rmdir2 refuses what is not an empty directory.
THEOREM RmdirRefuses == ASSUME CarefulRmdir PROVE Spec => RmdirOnlyEmptyDirs
<1>1. IInv /\ [Next]_vars =>
          [disk' # disk => \A d \in Paths, n \in Name :
                              ~NamesEmptyDir(d, n) => ~rmdir2(d, n)]_vars
  BY RmdirChecked
<1> QED BY <1>1, Invariant, PTL DEF Spec, RmdirOnlyEmptyDirs

\* readdir2 returns no entry twice, whatever is created and removed meanwhile.
THEOREM ReaddirOnce == ASSUME CarefulRmdir PROVE Spec => ReaddirNeverRepeats
<1>1. IInv /\ [Next]_vars =>
          [\A h \in Dir : dirs[h].busy /\ dirs'[h].busy =>
              \A p \in {e \in Entries(dirs[h].inode) : e < dirs[h].entry} :
                  LET was == record_at(disk, dirs[h].inode, p)
                  IN  \A q \in named(disk', dirs'[h].inode, was.name) :
                          record_at(disk', dirs'[h].inode, q).inode = was.inode
                              => q < dirs'[h].entry]_vars
  BY ReaddirStep
<1> QED BY <1>1, Invariant, PTL DEF Spec, ReaddirNeverRepeats

-----------------------------------------------------------------------------
(***************************************************************************)
(* T2fsTree implements FileTree.                                           *)
(***************************************************************************)
\* The name that the record at position p of directory d is in the tree.
item(D, d, p) == [dir |-> d, name |-> record_at(D, d, p).name,
                  type |-> record_at(D, d, p).type, node |-> record_at(D, d, p).inode]

TreeOf(D) == UNION {{item(D, d, p) : p \in slots(D, d)} : d \in DirNodes(D)}

\* The fields of an entry of the tree.
LEMMA ItemFields ==
    ASSUME NEW D, NEW d, NEW p
    PROVE  /\ item(D, d, p).dir = d
           /\ item(D, d, p).name = record_at(D, d, p).name
           /\ item(D, d, p).type = record_at(D, d, p).type
           /\ item(D, d, p).node = record_at(D, d, p).inode
BY DEF item

\* A name of the tree is an entry of a directory.
LEMMA InTreeOf ==
    ASSUME NEW D, NEW e
    PROVE  e \in TreeOf(D) <=> \E d \in DirNodes(D) : \E p \in slots(D, d) : e = item(D, d, p)
BY DEF TreeOf

\* The refinement mapping reads the entries of the directories.
LEMMA TreeRead == InOrder(disk) => treeBar = TreeOf(disk)
<1> SUFFICES ASSUME InOrder(disk) PROVE treeBar = TreeOf(disk)
  OBVIOUS
<1>1. treeBar = UNION {{item(disk, d, p) : p \in Entries(d)} : d \in DirNodes(disk)}
  BY Zenon DEF treeBar, DirNodes, item
<1>2. \A d \in DirNodes(disk) : Entries(d) = slots(disk, d)
  BY DirectoriesAreNodes, DirectoryRead
<1> HIDE DEF item
<1> QED BY <1>1, <1>2 DEF TreeOf

\* The directories of the tree and its nodes.
LEMMA FoldersRead ==
    ASSUME InOrder(disk), treeBar = TreeOf(disk)
    PROVE  Tree!Folders = DirNodes(disk) /\ Tree!Nodes = disk.imap
<1>1. disk \in Disk /\ TreeForm(disk) /\ root \in DirNodes(disk) /\ root \in disk.imap
  BY DEF InOrder, TreeForm, DirNodes
<1>2. ASSUME NEW e \in treeBar
      PROVE  e.node \in disk.imap /\ (e.type = "dir" => e.node \in DirNodes(disk))
  <2>1. PICK d \in DirNodes(disk) : \E p \in slots(disk, d) : e = item(disk, d, p)
    BY InTreeOf
  <2>2. PICK p \in slots(disk, d) : e = item(disk, d, p)
    BY <2>1
  <2>3. e.node = record_at(disk, d, p).inode /\ e.type = record_at(disk, d, p).type
    BY <2>2, ItemFields
  <2> QED BY <1>1, <2>3, InTree
<1>3. ASSUME NEW j \in disk.imap, j # root
      PROVE  \E e \in treeBar : e.node = j /\ (j \in DirNodes(disk) => e.type = "dir")
  <2>1. PICK d \in DirNodes(disk) : \E p \in slots(disk, d) : record_at(disk, d, p).inode = j
    BY <1>1, <1>3 DEF TreeForm
  <2>2. PICK p \in slots(disk, d) : record_at(disk, d, p).inode = j
    BY <2>1
  <2>3. j \in DirNodes(disk) => record_at(disk, d, p).type = "dir"
    BY <1>1, <2>2, InTree
  <2>4. item(disk, d, p) \in treeBar
    BY InTreeOf
  <2> QED BY <2>2, <2>3, <2>4, ItemFields
<1>4. Tree!Nodes = disk.imap
  <2>1. Tree!Nodes = {root} \cup {e.node : e \in treeBar}
    BY DEF Tree!Nodes
  <2> QED BY <1>1, <1>2, <1>3, <2>1
<1>5. Tree!Folders = DirNodes(disk)
  <2>1. Tree!Folders = {root} \cup {e.node : e \in {f \in treeBar : f.type = "dir"}}
    BY DEF Tree!Folders
  <2>2. DirNodes(disk) \subseteq disk.imap
    BY DEF DirNodes
  <2>3. \A j \in DirNodes(disk) : j = root \/ \E e \in treeBar : e.node = j /\ e.type = "dir"
    BY <1>3, <2>2
  <2> QED BY <1>1, <1>2, <2>1, <2>3
<1> QED BY <1>4, <1>5

\* A new entry is a new name.
LEMMA TreeOfGrown ==
    ASSUME NEW D, NEW E, NEW d, d \in DirNodes(D), NEW r, TreeGrown(D, E, d, r)
    PROVE  TreeOf(E) = TreeOf(D) \cup {[dir |-> d, name |-> r.name, type |-> r.type, node |-> r.inode]}
<1>0. PICK x : x = [dir |-> d, name |-> r.name, type |-> r.type, node |-> r.inode]
  OBVIOUS
<1>1. \A i \in DirNodes(D) : \A p \in slots(D, i) :
          i \in DirNodes(E) /\ p \in slots(E, i) /\ item(E, i, p) = item(D, i, p)
  BY DEF TreeGrown, item
<1>2. d \in DirNodes(E) /\ dsize(D, d) \in slots(E, d) /\ item(E, d, dsize(D, d)) = x
  BY <1>0 DEF TreeGrown, item
<1>3. \A i \in DirNodes(E) : \A p \in slots(E, i) :
          \/ i \in DirNodes(D) /\ p \in slots(D, i)
          \/ i = d /\ p = dsize(D, d)
  BY DEF TreeGrown
<1>4. ASSUME NEW e \in TreeOf(E) PROVE e \in TreeOf(D) \/ e = x
  <2>1. PICK i \in DirNodes(E) : \E p \in slots(E, i) : e = item(E, i, p)
    BY InTreeOf
  <2>2. PICK p \in slots(E, i) : e = item(E, i, p)
    BY <2>1
  <2>3. CASE i \in DirNodes(D) /\ p \in slots(D, i)
    BY <1>1, <2>2, <2>3, InTreeOf
  <2>4. CASE i = d /\ p = dsize(D, d)
    BY <1>2, <2>2, <2>4
  <2> QED BY <1>3, <2>3, <2>4
<1>5. ASSUME NEW e \in TreeOf(D) PROVE e \in TreeOf(E)
  <2>1. PICK i \in DirNodes(D) : \E p \in slots(D, i) : e = item(D, i, p)
    BY InTreeOf
  <2>2. PICK p \in slots(D, i) : e = item(D, i, p)
    BY <2>1
  <2> QED BY <1>1, <2>2, InTreeOf
<1>6. x \in TreeOf(E)
  BY <1>2, InTreeOf
<1>7. TreeOf(E) = TreeOf(D) \cup {x}
  BY <1>4, <1>5, <1>6
<1> QED BY <1>0, <1>7

\* A removed entry is a name less.
LEMMA TreeOfShrunk ==
    ASSUME NEW D, InOrder(D), NEW E, NEW d, d \in DirNodes(D), NEW pos, pos \in slots(D, d),
           NEW f, f = record_at(D, d, pos).inode, TreeShrunk(D, E, d, pos, f),
           f \in DirNodes(D) => slots(D, f) = {}
    PROVE  TreeOf(E) = TreeOf(D) \ {item(D, d, pos)}
<1> PICK x : x = item(D, d, pos)
  OBVIOUS
<1>1. \A i \in DirNodes(D) : \A p \in slots(D, i) : item(D, i, p) = x => i = d /\ p = pos
  <2> SUFFICES ASSUME NEW i \in DirNodes(D), NEW p \in slots(D, i), item(D, i, p) = x
               PROVE  i = d /\ p = pos
    OBVIOUS
  <2>1. record_at(D, i, p).inode = record_at(D, d, pos).inode
    BY ItemFields
  <2> QED BY <2>1 DEF InOrder, TreeForm
<1>2. \A i, p, q : record_at(E, i, q) = record_at(D, i, p) => item(E, i, q) = item(D, i, p)
  BY DEF item
<1>3. ASSUME NEW e \in TreeOf(E) PROVE e \in TreeOf(D) /\ e # x
  <2>1. PICK i \in DirNodes(E) : \E q \in slots(E, i) : e = item(E, i, q)
    BY InTreeOf
  <2>2. PICK q \in slots(E, i) : e = item(E, i, q)
    BY <2>1
  <2>3. PICK p \in slots(D, i) : ~ (i = d /\ p = pos) /\ record_at(E, i, q) = record_at(D, i, p)
    BY <2>2 DEF TreeShrunk
  <2>4. i \in DirNodes(D) /\ e = item(D, i, p)
    BY <1>2, <2>1, <2>2, <2>3 DEF TreeShrunk
  <2> QED BY <1>1, <2>3, <2>4, InTreeOf
<1>4. ASSUME NEW e \in TreeOf(D), e # x PROVE e \in TreeOf(E)
  <2>1. PICK i \in DirNodes(D) : \E p \in slots(D, i) : e = item(D, i, p)
    BY InTreeOf
  <2>2. PICK p \in slots(D, i) : e = item(D, i, p)
    BY <2>1
  <2>3. ~ (i = d /\ p = pos) /\ i # f
    BY <1>4, <2>2
  <2>4. i \in DirNodes(E)
    BY <2>3 DEF TreeShrunk
  <2>5. PICK q \in slots(E, i) : record_at(E, i, q) = record_at(D, i, p)
    BY <2>2, <2>3, <2>4 DEF TreeShrunk
  <2> QED BY <1>2, <2>2, <2>4, <2>5, InTreeOf
<1> QED BY <1>3, <1>4

\* The open files are those that a busy entry has.
LEMMA InOpenBar ==
    /\ \A x : x \in openBar <=> \E h \in File : files[h].busy /\ files[h].inode = x
    /\ \A x : x \in openBar' <=> \E h \in File : files'[h].busy /\ files'[h].inode = x
BY DEF openBar

\* open2 and create2 add their file to the open ones.
LEMMA OpenedBar ==
    ASSUME Tables, empty_handles # {}, NEW i \in Inode, NEW d \in Inode, NEW n \in Name,
           files' = opened(get_empty_file_handle, i, d, n)
    PROVE  openBar' = openBar \cup {i}
<1> PICK h : h = get_empty_file_handle
  OBVIOUS
<1>1. h \in File /\ ~ files[h].busy
  BY EmptyHandle
<1>2. PICK e : e = [busy |-> TRUE, inode |-> i, parent |-> d, name |-> n]
  OBVIOUS
<1>3. e.busy /\ e.inode = i
  BY <1>2
<1>4. files' = [files EXCEPT ![h] = e]
  BY <1>2, Zenon DEF opened
<1>5. files \in [File -> Handle]
  BY DEF Tables
<1>6. files'[h] = e /\ \A k \in File \ {h} : files'[k] = files[k]
  BY <1>1, <1>4, <1>5
<1>7. ASSUME NEW x, x \in openBar' PROVE x \in openBar \/ x = i
  <2>1. PICK k \in File : files'[k].busy /\ files'[k].inode = x
    BY <1>7, InOpenBar
  <2> QED BY <1>3, <1>6, <2>1, InOpenBar
<1>8. ASSUME NEW x, x \in openBar PROVE x \in openBar'
  <2>1. PICK k \in File : files[k].busy /\ files[k].inode = x
    BY <1>8, InOpenBar
  <2>2. files'[k] = files[k]
    BY <1>1, <1>6, <2>1
  <2> QED BY <2>1, <2>2, InOpenBar
<1>9. i \in openBar'
  BY <1>1, <1>3, <1>6, InOpenBar
<1> QED BY <1>7, <1>8, <1>9

\* close2 takes its file from the open ones, which has no other entry.
LEMMA ClosedBar ==
    ASSUME Tables, FirstEntry, NEW h \in File, files[h].busy,
           files' = [files EXCEPT ![h].busy = FALSE]
    PROVE  openBar' = openBar \ {files[h].inode}
<1>1. files \in [File -> Handle]
  BY DEF Tables
<1>2. \A k \in File \ {h} : files'[k] = files[k]
  BY <1>1
<1>3. \A k \in File : files'[k].busy => files[k].busy /\ files'[k] = files[k] /\ k # h
  BY ClosedTyped
<1>4. \A k \in File : files[k].busy /\ files[k].inode = files[h].inode => k = h
  <2> SUFFICES ASSUME NEW k \in File, files[k].busy, files[k].inode = files[h].inode
               PROVE  k = h
    OBVIOUS
  <2>1. k <= h /\ h <= k /\ k \in Nat /\ h \in Nat
    BY FilesAreNumbers DEF FirstEntry
  <2> QED BY <2>1
<1>5. ASSUME NEW x, x \in openBar' PROVE x \in openBar /\ x # files[h].inode
  <2>1. PICK k \in File : files'[k].busy /\ files'[k].inode = x
    BY <1>5, InOpenBar
  <2>2. files[k].busy /\ files[k].inode = x /\ k # h
    BY <1>3, <2>1
  <2> QED BY <1>4, <2>2, InOpenBar
<1>6. ASSUME NEW x, x \in openBar, x # files[h].inode PROVE x \in openBar'
  <2>1. PICK k \in File : files[k].busy /\ files[k].inode = x
    BY <1>6, InOpenBar
  <2>2. files'[k] = files[k]
    BY <1>2, <1>6, <2>1
  <2> QED BY <2>1, <2>2, InOpenBar
<1> QED BY <1>5, <1>6

\* delete2 takes the removed file from the open ones.
LEMMA DeletedBar ==
    ASSUME Tables, FirstEntry, NEW f, files' = close_deleted(f)
    PROVE  openBar' = openBar \ {f}
<1> PICK O : O = {h \in handles_with(f) : files[h].busy}
  OBVIOUS
<1>1. \A h \in File : files[h].busy /\ files[h].inode = f <=> h \in O
  BY DEF handles_with
<1>2. O \subseteq File /\ O \subseteq Nat
  BY FilesAreNumbers DEF handles_with
<1>3. CASE O = {}
  <2>1. files' = files
    BY <1>3, Zenon DEF close_deleted
  <2>2. f \notin openBar
    BY <1>1, <1>3, InOpenBar
  <2>3. openBar' = openBar
    BY <2>1 DEF openBar
  <2> QED BY <2>2, <2>3
<1>4. CASE O # {}
  <2> PICK m : m = Min(O)
    OBVIOUS
  <2>1. m \in O
    BY <1>2, <1>4, MinIsLeast
  <2>2. files' = [files EXCEPT ![m].busy = FALSE]
    BY <1>4, Zenon DEF close_deleted
  <2>3. m \in File /\ files[m].busy /\ files[m].inode = f
    BY <1>1, <1>2, <2>1
  <2> QED BY <2>2, <2>3, ClosedBar
<1> QED BY <1>3, <1>4

-----------------------------------------------------------------------------
\* The formatted disk is a tree without names.
LEMMA TreeInit == Init => Tree!Init
<1> SUFFICES ASSUME Init PROVE Tree!Init
  OBVIOUS
<1>1. InOrder(disk) /\ DirNodes(disk) = {root} /\ slots(disk, root) = {}
  BY FormattedInOrder
<1>2. treeBar = {}
  BY <1>1, TreeRead DEF TreeOf
<1>3. openBar = {}
  <2>1. \A h \in File : ~ files[h].busy
    BY DEF Init, no_files
  <2> QED BY <2>1, InOpenBar
<1>4. cwd = root
  BY DEF Init
<1> QED BY <1>2, <1>3, <1>4 DEF Tree!Init

\* create2 and mkdir2 are a Make of FileTree.
LEMMA MakeStep ==
    ASSUME Kept, InOrder(disk'), NEW d \in DirNodes(disk), NEW n \in Name,
           find_record(disk, d, n) = -1,
           NEW r, r.name = n, r.inode \in Inode, TreeGrown(disk, disk', d, r), UNCHANGED cwd,
           openBar' = IF r.type = "file" THEN openBar \cup {r.inode} ELSE openBar
    PROVE  Tree!Next
<1>1. /\ treeBar = TreeOf(disk) /\ Tree!Folders = DirNodes(disk) /\ Tree!Nodes = disk.imap
      /\ InOrder(disk) /\ disk \in Disk /\ TreeForm(disk) /\ d \in Inode
  BY TreeRead, FoldersRead, DiskFields DEF Kept, InOrder, DirNodes
<1>2. treeBar' = TreeOf(disk')
  <2>1. (InOrder(disk) => treeBar = TreeOf(disk))'
    BY TreeRead, PTL
  <2> QED BY <2>1
<1>3. Tree!Called(d, n) = {}
  <2> SUFFICES ASSUME NEW e \in treeBar, e.dir = d, e.name = n PROVE FALSE
    BY DEF Tree!Called, Tree!Within
  <2>1. PICK i \in DirNodes(disk) : \E p \in slots(disk, i) : e = item(disk, i, p)
    BY <1>1, InTreeOf
  <2>2. PICK p \in slots(disk, i) : e = item(disk, i, p)
    BY <2>1
  <2>3. i = d /\ record_at(disk, d, p).name = n
    BY <2>2, ItemFields
  <2>4. Found(disk, d, n) /\ dsize(disk, d) \in Nat
    BY <1>1, Finds, InTree
  <2>5. p \in 0 .. dsize(disk, d) - 1
    BY <2>2, <2>3, <2>4 DEF slots
  <2>6. p = -1
    BY <2>3, <2>4, <2>5 DEF Found
  <2> QED BY <2>5, <2>6
<1>4. treeBar' = treeBar \cup {[dir |-> d, name |-> n, type |-> r.type, node |-> r.inode]}
  BY <1>1, <1>2, TreeOfGrown
<1>5. r.type \in {"file", "dir"} /\ r.inode \in Inode \ Tree!Nodes
  BY <1>1 DEF TreeGrown
<1>6. Tree!Make(d, n, r.type)
  BY <1>1, <1>3, <1>4, <1>5, Zenon DEF Tree!Make
<1> QED BY <1>1, <1>5, <1>6 DEF Tree!Next

\* delete2 and rmdir2 are removals in FileTree.
LEMMA RemoveStep ==
    ASSUME Kept, InOrder(disk'), NEW d \in DirNodes(disk), NEW pos \in slots(disk, d),
           NEW f, f = record_at(disk, d, pos).inode, TreeShrunk(disk, disk', d, pos, f),
           UNCHANGED cwd,
           \/ record_at(disk, d, pos).type = "file" /\ openBar' = openBar \ {f}
           \/ /\ record_at(disk, d, pos).type = "dir" /\ slots(disk, f) = {}
              /\ openBar' = openBar
    PROVE  Tree!Next
<1> PICK e : e = item(disk, d, pos)
  OBVIOUS
<1>1. /\ treeBar = TreeOf(disk) /\ InOrder(disk) /\ disk \in Disk /\ TreeForm(disk)
      /\ e \in treeBar
  BY TreeRead, InTreeOf DEF Kept, InOrder
<1>2. treeBar' = TreeOf(disk')
  <2>1. (InOrder(disk) => treeBar = TreeOf(disk))'
    BY TreeRead, PTL
  <2> QED BY <2>1
<1>3. e.type = record_at(disk, d, pos).type /\ e.node = f
  BY ItemFields
<1>4. record_at(disk, d, pos).type = "dir" <=> f \in DirNodes(disk)
  BY <1>1, InTree
<1>5. treeBar' = treeBar \ {e}
  <2>1. f \in DirNodes(disk) => slots(disk, f) = {}
    BY <1>4
  <2> QED BY <1>1, <1>2, <2>1, TreeOfShrunk
<1>6. CASE record_at(disk, d, pos).type = "file" /\ openBar' = openBar \ {f}
  <2>1. Tree!RemoveFile(e)
    BY <1>3, <1>5, <1>6 DEF Tree!RemoveFile
  <2> QED BY <1>1, <2>1 DEF Tree!Next
<1>7. CASE record_at(disk, d, pos).type = "dir" /\ slots(disk, f) = {} /\ openBar' = openBar
  <2>1. Tree!Within(e.node) = {}
    <3> SUFFICES ASSUME NEW x \in treeBar, x.dir = f PROVE FALSE
      BY <1>3 DEF Tree!Within
    <3>1. PICK i \in DirNodes(disk) : \E p \in slots(disk, i) : x = item(disk, i, p)
      BY <1>1, InTreeOf
    <3>2. i = f
      BY <3>1, ItemFields
    <3> QED BY <1>7, <3>1, <3>2
  <2>2. Tree!RemoveFolder(e)
    BY <1>3, <1>5, <1>7, <2>1 DEF Tree!RemoveFolder
  <2> QED BY <1>1, <2>2 DEF Tree!Next
<1> QED BY <1>6, <1>7

\* Every call is a step of FileTree or changes nothing that it sees.
LEMMA TreeStep ==
    ASSUME CarefulRmdir
    PROVE  IInv /\ [Next]_vars => [Tree!Next]_<<treeBar, openBar, cwd>>
<1> SUFFICES ASSUME IInv, [Next]_vars
             PROVE  Tree!Next \/ UNCHANGED <<treeBar, openBar, cwd>>
  OBVIOUS
<1>1. /\ Kept /\ FirstEntry /\ Paths = DirNodes(disk) /\ InOrder(disk) /\ Tables
      /\ disk \in Disk /\ TreeForm(disk) /\ DirNodes(disk) \subseteq Inode
  BY PathsAreNodes, DiskFields DEF IInv, Kept, InOrder, DirNodes
<1>2. InOrder(disk')
  <2>1. IInv'
    BY IInvStep
  <2> QED BY <2>1 DEF IInv
<1>3. ASSUME UNCHANGED disk PROVE UNCHANGED treeBar
  BY <1>3 DEF treeBar, Entries, Filled, positions, record_at, record_block
<1>4. ASSUME UNCHANGED files PROVE UNCHANGED openBar
  BY <1>4 DEF openBar
<1>5. ASSUME NEW d \in DirNodes(disk), NEW n \in Name, create2(d, n) PROVE Tree!Next
  <2>1. PICK r : /\ r.name = n /\ r.type = "file" /\ r.inode \in Inode
                 /\ files' = opened(get_empty_file_handle, r.inode, d, n)
                 /\ TreeGrown(disk, disk', d, r)
    BY <1>1, <1>5, create2Keeps
  <2>2. find_record(disk, d, n) = -1 /\ empty_handles # {} /\ UNCHANGED cwd /\ d \in Inode
    BY <1>1, <1>5 DEF create2
  <2>3. openBar' = openBar \cup {r.inode}
    BY <1>1, <2>1, <2>2, OpenedBar
  <2>4. openBar' = IF r.type = "file" THEN openBar \cup {r.inode} ELSE openBar
    BY <2>1, <2>3
  <2> QED BY <1>1, <1>2, <2>1, <2>2, <2>4, MakeStep
<1>6. ASSUME NEW d \in DirNodes(disk), NEW n \in Name, mkdir2(d, n) PROVE Tree!Next
  <2>1. PICK r : r.name = n /\ r.type = "dir" /\ r.inode \in Inode /\ TreeGrown(disk, disk', d, r)
    BY <1>1, <1>6, mkdir2Keeps
  <2>2. find_record(disk, d, n) = -1 /\ UNCHANGED cwd /\ UNCHANGED files
    BY <1>6 DEF mkdir2
  <2>3. openBar' = IF r.type = "file" THEN openBar \cup {r.inode} ELSE openBar
    BY <1>4, <2>1, <2>2
  <2> QED BY <1>1, <1>2, <2>1, <2>2, <2>3, MakeStep
<1>7. ASSUME NEW d \in DirNodes(disk), NEW n \in Name, delete2(d, n) PROVE Tree!Next
  <2>1. PICK pos \in slots(disk, d) :
              /\ record_at(disk, d, pos).name = n
              /\ record_at(disk, d, pos).type = "file"
              /\ TreeShrunk(disk, disk', d, pos, record_at(disk, d, pos).inode)
    BY <1>1, <1>7, delete2Keeps
  <2> PICK p : p = find_record(disk, d, n)
    OBVIOUS
  <2>2. UNCHANGED cwd /\ p # -1 /\ files' = close_deleted(record_at(disk, d, p).inode)
    BY <1>7 DEF delete2
  <2>3. p = pos
    <3>1. Found(disk, d, n) /\ pos \in 0 .. dsize(disk, d) - 1
      BY <1>1, Finds, InTree DEF slots
    <3> QED BY <2>1, <3>1 DEF Found
  <2> PICK f : f = record_at(disk, d, pos).inode
    OBVIOUS
  <2>4. openBar' = openBar \ {f}
    BY <1>1, <2>2, <2>3, DeletedBar
  <2> QED BY <1>1, <1>2, <2>1, <2>2, <2>4, RemoveStep
<1>8. ASSUME NEW d \in DirNodes(disk), NEW n \in Name, rmdir2(d, n) PROVE Tree!Next
  <2>1. PICK pos \in slots(disk, d) :
              /\ record_at(disk, d, pos).type = "dir"
              /\ slots(disk, record_at(disk, d, pos).inode) = {}
              /\ TreeShrunk(disk, disk', d, pos, record_at(disk, d, pos).inode)
    BY <1>1, <1>8, rmdir2Keeps
  <2>2. UNCHANGED cwd /\ UNCHANGED files
    BY <1>8 DEF rmdir2
  <2>3. openBar' = openBar
    BY <1>4, <2>2
  <2> QED BY <1>1, <1>2, <2>1, <2>2, <2>3, RemoveStep
<1>9. ASSUME NEW d \in DirNodes(disk), NEW n \in Name, open2(d, n) PROVE Tree!Next
  <2> PICK p : p = find_record(disk, d, n)
    OBVIOUS
  <2> PICK i : i = record_at(disk, d, p).inode
    OBVIOUS
  <2>1. /\ p # -1 /\ record_at(disk, d, p).type # "dir" /\ empty_handles # {}
        /\ files' = opened(get_empty_file_handle, i, d, n) /\ UNCHANGED <<disk, cwd>>
    BY <1>9 DEF open2
  <2>2. p \in slots(disk, d) /\ record_at(disk, d, p).type = "file" /\ i \in Inode /\ d \in Inode
    BY <1>1, <2>1, NameFound
  <2>3. openBar' = openBar \cup {i}
    BY <1>1, <2>1, <2>2, OpenedBar
  <2> PICK e : e = item(disk, d, p)
    OBVIOUS
  <2>4. e \in treeBar /\ e.type = "file" /\ e.node = i
    BY <1>1, <2>2, TreeRead, InTreeOf, ItemFields
  <2>5. Tree!Open(e)
    BY <1>3, <2>1, <2>3, <2>4 DEF Tree!Open
  <2> QED BY <2>4, <2>5 DEF Tree!Next
<1>10. ASSUME NEW h \in File, close2(h) PROVE Tree!Next
  <2>1. files[h].busy /\ files' = [files EXCEPT ![h].busy = FALSE] /\ UNCHANGED <<disk, cwd>>
    BY <1>10 DEF close2
  <2>2. openBar' = openBar \ {files[h].inode} /\ files[h].inode \in openBar
    BY <1>1, <2>1, ClosedBar, InOpenBar
  <2>3. Tree!Close(files[h].inode)
    BY <1>3, <2>1, <2>2 DEF Tree!Close
  <2> QED BY <2>2, <2>3 DEF Tree!Next
<1>11. ASSUME NEW p \in Pathname, chdir2(p) PROVE Tree!Next
  <2>1. Kept' /\ UNCHANGED <<disk, files>>
    BY <1>1, <1>11, chdir2Keeps DEF chdir2
  <2> PICK d : d = cwd'
    OBVIOUS
  <2>2. d \in DirNodes(disk)
    BY <2>1 DEF Kept, Held
  <2>3. d \in Tree!Folders /\ d \in Inode
    BY <1>1, <2>2, TreeRead, FoldersRead
  <2>4. Tree!Go(d)
    BY <1>3, <1>4, <2>1, <2>3 DEF Tree!Go
  <2> QED BY <2>3, <2>4 DEF Tree!Next
<1>12. ASSUME restart PROVE Tree!Next
  <2>1. UNCHANGED disk /\ files' = no_files /\ cwd' = root
    BY <1>12 DEF restart
  <2>2. openBar' = {}
    <3>1. \A h \in File : ~ files'[h].busy
      BY <2>1 DEF no_files
    <3> QED BY <3>1, InOpenBar
  <2>3. Tree!Restart
    BY <1>3, <2>1, <2>2 DEF Tree!Restart
  <2> QED BY <2>3 DEF Tree!Next
<1>13. ASSUME UNCHANGED <<disk, files, cwd>> PROVE UNCHANGED <<treeBar, openBar, cwd>>
  BY <1>3, <1>4, <1>13
<1> QED
  BY <1>1, <1>5, <1>6, <1>7, <1>8, <1>9, <1>10, <1>11, <1>12, <1>13
     DEF Next, vars, opendir2, readdir2, closedir2

\* T2FS is a tree of names, a set of open files and a current directory.
THEOREM Implements == ASSUME CarefulRmdir PROVE Spec => ImplementsFileTree
<1>1. Spec => Tree!Spec
  BY Invariant, TreeInit, TreeStep, PTL DEF Spec, Tree!Spec
<1> QED BY <1>1 DEF ImplementsFileTree
=============================================================================
