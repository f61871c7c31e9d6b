------------------------------ MODULE T2fsTree ------------------------------
(***************************************************************************)
(* The directory tree of T2FS (src/t2fs): i-nodes, directory blocks and    *)
(* the records in them on the disk, and the tables of open files and open  *)
(* directories and the current directory in memory.  The library is        *)
(* sequential: one call is one step.  A call the library refuses returns   *)
(* -1 and changes nothing, so it is a stuttering step.                     *)
(*                                                                         *)
(* The unit of size is one record: a block is RPB records long.  The       *)
(* blocks of a directory are a sequence, whichever pointer of the i-node   *)
(* leads to them; the single indirect block is kept apart, because it is   *)
(* allocated and freed too.  What a file contains is module T2fsFile's.    *)
(*                                                                         *)
(* An operator marked "Mutated" is a wrong variant of the definition that  *)
(* follows it.  No action uses it: it stands in for that definition to     *)
(* show that a property can fail.                                          *)
(***************************************************************************)
EXTENDS Integers, Sequences, FiniteSets

CONSTANTS
    NI,           \* bound: i-nodes 0..NI-1
    NB,           \* bound: blocks 0..NB-1 for directories
    RPB,          \* _records_per_block_ (16 on the disk images)
    DIRECT,       \* direct pointers of an i-node (10)
    Name,         \* the names programs give to files and directories
    MAX_FILE,     \* entries of _opened_file_ (20)
    MAX_DIR,      \* entries of _opened_dir_ (20)
    CarefulRmdir, \* TRUE: programs call rmdir2 on a directory that exists
                  \* and is neither current nor open; FALSE: on any name
    MaxPath,      \* bound: components of a path given to chdir2
    PlainPaths    \* TRUE: programs give chdir2 relative paths that do not end
                  \* in a slash; FALSE: any path

ASSUME SizesAssumption ==
    /\ NI \in Nat \ {0} /\ NB \in Nat \ {0} /\ RPB \in Nat \ {0, 1, 2}
    /\ DIRECT \in Nat \ {0} /\ MAX_FILE \in Nat \ {0} /\ MAX_DIR \in Nat \ {0}
ASSUME NameAssumption == Name \cap {"", ".", ".."} = {}
ASSUME CarefulRmdirAssumption == CarefulRmdir \in BOOLEAN
ASSUME PathAssumption == MaxPath \in Nat /\ PlainPaths \in BOOLEAN

VARIABLES
    disk,   \* what the sectors hold, see Disk
    files,  \* _opened_file_
    dirs,   \* _opened_dir_
    cwd,    \* _current_dir_inode_
    cwd_string   \* _cwd_: the components after the slashes, none for "/"

vars == <<disk, files, dirs, cwd, cwd_string>>

root   == 0
Inode  == 0 .. NI - 1
Block  == 0 .. NB - 1
File   == 0 .. MAX_FILE - 1
Dir    == 0 .. MAX_DIR - 1
NULL_BLOCK == NB         \* 0xFFFFFFFF, an address no block has

Min(S) == CHOOSE x \in S : \A y \in S : x <= y

(***************************************************************************)
(* Records and the disk.  An i-node that is free keeps its pointers and a  *)
(* block that is free keeps its records, as on the real disk.              *)
(***************************************************************************)
Record == [type : {"invalid", "file", "dir"}, name : Name \cup {"", ".", ".."},
           inode : Inode, bytes : Nat, blocks : Nat]

Disk == [imap : SUBSET Inode,               \* set bits of the i-node bitmap
         bmap : SUBSET Block,               \* set bits of the block bitmap
         ptr  : [Inode -> Seq(Block)],      \* dataPtr, then *singleIndPtr
         idx  : [Inode -> Block \cup {NULL_BLOCK}],   \* singleIndPtr
         rec  : [Block -> [0 .. RPB - 1 -> Record]]]

record_init == [type |-> "invalid", name |-> "", inode |-> 0, bytes |-> 0, blocks |-> 0]

record(type, name, inode) == [record_init EXCEPT !.type = type, !.name = name, !.inode = inode]

\* Positions of directory i that have a block behind them.
positions(D, i) == 0 .. Len(D.ptr[i]) * RPB - 1

record_block(D, i, pos) == D.ptr[i][pos \div RPB + 1]

record_at(D, i, pos) == D.rec[record_block(D, i, pos)][pos % RPB]

\* A position with no block behind it is not written.
write_record(D, i, pos, r) ==
    IF pos \in positions(D, i)
    THEN [D EXCEPT !.rec[record_block(D, i, pos)][pos % RPB] = r]
    ELSE D

named(D, i, n) == {p \in positions(D, i) : record_at(D, i, p).type # "invalid"
                                           /\ record_at(D, i, p).name = n}

find_record(D, i, n) ==
    LET hits == named(D, i, n) IN IF hits = {} THEN -1 ELSE Min(hits)

\* The "." record of the root is formatted with the size of a whole block.
inode_size(D, i) ==
    record_at(D, i, find_record(D, i, ".")).bytes - (IF i = root THEN RPB - 2 ELSE 0)

add_sizes(D, i, bytes, blocks) ==
    LET pos == find_record(D, i, ".")
    IN  write_record(D, i, pos, [record_at(D, i, pos) EXCEPT !.bytes = @ + bytes,
                                                              !.blocks = @ + blocks])

(***************************************************************************)
(* Allocation.                                                             *)
(***************************************************************************)
alloc_inode(D) == Min(Inode \ D.imap)

alloc_block(D) == Min(Block \ D.bmap)

\* Mutated: the pointers of the last owner stay.
inode_init_skipped(D, i) == [D EXCEPT !.imap = @ \cup {i}]

inode_init(D, i) == [D EXCEPT !.imap = @ \cup {i}, !.ptr[i] = <<>>, !.idx[i] = NULL_BLOCK]

blocks_of(D, i) ==
    {D.ptr[i][k] : k \in DOMAIN D.ptr[i]} \cup ({D.idx[i]} \ {NULL_BLOCK})

\* Mutated: free_inode is not called.
deep_free_inode_keeps_inode(D, i) == [D EXCEPT !.bmap = @ \ blocks_of(D, i)]

deep_free_inode(D, i) ==
    [D EXCEPT !.bmap = @ \ blocks_of(D, i), !.imap = @ \ {i}]

\* The blocks append_record allocates in directory i: none when a record of
\* it is invalid, two when the indirect block is created with the new one.
append_needs(D, i) ==
    IF \E p \in positions(D, i) : record_at(D, i, p).type = "invalid" THEN 0
    ELSE IF Len(D.ptr[i]) = DIRECT THEN 2 ELSE 1

add_record_block(D, i, r) ==
    LET b  == alloc_block(D)
        D1 == [D EXCEPT !.bmap = @ \cup {b},
                        !.rec[b] = [[k \in 0 .. RPB - 1 |-> record_init] EXCEPT ![0] = r],
                        !.ptr[i] = Append(@, b)]
    IN  IF Len(D.ptr[i]) # DIRECT THEN D1
        ELSE [D1 EXCEPT !.bmap = @ \cup {alloc_block(D1)}, !.idx[i] = alloc_block(D1)]

append_record(D, i, r) ==
    LET holes == {p \in positions(D, i) : record_at(D, i, p).type = "invalid"}
    IN  IF find_record(D, i, r.name) >= 0 THEN D
        ELSE IF holes # {}
        THEN add_sizes(write_record(D, i, Min(holes), r), i, 1, 0)
        ELSE add_sizes(add_record_block(D, i, r), i, 1, 1)

\* Mutated: the last record is copied into the hole and not erased.
remove_record_leaves_last(D, i, pos) ==
    add_sizes(write_record(D, i, pos, record_at(D, i, inode_size(D, i) - 1)), i, -1, 0)
\* Mutated: the hole is not filled with the last record.
remove_record_leaves_hole(D, i, pos) ==
    add_sizes(write_record(D, i, pos, record_init), i, -1, 0)

\* Mutated: the block count falls with the byte count.
remove_record_uncounts_block(D, i, pos) ==
    LET last  == inode_size(D, i) - 1
        moved == IF last # pos THEN write_record(D, i, pos, record_at(D, i, last)) ELSE D
    IN  add_sizes(write_record(moved, i, last, record_init), i, -1, -1)

remove_record(D, i, pos) ==
    LET last  == inode_size(D, i) - 1
        moved == IF last # pos THEN write_record(D, i, pos, record_at(D, i, last)) ELSE D
    IN  add_sizes(write_record(moved, i, last, record_init), i, -1, 0)

\* Mutated: the third record is not looked at.
dir_is_empty_always(D, i) == {TRUE}

\* What dir_is_empty may return: an i-node without blocks has it look at
\* records the failed read_block left uninitialised.
dir_is_empty(D, i) ==
    IF D.ptr[i] = <<>> THEN BOOLEAN ELSE {record_at(D, i, 2).type = "invalid"}

create_dir(D, d, n) ==
    LET c  == alloc_inode(D)
        D1 == append_record(inode_init(D, c), d, record("dir", n, c))
    IN  append_record(append_record(D1, c, record("dir", ".", c)), c, record("dir", "..", d))

(***************************************************************************)
(* Path names.  Most calls go through find_dir_inode to the directory that *)
(* holds the last component; what matters of their paths is the directory  *)
(* they reach, from the root or from the current one.                      *)
(***************************************************************************)
NO_DIR == -1

\* One component of a path, looked up in directory i.
subdir(D, i, n) ==
    LET p == find_record(D, i, n)
    IN  IF n = "" THEN i
        ELSE IF p = -1 \/ record_at(D, i, p).type # "dir" THEN NO_DIR
        ELSE record_at(D, i, p).inode

subdirs(D, i) == {subdir(D, i, n) : n \in Name \cup {".", ".."}} \ {NO_DIR}

find_dir_inode(D, start) ==
    LET within[k \in 0 .. NI] ==
            IF k = 0 THEN {start}
            ELSE LET W == within[k - 1] IN W \cup UNION {subdirs(D, i) : i \in W}
    IN  within[NI]

Paths == find_dir_inode(disk, root) \cup find_dir_inode(disk, cwd)

(***************************************************************************)
(* The initial states: the disk images of the repository (backup/), whose  *)
(* root holds "." and ".." in one block.                                   *)
(***************************************************************************)
formatted_root ==
    [k \in 0 .. RPB - 1 |->
        CASE k = 0 -> [record("dir", ".", root) EXCEPT !.bytes = RPB, !.blocks = 1]
          [] k = 1 -> [record("dir", "..", root) EXCEPT !.bytes = RPB, !.blocks = 1]
          [] OTHER -> record_init]

no_files == [h \in File |-> [busy |-> FALSE, inode |-> root, parent |-> root, name |-> ""]]
no_dirs  == [h \in Dir |-> [busy |-> FALSE, inode |-> root, entry |-> 0]]

Init ==
    /\ disk = [imap |-> {root}, bmap |-> {0},
               ptr  |-> [i \in Inode |-> IF i = root THEN <<0>> ELSE <<>>],
               idx  |-> [i \in Inode |-> NULL_BLOCK],
               rec  |-> [b \in Block |-> IF b = 0 THEN formatted_root
                                         ELSE [k \in 0 .. RPB - 1 |-> record_init]]]
    /\ files = no_files
    /\ dirs = no_dirs
    /\ cwd = root
    /\ cwd_string = <<>>

\* Bound: a call that allocates is made only while the disk has room for it.
Room(d, blocks) ==
    /\ Inode \ disk.imap # {}
    /\ Cardinality(Block \ disk.bmap) >= append_needs(disk, d) + blocks

(***************************************************************************)
(* Files.                                                                  *)
(***************************************************************************)
empty_handles == {h \in File : ~files[h].busy}

get_empty_file_handle == Min(empty_handles)

\* Mutated: only the first entry of the table is compared.
handles_with_first(inode) == {h \in {0} : files[h].inode = inode}

handles_with(inode) == {h \in File : files[h].inode = inode}

\* The test is on the first entry with the i-node, busy or left over.
already_opened(inode) ==
    handles_with(inode) # {} /\ files[Min(handles_with(inode))].busy

opened(h, inode, parent, name) ==
    [files EXCEPT ![h] = [busy |-> TRUE, inode |-> inode, parent |-> parent, name |-> name]]

create2(d, n) ==
    /\ find_record(disk, d, n) = -1
    /\ empty_handles # {}
    /\ Room(d, 0)
    /\ LET i    == alloc_inode(disk)
           mark == [disk EXCEPT !.imap = @ \cup {i}]
       IN  /\ disk' = inode_init(append_record(mark, d, record("file", n, i)), i)
           /\ files' = opened(get_empty_file_handle, i, d, n)
    /\ UNCHANGED <<dirs, cwd, cwd_string>>

\* Mutated: the table of open files is not searched.
close_deleted_not(inode) == files

\* The search stops at the first open file with the i-node.
close_deleted(inode) ==
    LET open == {h \in handles_with(inode) : files[h].busy}
    IN  IF open = {} THEN files ELSE [files EXCEPT ![Min(open)].busy = FALSE]

delete2(d, n) ==
    /\ find_record(disk, d, n) # -1
    /\ LET pos == find_record(disk, d, n)
           r   == record_at(disk, d, pos)
       IN  /\ r.type = "file"
           /\ disk' = remove_record(deep_free_inode(disk, r.inode), d, pos)
           /\ files' = close_deleted(r.inode)
    /\ UNCHANGED <<dirs, cwd, cwd_string>>

open2(d, n) ==
    /\ find_record(disk, d, n) # -1
    /\ LET r == record_at(disk, d, find_record(disk, d, n))
       IN  /\ r.type # "dir"
           /\ ~already_opened(r.inode)
           /\ empty_handles # {}
           /\ files' = opened(get_empty_file_handle, r.inode, d, n)
    /\ UNCHANGED <<disk, dirs, cwd, cwd_string>>

close2(h) ==
    /\ files[h].busy
    /\ files' = [files EXCEPT ![h].busy = FALSE]
    /\ UNCHANGED <<disk, dirs, cwd, cwd_string>>

(***************************************************************************)
(* Directories.                                                            *)
(***************************************************************************)
mkdir2(d, n) ==
    /\ find_record(disk, d, n) = -1
    /\ Room(d, 1)
    /\ disk' = create_dir(disk, d, n)
    /\ UNCHANGED <<files, dirs, cwd, cwd_string>>

\* The disks remove_dir may leave.  It does not look at what find_record
\* returned: for a name that does not exist record.i_node is uninitialised
\* and the position is -1.
remove_dir(D, d, n) ==
    LET pos  == find_record(D, d, n)
        node == IF pos = -1 THEN Inode ELSE {record_at(D, d, pos).inode}
    IN  {remove_record(deep_free_inode(D, i), d, pos) :
            i \in {j \in node : TRUE \in dir_is_empty(D, j)}}

Careful(d, n) ==
    /\ find_record(disk, d, n) # -1
    /\ LET r == record_at(disk, d, find_record(disk, d, n))
       IN  /\ r.type = "dir"
           /\ r.inode # cwd
           /\ \A h \in Dir : dirs[h].busy => dirs[h].inode # r.inode

rmdir2(d, n) ==
    /\ CarefulRmdir => Careful(d, n)
    /\ disk' \in remove_dir(disk, d, n)
    /\ UNCHANGED <<files, dirs, cwd, cwd_string>>

\* What chdir2 may be given.  A slash at the end makes a last component "".
Pathname ==
    LET plain   == UNION {[1 .. n -> Name \cup {".", ".."}] : n \in 1 .. MaxPath}
        slashed == {Append(p, "") : p \in plain} \cup {<<"">>}
    IN  IF PlainPaths THEN [absolute : {FALSE}, parts : plain]
        ELSE [absolute : BOOLEAN, parts : plain \cup slashed]

\* ".." cuts the string at its last slash, "." leaves it, another component
\* is appended; nothing is appended to "/" by an empty one.
cd_string(s, part) ==
    CASE part = ".." -> IF s = <<>> THEN s ELSE SubSeq(s, 1, Len(s) - 1)
      [] part = "." \/ (part = "" /\ s = <<>>) -> s
      [] OTHER -> Append(s, part)

\* The loop of chdir2 over the components: the i-node, NO_DIR as soon as one
\* is not found, and the string as far as it got.
chdir2_walk(i, s, parts) ==
    LET walk[k \in 0 .. Len(parts)] ==
            IF k = 0 THEN [inode |-> i, string |-> s]
            ELSE LET w == walk[k - 1]
                     c == subdir(disk, w.inode, parts[k])
                 IN  IF w.inode = NO_DIR THEN w
                     ELSE IF c = NO_DIR THEN [w EXCEPT !.inode = NO_DIR]
                     ELSE [inode |-> c, string |-> cd_string(w.string, parts[k])]
    IN  walk[Len(parts)]

\* Mutated: the loop works on _cwd_ itself and not on a copy.
chdir2_in_place(p) ==
    LET w == chdir2_walk(IF p.absolute THEN root ELSE cwd, cwd_string, p.parts)
    IN  /\ cwd' = IF w.inode = NO_DIR THEN cwd ELSE w.inode
        /\ cwd_string' = w.string
        /\ UNCHANGED <<disk, files, dirs>>

\* An absolute path starts at the root but from the old string all the same.
chdir2(p) ==
    LET w == chdir2_walk(IF p.absolute THEN root ELSE cwd, cwd_string, p.parts)
    IN  /\ w.inode # NO_DIR
        /\ cwd' = w.inode
        /\ cwd_string' = w.string
        /\ UNCHANGED <<disk, files, dirs>>

\* Mutated: busy is not tested.
free_dir_entries_all == Dir

free_dir_entries == {h \in Dir : ~dirs[h].busy}

opendir2(d) ==
    /\ free_dir_entries # {}
    /\ dirs' = [dirs EXCEPT ![Min(free_dir_entries)] =
                    [busy |-> TRUE, inode |-> d, entry |-> 0]]
    /\ UNCHANGED <<disk, files, cwd, cwd_string>>

\* read_record refuses a position past the size in the "." record.
readdir2(h) ==
    /\ dirs[h].busy
    /\ dirs[h].entry < inode_size(disk, dirs[h].inode)
    /\ record_at(disk, dirs[h].inode, dirs[h].entry).type # "invalid"
    /\ dirs' = [dirs EXCEPT ![h].entry = @ + 1]
    /\ UNCHANGED <<disk, files, cwd, cwd_string>>

closedir2(h) ==
    /\ dirs[h].busy
    /\ dirs' = [dirs EXCEPT ![h].busy = FALSE]
    /\ UNCHANGED <<disk, files, cwd, cwd_string>>

\* The process ends and another one starts on the same disk.
restart ==
    /\ files' = no_files
    /\ dirs' = no_dirs
    /\ cwd' = root
    /\ cwd_string' = <<>>
    /\ UNCHANGED disk

Next ==
    \/ \E d \in Paths :
          \/ opendir2(d)
          \/ \E n \in Name :
                create2(d, n) \/ delete2(d, n) \/ open2(d, n) \/ mkdir2(d, n) \/ rmdir2(d, n)
    \/ \E p \in Pathname : chdir2(p)
    \/ \E h \in File : close2(h)
    \/ \E h \in Dir : readdir2(h) \/ closedir2(h)
    \/ restart

Spec == Init /\ [][Next]_vars

(***************************************************************************)
(* Properties.                                                             *)
(***************************************************************************)
\* The disk holds i-node numbers, block addresses and sizes that exist, and
\* the tables of open files and directories entries of their own form.
TypeOK ==
    /\ disk \in Disk
    /\ files \in [File -> [busy : BOOLEAN, inode : Inode, parent : Inode,
                           name : Name \cup {""}]]
    /\ dirs \in [Dir -> [busy : BOOLEAN, inode : Inode, entry : Nat]]
    /\ cwd \in Inode
    /\ cwd_string \in Seq(Name \cup {""})

Directories == find_dir_inode(disk, root)
Filled(d) == {p \in positions(disk, d) : record_at(disk, d, p).type # "invalid"}
Entries(d) == {p \in Filled(d) : record_at(disk, d, p).name \notin {".", ".."}}

\* In every directory the records in use are the first ones, as many as "."
\* counts, "." counts the blocks too, ".." leads to the directory that names
\* it, and "." and ".." are the first two records.  append_record,
\* remove_record and dir_is_empty each rely on it.
DirWellFormed ==
    \A d \in Directories :
        LET dot == record_at(disk, d, 0)
            dotdot == record_at(disk, d, 1)
        IN  /\ Filled(d) = 0 .. inode_size(disk, d) - 1
            /\ dot.name = "." /\ dot.inode = d /\ dot.blocks = Len(disk.ptr[d])
            /\ dotdot.name = ".."
            /\ d # root => \E p \in Entries(dotdot.inode) :
                               record_at(disk, dotdot.inode, p).inode = d

\* No two records of a directory have the same name, so that it does not
\* matter at which one find_record stops.
UniqueNames ==
    \A d \in Directories : \A p, q \in Filled(d) :
        record_at(disk, d, p).name = record_at(disk, d, q).name => p = q

\* The set bits of the i-node bitmap are the root and the i-nodes named by
\* exactly one record each of the directories below the root: nothing leaks,
\* nothing dangles, and nothing has two names.
TreeShape ==
    LET Named == UNION {{<<d, p>> : p \in Entries(d)} : d \in Directories}
        inode(e) == record_at(disk, e[1], e[2]).inode
    IN  /\ disk.imap = {root} \cup {inode(e) : e \in Named}
        /\ \A e, f \in Named : inode(e) # root /\ (inode(e) = inode(f) => e = f)

\* The set bits of the block bitmap are the blocks that the allocated
\* i-nodes point to, and no block is pointed to twice.
BlocksOwnedOnce ==
    /\ disk.bmap = UNION {blocks_of(disk, i) : i \in disk.imap}
    /\ \A i, j \in disk.imap :
          i # j => blocks_of(disk, i) \cap blocks_of(disk, j) = {}
    /\ \A i \in disk.imap :
          Cardinality(blocks_of(disk, i)) =
              Len(disk.ptr[i]) + (IF Len(disk.ptr[i]) > DIRECT THEN 1 ELSE 0)

\* No file is open in two entries of the table, although open2 stops at the
\* first entry with the i-node even when that entry is a closed one, and
\* delete2 closes one entry only.
OneHandlePerFile ==
    \A h, k \in File : files[h].busy /\ files[k].busy
                       /\ files[h].inode = files[k].inode => h = k

\* An open handle's directory still holds, under the name it was opened by,
\* the record of its i-node: write2 saves the handle's record over whatever
\* record has that name.
HandleNamesFile ==
    \A h \in File : files[h].busy =>
        \E p \in named(disk, files[h].parent, files[h].name) :
            /\ files[h].parent \in Directories
            /\ record_at(disk, files[h].parent, p).inode = files[h].inode
            /\ record_at(disk, files[h].parent, p).type = "file"

\* Looking at the third record of the first block, dir_is_empty tells
\* whether a directory has any entry in any of its blocks.
EmptyCheckSound ==
    \A d \in Directories : dir_is_empty(disk, d) = {Entries(d) = {}}

\* The string that getcwd2 returns leads, from the root, to the directory
\* that relative paths start from: a program that opens what getcwd2 said, as
\* ls does, lists its current directory.  chdir2 updates the two apart, and
\* directories come and go under the string.
CwdNamesCurrent ==
    LET leads[k \in 0 .. Len(cwd_string)] ==
            IF k = 0 THEN root
            ELSE IF leads[k - 1] = NO_DIR THEN NO_DIR
            ELSE subdir(disk, leads[k - 1], cwd_string[k])
    IN  leads[Len(cwd_string)] = cwd

NamesEmptyDir(d, n) ==
    \E p \in named(disk, d, n) :
        /\ record_at(disk, d, p).type = "dir"
        /\ Entries(record_at(disk, d, p).inode) = {}

\* A name that is not that of a directory without entries (one that does not
\* exist, a file's, a directory's in use) is refused by rmdir2.
RmdirOnlyEmptyDirs ==
    [][disk' # disk => \A d \in Paths, n \in Name :
                           ~NamesEmptyDir(d, n) => ~rmdir2(d, n)]_vars

\* While a directory is read, an entry that readdir2 has passed stays among
\* those it has passed, or goes: whatever is created and removed meanwhile,
\* no entry is returned twice.
ReaddirNeverRepeats ==
    [][\A h \in Dir : dirs[h].busy /\ dirs'[h].busy =>
          \A p \in {e \in Entries(dirs[h].inode) : e < dirs[h].entry} :
              LET was == record_at(disk, dirs[h].inode, p)
              IN  \A q \in named(disk', dirs'[h].inode, was.name) :
                      record_at(disk', dirs'[h].inode, q).inode = was.inode
                          => q < dirs'[h].entry]_vars
=============================================================================
