------------------------------ MODULE T2fsFile ------------------------------
(***************************************************************************)
(* What T2FS files contain (src/t2fs): i-nodes, pointers and data blocks,  *)
(* the sizes in the directory records, and the open handles with their     *)
(* copies of those records.  One call is one step.  A file has one handle  *)
(* at most (T2fsTree!OneHandlePerFile), so handles are known by their      *)
(* files; directories are module T2fsTree's.                               *)
(*                                                                         *)
(* An operator marked "Mutated" is a wrong variant of the definition that  *)
(* follows it.  No action uses it: it stands in for that definition to     *)
(* show that a property can fail.                                          *)
(***************************************************************************)
EXTENDS T2fsBitmap, Sequences, FiniteSetsExt

CONSTANTS
    File,       \* the files of the program
    Value,      \* the bytes it writes
    unwritten,  \* the bytes of a buffer nobody filled
    BS,         \* BlockSize, in bytes (1024 on the disk images)
    DIRECT,     \* direct pointers of an i-node (10)
    PTRS,       \* _dwords_per_block_ (256 on the disk images)
    BYTE,       \* how many values a BYTE has (256)
    MaxBytes,   \* bound: files grow to this size
    MaxIO,      \* bound: bytes of one read2 or write2
    FullDisk    \* TRUE: a write may find no free block; FALSE: programs
                \* write only what the disk has room for

ASSUME ValueAssumption == unwritten \notin Value
ASSUME SizesAssumption ==
    /\ MaxBytes \in Nat /\ MaxIO \in Nat
    /\ BS \in Nat \ {0} /\ DIRECT \in Nat \ {0} /\ PTRS \in Nat \ {0} /\ BYTE \in Nat \ {0}
\* Bound: on a disk that fills up, files end before the indirect pointer.
ASSUME FullDiskAssumption == FullDisk \in BOOLEAN /\ (FullDisk => MaxBytes <= DIRECT * BS)

VARIABLES
    disk,    \* what the sectors hold, see TypeOK
    file,    \* the entry of _opened_file_ for each file
    wrote,   \* history: the byte last written by write2 at each offset
    torn     \* history: the files written to through a handle whose pointer
             \* a failed write2 had left past their end

vars == <<disk, file, wrote, torn>>

Block      == Bits
NULL_BLOCK == no_bit
Address    == Block \cup {NULL_BLOCK}
Offset     == 0 .. MaxBytes - 1
Buffer     == UNION {[1 .. n -> Value] : n \in 0 .. MaxIO}
Data       == [0 .. BS - 1 -> Value \cup {unwritten}]
Pointers   == [0 .. PTRS - 1 -> Address]

ceil(n) == (n + BS - 1) \div BS

(***************************************************************************)
(* Blocks and pointers.                                                    *)
(***************************************************************************)
alloc_block(D) == alloc_bit(D.bmap)

mark(D, b) == IF b = NULL_BLOCK THEN D ELSE [D EXCEPT !.bmap = set_bit(@, b)]

free_blocks(D, B) ==
    [D EXCEPT !.bmap = FoldSet(LAMBDA b, map : clear_bit(map, b), @, B)]

no_inode == [direct |-> [k \in 0 .. DIRECT - 1 |-> NULL_BLOCK],
             single |-> NULL_BLOCK, double |-> NULL_BLOCK]

\* The new block, and the disk that has it: its first pointer is first.
create_single_ind_block(D, first) ==
    LET b == alloc_block(D)
    IN  IF b = NULL_BLOCK THEN <<D, NULL_BLOCK>>
        ELSE <<[mark(D, b) EXCEPT !.blk[b] =
                   [k \in 0 .. PTRS - 1 |-> IF k = 0 THEN first ELSE NULL_BLOCK]], b>>

create_double_ind_block(D, first) ==
    LET b == alloc_block(D)
        c == create_single_ind_block(mark(D, b), first)
    IN  IF b = NULL_BLOCK THEN <<D, NULL_BLOCK>>
        ELSE <<[c[1] EXCEPT !.blk[b] =
                   [k \in 0 .. PTRS - 1 |-> IF k = 0 THEN c[2] ELSE NULL_BLOCK]], b>>

\* The pointers that are null; the first of them is the next one to be set.
free_slots(p) == {k \in DOMAIN p : p[k] = NULL_BLOCK}

\* The double indirect block is stored in singleIndPtr.  As nothing else
\* sets the doubleIndPtr of a file it stays null, and the code for a file
\* that has a double indirect block is not reached.
create_next_file_block(D, f) ==
    LET i  == D.inode[f]
        b  == alloc_block(D)
        D1 == mark(D, b)
    IN  IF free_slots(i.direct) # {}
        THEN [D1 EXCEPT !.inode[f].direct[least(free_slots(i.direct))] = b]
        ELSE IF i.single = NULL_BLOCK
        THEN LET c == create_single_ind_block(D1, b)
             IN  [c[1] EXCEPT !.inode[f].single = c[2]]
        ELSE IF free_slots(D.blk[i.single]) # {}
        THEN [D1 EXCEPT !.blk[i.single][least(free_slots(D.blk[i.single]))] = b]
        ELSE LET c == create_double_ind_block(D1, b)
             IN  [c[1] EXCEPT !.inode[f].single = c[2]]

\* An address in an indirect block is read through a BYTE pointer.
low_byte(a) == a % BYTE

\* -1 stands for what the caller gets when there is no such block.
get_file_logic_block_addr(D, f, k) ==
    LET i == D.inode[f]
    IN  IF k < DIRECT THEN i.direct[k]
        ELSE IF k < DIRECT + PTRS /\ i.single # NULL_BLOCK
        THEN low_byte(D.blk[i.single][k - DIRECT])
        ELSE NULL_BLOCK

\* The blocks an i-node leads to, its indirect block included.
data_blocks(D, f) ==
    LET i == D.inode[f]
    IN  ({i.direct[k] : k \in DOMAIN i.direct} \cup
            (IF i.single = NULL_BLOCK THEN {}
             ELSE {D.blk[i.single][k] : k \in DOMAIN D.blk[i.single]})) \ {NULL_BLOCK}

\* Mutated: the indirect block itself is not freed.
deep_free_inode_keeps_single(D, f) == free_blocks(D, data_blocks(D, f))

deep_free_inode(D, f) ==
    free_blocks(D, data_blocks(D, f) \cup ({D.inode[f].single} \ {NULL_BLOCK}))

(***************************************************************************)
(* The initial states: no file exists.                                     *)
(***************************************************************************)
closed == [busy |-> FALSE, pointer |-> 0, bytes |-> 0, blocks |-> 0]

Init ==
    /\ disk = [bmap  |-> all_clear,
               blk   |-> [b \in Block |-> [k \in 0 .. BS - 1 |-> unwritten]],
               inode |-> [f \in File |-> no_inode],
               rec   |-> [f \in File |-> [exists |-> FALSE, bytes |-> 0, blocks |-> 0]]]
    /\ file = [f \in File |-> closed]
    /\ wrote = [f \in File |-> [o \in Offset |-> unwritten]]
    /\ torn = {}

(***************************************************************************)
(* Creating, deleting, opening and closing.                                *)
(***************************************************************************)
create2(f) ==
    /\ ~disk.rec[f].exists
    /\ disk' = [disk EXCEPT !.inode[f] = no_inode,
                            !.rec[f] = [exists |-> TRUE, bytes |-> 0, blocks |-> 0]]
    /\ file' = [file EXCEPT ![f] = [closed EXCEPT !.busy = TRUE]]
    /\ wrote' = [wrote EXCEPT ![f] = [o \in Offset |-> unwritten]]
    /\ torn' = torn \ {f}

delete2(f) ==
    /\ disk.rec[f].exists
    /\ disk' = [deep_free_inode(disk, f) EXCEPT !.rec[f].exists = FALSE]
    /\ file' = [file EXCEPT ![f].busy = FALSE]
    /\ UNCHANGED <<wrote, torn>>

opened(f) ==
    [busy |-> TRUE, pointer |-> 0,
     bytes |-> disk.rec[f].bytes, blocks |-> disk.rec[f].blocks]

open2(f) ==
    /\ disk.rec[f].exists
    /\ ~file[f].busy
    /\ file' = [file EXCEPT ![f] = opened(f)]
    /\ UNCHANGED <<disk, wrote, torn>>

close2(f) ==
    /\ file[f].busy
    /\ file' = [file EXCEPT ![f].busy = FALSE]
    /\ UNCHANGED <<disk, wrote, torn>>

restart ==
    /\ file' = [f \in File |-> closed]
    /\ UNCHANGED <<disk, wrote, torn>>

(***************************************************************************)
(* read2 and write2.                                                       *)
(***************************************************************************)
\* Mutated: the size asked for is not cut to what is left of the file.
bytes_to_read_uncut(f, size) == size

bytes_to_read(f, size) ==
    IF file[f].pointer + size > file[f].bytes THEN file[f].bytes - file[f].pointer ELSE size

byte_at(f, o) == disk.blk[get_file_logic_block_addr(disk, f, o \div BS)][o % BS]

\* The loop ends before the first block it cannot read, and does not begin
\* when the pointer is past the end and bytes_to_read is negative.
bytes_read(f, size) ==
    LET n == bytes_to_read(f, size)
    IN  IF n <= 0 THEN 0
        ELSE least({n} \cup {j \in 0 .. n - 1 :
                 get_file_logic_block_addr(disk, f, (file[f].pointer + j) \div BS) \notin Block})

read2_data(f, size) == [j \in 1 .. bytes_read(f, size) |-> byte_at(f, file[f].pointer + j - 1)]

read2(f, size) ==
    /\ file[f].busy
    /\ file' = [file EXCEPT ![f].pointer = @ + bytes_read(f, size)]
    /\ UNCHANGED <<disk, wrote, torn>>

(***************************************************************************)
(* write2 copies its buffer block by block.  w is where it has got to: the *)
(* disk, the pointer, the bytes left, the blocks added and whether a block *)
(* could not be written, which ends the call with -1.                      *)
(***************************************************************************)
\* A block is added at a block boundary only, past the blocks the handle
\* counted when write2 was called.
needs_block(f, pointer) == pointer % BS = 0 /\ pointer \div BS + 1 > file[f].blocks

\* Mutated: the part of the block that is kept is not read first.
block_buffer_fresh(D, f, k, new) == [j \in 0 .. BS - 1 |-> unwritten]

block_buffer(D, f, k, new) ==
    IF new THEN [j \in 0 .. BS - 1 |-> unwritten]
    ELSE D.blk[get_file_logic_block_addr(D, f, k)]

\* What one turn copies: up to the end of the block.
bytes_to_copy(w) == least({Len(w.left), BS - (w.pointer % BS)})

\* write_block fails for NULL_BLOCK only.
write_file_block(D, f, w, new) ==
    LET off  == w.pointer % BS
        n    == bytes_to_copy(w)
        k    == w.pointer \div BS
        kept == block_buffer(D, f, k, new)
        addr == get_file_logic_block_addr(D, f, k)
        data == [j \in 0 .. BS - 1 |-> IF j \in off .. off + n - 1 THEN w.left[j - off + 1]
                                       ELSE kept[j]]
    IN  IF addr = NULL_BLOCK THEN D ELSE [D EXCEPT !.blk[addr] = data]

write_file_block_fails(D, f, w) ==
    get_file_logic_block_addr(D, f, w.pointer \div BS) = NULL_BLOCK

advance(D, w, new) ==
    [w EXCEPT !.disk = D,
              !.pointer = @ + bytes_to_copy(w),
              !.left = SubSeq(@, bytes_to_copy(w) + 1, Len(@)),
              !.added = @ + (IF new THEN 1 ELSE 0)]

\* Mutated: what write_file_block returns is not looked at.
write_step_ignores_error(f, w) ==
    LET new == needs_block(f, w.pointer)
        D   == IF new THEN create_next_file_block(w.disk, f) ELSE w.disk
    IN  advance(write_file_block(D, f, w, new), w, new)

\* One turn.  The block that create_next_file_block adds need not be the one
\* that is then written: that is the block at the pointer.
write_step(f, w) ==
    LET new == needs_block(f, w.pointer)
        D   == IF new THEN create_next_file_block(w.disk, f) ELSE w.disk
    IN  IF write_file_block_fails(D, f, w) THEN [w EXCEPT !.disk = D, !.failed = TRUE]
        ELSE advance(write_file_block(D, f, w, new), w, new)

write_blocks(f, buffer) ==
    LET start == [disk |-> disk, pointer |-> file[f].pointer, left |-> buffer,
                  added |-> 0, failed |-> FALSE]
        run[k \in 0 .. MaxIO] ==
            IF k = 0 THEN start
            ELSE LET w == run[k - 1]
                 IN  IF w.left = <<>> \/ w.failed THEN w ELSE write_step(f, w)
    IN  run[MaxIO]

\* Mutated: the size becomes the pointer even when that is inside the file.
new_size_at_pointer(f, size) == file[f].pointer + size

new_size(f, size) ==
    IF file[f].bytes < size + file[f].pointer THEN file[f].pointer + size ELSE file[f].bytes

\* Unless FullDisk, a write is made only while the disk has a block for every
\* one it may add, and one more for an indirect block.
Room(f, size) ==
    FullDisk \/ Cardinality(Block \ bits(disk.bmap)) > ceil(file[f].pointer + size) - file[f].blocks

saved(D, f, bytes, blocks) ==
    [D EXCEPT !.rec[f].bytes = bytes, !.rec[f].blocks = blocks]

\* Sizes are saved at the end; a call that fails has moved the pointer.
write2(f, buffer) ==
    LET w      == write_blocks(f, buffer)
        bytes  == new_size(f, Len(buffer))
        blocks == file[f].blocks + w.added
        done   == file[f].pointer .. w.pointer - 1
    IN  /\ file[f].busy
        /\ file[f].pointer + Len(buffer) <= MaxBytes
        /\ Room(f, Len(buffer))
        /\ wrote' = [wrote EXCEPT ![f] =
                        [o \in Offset |-> IF o \in done THEN buffer[o - file[f].pointer + 1]
                                          ELSE @[o]]]
        /\ torn' = IF ~w.failed /\ file[f].pointer > file[f].bytes THEN torn \cup {f} ELSE torn
        /\ IF w.failed
           THEN /\ disk' = w.disk
                /\ file' = [file EXCEPT ![f].pointer = w.pointer]
           ELSE /\ disk' = saved(w.disk, f, bytes, blocks)
                /\ file' = [file EXCEPT ![f] = [busy |-> TRUE, pointer |-> w.pointer,
                                                bytes |-> bytes, blocks |-> blocks]]

(***************************************************************************)
(* seek2.  offset is unsigned, and -1 in "offset < -1" is its largest      *)
(* value: every other offset is refused.                                   *)
(***************************************************************************)
END == -1
Seek == Offset \cup {END}
seek2_refuses(offset) == offset # END

seek2(f, offset) ==
    /\ file[f].busy
    /\ ~seek2_refuses(offset)
    /\ file' = [file EXCEPT ![f].pointer = IF offset = END THEN file[f].bytes ELSE offset]
    /\ UNCHANGED <<disk, wrote, torn>>

Next ==
    \/ \E f \in File :
          \/ create2(f) \/ delete2(f) \/ open2(f) \/ close2(f)
          \/ \E size \in 1 .. MaxIO : read2(f, size)
          \/ \E buffer \in Buffer : write2(f, buffer)
          \/ \E offset \in Seek : seek2(f, offset)
    \/ restart

Spec == Init /\ [][Next]_vars

(***************************************************************************)
(* Properties.                                                             *)
(***************************************************************************)
\* Blocks hold data or pointers, sizes and positions stay in their bounds.
TypeOK ==
    /\ disk.bmap \in Bitmap
    /\ DOMAIN disk.blk = Block
    /\ \A b \in Block : disk.blk[b] \in Data \/ disk.blk[b] \in Pointers
    /\ disk.inode \in [File -> [direct : [0 .. DIRECT - 1 -> Address],
                                single : Address, double : {NULL_BLOCK}]]
    /\ disk.rec \in [File -> [exists : BOOLEAN, bytes : 0 .. MaxBytes, blocks : 0 .. ceil(MaxBytes)]]
    /\ file \in [File -> [busy : BOOLEAN, pointer : 0 .. MaxBytes,
                          bytes : 0 .. MaxBytes, blocks : 0 .. ceil(MaxBytes)]]
    /\ wrote \in [File -> [Offset -> Value \cup {unwritten}]]
    /\ torn \subseteq File

Files == {f \in File : disk.rec[f].exists}

\* Every byte of every file is the byte last written at its offset, however
\* the writes were split into blocks, and whatever happened to other files
\* and to the blocks in the meantime.  A write2 that ran out of blocks does
\* no harm either, unless the program writes on through the same handle.
StoredIsWritten ==
    \A f \in Files \ torn :
        \A o \in 0 .. disk.rec[f].bytes - 1 :
            byte_at(f, o) = wrote[f][o] /\ wrote[f][o] # unwritten

\* read2 returns the bytes last written at the offsets from the pointer on,
\* and none from past the end of the file.
ReadReturnsWritten ==
    \A f \in File : file[f].busy =>
        \A size \in 1 .. MaxIO : \A j \in 1 .. bytes_to_read(f, size) :
            /\ file[f].pointer + j <= disk.rec[f].bytes
            /\ read2_data(f, size)[j] = wrote[f][file[f].pointer + j - 1]

\* The pointer of an open file is not past its end: read2 would return a
\* negative count there, and write2 would add a block at the wrong place.
PointerWithinFile ==
    \A f \in File : file[f].busy => file[f].pointer \in 0 .. file[f].bytes

\* The sizes in a handle are those in the directory record, also when a
\* write2 failed half-way, and the number of blocks is what the number of
\* bytes takes.
HandleRecordCurrent ==
    \A f \in Files :
        /\ f \notin torn => disk.rec[f].blocks = ceil(disk.rec[f].bytes)
        /\ file[f].busy => /\ file[f].bytes = disk.rec[f].bytes
                           /\ file[f].blocks = disk.rec[f].blocks

owned(f) == data_blocks(disk, f) \cup ({disk.inode[f].single} \ {NULL_BLOCK})

\* The set bits of the block bitmap are the blocks of the files that exist,
\* each of one file, and a file has as many as its record says and its
\* indirect block.
BlocksOwnedOnce ==
    /\ bits(disk.bmap) = UNION {owned(f) : f \in Files}
    /\ \A f, g \in Files : f # g => owned(f) \cap owned(g) = {}
    /\ \A f \in Files :
          Cardinality(owned(f)) = disk.rec[f].blocks
              + (IF disk.inode[f].single = NULL_BLOCK THEN 0 ELSE 1)

\* Whatever a full disk has done to them, no two files have a block in
\* common and every block a file has is marked: the next allocation cannot
\* give it to another one.  (Blocks may be marked that no file has.)
BlocksNeverShared ==
    /\ \A f \in Files : owned(f) \subseteq bits(disk.bmap)
    /\ \A f, g \in Files : f # g => owned(f) \cap owned(g) = {}

\* Behind every byte a record counts there is a block of that file, torn or
\* not: read2 finds what it has been promised, and nobody else's.
RecordedBytesHaveBlocks ==
    \A f \in Files : \A o \in 0 .. disk.rec[f].bytes - 1 :
        get_file_logic_block_addr(disk, f, o \div BS) \in owned(f)

(***************************************************************************)
(* What comments and tests say and the code does not do.                   *)
(***************************************************************************)
\* "return address of logic block of file": the address computed for a block
\* of a file is that of a block the file has.
LogicBlockAddr ==
    \A f \in File : disk.rec[f].exists =>
        \A k \in 0 .. disk.rec[f].blocks - 1 :
            get_file_logic_block_addr(disk, f, k) \in data_blocks(disk, f)

\* "expands file by a block": a file that is written keeps the blocks it has.
ExpandKeepsBlocks ==
    [][\A f \in File : file[f].busy /\ file'[f].busy =>
          data_blocks(disk, f) \subseteq data_blocks(disk', f)]_vars

\* A handle can be moved to any offset of its file, as the tests do.
SeekAccepted ==
    \A f \in File : file[f].busy =>
        \A offset \in Seek : offset < file[f].bytes => ~seek2_refuses(offset)
=============================================================================
