# Models of mthread and T2FS

TLA+ models of the two C libraries of this repository, the TLC instances that
check them, and machine-checked proofs about both:

* **mthread** (`src/mthread`): cooperative threads for one process, with
  priorities, join and mutexes, built on `getcontext`/`swapcontext`;
* **T2FS** (`src/t2fs`): a file system with i-nodes, directories and open-file
  tables, kept in one disk image.

The two share no code and no state, so the models share none either.

## 1. Inventory

### mthread

| part | source | state it keeps | operations |
|---|---|---|---|
| threads | `mthread.c`, `mdata.c` (`tcb_init`, `init`) | `_next_tid_`, one TCB per thread (`tid`, `state`, `prio`, `context`, `prev`/`next`) | `mcreate`, the end of a thread (`terminate`), the end of `main` |
| scheduler | `mdata.c` (`schedule`, `enqueue*`, `dequeue*`) | `_ready_head_/_ready_tail_` for each of 3 priorities, `_running_head_/_tail_`, the scheduler's context | `myield`, `schedule` |
| joins | `mthread.c` (`mwait`), `mdata.c` (`*_blocked_waiting*`, `tcb_exists`) | `_blocked_waiting_`: who waits for whom | `mwait`, the wake-up in `terminate` |
| mutexes | `mthread.c` (`mmutex_init`, `mlock`, `munlock`), `mdata.c` (`*_blocked_mutex*`) | in each `mmutex_t` a flag and a queue; `_blocked_mutex_`, a list of all threads blocked on mutexes | `mmutex_init`, `mlock`, `munlock` |
| programs | `testes/*.c`, `exemplos/*.c` | their own | sequences of the calls above |

Interactions: a program calls the library; a call that blocks or yields links
the TCB into a queue or a list and swaps to the scheduler context; the
scheduler dequeues a thread and sets its context; a thread function that
returns falls through `uc_link` into the terminator context, which wakes the
one waiter and then goes to the scheduler.

What is hard. There is no preemption, so the interleavings are those of whole
calls; but every call ends in the middle of someone else's, and what a call
finds when its `swapcontext` returns is what the others left. A thread moves
through four kinds of structure with one `prev`/`next` pair, a mutex is handed
over while it stays locked, a waiter is found through lists rather than
through the thread it waits for, the library initialises itself in the middle
of the first `mcreate`, and when nothing is ready the process ends quietly.

What makes it correct: every live thread is in one place and one only; the
scheduler finds every ready thread where it looks; no waiter is forgotten; a
mutex has waiters only while locked and passes to the one that waited longest;
the process drains only when no thread could ever run again; no thread starves
behind those of its own priority.

### T2FS

| part | source | state it keeps | operations |
|---|---|---|---|
| superblock, sectors | `t2fs_aux.c` (`init`, `read_block`, `write_block`, `read_inode`, ...), `apidisk.o` | the geometry, the disk image | reads and writes |
| bitmaps | `t2fs_aux.c` (`alloc_block`, `free_block`, `alloc_inode`, `free_inode`, ...) | two bitmaps on the disk | allocate the first free, free |
| directory tree | `t2fs.c`, `t2fs_aux.c` (`find_record`, `append_record`, `remove_record`, `create_dir`, `remove_dir`, `dir_is_empty`, ...) | i-nodes and directory blocks full of records | `create2`, `delete2`, `mkdir2`, `rmdir2` |
| open files and directories | `t2fs.c` | `_opened_file_[20]`, `_opened_dir_[20]` | `open2`, `close2`, `opendir2`, `readdir2`, `closedir2` |
| file contents | `t2fs.c` (`read2`, `write2`, `seek2`), `t2fs_aux.c` (`create_next_file_block`, `get_file_logic_block_addr`, `deep_free_inode`) | data blocks, indirect blocks, i-node pointers; the pointer and the copy of the record in each handle | `read2`, `write2`, `seek2` |
| path names | `t2fs.c`, `t2fs_aux.c` (`find_dir_inode`, the path parsing) | `_current_dir_inode_`, the string `_cwd_` | `chdir2`, `getcwd2`, every call with a path |
| programs | `teste/*.c` | their own | sequences of the calls above |

Interactions: all calls go to the disk at once (there is no cache); a handle
keeps a copy of the directory record of its file, saved back *by name* at the
end of each write; `delete2` closes the handle of the file it removes; the
tables live as long as the process, the disk outlives it.

What is hard. The library is sequential, so the difficulty is in long
sequences of legal calls: records move inside directories while handles
remember names and positions; i-nodes and blocks that are freed keep their
contents and are given out again; closed table entries keep the i-node they
had and are searched all the same; writes cross block boundaries and the
direct/indirect boundary; several calls use a result they did not test.

What makes it correct: records, sizes and block counts of a directory agree;
names are unique; each i-node has one name and each block one owner, and the
bitmaps say exactly that; a file has at most one open handle, which still names
it; what is read is what was written.

The hazards this gives, each with its line and the properties aimed at it, are
listed under `hazards` in `PROJECT.json`.

## 2. Modules

| module | what it is |
|---|---|
| `Mthread` | the library: all its state, one action per call |
| `ThreadService` | what the library promises, with sets for queues |
| `MthreadMC` | the instances of `Mthread` and the mapping to `ThreadService` |
| `MthreadProgram` | two programs composed with `Mthread`: the one that `primos.c`, `mlock.c` and `munlock.c` share, and `mwait.c` |
| `MthreadProofs` | theorems about `Mthread` |
| `MthreadListProofs` | theorems about `_blocked_mutex_` and the order of hand-over |
| `MthreadServiceProofs` | `Mthread` implements `ThreadService` |
| `MthreadProgramProofs` | theorems about the programs: types, use of the library, mutual exclusion, release in sequence, no deadlock, every thread joined |
| `T2fsTree` | the directory tree, allocation, the tables, the current directory and its name |
| `FileTree` | what `T2fsTree` promises: a tree of names, a set of open files, a current directory |
| `T2fsTreeMC` | the mapping of `T2fsTree` to `FileTree`, and the view |
| `T2fsDiskProofs` | lemmas about what the operators of `T2fsTree` do to a disk |
| `T2fsTreeProofs` | theorems about `T2fsTree`: every property of its run, and the refinement of `FileTree` |
| `T2fsBitmap` | a bitmap: the scan for a clear bit, setting and clearing one |
| `T2fsBitmapProofs` | theorems about `T2fsBitmap` |
| `T2fsFile` | file contents: `read2`, `write2`, `seek2`, pointers and handles, on a disk with a `T2fsBitmap` |
| `T2fsFileMC` | the view and the symmetry of `T2fsFile` |
| `T2fsFileProofs` | theorems about `T2fsFile`: every property of its two passing runs |

In the component modules definitions have the names of the C functions and
variables they stand for; `map` in `PROJECT.json` gives the lines. An operator
marked "Mutated" is a plausible bug that no action uses; it exists to be put in
the place of the definition after it, so that each property can be seen to fail.

### Mthread

The kernel thread executes either program code (`cpu = "app"`) or the scheduler
context (`"sched"`). A call runs from its entry to its `swapcontext`, or to its
return, in one step: nothing can come between. The scheduler's step is separate
because it is a context of its own; the terminator context runs without a break
from the thread's return to its `setcontext`, so it is one step (`terminate`).
A call the library refuses with -1 changes nothing and is not a step; the
guards are the conditions under which it does not refuse.

* `ready` is the three FIFOs; `queue` the FIFO in each mutex; `blockedMutex`
  the list `_blocked_mutex_` in its real order, newest first; `blockedWaiting`
  the list `_blocked_waiting_` as a set (its order is never visible, because at
  most one thread waits for another, `WaitersWillBeWoken`).
* `tcb_exists` is modelled as it is written, with the second call of
  `tcb_is_blocked_waiting` where the list of mutexes was meant.
* `mlock_taken` leaves the `state` field at RUNNING, as the code does
  (`mdata.h:22-23` describes a BLOCKED state; only `mwait` sets it).
* `remove_blocked_mutex` frees the head and then reads its `next`. That is
  undefined behaviour, and what it does depends on the allocator: one that
  leaves the field alone lets the walk go on over the rest of the list, where
  it finds nothing else to remove (`"intact"`); one that keeps its own data
  there (glibc since 2.29 does) sends it through memory that is no list, which
  is modelled as the end of the process (`"fault"`) once it goes wrong and as
  `"intact"` when it happens to stop first. `FreedReads` says which of the two a
  build may show.
* `mcreate_first` includes the whole of `init`, the switch to the scheduler and
  back: main is alone in the ready queues and is resumed at once.
* `tcb_init` may fail (no memory for the stack); the id stays consumed.
* `nothing_ready`: `schedule` returns, and the scheduler context has no
  `uc_link`, so the process ends (`"drained"`).

### MthreadProgram

`main` creates `N` threads with any priority, then calls `mwait` for each value
`mcreate` returned and ignores the answers, then returns. What the threads do
is chosen at the start. In the program of `primos.c`, `mlock.c` and `munlock.c`
a worker locks, yields inside, unlocks and returns. In `mwait.c` thread `t`
waits for thread `t + 1`, ignores the answer and returns; the last one yields
and returns. `WorkerCalls` conjoins a program counter with the action of
`Mthread`, so the library's definitions are used unchanged. The two calls of
`mwait.c` that are meant to be refused (a thread that does not exist, and
`mwait(0)` by `main`) change nothing and are not steps.

### T2fsTree

`disk` is one record: the two bitmaps as sets, for each i-node the sequence of
its data blocks and its single indirect block, and for each directory block its
records. The unit of size is a record, so the `bytesFileSize` of a "." record
is a number of records; the root's, which the images hold at a whole block from
the start, is corrected in `inode_size` as the code does. Freed i-nodes keep
pointers and freed blocks keep records, because the code does not clear them.

Most calls need of their path only the directory it leads to
(`find_dir_inode` from the root or from the current directory), so they range
over directories and names instead of strings. `chdir2` alone takes paths, as
sequences of components: it walks them (`chdir2_walk`), looks each one up in the
i-node it has reached, edits a copy of `cwd_string` (`cd_string`: cut at the
last slash for "..", unchanged for ".", else appended) and stores both at the
end, or neither. A slash at the end of a path is an empty last component, which
`find_dir_inode` answers with the directory itself. `find_record`, `append_record`
(first invalid record, else a new block, then the counts in "."),
`remove_record` (move the last record into the hole, erase the last),
`deep_free_inode`, `dir_is_empty` (third record of the first block only) are
operators from disks to disks, composed in the order of the calls.

`remove_dir` is relational: `find_record`'s failure leaves `record.i_node`
uninitialised, so any i-node may be looked at. `CarefulRmdir` restricts rmdir2
to directories that exist and are neither current nor open; that is the
program the rest of the properties hold for.

### T2fsBitmap

A bitmap is a function from byte numbers to sets of bits. `alloc_bit` is the
scan of `alloc_block` and `alloc_inode`: the first byte that is not 0xFF, the
first clear bit in it, failure at the end of the bitmap. The two nested loops
over blocks and bytes are one over bytes, because a block without a clear bit
leaves the address at the first bit of the next block. Nothing compares an
address with the number of blocks or i-nodes, here as in the code: the bitmaps
of the images have 8192 bits for 1024 or 2048 blocks. `T2fsTree`, whose states
are larger, has the two bitmaps as the sets `bits(map)`, and `Min` of the
complement for the scan, which is what `AllocatesLeast` proves it to be.

### T2fsFile

Bytes, blocks of `BS` bytes, i-nodes with `DIRECT` direct pointers and one
single indirect block of `PTRS` pointers. `write2` is the loop of the code, one
block per turn (`write_step`): whether a block is added (`needs_block`, with
the block count the handle had when the call began), its address after that,
read-modify-write, advance; or the end of the call, with the disk and the
pointer as they are by then, when the block has no address. (The code's piece
before the loop, for a pointer inside a block, is a turn like the others:
`write2` never adds a block there, and reads the one it changes.) `file` is the
handle with its own copy of sizes; `wrote` is a history variable, for each
offset the byte last passed to `write2`, as far as the call got; `torn` is
another, the files written to when the pointer was past their end. Addresses
behind an indirect block go through `low_byte`, and the block that should become
the double indirect one is stored in `singleIndPtr`, as the code has it.
Handles are known by their files because a file has at most one handle, which
`T2fsTree!OneHandlePerFile` shows; directories need not appear because no call
moves a block between a file and a directory other than through the bitmap,
which `T2fsTree!BlocksOwnedOnce` covers.

With `FullDisk = FALSE` a program writes only what the disk has room for
(`Room`). With `FullDisk = TRUE` blocks run out at any turn of any write; there
`FullDiskAssumption` keeps files below the indirect pointer, because behind it
a missing block is not missing but block 255 (section 5).

## 3. What is checked

| run | instance | shows |
|---|---|---|
| `mthread_safety` | main and 3 threads, 2 mutexes, both outcomes of the freed node | the safety properties of `Mthread` |
| `mthread_service` | main and 3 threads, 1 mutex | `Mthread` implements `ThreadService`; no starvation within a priority |
| `mthread_program` | 4 threads in either program | mutual exclusion, waits released in order, all joined, never drained, and the program ends |
| `t2fs_tree` | 3 i-nodes, 5 blocks of 3 records, 1 direct pointer, 2 names, 2 file and 1 directory entries, paths of 2 components | the properties of `T2fsTree`, and it implements `FileTree` |
| `t2fs_file` | 2 files, 2 byte values, 6 blocks of 2 bytes, 1 direct and 2 indirect pointers, sizes to 5, calls to 3 bytes | the properties of `T2fsFile` on a disk with room |
| `t2fs_full` | 2 files, 2 byte values, 3 blocks of 2 bytes, 2 direct pointers, sizes and calls to 3 bytes | what holds when blocks run out in the middle of a write |
| `mthread_exists`, `mthread_crash`, `t2fs_rmdir`, `t2fs_seek`, `t2fs_expand`, `t2fs_byte_address` | as small as shows it | a disagreement each, section 5 |

### Properties of Mthread

* `OnePlace`: a live thread is mentioned exactly once by all queues, lists and
  the processor together, any other thread never.
* `ReadyUnderOwnPriority`, `WaitersWillBeWoken`, `WaitersOnlyBehindLock`,
  `RunningWhileApp`: the queues, the waiting list, the mutexes and the
  processor agree with the threads' states.
* `BlockedMutexMirrorsQueues`: `_blocked_mutex_` and the mutex queues, which
  are updated separately, hold the same threads.
* `DrainedIsDeadlock`: the process drains only when main and all other live
  threads are blocked.
* `WaitEndsAtTermination`, `HandOverToLongestBlocked` (action properties).
* `ImplementsService` (refinement), `NoStarvationWithinPriority` (liveness).
* `MutualExclusion`, `JoinedAll`, `NeverDrained`, `ProgramEnds` of the programs;
  `ReleasedInSequence`: in `mwait.c` a thread goes on only after the one it
  waits for has ended, whatever their priorities.

### Properties of T2FS

* `DirWellFormed`, `UniqueNames`, `TreeShape`, `BlocksOwnedOnce`: the disk.
* `OneHandlePerFile`, `HandleNamesFile`: the table of open files, with its
  left-over entries, against the disk.
* `EmptyCheckSound`: one record is enough for `dir_is_empty`;
  `RmdirOnlyEmptyDirs`: for careful programs rmdir2 removes nothing else.
* `ReaddirNeverRepeats`: reading a directory while it changes returns no entry
  twice (it may skip one).
* `ImplementsFileTree`: names, open files and current directory behave as the
  abstract tree.
* `CwdNamesCurrent`: the string that `getcwd2` returns leads from the root to
  the directory that relative paths start from.
* `StoredIsWritten`, `ReadReturnsWritten`, `PointerWithinFile`,
  `HandleRecordCurrent` and `T2fsFile`'s `BlocksOwnedOnce`, on a disk with room.
* On a full disk: `RecordedBytesHaveBlocks` (behind every byte a record promises
  is a block of that file), `BlocksNeverShared`, `HandleRecordCurrent` and
  `StoredIsWritten` (a failed write harms no file, unless the program goes on
  writing past its end through the same handle; only that file then suffers).

### Bounds, and why they are enough

* `MaxTid = 4`: main and three threads let one hold a mutex, two queue behind
  it or behind another mutex while the fourth waits, in every order, with three
  priorities. Ids are not reused by the code, so a program that has used them
  up goes on with the threads it has. The program run has four workers.
* Two mutexes for safety, so that `_blocked_mutex_` mixes their queues; one for
  refinement and liveness, whose state graph is costlier.
* `T2fsTree`: with `RPB = 3` the third record, the one `dir_is_empty` looks at,
  is the last of the first block; with `DIRECT = 1` the second block of a
  directory is behind the single indirect pointer, so the root can spill and
  the indirect block is allocated and freed (`RPB` is 16 on the images and `DIRECT` 10
  in the code). Two names are as many entries as three i-nodes allow below one
  directory. Two file entries are what `OneHandlePerFile` needs: a closed entry
  before an open one. Paths of two components go down, up and down again, and
  fail at the first or the second one.
* `T2fsFile`: blocks of two bytes make a start, an end and a middle of a block;
  five bytes are three blocks, two of them indirect; three bytes per call cross
  one block boundary and touch a third block. Two files compete for six blocks
  and inherit each other's. `BYTE = 6` equals the number of blocks, so
  `low_byte` loses nothing: the run is about disks, or files, whose indirect
  blocks lie below block 256. `T2fsByteAddress.cfg` takes that away.
* `T2fsFull.cfg`: three blocks for two files of two; a three-byte write takes
  two blocks, so it can fail at its first or its second turn, after the other
  file took the last block, and go on once a deletion frees one.
* `Room` in `T2fsTree` has a call allocate only when the disk can serve it:
  `append_record` counts an entry it could not store, and nothing says what
  should hold of the directory after that.

The views tell apart all that the code can read. `T2fsTreeMC!LiveView` drops
pointers of free i-nodes (`inode_init` overwrites them before use), records of
free blocks and closed directory entries; it keeps closed *file* entries,
which open2 does compare. `T2fsFileMC!LiveView` drops free blocks, files that
do not exist and closed handles. The properties read nothing that is dropped.
The symmetry of `T2fsFile` is over files and byte values, which no definition
tells apart; that run has no liveness property.

`T2fsFileMC!LiveView` keeps `torn`, and `T2fsTreeMC!LiveView` the string.

### Fairness

`Mthread!FairSpec` assumes that the scheduler context runs to its `setcontext`
(the kernel thread keeps executing), and that a thread of the program gives up
the processor sooner or later. The second is not the library's doing: it has no
preemption, and a thread that loops starves all others. It is the premise of
cooperative scheduling, and without it nothing can be promised.
`NoStarvationWithinPriority` allows for starvation by higher priorities,
because the scheduler's priorities are strict. `MthreadProgram!PSpec` assumes
only that the process keeps executing (weak fairness of the whole next-state
relation): the program's own calls do the rest. T2FS is sequential and has no
liveness to speak of.

## 4. What is proved

`MthreadProofs`, for every `MaxTid`, every set `Mutex` and every non-empty
`FreedReads`, from `MaxTidAssumption`, `FreedReadsAssumption` and
`NullAssumption` (declared in `Mthread`, evaluated by TLC in its runs):

| theorem | statement |
|---|---|
| `TypeCorrect` | `Spec => []TypeOK` |
| `Invariance` | `Spec => []Inv` |
| `NoThreadLost` | `Spec => []OnePlace` |
| `ReadyFound` | `Spec => []ReadyUnderOwnPriority` |
| `NoLostWakeup` | `Spec => []WaitersWillBeWoken` |
| `NoWaiterOnFreeMutex` | `Spec => []WaitersOnlyBehindLock` |
| `SomeoneRuns` | `Spec => []RunningWhileApp` |
| `OnlyDeadlockDrains` | `Spec => []DrainedIsDeadlock` |
| `WokenByTermination` | `Spec => WaitEndsAtTermination` |

None of the safety properties is inductive alone. `OnePlace`, for instance,
says nothing that would keep a dequeued thread from still being queued
elsewhere: one has to know that what is in a ready queue is READY, and that
nothing else is. `Inv` ties the `state` field to the structures in both
directions: READY threads are in the ready queue of their priority, BLOCKED
ones in the waiting list, and threads whose field says RUNNING without being on
the processor (`Parked`: `mlock` leaves the field alone) in one mutex queue;
and no structure holds anything else or anything twice. With `Births` (ids not
given out belong to nobody; main is alive from the first call),
`Processor`, `WaitersOnlyBehindLock` and `RunningWhileApp` it is inductive:
one lemma per action, over lemmas that say what appending to and taking from a
queue does to the ready queues (`ReadyEnqueued`, `ReadyDequeued`) and to the
mutex queues (`MutexEnqueued`, `MutexDequeued`).

`OnlyDeadlockDrains` needs one fact more, `Emptied`: once drained, the ready
queues are empty and stay so; with `Inv` every live thread is then in the
waiting list or a mutex queue. `WokenByTermination` is an action property from
`Inv` and one step.

`MthreadListProofs`, under the same assumptions:

| theorem | statement |
|---|---|
| `ListMirrorsQueues` | `Spec => []BlockedMutexMirrorsQueues` |
| `HandedOverInOrder` | `Spec => HandOverToLongestBlocked` |

`_blocked_mutex_` has the newest thread first and mixes all mutexes, a queue has
the oldest first. Beside `Inv` the invariant is `MutexList`: nobody is in the
list twice (`NoneTwice`), who is in it is in a queue (`Listed`) and the other
way round (`Queued`), and of two threads in one queue the later one is nearer
the head of the list (`NewestFirst`). The last holds because `mlock` adds at
both ends and `munlock` takes the oldest out of both.

`MthreadServiceProofs`:

| theorem | statement |
|---|---|
| `ServiceImplemented` | if `FreedReads = {"intact"}` then `Spec => ImplementsService` |

The refinement mapping reads what a thread does off the queues and lists; with
`Inv` it is a function of its `state` field and of `running` (`WhereIs`), so
that each step is one step of the service by what it does to those two: one
lemma per action. In a build where the freed node is not intact the process may
die, which the service does not promise.

`MthreadProgramProofs`, for every number `N` of threads that main creates, with any priorities (`ProgramAssumption`):

| theorem | statement |
|---|---|
| `ProgramTypeCorrect` | `PSpec => []PTypeOK` |
| `ProgramUsesLibrary` | `PSpec => Spec`: each step of a program is a step of the library |
| `WorkersExclude` | `PSpec => []MutualExclusion` |
| `ChainReleasedInSequence` | `PSpec => []ReleasedInSequence` |
| `ProgramsNeverDrain` | `PSpec => []NeverDrained` |
| `AllJoined` | `PSpec => []JoinedAll` |

`ProgramUsesLibrary` brings `Inv` to the programs. `WorkersExclude` needs
`InsideLocked` beside it: while a worker is inside, the mutex is locked. The
next two, and `AllJoined` for the chain, come from `JInv`: how far main and each
thread are in their functions, which never run before main has created the last thread
(`MainFirst`); only workers between `mlock` and its return are queued, and
somebody is inside while the mutex is locked (`Holder`); main waits for its
`waits`-th thread and each thread of the chain for the one after it
(`Waiters`), and one that is not blocked has seen the next one end (`Linked`).
In a deadlock (`OnlyDeadlockDrains`' argument) everybody who lives is blocked;
but whoever is inside is in no queue and does not wait, and the last live
thread of the chain would wait for a live one after it (`Greatest`).

`AllJoined` for the workers with critical sections is a matter of order. Main
ignores what `mwait` answers, and `mwait` refuses a live thread when that is in
the queue of the mutex (section 5), so main could go on and return while workers
live. That it does not is the invariant `Turns`, on top of `JInv`: a worker
begins only after those of a higher priority have ended (`HigherEnded`); workers
of one priority begin, and leave the critical section, in the order of their
creation (`InOrder`), because the ready queues and the queue of the mutex keep
that order (`ReadyInOrder`, `QueueInOrder`); and each thread main has called
`mwait` for has ended, but for the last one while main is blocked (`Joined`). A
live worker in the queue has somebody inside before it (`BehindHolder`), who has
its priority by `HigherEnded` and the smaller id by `InOrder`, so main has joined
it already and it has ended (`MainWaitsTurns`). The same argument gives
`HigherEnded` at a dispatch: a worker of a higher priority that still lived would
be in that queue, behind a ready worker of a priority no higher than the one
dispatched (`DispatchTurns`). `Turns` was checked by TLC with four and with five
workers before it was proved.

`T2fsTreeProofs`, over the lemmas of `T2fsDiskProofs`, for i-nodes, blocks,
records per block, direct pointers, names, tables and paths of any number
(`SizesAssumption`, `NameAssumption`, `PathAssumption`), each
`ASSUME CarefulRmdir`, and `CwdNamed` also `PlainPaths`:

| theorem | statement |
|---|---|
| `TypeCorrect` | `Spec => []TypeOK` |
| `WellFormed` | `Spec => []DirWellFormed` |
| `NamesDiffer` | `Spec => []UniqueNames` |
| `NothingLeaks` | `Spec => []TreeShape` |
| `BlocksOwned` | `Spec => []BlocksOwnedOnce` |
| `HandlesNameFiles` | `Spec => []HandleNamesFile` |
| `OneHandle` | `Spec => []OneHandlePerFile` |
| `EmptyCheckEnough` | `Spec => []EmptyCheckSound` |
| `CwdNamed` | `Spec => []CwdNamesCurrent` |
| `RmdirRefuses` | `Spec => RmdirOnlyEmptyDirs` |
| `ReaddirOnce` | `Spec => ReaddirNeverRepeats` |
| `Implements` | `Spec => ImplementsFileTree` |

`CarefulRmdir` is the setting of the passing run, too: `rmdir2` does not look
whether the name exists or the directory is in use, and after it has freed a
directory in use there is no tree left to speak of (`t2fs_rmdir`; section 6).

The properties are not inductive, and their quantifiers run over the
directories that paths reach, a recursive function. `IInv` says the same without
paths:

* `InOrder(disk)` is `BlockForm` and `TreeForm`. `BlockForm`: no two pointers
  of allocated i-nodes, the indirect one included, lead to the same block; an
  i-node has the indirect block exactly when it has more than `DIRECT`
  pointers; the bitmap holds the blocks in use. `TreeForm`: every directory is
  a `Listing` (its records in use come first, "." first of all with the counts,
  names differ), its ".." is its second record; entries name allocated
  i-nodes, directories by type "dir" and with this directory as their "..";
  every allocated i-node but the root's has one entry. What replaces the paths
  is the last conjunct: a set of directories without the root has one whose
  ".." leads out of the set, so there is no cycle apart from the root.
* `Tables`, the form of the tables; `Held`: the current directory, those open
  and the entries that open files were opened by are there; `FirstEntry`: a
  busy entry is the first of the table with its i-node, which is why `open2`
  and `delete2` need not look further.

TLC checked `IInv` on the instance of `t2fs_tree` before the proof: it held in
all its states, and the directories that paths reach were those of `TreeForm`.

The argument goes from the bottom up. `T2fsDiskProofs` follows a call through
its operators: where a record is (`Split`, `Join`, `Place`), what writing one
changes (`Wrote`, `Unmoved`), what `find_record` finds (`Finds`), what
`append_record` leaves with and without a new block (`Appended`), what
`remove_record` leaves when it moves the last record into the hole (`Removed`),
what allocating and freeing an i-node do to the bitmaps (`Initialised`,
`Freed`). `FileCreated`, `DirCreated` and `EntryDeleted` put these together for
`create2`, `mkdir2`, and `delete2` with `rmdir2`; beside `InOrder` they give
`TreeGrown` (one entry more, at the end of its directory, the others where they
were) and `TreeShrunk` (one entry less, none at a higher position than before).
All the rest rests on those two: the tables and the string (`GrownHeld`,
`ShrunkHeld`, `LedKept`), `ReaddirOnce` (`NothingLater`), and the refinement
(`TreeOfGrown`, `TreeOfShrunk`).

Three things are recursive functions: the directories that paths reach, the walk
of `chdir2` and the path in `CwdNamesCurrent`. Their values are needed only
where they are iterated up to a fixed number, which needs no induction rule:
`OneByOne` gets by with the least number that is left out. `Reach` shows that
`find_dir_inode` finds every directory within its `NI` rounds, because each
round that finds no new one is the last, and a set of directories that is
closed under entries and ".." is the whole tree. `Walk` shows that `chdir2`
keeps what each component keeps.

`T2fsBitmapProofs`, for bitmaps and bytes of any size (`BitmapAssumption`):

| theorem | statement |
|---|---|
| `AllocatesLeast` | `alloc_bit` returns the least clear bit, and fails exactly when there is none |
| `SetsOne` | `set_bit` sets the bit of its argument and no other |
| `ClearsOne` | `clear_bit` clears the bit of its argument and no other |

They rest on `Split` and `Join`: an address is one pair of a byte and a bit, and
back. They are what makes it right for `T2fsTree` to have bitmaps as sets.

`T2fsFileProofs`, for any number of files, byte values, blocks, pointers and
bytes per block, and for files and calls of any size (`ValueAssumption`,
`SizesAssumption`, `FullDiskAssumption`, `BitmapAssumption`):

| theorem | assuming | statement |
|---|---|---|
| `Invariant` | `Fits` | `Spec => []IInv` |
| `HandleRecordCurrentHolds` | `Fits` | `Spec => []HandleRecordCurrent` |
| `StoredIsWrittenHolds` | `Fits` | `Spec => []StoredIsWritten` |
| `RecordedBytesHaveBlocksHolds` | `Fits` | `Spec => []RecordedBytesHaveBlocks` |
| `BlocksNeverSharedHolds` | `Fits` | `Spec => []BlocksNeverShared` |
| `PointerWithinFileHolds` | `Fits`, `~FullDisk` | `Spec => []PointerWithinFile` |
| `BlocksOwnedOnceHolds` | `Fits`, `~FullDisk` | `Spec => []BlocksOwnedOnce` |
| `ReadReturnsWrittenHolds` | `Fits`, `~FullDisk` | `Spec => []ReadReturnsWritten` |
| `TypeOKHolds` | `Fits`, `~FullDisk` | `Spec => []TypeOK` |

`Fits` asks nothing of files that stay within their direct pointers (10 blocks
in the code). If files may grow further, they must end before the single
indirect block is full, and the addresses must fit the byte that
`get_file_logic_block_addr` reads them through. Without either the theorems
are false, and section 5 has the runs that show it (`t2fs_expand`,
`t2fs_byte_address`): on the images, whose addresses go to 1023 and beyond, a
file of more than ten blocks is right only while its blocks lie below 256.
`~FullDisk` is the setting of `t2fs_file`. On a full disk three of the theorems
that ask for it are false: a failed `write2` leaves the pointer past the end,
where `read2` returns a negative count, and a block marked that no record
counts. (`TypeOK` is not among them; TLC finds it true on the instance of
`t2fs_full` as well, but the proof reads the form of the blocks off `Packed`.)

None of the properties is inductive. `StoredIsWritten` says nothing that would
keep the next write from adding a block too many or too few, which it decides
by the handle's copy of the counts, nor from taking a block that another file
has. `IInv` is

* `StateForm`, the form of the variables;
* `Separate`: in every existing file the direct pointers are set from the first
  on, all to different marked blocks; the indirect one leads to a block that
  holds pointers; no two files have a block in common;
* `Sound` of each existing file: the handle has the sizes of the record; the
  record counts the blocks its bytes take; every offset before the end of the
  file, or before the pointer, has a block, and holds the byte that was last
  written there. Of a torn file only the first and the third hold. With room on
  the disk the pointers set are `Exact`ly as many as the record counts, and
  those blocks are filled to the last byte that may be read;
* `Packed`, with room on the disk: the marked blocks are those of the files.

TLC checked `IInv` on the instances of `t2fs_file` and `t2fs_full`, in all
their states, before it was proved and as it now stands. `TypeOKHolds` needs
`Bounded` beside it, because `TypeOK` bounds the counts in the records of
deleted files and in closed handles, which nothing else speaks of.

The argument follows `write2`. `NextBlock` divides `create_next_file_block`
into its branches: a direct pointer, a new indirect block, a pointer in it, and
the one that should have made a double indirect block. `NextKeeps` shows that
the first three and even the last leave every file with its own blocks, blocks
running out included; `NextGrows`, that with room the file has exactly one block
more, at the end. A turn of the loop (`write_step`) keeps `Progress`: as far as
the pointer has come, the bytes are those of the buffer and behind that those
that were there (`Copied`); the other files are untouched (`Intact`); the blocks
added are those that the bytes take, however the count in the handle lags behind
during the call (`Counted`); and blocks never run out while there is room
(`Filled`). `TurnMade` is the step, for a turn that
finds no block (`TurnFails`) and one that writes (`TurnWrites`). `write_blocks` is a recursive
function; `LoopEnds` needs its values up to `MaxIO` only, one after the other,
and again no induction rule (`Rounds`, `OneByOne`): each turn that does not fail
takes at least one byte of the buffer, so after as many turns as it has bytes it
is empty. `WriteSound` and
`write2Keeps` carry what the loop did to the record, the handle and the history;
the other calls have a lemma each.

Checked by TLC only: liveness, which is out of the prover's reach
(`NoStarvationWithinPriority`, `ProgramEnds`).

## 5. Where the code and what is said of it part ways

Each has a run whose counterexample shows it; the wording is under `findings`.

1. `mdata.c:65`, `tcb_exists`: a thread blocked in `mlock` does not exist, and
   `mwait` for it returns -1 at once (`mthread_exists`). The test programs
   ignore that answer; `JoinedAll` holds for them all the same: with any number
   of workers of any priorities on one mutex, main returns only after all of
   them (`AllJoined`), because of the order in which they take it.
2. `mdata.c:242`, `remove_blocked_mutex` reads the node it freed
   (`mthread_crash`).
3. `t2fs_aux.c:854`, `remove_dir` uses the record of a failed `find_record`
   (`t2fs_rmdir`).
4. `t2fs.c:379`, `seek2` refuses every offset but -1 (`t2fs_seek`).
5. `t2fs_aux.c:552`, growth past the single indirect block loses the blocks
   behind it (`t2fs_expand`).
6. `t2fs_aux.c:484`, addresses in indirect blocks are read as bytes
   (`t2fs_byte_address`).

Others were met on the way and have no run, because the models exclude them,
nothing in the repository says otherwise, or only a comment of the shell does:

* `mlock` never sets the state the header describes (`mdata.h:22-23`).
* `t2fs_aux.c:501` takes the second-level address of a double indirect block
  from the wrong buffer, which nothing reaches, because of (5).
* `t2fs.c:539`: `chdir2` of an absolute path starts from the root's i-node but
  appends to the old string: from "/a", `chdir2("/")` makes `_cwd_` "/a/" and
  `chdir2("/b")` makes it "/a/b". A slash at the end of a relative path makes
  one at the end of the string, and the next ".." then takes only that. The
  run `t2fs_tree` is for paths without either (`PlainPaths`).
* `t2fs.c:574`: `getcwd2` accepts a size equal to the length of the string and
  cuts its last character; `t2fs.c:559-560` bound `strncat` by the size of the
  buffer instead of what is left of it.
* `t2fs_aux.c:305,403`: allocation knows the size of the bitmap and not that of
  the disk. On the images the block after the last one is given out, and
  i-node 1024 lies in block 67, which is the root directory's.
* `t2fs.c:333`, `t2fs_aux.c:484`: when no block is left behind the indirect
  pointer, the NULL_BLOCK stored there is read back as the byte 255, and the
  data goes to block 255.
* `shell.c:181,229` say that `create2` of a file that exists resets it;
  `t2fs.c:62-66` refuses it, as the model does, and `cp` of the shell onto such a
  file fails.
* A `write2` that ran out of blocks leaves the pointer past the end. If the
  program writes on through that handle the file loses data (`torn`); `read2`
  there returns a negative count.

## 6. What is not modelled

* Disk I/O, the superblock and sector arithmetic: pure I/O over `apidisk.o`.
* Strings: how a path is cut at its slashes, the lengths of names and of
  `_cwd_`, and `getcwd2`'s copy. Names and components are values.
* Absolute paths and paths that end in a slash, for `CwdNamesCurrent`; paths
  whose directory does not exist, for `open2` and `delete2`, which do not test
  for it; and the empty name that `create2` accepts in a path that ends in a slash
  (`mkdir2` refuses it).
* What the freed node that `remove_blocked_mutex` reads holds when it has been
  given out again: the read is harmless or ends the process (`FreedReads`).
* The block that a `write2` of no bytes, at a pointer inside a block, reads and
  writes back unchanged.
* Disks smaller than their bitmaps, `append_record` on a full disk, and a full
  disk with files behind the indirect pointer.
* Directories with a double indirect block (beyond 10 + 256 blocks).
* Programs that remove their current or an open directory, that initialise a
  mutex with waiters, or that run out of memory in a `malloc` the library does
  not test: nothing defines what follows.
* Crashes in the middle of a call: nothing in T2FS recovers from one.
* The shell, the other examples and tests, the build files.

## 7. Plan

Done: all modules of section 2. The control of both libraries is modelled,
within the limits of section 6.

Every safety and action property of the passing runs is also a theorem, under the
assumptions section 4 lists; what is left to TLC is liveness.
